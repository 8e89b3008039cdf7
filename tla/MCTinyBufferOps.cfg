SPECIFICATION Spec
CONSTANTS
    Byte <- MCByte
    InlineCapacity = 4
    Threshold = 5
    ASCIILimit = 6
    NFCTable <- MCNFCTable
    Strings <- MCStrings
    Requests = {3, 5, 6}
    MaxBytes = 6
INVARIANTS TypeOK StorageRespected
PROPERTY ImplementsByteString
CHECK_DEADLOCK FALSE
