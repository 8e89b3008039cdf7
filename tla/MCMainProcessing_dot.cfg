SPECIFICATION Spec
CONSTANTS
    InlineCapacity = 23
    Threshold = 35
    ASCIILimit = 128
    Byte <- MCByte
    NFCTable <- MCNFCTable
    Domains <- MCDomains
    Configurations <- MCConfigurations
    Decoding <- MCDecoding
    Continuation = 128
    Dot = 46
    Hyphen = 45
    LetterX = 120
    LetterN = 110
    LettersDigitsHyphen <- MCLettersDigitsHyphen
    Marks <- MCMarks
    UnicodeScalar <- MCUnicodeScalar
    MappingTable <- MCMappingTable
    LookupTable <- MCLookupTable
INVARIANT DotHasRoom
