SPECIFICATION ConversionSpec
CONSTANTS
    InlineCapacity = 23
    Threshold = 35
    ASCIILimit = 128
    Byte <- MCByte
    NFCTable <- MCNFCTable
    Domains <- MCConversionDomains
    Configurations <- MCConversionConfigurations
    Decoding <- MCConversionDecoding
    Continuation = 128
    Dot = 46
    Hyphen = 45
    LetterX = 120
    LetterN = 110
    LettersDigitsHyphen <- MCLettersDigitsHyphen
    Marks <- MCMarks
    UnicodeScalar <- MCUnicodeScalar
    MappingTable <- MCMappingTable
    LookupTable <- MCLookupTable
    Calls = {"toASCII", "toUnicode"}
    Encode <- MCEncode
    WideSeparators = {12290, 65294, 65377}
    LabelLimit = 63
    NameLimit = 254
INVARIANT OnlyLengthsInRange
CHECK_DEADLOCK FALSE
