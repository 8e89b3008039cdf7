SPECIFICATION FairSpec
CONSTANTS
    Base = 4
    TMin = 1
    TMax = 2
    Skew = 1
    Damp = 2
    InitialBias = 2
    InitialN = 6
    Hyphen = 0
    LetterA = 3
    LetterZ = 4
    Digit0 = 1
    Digit9 = 2
    ThreeBytesFrom = 9
    FourBytesFrom = 12
    MaxScalar = 14
    Surrogates <- MCSurrogates
    WordSize = 40
    Byte = {0, 1, 2, 3, 4, 5, 6, 7}
    InlineCapacity = 6
    Threshold = 8
    ASCIILimit = 6
    NFCTable = {}
    Labels <- MCLabels
    Reused <- MCReused
INVARIANTS TypeOK PassFindsScalar DeltaNeverWraps EncodesAsRFC PrefixDecodes
PROPERTY Termination
CHECK_DEADLOCK FALSE
