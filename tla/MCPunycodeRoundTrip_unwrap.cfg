SPECIFICATION RoundTripSpec
CONSTANTS
    Base = 36
    TMin = 1
    TMax = 26
    Skew = 38
    Damp = 700
    InitialBias = 72
    InitialN = 128
    Hyphen = 45
    LetterA = 97
    LetterZ = 122
    Digit0 = 48
    Digit9 = 57
    ThreeBytesFrom = 2048
    FourBytesFrom = 65536
    MaxScalar = 1114111
    Surrogates <- MCSurrogates
    WordSize = 2147483647
    Byte <- MCByte
    InlineCapacity = 23
    Threshold = 35
    ASCIILimit = 128
    NFCTable = {}
    Labels <- MCLabels
    Reused <- MCReused
    Texts <- MCTexts
    Earlier <- MCEarlier
    Stale = {0}
    Capacity = 48
INVARIANT UnwrapIsSafe
CHECK_DEADLOCK FALSE
