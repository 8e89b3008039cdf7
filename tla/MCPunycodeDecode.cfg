SPECIFICATION FairSpec
CONSTANTS
    Base = 4
    TMin = 1
    TMax = 2
    Skew = 1
    Damp = 2
    InitialBias = 2
    InitialN = 6
    Hyphen = 0
    LetterA = 3
    LetterZ = 4
    Digit0 = 1
    Digit9 = 2
    ThreeBytesFrom = 9
    FourBytesFrom = 12
    MaxScalar = 14
    Surrogates <- MCSurrogates
    WordSize = 32
    Labels <- MCLabels
    Earlier <- MCEarlier
    Stale = {0, 7}
    Capacity = 9
INVARIANTS TypeOK StoresInBounds IndexArrayCorrect NothingHalfDecoded DecodesAsRFC
PROPERTIES EarlierLabelsKept InsertsScalars Termination
CHECK_DEADLOCK FALSE
