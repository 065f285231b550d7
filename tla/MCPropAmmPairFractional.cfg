SPECIFICATION Spec
CONSTANTS
    U64Max = 255
    U128Max = 16000000
    U128Bits = 24
    Scale = 100
    AprDivisor = 365
    SecondsInDay = 4
    MaxBasisPoints = 100
    TenTo <- MCTenTo
    PriceDecimals = 1
    MaxTokenDecimals = 1
    HardWallScale = 1000
    WallSensitivityScale = 10
    CurveExponentScale = 10
    CurveExponentStep = 1
    QShift = 6
    Ln2Q = 44
    Log2EQ = 92
    Log2ScaleQ = 633
    MaxCadenceWave = 50
    CadenceWaveScale = 10
    CadenceWaveStep = 1
    CadenceWaveEase = 8
    CadenceCapDivisor = 3
    Pairs <- MCFractionalPairs
    Amounts = {3, 7}
    CapTarget = 8
    MaxVault = 12
    MaxVolume = 10
    MaxTime = 5
INVARIANTS WaitingNeverHurts SellNeverHelps SizeNeverHelps
CHECK_DEADLOCK FALSE
