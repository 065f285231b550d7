SPECIFICATION Spec
CONSTANTS
    U64Max = 200
    U128Max = 1000000
    Scale = 100
    AprDivisor = 365
    SecondsInDay = 4
    MaxBasisPoints = 100
    TenTo <- MCTenTo
    PriceDecimals = 1
    MaxTokenDecimals = 1
    Schedules <- MCSchedules
    Amounts = {1, 2, 5, 9}
    FeeBps = 15
    MaxTime = 16
INVARIANTS TypeOK Interpolated CompoundsDaily SplittingNeverPays
PROPERTIES StepsHold LosesAtMostOneUnit SwitchesOnTime
CHECK_DEADLOCK FALSE
