\* Two samples in place of five; one time before, at and after SinceTime.
CONSTANTS
    Times <- MCTimes
    NoDate = NoDate
    SinceTime = 1
    UntilTime = NoDate
    PreferUpdated = FALSE
    MinSamples = 2
    MaxFetched = 4
    MaxUnseen = 1
SPECIFICATION Spec
INVARIANTS
    OrderExact
    EnoughSamples
    NothingOmitted
CHECK_DEADLOCK FALSE
