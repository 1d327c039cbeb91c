SPECIFICATION FairSpec
CONSTANTS
    Savers = {s1, s2}
    Old = old
    None = none
    Attempts = 2
    Cancelling = TRUE
INVARIANTS
    LossIsReported
    RefusedWritesNothing
    SavedIsStored
    RestoredIsPrevious
    VerifiedRan
PROPERTIES
    SaveReturns
CHECK_DEADLOCK FALSE
