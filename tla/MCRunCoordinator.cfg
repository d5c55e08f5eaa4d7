SPECIFICATION Spec
CONSTANTS
    Ids = {m1, m2, m3}
    Limit = 2
    Intervals <- MCIntervals
    Lags <- MCLags
    Horizon = 3
INVARIANTS TypeOK SlotsBounded
PROPERTIES PendingOnlyServed DueUntilRun ImplementsCheckSlots
CHECK_DEADLOCK TRUE
