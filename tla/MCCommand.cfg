\* Bounds before, at and after the default; two items with every choice of
\* dates.  Runs end, and are not deadlocks.
CONSTANTS
    NoDate = NoDate
    Malformed = Malformed
    Times <- MCTimes
    WeekAgo = 1
    PageLimits <- MCPageLimits
    Calls <- MCCalls
    MaxItems = 2
SPECIFICATION CommandSpec
INVARIANTS
    OptionsAccepted
    ItemsAsAsked
CHECK_DEADLOCK FALSE
