\* The run ends when everything has been written or something has failed.
CONSTANTS
    MaxFeedItems = 2
    MaxValues = 2
SPECIFICATION OutputSpec
INVARIANTS
    LinesExact
    StopsWhenCanceled
CHECK_DEADLOCK FALSE
