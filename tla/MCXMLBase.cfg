\* Three open elements, and a sibling for the elements that are closed.
CONSTANTS
    Elements <- MCElements
    MaxTags = 6
    MaxDepth = 4
SPECIFICATION XMLSpec
INVARIANTS
    ResolvedOnce
    NextLinkExact
CHECK_DEADLOCK FALSE
