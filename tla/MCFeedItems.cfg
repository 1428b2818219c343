\* Two entries that are dropped around one that is kept, or after each other.
CONSTANTS
    Entries <- MCEntries
    MaxEntries = 4
SPECIFICATION Spec
INVARIANTS
    OwnParts
    TextAsMarked
CHECK_DEADLOCK FALSE
