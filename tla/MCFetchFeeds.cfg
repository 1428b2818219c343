\* More feeds than workers: the window slides and results arrive early.
CONSTANTS
    NumURLs = 4
    MaxConcurrentFetches = 3
    MaxItems = 1
SPECIFICATION FairSpec
INVARIANTS
    TypeOK
    OutputExact
    FirstErrorWins
    NoSpuriousCancellation
    NoIncompleteStream
    Window
    DispatchReady
PROPERTIES
    FailFast
    ImplementsSequential
    Returns
