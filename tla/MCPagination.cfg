\* MaxInt is reached from page 1 within MaxPages pages.
CONSTANTS
    a = a
    b = b
    Sites = {a, b}
    MaxInt = 3
    NoURL = NoURL
    Ids = {x, y}
    FeedURLs <- MCFeedURLs
    Redirects <- MCRedirects
    Links <- MCLinks
    MaxPages = 3
    MaxItems = 2
    Discovery = TRUE
    Since = TRUE
SYMMETRY IdSymmetry
SPECIFICATION Spec
INVARIANTS
    TypeOK
    EachPageOnce
    FirstOccurrences
    GuessesConsecutive
    GuessesBringNews
    FailuresReported
