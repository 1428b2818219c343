\* One page more than the first document and the feed it names.
CONSTANTS
    a = a
    b = b
    Sites = {a, b}
    MaxInt = 3
    NoURL = NoURL
    Ids = {x}
    FeedURLs <- MCFeedURLs
    Redirects <- MCRedirects
    Links <- MCLinks
    MaxPages = 2
    MaxItems = 1
    Discovery = TRUE
    Since = FALSE
SPECIFICATION Spec
INVARIANTS
    RepeatedURLsStop
