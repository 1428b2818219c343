\* Two feeds of one host, each of two pages; redirects are in MCPoliteTransport.
SPECIFICATION PacedFairSpec
CONSTANTS
    NumURLs = 2
    MaxConcurrentFetches = 2
    MaxItems = 0
    a = a
    aDot = aDot
    Names = {a}
    Canonical <- MCCanonical
    Interval = 1
    Timeout = 1
    MaxRedirects = 0
    MaxRequests = 2
INVARIANTS
    QuietOnReturn
PROPERTIES
    ImplementsFetchFeeds
