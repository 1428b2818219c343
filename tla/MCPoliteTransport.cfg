\* Two spellings of one host and another.  After a redirect, a pause that must
\* be waited out takes all the time that the request has left.
CONSTANTS
    a = a
    aDot = aDot
    b = b
    Clients = {c1, c2}
    Names = {a, aDot, b}
    Canonical <- MCCanonical
    Interval = 1
    Timeout = 1
    MaxRedirects = 1
SPECIFICATION FairSpec
INVARIANTS
    TokenOwned
PROPERTIES
    PacesHosts
    RequestsEnd
