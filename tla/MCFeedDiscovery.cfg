\* Four tags of HTML are two links or bases in or around two templates, one in
\* the other; five of XHTML close all elements around a link at the limit.
CONSTANTS
    MaxDocumentSize = 2
    MaxNestingDepth = 2
    Inputs <- MCInputs
    HTMLDocuments <- MCHTMLDocuments
    XHTMLDocuments <- MCXHTMLDocuments
SPECIFICATION Spec
INVARIANTS
    LinksExact
    NoPartialLinks
    ReadInFull
