--------------------------- MODULE MCFeedDiscovery ---------------------------
(* FeedDiscovery for model checking: documents over a choice of tags.      *)
EXTENDS FeedDiscovery

Input(size, ends, contentType, lead) ==
    [page |-> "valid", size |-> size, ends |-> ends, decodable |-> TRUE,
     contentType |-> contentType, lead |-> lead]
\* Every length up to two bytes beyond the limit; what can be scanned is as long
\* as the limit allows.
MCInputs ==
    {Input(MaxDocumentSize, "EOF", ct, <<"text">>) : ct \in {"html", "xhtml"}}
        \cup {Input(MaxDocumentSize, "EOF", "other", l) :
                l \in {<<"space", "comment", "doctype html">>,
                      <<"doctype", "html tag">>, <<"space", "end tag", "html tag">>}}
        \cup {Input(n, e, "other", <<"tag">>) : n \in 0..MaxDocumentSize + 2, e \in {"EOF", "error"}}
        \cup {Input(n, "EOF", "html", <<"tag">>) : n \in {0, MaxDocumentSize + 1, MaxDocumentSize + 2}}
        \cup {Input(n, "error", "html", <<"tag">>) : n \in 0..MaxDocumentSize + 2}
        \cup {[Input(n, "EOF", "xhtml", <<"tag">>) EXCEPT !.decodable = FALSE] : n \in 0..1}
        \cup {[Input(1, "EOF", "html", <<"tag">>) EXCEPT !.page = "invalid"]}

Plain(k) == [kind |-> k]
Base(h) == [kind |-> "base", href |-> h]
Link(r, f, h) == [kind |-> "link", rel |-> r, hint |-> f, href |-> h]

HTMLTags == {Plain("template"), Plain("/template"), Plain("broken"),
             Base("none"), Base("malformed"), Base("elsewhere"), Base("opaque"),
             Link("feed", FALSE, "relative"), Link("alternate", TRUE, "fragment"),
             Link("alternate", FALSE, "absolute")}
XHTMLTags == {Plain(k) : k \in {"template", "/template", "foreign", "/foreign", "broken"}}
                \cup {Base("elsewhere"), Link("feed", FALSE, "relative"),
                      Link("alternate", TRUE, "fragment")}

UpTo(n, tags) == UNION {[1..i -> tags] : i \in 0..n}
MCHTMLDocuments == UpTo(4, HTMLTags)
MCXHTMLDocuments == UpTo(5, XHTMLTags)
=============================================================================
