------------------------------ MODULE MCXMLBase ------------------------------
(* XMLBase for model checking: elements for every kind of base and of use. *)
EXTENDS XMLBase

Element(name, base, uri) == [name |-> name, base |-> base, uri |-> uri]

MCElements ==
    {Element("feed", NoRef, NoRef), Element("feed", "relative", NoRef),
     Element("rss", "absolute", NoRef),
     Element("entry", NoRef, NoRef), Element("entry", "absolute", "bad"),
     Element("link", NoRef, "relative"), Element("link", "relative", "relative"),
     Element("link", NoRef, ""),
     Element("text", "relative", "relative"),
     Element("other", "", "absolute"), Element("other", "bad", "relative")}
=============================================================================
