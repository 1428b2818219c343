---------------------------- MODULE FeedDiscovery ----------------------------
(***************************************************************************)
(* FindAll (src/feediscovery/discover.go): the feed links an HTML page     *)
(* advertises.  The document is scanned twice, for its base URL and for    *)
(* its links, each time from the start, because the base applies to links  *)
(* that come before it.  nextDocumentTag skips what is in a template.      *)
(*                                                                         *)
(* A document is the sequence of its tags; "broken" stands for a place     *)
(* where the scanner fails.  XHTML is read by encoding/xml, which is       *)
(* external: it keeps end tags in order, or fails.  What the HTML scanner  *)
(* does with elements of other namespaces is in HTMLNamespaces.            *)
(***************************************************************************)
EXTENDS Naturals, Sequences, FiniteSets

CONSTANTS MaxDocumentSize,  \* in bytes
          MaxNestingDepth,
          Inputs,           \* what FindAll can be called with
          HTMLDocuments, XHTMLDocuments

\* size: the bytes that the reader has before it ends as it does; lead: the
\* tokens at the head of the body, for html.Tokenizer; XHTML in a charset that
\* is not known is not decodable
AllInputs ==
    [page : {"valid", "invalid"},
     size : Nat,
     ends : {"EOF", "error"},
     decodable : BOOLEAN,
     contentType : {"html", "xhtml", "other"},
     lead : Seq({"comment", "space", "text", "doctype html", "doctype", "html tag", "tag", "end tag"})]

\* What matters of an href: there is none or it is blank, it does not parse,
\* names another document, is a path, or is only a fragment.
Hrefs == {"none", "blank", "malformed", "absolute", "relative", "fragment"}
AllTags ==
    \* foreign: an element of another namespace than that of XHTML, which may
    \* be named template as well
    [kind : {"template", "/template", "foreign", "/foreign", "broken"}]
        \* the href may be that of another site or have a scheme that cannot
        \* be fetched
        \cup [kind : {"base"}, href : {"none", "blank", "malformed", "elsewhere", "opaque"}]
        \* hint: its type, its path or its title is that of a feed
        \cup [kind : {"link"}, rel : {"alternate", "feed", "other"}, hint : BOOLEAN, href : Hrefs]

ASSUME DiscoveryAssumption ==
    /\ MaxDocumentSize \in Nat
    /\ MaxNestingDepth \in Nat
    /\ Inputs \subseteq AllInputs
    /\ XHTMLDocuments \subseteq Seq(AllTags)
    /\ HTMLDocuments \subseteq Seq({t \in AllTags : t.kind \notin {"foreign", "/foreign"}})

Bases == {"page", "elsewhere", "opaque"}

\* resolveCandidateURL: a URL is the document it names and what is relative to
\* it; discoveryFetchURL drops the fragment.
NoURL == <<"none", "">>
Resolve(base, href) ==
    CASE href = "malformed" -> NoURL
      [] href = "absolute"  -> <<"another", "">>
      [] href = "relative"  -> IF base = "opaque" THEN NoURL ELSE <<base, "path">>
      [] href = "fragment"  -> IF base = "opaque" THEN NoURL ELSE <<base, "">>
SourceFetchURL == <<"page", "">>

VARIABLES
    input,
    doc,            \* the tags, if there is something to scan
    body,           \* len(body)
    pass,           \* "read", "base", "links", "done"
    pos,            \* the next tag
    xmlDepth,
    templateDepth,
    baseURL,
    links,          \* the links found, as positions and URLs
    result          \* "none", "links", "error"

document == <<input, doc>>
vars == <<document, body, pass, pos, xmlDepth, templateDepth, baseURL, links, result>>

IsXHTML == input.contentType = "xhtml"

\* The content type, or else the first significant token.
LooksLikeHTML ==
    \/ input.contentType \in {"html", "xhtml"}
    \/ \E k \in DOMAIN input.lead :
        /\ input.lead[k] \in {"doctype html", "html tag"}
        /\ \A l \in 1..k-1 : input.lead[l] \in {"comment", "space"}

\* What an input is, however it is read.
Readable == input.page = "valid" /\ input.ends = "EOF" /\ input.size <= MaxDocumentSize
IsDocument == input.size > 0 /\ LooksLikeHTML
Scannable == Readable /\ IsDocument /\ input.decodable

Init ==
    /\ input \in Inputs
    /\ doc \in IF ~Scannable THEN {<<>>} ELSE IF IsXHTML THEN XHTMLDocuments ELSE HTMLDocuments
    /\ body = 0
    /\ pass = "read"
    /\ pos = 1
    /\ xmlDepth = 0
    /\ templateDepth = 0
    /\ baseURL = "page"
    /\ links = <<>>
    /\ result = "none"

TopLevel == templateDepth = 0
Advance == pos' = pos + 1

Starts(tag) == tag.kind \in {"template", "foreign"}
Ends(tag) == tag.kind \in {"/template", "/foreign"}

\* The tags of the elements that are open before tag i.  An end tag with no
\* element to end is none.
Open(i) ==
    {j \in 1..i-1 : Starts(doc[j]) /\ \A k \in j..i-1 :
        Cardinality({l \in j..k : Starts(doc[l])}) > Cardinality({l \in j..k : Ends(doc[l])})}

\* An end tag in XHTML that is not that of the innermost element
Mismatched(i) ==
    IsXHTML /\ Ends(doc[i]) /\ ~\E j \in Open(i) :
        /\ \A k \in Open(i) : k <= j
        /\ doc[i].kind = IF doc[j].kind = "template" THEN "/template" ELSE "/foreign"
-----------------------------------------------------------------------------
(* FindAll before the passes: readDocument, LooksLikeHTML, discoveryReader *)

\* Fault: the limit is that of a document, which cuts off what is longer.
DocumentLimit == MaxDocumentSize
ReadLimit == MaxDocumentSize + 1

\* io.ReadAll goes on to the end of the reader or to the limit.
ReadMore ==
    /\ pass = "read" /\ input.page = "valid"
    /\ \E n \in body+1..ReadLimit : n <= input.size /\ body' = n
    /\ UNCHANGED <<document, pass, pos, xmlDepth, templateDepth, baseURL, links, result>>

ReadFailed == body = input.size /\ input.ends = "error"
ReadEnded == body = ReadLimit \/ (body = input.size /\ input.ends = "EOF")
TooLarge == body > MaxDocumentSize
BodyRead == input.page = "valid" /\ ReadEnded /\ ~TooLarge

RefuseInput ==
    /\ pass = "read"
    /\ \/ input.page = "invalid"
       \/ ReadFailed
       \/ TooLarge
       \/ BodyRead /\ body > 0 /\ LooksLikeHTML /\ ~input.decodable
    /\ pass' = "done"
    /\ result' = "error"
    /\ UNCHANGED <<document, body, pos, xmlDepth, templateDepth, baseURL, links>>

\* No links and no error for what is no HTML.
NotHTML ==
    /\ pass = "read" /\ BodyRead
    /\ body = 0 \/ ~LooksLikeHTML
    /\ pass' = "done"
    /\ result' = "links"
    /\ UNCHANGED <<document, body, pos, xmlDepth, templateDepth, baseURL, links>>

StartBase ==
    /\ pass = "read" /\ BodyRead
    /\ body > 0 /\ LooksLikeHTML /\ input.decodable
    /\ pass' = "base"
    /\ UNCHANGED <<document, body, pos, xmlDepth, templateDepth, baseURL, links, result>>
-----------------------------------------------------------------------------
(* next and nextDocumentTag *)

Scanning == pass \in {"base", "links"}
Ended == pos > Len(doc)
Tag == doc[pos]

\* The decoder or the tokenizer fails
Malformed ==
    IF Ended THEN IsXHTML /\ Open(pos) # {} ELSE Tag.kind = "broken" \/ Mismatched(pos)
AtTag == Scanning /\ ~Ended /\ ~Malformed
AtEnd == Scanning /\ Ended /\ ~Malformed

\* Fault: the name decides, in whatever namespace.
IsTemplateByName(tag) == Starts(tag) \/ Ends(tag)
IsTemplate(tag) == tag.kind \in {"template", "/template"}

\* Fault: one element too many is let in.
RoomForOneMore == xmlDepth <= MaxNestingDepth
HasRoom == xmlDepth < MaxNestingDepth

\* A base and a link are elements of XHTML, too.
TooDeep ==
    /\ AtTag /\ ~Ends(Tag)
    /\ \/ IsXHTML /\ ~HasRoom
       \/ IsTemplate(Tag) /\ templateDepth >= MaxNestingDepth

StartElement ==
    /\ AtTag /\ Starts(Tag) /\ ~TooDeep
    /\ xmlDepth' = IF IsXHTML THEN xmlDepth + 1 ELSE 0
    /\ templateDepth' = IF IsTemplate(Tag) THEN templateDepth + 1 ELSE templateDepth
    /\ Advance
    /\ UNCHANGED <<document, body, pass, baseURL, links, result>>

EndElement ==
    /\ AtTag /\ Ends(Tag)
    /\ xmlDepth' = IF IsXHTML THEN xmlDepth - 1 ELSE 0
    /\ templateDepth' =
        IF IsTemplate(Tag) /\ templateDepth > 0 THEN templateDepth - 1 ELSE templateDepth
    /\ Advance
    /\ UNCHANGED <<document, body, pass, baseURL, links, result>>

Fail ==
    /\ (Scanning /\ Malformed) \/ TooDeep
    /\ pass' = "done"
    /\ result' = "error"
    /\ UNCHANGED <<document, body, pos, xmlDepth, templateDepth, baseURL, links>>

AtElement == AtTag /\ ~Starts(Tag) /\ ~Ends(Tag) /\ ~TooDeep
IsBase == TopLevel /\ Tag.kind = "base" /\ Tag.href # "none"
IsLink ==
    /\ TopLevel /\ Tag.kind = "link"
    /\ Tag.rel = "feed" \/ (Tag.rel = "alternate" /\ Tag.hint)
    /\ Tag.href \notin {"none", "blank"}

\* A tag that the pass has no use for.
Skip ==
    /\ AtElement
    /\ ~(pass = "base" /\ IsBase)
    /\ ~(pass = "links" /\ IsLink)
    /\ Advance
    /\ UNCHANGED <<document, body, pass, xmlDepth, templateDepth, baseURL, links, result>>
-----------------------------------------------------------------------------
(* discoveryBaseURL *)

StartLinks(base) ==
    /\ pass' = "links"
    /\ pos' = 1
    /\ xmlDepth' = 0
    /\ templateDepth' = 0
    /\ baseURL' = base
    /\ UNCHANGED <<document, body, links, result>>

\* The first base with an href counts even if it is of no use.
FindBase ==
    /\ AtElement /\ pass = "base" /\ IsBase
    /\ StartLinks(IF Tag.href \in {"malformed", "blank"} THEN "page" ELSE Tag.href)

NoBase ==
    /\ pass = "base" /\ AtEnd
    /\ StartLinks("page")
-----------------------------------------------------------------------------
(* the second pass of FindAll *)

FindLink ==
    /\ AtElement /\ pass = "links" /\ IsLink
    /\ LET url == Resolve(baseURL, Tag.href)
       IN links' = IF url \notin {NoURL, SourceFetchURL}
                   THEN Append(links, [at |-> pos, url |-> url]) ELSE links
    /\ Advance
    /\ UNCHANGED <<document, body, pass, xmlDepth, templateDepth, baseURL, result>>

Finish ==
    /\ pass = "links" /\ AtEnd
    /\ pass' = "done"
    /\ result' = "links"
    /\ UNCHANGED <<document, body, pos, xmlDepth, templateDepth, baseURL, links>>

Terminated == pass = "done" /\ UNCHANGED vars

Next ==
    \/ ReadMore
    \/ RefuseInput
    \/ NotHTML
    \/ StartBase
    \/ StartElement
    \/ EndElement
    \/ Fail
    \/ Skip
    \/ FindBase
    \/ NoBase
    \/ FindLink
    \/ Finish
    \/ Terminated

Spec == Init /\ [][Next]_vars
-----------------------------------------------------------------------------
(* what the document says *)

Depth(i) == Cardinality({j \in Open(i) : doc[j].kind = "template"})

FirstBases ==
    {i \in DOMAIN doc :
        /\ doc[i].kind = "base" /\ doc[i].href # "none" /\ Depth(i) = 0
        /\ \A j \in 1..i-1 : ~(doc[j].kind = "base" /\ doc[j].href # "none" /\ Depth(j) = 0)}

DocumentBase ==
    IF \E i \in FirstBases : doc[i].href \in {"elsewhere", "opaque"}
    THEN doc[CHOOSE i \in FirstBases : TRUE].href
    ELSE "page"

Advertised(i) ==
    /\ doc[i].kind = "link" /\ Depth(i) = 0
    /\ doc[i].rel = "feed" \/ (doc[i].rel = "alternate" /\ doc[i].hint)
    /\ doc[i].href \notin {"none", "blank"}
    /\ Resolve(DocumentBase, doc[i].href) \notin {NoURL, <<"page", "">>}

Broken ==
    \/ \E i \in DOMAIN doc :
        \/ doc[i].kind = "broken"
        \/ Mismatched(i)
        \/ Cardinality(Open(i)) >= MaxNestingDepth /\ (Starts(doc[i]) \/ (IsXHTML /\ ~Ends(doc[i])))
    \/ IsXHTML /\ Open(Len(doc) + 1) # {}

(* properties *)

TypeOK ==
    /\ input \in Inputs
    /\ doc \in HTMLDocuments \cup XHTMLDocuments \cup {<<>>}
    /\ body \in 0..MaxDocumentSize + 1
    /\ pass \in {"read", "base", "links", "done"}
    /\ pos \in 1..Len(doc) + 1
    /\ xmlDepth \in 0..MaxNestingDepth
    /\ templateDepth \in 0..MaxNestingDepth
    /\ baseURL \in Bases
    /\ links \in Seq([at : DOMAIN doc, url : (Bases \cup {"another"}) \X {"", "path"}])
    /\ result \in {"none", "links", "error"}

\* The links returned are those the document advertises, all of them, in
\* document order, from outside of templates but also from inside of foreign
\* elements, and resolved against the first base of the whole document, of
\* whatever use it is (discover.go:79-141, document.go:105, 126-139).
LinksExact ==
    result = "links" =>
        /\ \A p, q \in DOMAIN links : p < q => links[p].at < links[q].at
        /\ {links[p].at : p \in DOMAIN links} = {i \in DOMAIN doc : Advertised(i)}
        /\ \A p \in DOMAIN links : links[p].url = Resolve(DocumentBase, doc[links[p].at].href)

\* A failure anywhere in the document, even behind every candidate, is an
\* error and never a partial list; elements that are nested too deep are one,
\* of all namespaces in XHTML, of templates in HTML (discover.go:47-48,
\* doc.go:23-26, document.go:93, 132).
NoPartialLinks ==
    pass = "done" /\ Scannable => (result = "error" <=> Broken)

\* However the reader hands out its bytes, only a document that has come to its
\* end within the limit is scanned or said to have no links; one that is a byte
\* too long, or whose reader fails after any of its bytes, is an error, and so is
\* HTML that cannot be decoded, but never what is no HTML (document.go:17-23,
\* discover.go:44-48).
ReadInFull ==
    /\ Scanning \/ result = "links" => Readable /\ body = input.size
    /\ pass = "done" /\ ~Scannable =>
        links = <<>> /\ (result = "error" <=> ~Readable \/ IsDocument)
=============================================================================
