------------------------------- MODULE XMLBase -------------------------------
(***************************************************************************)
(* xml:base in feeds.  parseFeedDetails hands an Atom document to          *)
(* normalizeAtomDocument (src/atom.go), which resolves every URI in it and *)
(* removes the xml:base attributes; fetchFeedPage then lets nextPageURL    *)
(* (src/feed.go) read the original document again for the link to the next *)
(* page.  Each keeps its own stack of bases.                               *)
(*                                                                         *)
(* A document is made up while it is read: both readers see doc, and the   *)
(* one that comes to its end may find any tag there.  A URL is the         *)
(* sequence of the references it was put together from.                    *)
(***************************************************************************)
EXTENDS Integers, Sequences, SequencesExt, FiniteSets

CONSTANTS Elements,   \* the start tags of documents
          MaxTags,    \* bound on the number of tags of a document
          MaxDepth    \* bound on the nesting of elements

References == {"", "bad", "absolute", "relative"}
NoRef == "none"
\* A "feed" or a "link" is in the Atom namespace, a link has rel="next" and
\* uri as its href; the uri of a "text" is its text: the URI of an Atom icon,
\* or one in content of type html; "entry" is any entry or item.
AllElements == [name : {"feed", "rss", "entry", "link", "text", "other"},
                base : References \cup {NoRef},
                uri  : References \cup {NoRef}]
End == [name |-> "end", base |-> NoRef, uri |-> NoRef]
Broken == [name |-> "broken", base |-> NoRef, uri |-> NoRef]   \* not well-formed XML

ASSUME XMLBaseAssumption ==
    /\ Elements \subseteq AllElements
    /\ MaxTags \in Nat
    /\ MaxDepth \in Nat

URLs == Seq(References \cup {"source"})
NoURL == <<>>
Source == <<"source">>

\* resolveURL: a malformed reference stays as it is, and so does a reference
\* to a malformed base.
Resolve(base, ref) ==
    IF ref = "" THEN NoURL
    ELSE IF ref \in {"bad", "absolute"} \/ base = <<"bad">> THEN <<ref>>
    ELSE Append(base, ref)

VARIABLES
    doc,         \* what has been read of the document
    depth,       \* the number of elements around each tag of it, and around the next
    reader,      \* "normalize", "next", "done"
    here,        \* the next tag
    bases,       \* bases
    foundRoot,
    skip,        \* elements open in DecodeElement
    entryDepth,
    output,      \* the URIs written, with the positions of their elements
    result,      \* of normalizeAtomDocument: "none", "output", "body", "error"
    nextLink     \* of nextPageURL

tags == <<doc, depth>>
xmlVars == <<tags, reader, here, bases, foundRoot, skip, entryDepth, output, result, nextLink>>

XMLInit ==
    /\ doc = <<>>
    /\ depth = <<0>>
    /\ reader = "normalize"
    /\ here = 1
    /\ bases = <<Source>>
    /\ foundRoot = FALSE
    /\ skip = 0
    /\ entryDepth = 0
    /\ output = <<>>
    /\ result = "none"
    /\ nextLink = NoURL

IsStart(i) == doc[i] \notin {End, Broken}
\* The start tags of the elements that are open before tag i
Open(i) == {j \in 1..i-1 : IsStart(j) /\ \A k \in j+1..i : depth[k] > depth[j]}
Innermost(i, j) == j \in Open(i) /\ \A k \in Open(i) : k <= j

\* Decoder.Token: end tags match, and there is one root element.
Read(token) ==
    IF here <= Len(doc)
    THEN token = doc[here] /\ UNCHANGED tags
    ELSE /\ Len(doc) < MaxTags /\ result # "output"
         /\ doc' = Append(doc, token)
         /\ CASE token = End    -> depth[here] > 0 /\ depth' = Append(depth, depth[here] - 1)
              [] token = Broken -> depth' = Append(depth, depth[here])
              [] OTHER -> /\ depth[here] < MaxDepth /\ (depth[here] = 0 => doc = <<>>)
                          /\ depth' = Append(depth, depth[here] + 1)
AtEnd == here > Len(doc) /\ depth[here] = 0

BaseFor(base, element) ==
    IF element.base = NoRef THEN base ELSE Resolve(base, element.base)
Parent == IF bases = <<>> THEN Source ELSE Last(bases)

Emitted(base, element) ==
    IF element.uri = NoRef THEN output
    ELSE Append(output, [at |-> here, url |-> Resolve(base, element.uri)])
-----------------------------------------------------------------------------
(* normalizeAtomDocument *)

Scope(element) == BaseFor(Parent, element)

NotAtom(element) == ~foundRoot /\ element.name # "feed"

StartNext(outcome) ==
    /\ reader' = "next"
    /\ here' = 1
    /\ bases' = <<>>
    /\ result' = outcome

\* return body: gofeed and nextPageURL read the document as it is
OtherRoot ==
    /\ reader = "normalize"
    /\ \E element \in Elements : Read(element) /\ NotAtom(element)
    /\ StartNext("body")
    /\ UNCHANGED <<foundRoot, skip, entryDepth, output, nextLink>>

\* Fault: the base is pushed for an element whose end DecodeElement reads, too.
PushAlways(base, element) ==
    /\ bases' = Append(bases, base)
    /\ skip' = IF element.name = "text" THEN 1 ELSE 0

\* DecodeElement reads the end tag, so that the stack is left alone.
Push(base, element) ==
    IF element.name = "text"
    THEN skip' = 1 /\ UNCHANGED bases
    ELSE bases' = Append(bases, base) /\ UNCHANGED skip

StartElement ==
    /\ reader = "normalize" /\ skip = 0
    /\ \E element \in Elements :
        /\ Read(element) /\ ~NotAtom(element)
        /\ Push(Scope(element), element)
        /\ output' = Emitted(Scope(element), element)
    /\ foundRoot' = TRUE
    /\ here' = here + 1
    /\ UNCHANGED <<reader, entryDepth, result, nextLink>>

EndElement ==
    /\ reader = "normalize" /\ skip = 0
    /\ Read(End)
    /\ bases' = Front(bases)
    /\ here' = here + 1
    /\ UNCHANGED <<reader, foundRoot, skip, entryDepth, output, result, nextLink>>

\* What is in an element with a text is read and dropped.
DecodeElement ==
    /\ reader = "normalize" /\ skip > 0
    /\ \/ Read(End) /\ skip' = skip - 1
       \/ (\E element \in Elements : Read(element)) /\ skip' = skip + 1
    /\ here' = here + 1
    /\ UNCHANGED <<reader, bases, foundRoot, entryDepth, output, result, nextLink>>

\* The error of parseFeedDetails: nextPageURL is not called.
Malformed ==
    /\ reader = "normalize"
    /\ Read(Broken)
    /\ result' = "error"
    /\ reader' = "done"
    /\ UNCHANGED <<here, bases, foundRoot, skip, entryDepth, output, nextLink>>

Normalized ==
    /\ reader = "normalize" /\ AtEnd
    /\ StartNext("output")
    /\ UNCHANGED <<tags, foundRoot, skip, entryDepth, output, nextLink>>
-----------------------------------------------------------------------------
(* nextPageURL *)

\* Fault: a link counts in an entry, too.
IsNextAnywhere(element) == element.name = "link" /\ element.uri \notin {"", NoRef}

IsNext(element) ==
    entryDepth = 0 /\ element.name = "link" /\ element.uri \notin {"", NoRef}

Visit ==
    /\ reader = "next"
    /\ \E element \in Elements :
        /\ Read(element) /\ ~IsNext(element)
        /\ bases' = Append(bases, BaseFor(Parent, element))
        /\ entryDepth' = IF element.name = "entry" THEN entryDepth + 1 ELSE entryDepth
    /\ here' = here + 1
    /\ UNCHANGED <<reader, foundRoot, skip, output, result, nextLink>>

DepthAfter(name) == IF name = "entry" THEN entryDepth - 1 ELSE entryDepth

Leave ==
    /\ reader = "next"
    /\ Read(End)
    /\ bases' = Front(bases)
    /\ \E i \in Open(here) : Innermost(here, i) /\ entryDepth' = DepthAfter(doc[i].name)
    /\ here' = here + 1
    /\ UNCHANGED <<reader, foundRoot, skip, output, result, nextLink>>

FindNext ==
    /\ reader = "next"
    /\ \E element \in Elements :
        /\ Read(element) /\ IsNext(element)
        /\ nextLink' = Resolve(BaseFor(Parent, element), element.uri)
    /\ reader' = "done"
    /\ UNCHANGED <<here, bases, foundRoot, skip, entryDepth, output, result>>

\* fetchFeedPage ignores the error of a document that is not well-formed.
NoNext ==
    /\ reader = "next"
    /\ Read(Broken) \/ (AtEnd /\ UNCHANGED tags)
    /\ reader' = "done"
    /\ UNCHANGED <<here, bases, foundRoot, skip, entryDepth, output, result, nextLink>>

XMLNext ==
    \/ OtherRoot
    \/ StartElement
    \/ EndElement
    \/ DecodeElement
    \/ Malformed
    \/ Normalized
    \/ Visit
    \/ Leave
    \/ FindNext
    \/ NoNext

XMLSpec == XMLInit /\ [][XMLNext]_xmlVars
-----------------------------------------------------------------------------
(* what the document says *)

\* The references of the xml:base attributes that apply to element i, by element,
\* those that do not depend on the ones around them, and the relative ones
\* inside of these
Scopes(i) == {j \in Open(i) \cup {i} : doc[j].base # NoRef}
Anchors(i) == {j \in Scopes(i) : doc[j].base # "relative"}
Relatives(i) == {j \in Scopes(i) : \A k \in Anchors(i) : k < j}

\* The base of element i: the innermost anchor, or else the source, and every
\* relative reference inside of it.  To a malformed one nothing can be relative.
Anchor(i) ==
    IF Anchors(i) = {} THEN Source
    ELSE LET ref == doc[Max(Anchors(i))].base
         IN IF ref = "absolute" \/ (ref = "bad" /\ Relatives(i) = {}) THEN <<ref>> ELSE NoURL
Base(i) == Anchor(i) \o [k \in 1..Cardinality(Relatives(i)) |-> "relative"]

URI(i) == Resolve(Base(i), doc[i].uri)
Inside(i, name) == \E j \in Open(i) : doc[j].name = name

IsWritten(i) == IsStart(i) /\ doc[i].uri # NoRef /\ ~Inside(i, "text")

NextLinks ==
    {i \in DOMAIN doc :
        /\ IsStart(i) /\ doc[i].name = "link" /\ doc[i].uri \notin {"", NoRef}
        /\ ~Inside(i, "entry")}

(* properties *)

XMLTypeOK ==
    /\ doc \in Seq(Elements \cup {End, Broken}) /\ Len(doc) <= MaxTags
    /\ depth \in Seq(0..MaxDepth) /\ Len(depth) = Len(doc) + 1
    /\ reader \in {"normalize", "next", "done"}
    /\ here \in 1..Len(doc) + 1
    /\ bases \in Seq(URLs) /\ Len(bases) <= MaxDepth + 1
    /\ foundRoot \in BOOLEAN
    /\ skip \in 0..MaxDepth
    /\ entryDepth \in 0..MaxDepth
    /\ output \in Seq([at : 1..MaxTags, url : URLs])
    /\ result \in {"none", "output", "body", "error"}
    /\ nextLink \in URLs

\* Both readers keep a base per open element, but for those that DecodeElement
\* reads to their end: the pop of an end tag never finds an empty stack, and the
\* last base is that of the innermost element (atom.go:107-110, feed.go:567 and 596).
StacksMatch ==
    /\ reader = "normalize" => Len(bases) = 1 + depth[here] - skip
    /\ reader = "next" => Len(bases) = depth[here]

\* Every URI of an Atom feed is written once, resolved against all the
\* xml:base attributes around it, the nearest last, whatever elements have been
\* opened, closed or skipped before it (atom.go:19-20, 48-111).
ResolvedOnce ==
    result = "output" =>
        /\ \A k, l \in DOMAIN output : k < l => output[k].at < output[l].at
        /\ {output[k].at : k \in DOMAIN output} = {i \in DOMAIN doc : IsWritten(i)}
        /\ \A k \in DOMAIN output : output[k].url = URI(output[k].at)

\* The next page is that of the first next link with an href that is in no
\* entry, however deep and wherever in the feed, resolved against the bases
\* that normalizeAtomDocument has removed from the other copy; links of entries
\* never continue the feed (feed.go:306, 557-591).
NextLinkExact ==
    reader = "done" /\ result # "error" =>
        IF NextLinks = {} THEN nextLink = NoURL
        ELSE nextLink = URI(Min(NextLinks))
=============================================================================
