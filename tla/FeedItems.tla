------------------------------ MODULE FeedItems ------------------------------
(***************************************************************************)
(* The items of one feed document (src/feed.go, parseFeedDetails and       *)
(* parseJSONFeed).  gofeed, which is external, turns an XML feed into a    *)
(* list of items and keeps the original Atom feed beside it, with one      *)
(* entry for each item; the loop over the items looks up the entry by its  *)
(* index, although it drops items that nothing identifies.                 *)
(*                                                                         *)
(* A text is named by where it comes from: the number of an entry, or that *)
(* of the feed; None is the empty string.                                  *)
(***************************************************************************)
EXTENDS Integers, Sequences, SequencesExt

CONSTANTS Entries,      \* the entries of feeds
          MaxEntries    \* bound on the number of entries

Feed == 0
None == -1
Enclosures == [url : BOOLEAN, type : BOOLEAN, size : Int]
\* Which parts there are.  content: that of an Atom entry has a type, that of
\* another feed is HTML; there is none, or it is empty.  In a JSON feed guid
\* is the id, link the url, and content is content_html or content_text.
AllEntries == [guid : BOOLEAN, link : BOOLEAN, authors : BOOLEAN, summary : BOOLEAN,
               content : {"none", "empty", "html", "text"}, enclosures : Seq(Enclosures)]

ASSUME FeedItemsAssumption == Entries \subseteq AllEntries /\ MaxEntries \in Nat

\* What parseFeedDetails is given.
Formats == {"Atom", "RSS", "JSONFeed", "malformedXML", "malformedJSON", "otherJSON"}

VARIABLES
    format,
    entries,
    feedAuthors,   \* whether the feed has authors
    pc,            \* "dispatch", "XML", "JSON", "done"
    i,             \* the next item
    items,
    failed

vars == <<format, entries, feedAuthors, pc, i, items, failed>>
document == <<format, entries, feedAuthors>>

Init ==
    /\ format \in Formats
    /\ entries \in IF format \in {"Atom", "RSS", "JSONFeed"} THEN BoundedSeq(Entries, MaxEntries)
                   ELSE {<<>>}
    /\ feedAuthors \in BOOLEAN
    /\ pc = "dispatch"
    /\ i = 1
    /\ items = <<>>
    /\ failed = FALSE

\* looksLikeJSON, the version of a JSON feed, the errors of normalizeAtomDocument
\* and of gofeed
Dispatch ==
    /\ pc = "dispatch"
    /\ failed' = (format \notin {"Atom", "RSS", "JSONFeed"})
    /\ pc' = CASE failed' -> "done"
               [] format = "JSONFeed" -> "JSON"
               [] OTHER -> "XML"
    /\ UNCHANGED <<document, i, items>>

Part(present, n) == IF present THEN n ELSE None

\* Fault: the entry is looked up by the number of items kept.
EntryOfKept == Len(items) + 1
AtomEntry == i

\* atomContent, isHTMLContentType
AtomContent(n) ==
    [html |-> Part(entries[n].content = "html", n),
     text |-> Part(entries[n].content = "text" \/ (entries[n].content = "none" /\ entries[n].summary), n)]

\* Fault: the summary stands in as HTML.
SummaryAsHTML(content) ==
    IF content = [html |-> None, text |-> None]
    THEN [content EXCEPT !.html = Part(entries[i].summary, i)] ELSE content

OrSummary(content) ==
    IF content = [html |-> None, text |-> None]
    THEN IF format = "Atom" THEN [content EXCEPT !.text = Part(entries[i].summary, i)]
         ELSE [content EXCEPT !.html = Part(entries[i].summary, i)]
    ELSE content

XMLContent ==
    OrSummary(IF format = "Atom" THEN AtomContent(AtomEntry)
              ELSE [html |-> Part(entries[i].content \in {"html", "text"}, i), text |-> None])

\* The authors of the entry or else of the feed.
Authors(n) == IF entries[n].authors THEN n ELSE Part(feedAuthors, Feed)

IsComplete(enclosure) == enclosure.url /\ enclosure.type

\* normalizeAttachment.  An attachment keeps the number of its enclosure.
Attachments(n) ==
    LET enclosures == entries[n].enclosures
    IN [k \in {k \in DOMAIN enclosures : IsComplete(enclosures[k])} |->
        [enclosures[k] EXCEPT !.size = IF @ < 0 THEN 0 ELSE @]]

Item(id, content, authors) ==
    [id |-> id, of |-> i, html |-> content.html, text |-> content.text,
     authors |-> authors, attachments |-> Attachments(i)]

Identified(entry) == entry.guid \/ entry.link
Step(more) == pc' = pc /\ i' = i + 1 /\ items' = items \o more /\ UNCHANGED <<document, failed>>

XMLItem ==
    /\ pc = "XML" /\ i <= Len(entries)
    /\ Step(IF Identified(entries[i])
            THEN <<Item(IF entries[i].guid THEN "guid" ELSE "link", XMLContent,
                        Authors(IF format = "Atom" THEN AtomEntry ELSE i))>>
            ELSE <<>>)

JSONID(entry) == IF entry.guid THEN "guid" ELSE IF entry.link THEN "link" ELSE "generated"

\* generatedJSONFeedID: an item of a JSON feed is never dropped.
JSONItem ==
    /\ pc = "JSON" /\ i <= Len(entries)
    /\ Step(<<Item(JSONID(entries[i]),
                   [html |-> Part(entries[i].content = "html", i),
                    text |-> Part(entries[i].content = "text", i)],
                   Authors(i))>>)

Return ==
    /\ pc \in {"XML", "JSON"} /\ i > Len(entries)
    /\ pc' = "done"
    /\ UNCHANGED <<document, i, items, failed>>

Next == Dispatch \/ XMLItem \/ JSONItem \/ Return

Spec == Init /\ [][Next]_vars
-----------------------------------------------------------------------------
(* properties *)

TypeOK ==
    /\ format \in Formats
    /\ entries \in Seq(Entries)
    /\ feedAuthors \in BOOLEAN
    /\ pc \in {"dispatch", "XML", "JSON", "done"}
    /\ i \in 1..MaxEntries + 1
    /\ \A item \in Range(items) :
        /\ item.of \in 1..MaxEntries
        /\ item.id \in {"guid", "link", "generated"}
        /\ {item.html, item.text, item.authors} \subseteq -1..MaxEntries
        /\ Range(item.attachments) \subseteq Enclosures
    /\ failed \in BOOLEAN

\* Items appear in the order of the entries, each with its own texts, authors
\* and attachments, of which only those are left out that have no URL or no
\* type, and none has a size below 0; and whatever entries before it are
\* dropped, every entry that anything identifies is there, those of a JSON feed
\* even without, or the document is an error (feed.go:361-372, 394-420, 446-459,
\* 489-528, 654-661).
OwnParts ==
    /\ \A k, l \in DOMAIN items : k < l => items[k].of < items[l].of
    /\ \A item \in Range(items) :
        /\ {item.html, item.text} \subseteq {None, item.of}
        /\ item.authors = Authors(item.of)
        /\ LET enclosures == entries[item.of].enclosures
           IN /\ DOMAIN item.attachments =
                 {k \in DOMAIN enclosures : enclosures[k].url /\ enclosures[k].type}
              /\ \A k \in DOMAIN item.attachments :
                  item.attachments[k].size \in {0, enclosures[k].size} \cap Nat
    /\ pc = "done" =>
        IF failed THEN items = <<>>
        ELSE {item.of : item \in Range(items)} =
             {k \in DOMAIN entries : format = "JSONFeed" \/ entries[k].guid \/ entries[k].link}

\* An item of an XML feed has a text if its entry has any, in one form only,
\* and the text of an Atom entry is HTML only if the entry says so, also where
\* the summary stands in (feed.go:398-403, 436-442, 667-682).
TextAsMarked ==
    format # "JSONFeed" =>
        \A item \in Range(items) :
            LET entry == entries[item.of]
            IN /\ item.html = None \/ item.text = None
               /\ format = "Atom" => (item.html # None <=> entry.content = "html")
               /\ entry.summary \/ entry.content \in {"html", "text"}
                    => item.html # None \/ item.text # None
=============================================================================
