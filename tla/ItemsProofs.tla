----------------------------- MODULE ItemsProofs -----------------------------
(***************************************************************************)
(* A feed on its way to items, for feeds of any length and depth: no part  *)
(* of an entry is lost or given to another, and every URI is resolved by   *)
(* the elements that it is in.                                             *)
(***************************************************************************)
EXTENDS FeedItems, XMLBase, SequenceTheorems, FiniteSetTheorems,
        WellFoundedInduction, TLAPS

-----------------------------------------------------------------------------
(* FeedItems *)

FeedItemsType ==
    /\ format \in Formats
    /\ entries \in Seq(Entries)
    /\ Len(entries) <= MaxEntries
    /\ feedAuthors \in BOOLEAN
    /\ pc \in {"dispatch", "XML", "JSON", "done"}
    /\ i \in 1..Len(entries) + 1
    /\ failed \in BOOLEAN

\* What the properties say of one item.
ItemType == [id : {"guid", "link", "generated"}, of : 1..MaxEntries, html : -1..MaxEntries,
             text : -1..MaxEntries, authors : -1..MaxEntries,
             attachments : UNION {[S -> Enclosures] : S \in SUBSET Nat}]

Own(item) ==
    LET enclosures == entries[item.of].enclosures
    IN /\ {item.html, item.text} \subseteq {None, item.of}
       /\ item.authors = Authors(item.of)
       /\ DOMAIN item.attachments = {k \in DOMAIN enclosures : enclosures[k].url /\ enclosures[k].type}
       /\ \A k \in DOMAIN item.attachments :
           item.attachments[k].size \in {0, enclosures[k].size} \cap Nat

Marked(item) ==
    LET entry == entries[item.of]
    IN /\ item.html = None \/ item.text = None
       /\ format = "Atom" => (item.html # None <=> entry.content = "html")
       /\ entry.summary \/ entry.content \in {"html", "text"}
            => item.html # None \/ item.text # None

Kept(n) == format = "JSONFeed" \/ entries[n].guid \/ entries[n].link

\* The items of the entries before i.
ItemsSoFar ==
    /\ items \in Seq(ItemType)
    /\ \A k, l \in 1..Len(items) : k < l => items[k].of < items[l].of
    /\ \A k \in 1..Len(items) :
        /\ items[k].of \in 1..i - 1
        /\ Own(items[k])
        /\ format # "JSONFeed" => Marked(items[k])
    /\ \A n \in 1..i - 1 : Kept(n) <=> \E k \in 1..Len(items) : items[k].of = n

\* The inductive invariant.
FeedItemsInv ==
    /\ FeedItemsType
    /\ ItemsSoFar
    /\ pc = "dispatch" => i = 1 /\ items = <<>> /\ ~failed
    /\ pc = "XML" => format \in {"Atom", "RSS"}
    /\ pc = "JSON" => format = "JSONFeed"
    /\ failed => pc = "done" /\ items = <<>>
    /\ pc = "done" => failed \/ i = Len(entries) + 1

LEMMA SameDocument ==
    ASSUME UNCHANGED document
    PROVE  /\ \A item : (Own(item)' <=> Own(item)) /\ (Marked(item)' <=> Marked(item))
           /\ \A n : Kept(n)' <=> Kept(n)
           /\ format' = format /\ entries' = entries /\ feedAuthors' = feedAuthors
  <1>1. format' = format /\ entries' = entries /\ feedAuthors' = feedAuthors
    BY DEF document
  <1>2. \A item : Own(item)' <=> Own(item)
    BY <1>1 DEF Own, Authors, Part
  <1>3. \A item : Marked(item)' <=> Marked(item)
    BY <1>1 DEF Marked
  <1>4. \A n : Kept(n)' <=> Kept(n)
    BY <1>1 DEF Kept
  <1> QED
    BY <1>1, <1>2, <1>3, <1>4

\* An entry that is read.
LEMMA EntryAt ==
    ASSUME FeedItemsType, i <= Len(entries)
    PROVE  /\ entries[i] \in AllEntries
           /\ i \in Nat \ {0} /\ i \in 1..MaxEntries
           /\ i \in DOMAIN entries
           /\ i + 1 \in 1..Len(entries) + 1
  BY FeedItemsAssumption DEF FeedItemsType

\* The texts of an item of an XML feed.
LEMMA XMLTexts ==
    ASSUME FeedItemsType, i <= Len(entries), format \in {"Atom", "RSS"}
    PROVE  LET entry == entries[i]
           IN /\ XMLContent.html \in {None, i} /\ XMLContent.text \in {None, i}
              /\ XMLContent.html = None \/ XMLContent.text = None
              /\ format = "Atom" => (XMLContent.html # None <=> entry.content = "html")
              /\ entry.summary \/ entry.content \in {"html", "text"}
                   => XMLContent.html # None \/ XMLContent.text # None
  <1> DEFINE entry == entries[i]
  <1>1. /\ entry.content \in {"none", "empty", "html", "text"} /\ entry.summary \in BOOLEAN
        /\ i \in Nat /\ i # None /\ -1 # i
    BY EntryAt DEF AllEntries, None
  <1>2. CASE format = "Atom"
    <2>1. XMLContent = OrSummary([html |-> Part(entry.content = "html", i),
                                  text |-> Part(entry.content = "text" \/ (entry.content = "none" /\ entry.summary), i)])
      BY <1>2 DEF XMLContent, AtomContent, AtomEntry
    <2>2. CASE entry.content = "html"
      <3>1. XMLContent = [html |-> i, text |-> None]
        BY <1>1, <2>1, <2>2 DEF OrSummary, Part
      <3> QED
        BY <1>1, <2>2, <3>1
    <2>3. CASE entry.content = "text" \/ (entry.content # "html" /\ entry.summary)
      <3>1. XMLContent = [html |-> None, text |-> i]
        BY <1>1, <1>2, <2>1, <2>3 DEF OrSummary, Part
      <3> QED
        BY <1>1, <2>3, <3>1
    <2>4. CASE entry.content \in {"none", "empty"} /\ ~entry.summary
      <3>1. XMLContent = [html |-> None, text |-> None]
        BY <1>1, <1>2, <2>1, <2>4 DEF OrSummary, Part
      <3> QED
        BY <1>1, <2>4, <3>1
    <2> QED
      BY <1>1, <2>2, <2>3, <2>4
  <1>3. CASE format # "Atom"
    <2>1. XMLContent = OrSummary([html |-> Part(entry.content \in {"html", "text"}, i), text |-> None])
      BY <1>3 DEF XMLContent
    <2>2. CASE entry.content \in {"html", "text"} \/ entry.summary
      <3>1. XMLContent = [html |-> i, text |-> None]
        BY <1>1, <1>3, <2>1, <2>2 DEF OrSummary, Part
      <3> QED
        BY <1>1, <1>3, <3>1
    <2>3. CASE entry.content \notin {"html", "text"} /\ ~entry.summary
      <3>1. XMLContent = [html |-> None, text |-> None]
        BY <1>1, <1>3, <2>1, <2>3 DEF OrSummary, Part
      <3> QED
        BY <1>1, <1>3, <2>3, <3>1
    <2> QED
      BY <1>1, <2>2, <2>3
  <1> QED
    BY <1>2, <1>3

\* Attachments are those of the entry that have a URL and a type.
LEMMA AttachmentsOf ==
    ASSUME FeedItemsType, i <= Len(entries)
    PROVE  LET enclosures == entries[i].enclosures
           IN /\ Attachments(i) \in UNION {[S -> Enclosures] : S \in SUBSET Nat}
              /\ DOMAIN Attachments(i) =
                    {k \in DOMAIN enclosures : enclosures[k].url /\ enclosures[k].type}
              /\ \A k \in DOMAIN Attachments(i) :
                    Attachments(i)[k].size \in {0, enclosures[k].size} \cap Nat
  <1> DEFINE enclosures == entries[i].enclosures
             Complete == {k \in DOMAIN enclosures : IsComplete(enclosures[k])}
             Sized(e) == [e EXCEPT !.size = IF @ < 0 THEN 0 ELSE @]
  <1>1. enclosures \in Seq(Enclosures)
    BY EntryAt DEF AllEntries
  <1>2. Attachments(i) = [k \in Complete |-> Sized(enclosures[k])]
    BY DEF Attachments
  <1>3. Complete = {k \in DOMAIN enclosures : enclosures[k].url /\ enclosures[k].type}
    BY DEF IsComplete
  <1>4. \A e \in Enclosures : Sized(e) \in Enclosures /\ Sized(e).size \in {0, e.size} \cap Nat
    BY DEF Enclosures
  <1>5. Complete \in SUBSET Nat /\ \A k \in Complete : enclosures[k] \in Enclosures
    BY <1>1
  <1> HIDE DEF enclosures, Complete, Sized
  <1>6. Attachments(i) \in [Complete -> Enclosures] /\ DOMAIN Attachments(i) = Complete
    BY <1>2, <1>4, <1>5
  <1>7. \A k \in Complete : Attachments(i)[k].size \in {0, enclosures[k].size} \cap Nat
    BY <1>2, <1>4, <1>5
  <1> QED
    BY <1>3, <1>5, <1>6, <1>7 DEF enclosures

\* An item that is made of the entry that is read.
LEMMA MadeItem ==
    ASSUME FeedItemsType, i <= Len(entries),
           NEW id \in {"guid", "link", "generated"},
           NEW content, content.html \in {None, i}, content.text \in {None, i}
    PROVE  /\ Item(id, content, Authors(i)) \in ItemType
           /\ Item(id, content, Authors(i)).of = i
           /\ Own(Item(id, content, Authors(i)))
  <1> DEFINE item == Item(id, content, Authors(i))
  <1>1. i \in 1..MaxEntries /\ MaxEntries \in Nat
    BY EntryAt, FeedItemsAssumption
  <1>2. Authors(i) \in -1..MaxEntries
    BY <1>1 DEF Authors, Part, None, Feed
  <1>3. content.html \in -1..MaxEntries /\ content.text \in -1..MaxEntries
    BY <1>1 DEF None
  <1>4. /\ item.id = id /\ item.of = i /\ item.html = content.html /\ item.text = content.text
        /\ item.authors = Authors(i) /\ item.attachments = Attachments(i)
    BY DEF Item
  <1>5. item \in ItemType
    BY <1>1, <1>2, <1>3, AttachmentsOf DEF Item, ItemType
  <1>6. Own(item)
    <2> HIDE DEF item
    <2> QED
      BY <1>4, AttachmentsOf DEF Own
  <1> QED
    BY <1>4, <1>5, <1>6

\* The next entry is dropped.
LEMMA OneLess ==
    ASSUME FeedItemsType, ItemsSoFar, i <= Len(entries), UNCHANGED document, i' = i + 1,
           ~Kept(i), items' = items
    PROVE  ItemsSoFar'
  <1>1. i \in Nat \ {0} /\ i' - 1 = i
    BY EntryAt
  <1>2. \A n \in 1..i' - 1 : n = i \/ n \in 1..i - 1
    BY <1>1
  <1>3. \A n \in 1..i' - 1 : Kept(n) <=> \E k \in 1..Len(items) : items[k].of = n
    <2> SUFFICES ASSUME NEW n \in 1..i' - 1
                 PROVE  Kept(n) <=> \E k \in 1..Len(items) : items[k].of = n
      OBVIOUS
    <2>1. CASE n = i
      <3>1. \A k \in 1..Len(items) : items[k].of # i
        BY <1>1 DEF ItemsSoFar
      <3> QED
        BY <2>1, <3>1
    <2>2. CASE n \in 1..i - 1
      BY <2>2 DEF ItemsSoFar
    <2> QED
      BY <1>2, <2>1, <2>2
  <1>4. \A k \in 1..Len(items) : items[k].of \in 1..i' - 1
    BY <1>1 DEF ItemsSoFar
  <1> QED
    BY <1>3, <1>4, SameDocument DEF ItemsSoFar

\* The next entry is kept, as the item that it makes.
LEMMA OneMore ==
    ASSUME FeedItemsType, ItemsSoFar, i <= Len(entries), UNCHANGED document, i' = i + 1,
           Kept(i), NEW item \in ItemType, item.of = i, Own(item),
           format # "JSONFeed" => Marked(item), items' = Append(items, item)
    PROVE  ItemsSoFar'
  <1>1. i \in Nat \ {0} /\ i' - 1 = i
    BY EntryAt
  <1>2. items \in Seq(ItemType) /\ Len(items) \in Nat
    BY DEF ItemsSoFar
  <1>3. /\ items' \in Seq(ItemType)
        /\ Len(items') = Len(items) + 1
        /\ \A k \in 1..Len(items) : items'[k] = items[k]
        /\ items'[Len(items) + 1] = item
    BY <1>2, AppendProperties
  <1>4. \A k \in 1..Len(items') : k \in 1..Len(items) \/ k = Len(items) + 1
    BY <1>2, <1>3
  <1>5. \A k \in 1..Len(items) : items[k].of \in 1..i - 1
    BY DEF ItemsSoFar
  <1>6. \A k, l \in 1..Len(items') : k < l => items'[k].of < items'[l].of
    <2> SUFFICES ASSUME NEW k \in 1..Len(items'), NEW l \in 1..Len(items'), k < l
                 PROVE  items'[k].of < items'[l].of
      OBVIOUS
    <2>1. k \in 1..Len(items)
      BY <1>2, <1>3
    <2>2. CASE l \in 1..Len(items)
      BY <1>3, <2>1, <2>2 DEF ItemsSoFar
    <2>3. CASE l = Len(items) + 1
      BY <1>1, <1>3, <1>5, <2>1, <2>3
    <2> QED
      BY <1>4, <2>2, <2>3
  <1>7. \A k \in 1..Len(items') :
           /\ items'[k].of \in 1..i' - 1
           /\ Own(items'[k])
           /\ format # "JSONFeed" => Marked(items'[k])
    <2> SUFFICES ASSUME NEW k \in 1..Len(items')
                 PROVE  /\ items'[k].of \in 1..i' - 1
                        /\ Own(items'[k])
                        /\ format # "JSONFeed" => Marked(items'[k])
      OBVIOUS
    <2>1. CASE k \in 1..Len(items)
      <3>1. items[k].of \in 1..i' - 1
        BY <1>1, <1>5, <2>1
      <3> QED
        BY <1>3, <2>1, <3>1 DEF ItemsSoFar
    <2>2. CASE k = Len(items) + 1
      BY <1>1, <1>3, <2>2
    <2> QED
      BY <1>4, <2>1, <2>2
  <1>8. \A n \in 1..i' - 1 : Kept(n) <=> \E k \in 1..Len(items') : items'[k].of = n
    <2> SUFFICES ASSUME NEW n \in 1..i' - 1
                 PROVE  Kept(n) <=> \E k \in 1..Len(items') : items'[k].of = n
      OBVIOUS
    <2>1. CASE n = i
      <3>1. Len(items) + 1 \in 1..Len(items')
        BY <1>2, <1>3
      <3> QED
        BY <1>3, <2>1, <3>1
    <2>2. CASE n \in 1..i - 1
      <3>1. Kept(n) <=> \E k \in 1..Len(items) : items[k].of = n
        BY <2>2 DEF ItemsSoFar
      <3>2. items'[Len(items) + 1].of # n
        BY <1>1, <1>3, <2>2
      <3>3. \A k \in 1..Len(items) : k \in 1..Len(items')
        BY <1>2, <1>3
      <3> QED
        BY <1>3, <1>4, <3>1, <3>2, <3>3
    <2> QED
      BY <1>1, <2>1, <2>2
  <1> QED
    BY <1>3, <1>6, <1>7, <1>8, SameDocument DEF ItemsSoFar

LEMMA XMLItemStep ==
    ASSUME FeedItemsInv, XMLItem
    PROVE  FeedItemsInv'
  <1>1. /\ pc = "XML" /\ i <= Len(entries) /\ pc' = pc /\ i' = i + 1
        /\ UNCHANGED document /\ failed' = failed
    BY DEF XMLItem, Step
  <1>2. FeedItemsType /\ ItemsSoFar /\ format \in {"Atom", "RSS"} /\ ~failed
    BY <1>1 DEF FeedItemsInv
  <1>3. FeedItemsType'
    BY <1>1, <1>2, EntryAt, SameDocument DEF FeedItemsType
  <1>4. Kept(i) <=> Identified(entries[i])
    BY <1>2 DEF Kept, Identified
  <1>5. ASSUME ~Identified(entries[i]) PROVE ItemsSoFar'
    <2>1. items' = items \o <<>> /\ items \in Seq(ItemType)
      BY <1>2, <1>5 DEF XMLItem, Step, ItemsSoFar
    <2>2. items' = items
      BY <2>1, ConcatEmptySeq
    <2>3. ~Kept(i)
      BY <1>4, <1>5
    <2> QED
      BY <1>1, <1>2, <2>2, <2>3, OneLess
  <1>6. ASSUME Identified(entries[i]) PROVE ItemsSoFar'
    <2> DEFINE id == IF entries[i].guid THEN "guid" ELSE "link"
               item == Item(id, XMLContent, Authors(i))
    <2>1. items' = items \o <<item>>
      BY <1>6 DEF XMLItem, Step, AtomEntry
    <2>2. items \in Seq(ItemType)
      BY <1>2 DEF ItemsSoFar
    <2>3. /\ XMLContent.html \in {None, i} /\ XMLContent.text \in {None, i}
          /\ XMLContent.html = None \/ XMLContent.text = None
          /\ format = "Atom" => (XMLContent.html # None <=> entries[i].content = "html")
          /\ entries[i].summary \/ entries[i].content \in {"html", "text"}
               => XMLContent.html # None \/ XMLContent.text # None
      BY <1>1, <1>2, XMLTexts
    <2>4. id \in {"guid", "link", "generated"}
      OBVIOUS
    <2>5. item \in ItemType /\ item.of = i /\ Own(item)
      <3> HIDE DEF id
      <3> QED
        BY <1>1, <1>2, <2>3, <2>4, MadeItem
    <2>6. item.html = XMLContent.html /\ item.text = XMLContent.text
      BY DEF Item
    <2> HIDE DEF item, id
    <2>7. Marked(item)
      BY <2>3, <2>5, <2>6 DEF Marked
    <2>8. items' = Append(items, item)
      BY <2>1, <2>5, <2>2, AppendIsConcat
    <2>9. Kept(i)
      BY <1>4, <1>6
    <2> QED
      BY <1>1, <1>2, <2>5, <2>7, <2>8, <2>9, OneMore
  <1> QED
    BY <1>1, <1>2, <1>3, <1>5, <1>6, SameDocument DEF FeedItemsInv

LEMMA JSONItemStep ==
    ASSUME FeedItemsInv, JSONItem
    PROVE  FeedItemsInv'
  <1> DEFINE content == [html |-> Part(entries[i].content = "html", i),
                         text |-> Part(entries[i].content = "text", i)]
             id == JSONID(entries[i])
             item == Item(id, content, Authors(i))
  <1>1. /\ pc = "JSON" /\ i <= Len(entries) /\ pc' = pc /\ i' = i + 1
        /\ UNCHANGED document /\ failed' = failed /\ items' = items \o <<item>>
    BY DEF JSONItem, Step
  <1>2. FeedItemsType /\ ItemsSoFar /\ format = "JSONFeed" /\ ~failed
    BY <1>1 DEF FeedItemsInv
  <1>3. FeedItemsType'
    BY <1>1, <1>2, EntryAt, SameDocument DEF FeedItemsType
  <1>4. id \in {"guid", "link", "generated"}
    BY DEF JSONID
  <1>5. content.html \in {None, i} /\ content.text \in {None, i}
    BY DEF Part
  <1> HIDE DEF content, id
  <1>6. item \in ItemType /\ item.of = i /\ Own(item)
    BY <1>1, <1>2, <1>4, <1>5, MadeItem
  <1>7. Kept(i)
    BY <1>2 DEF Kept
  <1> HIDE DEF item
  <1>8. items \in Seq(ItemType)
    BY <1>2 DEF ItemsSoFar
  <1>9. items' = Append(items, item)
    BY <1>1, <1>6, <1>8, AppendIsConcat
  <1>10. ItemsSoFar'
    BY <1>1, <1>2, <1>6, <1>7, <1>9, OneMore
  <1> QED
    BY <1>1, <1>2, <1>3, <1>10, SameDocument DEF FeedItemsInv

\* Nothing is moved or made by a step that leaves the items alone.
LEMMA SameItems ==
    ASSUME ItemsSoFar, UNCHANGED <<document, i, items>>
    PROVE  ItemsSoFar'
  BY SameDocument DEF ItemsSoFar

THEOREM FeedItemsInvariance == Spec => []FeedItemsInv
  <1>1. Init => FeedItemsInv
    <2> SUFFICES ASSUME Init PROVE FeedItemsInv
      OBVIOUS
    <2>1. /\ format \in Formats /\ feedAuthors \in BOOLEAN /\ pc = "dispatch" /\ i = 1
          /\ items = <<>> /\ failed = FALSE
      BY DEF Init
    <2>2. MaxEntries \in Nat
      BY FeedItemsAssumption
    <2>3. entries \in Seq(Entries) /\ Len(entries) <= MaxEntries
      <3>1. CASE format \in {"Atom", "RSS", "JSONFeed"}
        <4>1. PICK m \in 0..MaxEntries : entries \in [1..m -> Entries]
          BY <3>1 DEF Init, BoundedSeq, SeqOf
        <4>2. m \in Nat
          BY <2>2
        <4>3. entries \in Seq(Entries)
          BY <4>1, <4>2, SeqDef
        <4> QED
          BY <2>2, <4>1, <4>2, <4>3
      <3>2. CASE format \notin {"Atom", "RSS", "JSONFeed"}
        <4>1. entries = <<>>
          BY <3>2 DEF Init
        <4> QED
          BY <2>2, <4>1
      <3> QED
        BY <3>1, <3>2
    <2>4. FeedItemsType
      <3>1. i \in 1..Len(entries) + 1
        BY <2>1, <2>3
      <3> QED
        BY <2>1, <2>3, <3>1 DEF FeedItemsType
    <2>5. ItemsSoFar
      BY <2>1 DEF ItemsSoFar
    <2> QED
      BY <2>1, <2>4, <2>5 DEF FeedItemsInv
  <1>2. FeedItemsInv /\ [Next]_vars => FeedItemsInv'
    <2> SUFFICES ASSUME FeedItemsInv, [Next]_vars PROVE FeedItemsInv'
      OBVIOUS
    <2>1. CASE Dispatch
      <3>1. pc = "dispatch" /\ UNCHANGED <<document, i, items>> /\ i = 1 /\ items = <<>>
        BY <2>1 DEF Dispatch, FeedItemsInv
      <3>2. ItemsSoFar'
        BY <3>1, SameItems DEF FeedItemsInv
      <3>3. /\ failed' = (format \notin {"Atom", "RSS", "JSONFeed"})
            /\ pc' = CASE failed' -> "done" [] format = "JSONFeed" -> "JSON" [] OTHER -> "XML"
        BY <2>1 DEF Dispatch
      <3>4. FeedItemsType'
        BY <3>1, <3>3, SameDocument DEF FeedItemsInv, FeedItemsType
      <3> QED
        BY <3>1, <3>2, <3>3, <3>4, SameDocument DEF FeedItemsInv
    <2>2. CASE XMLItem
      BY <2>2, XMLItemStep
    <2>3. CASE JSONItem
      BY <2>3, JSONItemStep
    <2>4. CASE Return
      <3>1. UNCHANGED <<document, i, items>> /\ failed' = failed /\ pc' = "done" /\ i > Len(entries)
        BY <2>4 DEF Return
      <3>2. i = Len(entries) + 1
        BY <3>1 DEF FeedItemsInv, FeedItemsType
      <3> QED
        BY <3>1, <3>2, SameItems, SameDocument DEF FeedItemsInv, FeedItemsType
    <2>5. CASE UNCHANGED vars
      <3>1. UNCHANGED <<document, i, items>> /\ failed' = failed /\ pc' = pc
        BY <2>5 DEF vars, document
      <3> QED
        BY <3>1, SameItems, SameDocument DEF FeedItemsInv, FeedItemsType
    <2> QED
      BY <2>1, <2>2, <2>3, <2>4, <2>5 DEF Next
  <1> QED
    BY <1>1, <1>2, PTL DEF Spec

\* The items that are there are those at the positions of the list.
LEMMA RangeOfItems ==
    ASSUME ItemsSoFar
    PROVE  /\ DOMAIN items = 1..Len(items)
           /\ \A item : item \in Range(items) <=> \E k \in 1..Len(items) : item = items[k]
  <1>1. DOMAIN items = 1..Len(items)
    BY DEF ItemsSoFar
  <1> QED
    BY <1>1 DEF Range

\* Items and the counters keep to their types.
THEOREM ItemsTypeCorrect == Spec => []TypeOK
  <1>1. FeedItemsInv => TypeOK
    <2> SUFFICES ASSUME FeedItemsInv PROVE TypeOK
      OBVIOUS
    <2>1. FeedItemsType /\ ItemsSoFar
      BY DEF FeedItemsInv
    <2>2. i \in 1..MaxEntries + 1
      BY <2>1, FeedItemsAssumption DEF FeedItemsType
    <2>3. \A item \in Range(items) : item \in ItemType
      BY <2>1, RangeOfItems DEF ItemsSoFar
    <2>4. \A item \in ItemType : Range(item.attachments) \subseteq Enclosures
      <3> SUFFICES ASSUME NEW item \in ItemType PROVE Range(item.attachments) \subseteq Enclosures
        OBVIOUS
      <3>1. PICK S \in SUBSET Nat : item.attachments \in [S -> Enclosures]
        BY DEF ItemType
      <3> QED
        BY <3>1 DEF Range
    <2> QED
      BY <2>1, <2>2, <2>3, <2>4 DEF TypeOK, FeedItemsType, ItemType
  <1> QED
    BY <1>1, FeedItemsInvariance, PTL

\* Whatever entries are dropped before it, an item has the texts, the authors and
\* the attachments of its own entry, and no entry that anything identifies is
\* lost (feed.go:393-460, 489-528).
THEOREM PartsOfOneEntry == Spec => []OwnParts
  <1>1. FeedItemsInv => OwnParts
    <2> SUFFICES ASSUME FeedItemsInv PROVE OwnParts
      OBVIOUS
    <2>1. FeedItemsType /\ ItemsSoFar
      BY DEF FeedItemsInv
    <2>2. \A k, l \in DOMAIN items : k < l => items[k].of < items[l].of
      BY <2>1, RangeOfItems DEF ItemsSoFar
    <2>3. \A item \in Range(items) : Own(item)
      BY <2>1, RangeOfItems DEF ItemsSoFar
    <2>4. ASSUME pc = "done", ~failed
          PROVE  {item.of : item \in Range(items)} = {k \in DOMAIN entries : Kept(k)}
      <3>1. DOMAIN entries = 1..i - 1
        BY <2>1, <2>4 DEF FeedItemsInv, FeedItemsType
      <3>2. \A n : n \in {item.of : item \in Range(items)}
                      <=> \E k \in 1..Len(items) : items[k].of = n
        BY <2>1, RangeOfItems
      <3>3. \A k \in 1..Len(items) : items[k].of \in DOMAIN entries
        BY <2>1, <3>1 DEF ItemsSoFar
      <3>4. \A n \in DOMAIN entries : Kept(n) <=> \E k \in 1..Len(items) : items[k].of = n
        BY <2>1, <3>1 DEF ItemsSoFar
      <3> QED
        BY <3>2, <3>3, <3>4
    <2>5. pc = "done" => IF failed THEN items = <<>>
                         ELSE {item.of : item \in Range(items)} =
                              {k \in DOMAIN entries : format = "JSONFeed" \/ entries[k].guid \/ entries[k].link}
      BY <2>4 DEF FeedItemsInv, Kept
    <2> QED
      BY <2>2, <2>3, <2>5 DEF OwnParts, Own
  <1> QED
    BY <1>1, FeedItemsInvariance, PTL

\* A text is HTML or not as its entry says, and an entry that has a text makes an
\* item that has one (feed.go:398-403, 436-442, 667-682).
THEOREM TextsKeepTheirKind == Spec => []TextAsMarked
  <1>1. FeedItemsInv => TextAsMarked
    <2> SUFFICES ASSUME FeedItemsInv, format # "JSONFeed", NEW item \in Range(items)
                 PROVE  Marked(item)
      BY DEF TextAsMarked, Marked
    <2>1. ItemsSoFar
      BY DEF FeedItemsInv
    <2> QED
      BY <2>1, RangeOfItems DEF ItemsSoFar
  <1> QED
    BY <1>1, FeedItemsInvariance, PTL

-----------------------------------------------------------------------------
(* XMLBase.  Both readers of a document go through it while it is made up,  *)
(* so the facts about documents are about any d, with depths h.             *)

Tag == Elements \cup {End, Broken}

OpenIn(d, h, n) == {j \in 1..n-1 : d[j] \notin {End, Broken} /\ \A k \in j+1..n : h[k] > h[j]}
NestedIn(d, h, n) ==
    /\ \A e \in 0..h[n]-1 : \E j \in OpenIn(d, h, n) : h[j] = e
    /\ Cardinality(OpenIn(d, h, n)) = h[n]

\* A document, or its beginning.
DocumentOK(d, h) ==
    /\ d \in Seq(Tag) /\ Len(d) <= MaxTags
    /\ h \in Seq(0..MaxDepth) /\ Len(h) = Len(d) + 1
    /\ \A n \in 1..Len(d) :
        IF d[n] = End THEN h[n] > 0 /\ h[n+1] = h[n] - 1
        ELSE h[n+1] = IF d[n] = Broken THEN h[n] ELSE h[n] + 1
    /\ \A n \in 1..Len(d) + 1 : NestedIn(d, h, n)

\* The document d2 begins with d.
Begins(d, h, d2, h2) ==
    /\ Len(d) <= Len(d2)
    /\ \A k \in 1..Len(d) : d2[k] = d[k]
    /\ \A k \in 1..Len(d)+1 : h2[k] = h[k]

\* The base that applies inside of the elements of X.
ScopesOf(d, X) == {j \in X : d[j].base # NoRef}
AnchorsOf(d, X) == {j \in ScopesOf(d, X) : d[j].base # "relative"}
RelativesOf(d, X) == {j \in ScopesOf(d, X) : \A k \in AnchorsOf(d, X) : k < j}
AnchorOf(d, X) ==
    IF AnchorsOf(d, X) = {} THEN Source
    ELSE LET ref == d[Max(AnchorsOf(d, X))].base
         IN IF ref = "absolute" \/ (ref = "bad" /\ RelativesOf(d, X) = {}) THEN <<ref>> ELSE NoURL
Relative(m) == [k \in 1..m |-> "relative"]
BaseOf(d, X) == AnchorOf(d, X) \o Relative(Cardinality(RelativesOf(d, X)))
BaseIn(d, h, n) == BaseOf(d, OpenIn(d, h, n) \cup {n})

InsideIn(d, h, n, name) == \E j \in OpenIn(d, h, n) : d[j].name = name
EntriesIn(d, h, n) == {j \in OpenIn(d, h, n) : d[j].name = "entry"}
IsWrittenIn(d, h, n) == d[n] \notin {End, Broken} /\ d[n].uri # NoRef /\ ~InsideIn(d, h, n, "text")
IsNextIn(d, h, n) ==
    /\ d[n] \notin {End, Broken} /\ d[n].name = "link" /\ d[n].uri \notin {"", NoRef}
    /\ ~InsideIn(d, h, n, "entry")

\* The bases b of the elements that are open at tag n, above those that are
\* there from the start.
StackIn(b, d, h, below, n) ==
    /\ Len(b) = below + h[n]
    /\ \A j \in OpenIn(d, h, n) : b[below + h[j] + 1] = BaseIn(d, h, j)

\* u has the URIs of the tags before tag n.
OutputIn(u, d, h, n) ==
    /\ \A k, l \in 1..Len(u) : k < l => u[k].at < u[l].at
    /\ \A k \in 1..Len(u) : /\ u[k].at \in 1..n-1
                            /\ IsWrittenIn(d, h, u[k].at)
                            /\ u[k].url = Resolve(BaseIn(d, h, u[k].at), d[u[k].at].uri)
    /\ \A m \in 1..n-1 : IsWrittenIn(d, h, m) => \E k \in 1..Len(u) : u[k].at = m

\* Where DecodeElement reads, the stack is that of the element it was called for.
Normalizing ==
    /\ here = Len(doc) + 1 /\ result = "none" /\ nextLink = NoURL /\ entryDepth = 0
    /\ ~foundRoot => doc = <<>> /\ skip = 0
    /\ Len(bases) > 0 /\ bases[1] = Source
    /\ skip = 0 => ~InsideIn(doc, depth, here, "text") /\ StackIn(bases, doc, depth, 1, here)
    /\ skip > 0 => \E t \in OpenIn(doc, depth, here) :
        /\ doc[t].name = "text" /\ ~InsideIn(doc, depth, t, "text")
        /\ depth[here] = depth[t] + skip
        /\ StackIn(bases, doc, depth, 1, t)
    /\ OutputIn(output, doc, depth, here)

Continuing ==
    /\ result \in {"output", "body"} /\ nextLink = NoURL
    /\ StackIn(bases, doc, depth, 0, here)
    /\ entryDepth = Cardinality(EntriesIn(doc, depth, here))
    /\ \A m \in 1..here-1 : ~IsNextIn(doc, depth, m)

NextFound ==
    \/ nextLink = NoURL /\ \A m \in 1..Len(doc) : ~IsNextIn(doc, depth, m)
    \/ \E n \in 1..Len(doc) :
        /\ IsNextIn(doc, depth, n) /\ \A m \in 1..n-1 : ~IsNextIn(doc, depth, m)
        /\ nextLink = Resolve(BaseIn(doc, depth, n), doc[n].uri)

\* The inductive invariant.
XMLInv ==
    /\ XMLTypeOK
    /\ DocumentOK(doc, depth)
    /\ \A n \in 1..Len(doc) : doc[n] = Broken => reader = "done"
    /\ reader = "normalize" => Normalizing
    /\ reader = "next" => Continuing
    /\ result = "output" => OutputIn(output, doc, depth, Len(doc) + 1)
    /\ reader = "done" => result = "error" \/ NextFound

LEMMA OpenBefore ==
    ASSUME NEW d, NEW h, NEW n \in Nat
    PROVE  /\ OpenIn(d, h, n) \subseteq 1..n-1
           /\ IsFiniteSet(OpenIn(d, h, n))
           /\ n \notin OpenIn(d, h, n)
  <1>1. OpenIn(d, h, n) \subseteq 1..n-1
    BY DEF OpenIn
  <1>2. IsFiniteSet(1..n-1)
    BY FS_Interval
  <1> QED
    BY <1>1, <1>2, FS_Subset

LEMMA OpenAfterStart ==
    ASSUME NEW d, NEW h, NEW n \in Nat \ {0}, \A k \in 1..n+1 : h[k] \in Nat,
           d[n] \notin {End, Broken}, h[n+1] = h[n] + 1
    PROVE  OpenIn(d, h, n+1) = OpenIn(d, h, n) \cup {n}
  <1>1. ASSUME NEW j \in OpenIn(d, h, n+1), j # n
        PROVE  j \in OpenIn(d, h, n)
    BY <1>1 DEF OpenIn
  <1>2. ASSUME NEW j \in OpenIn(d, h, n)
        PROVE  j \in OpenIn(d, h, n+1)
    <2>1. \A k \in j+1..n+1 : k = n+1 \/ k \in j+1..n
      BY DEF OpenIn
    <2>2. j \in 1..n-1 /\ n \in j+1..n
      BY DEF OpenIn
    <2>3. h[n] > h[j] /\ h[n+1] > h[j]
      BY <2>2 DEF OpenIn
    <2> QED
      BY <2>1, <2>2, <2>3 DEF OpenIn
  <1>3. n \in OpenIn(d, h, n+1)
    <2>1. \A k \in n+1..n+1 : k = n+1
      OBVIOUS
    <2> QED
      BY <2>1 DEF OpenIn
  <1> QED
    BY <1>1, <1>2, <1>3

LEMMA OpenAfterBroken ==
    ASSUME NEW d, NEW h, NEW n \in Nat \ {0}, \A k \in 1..n+1 : h[k] \in Nat,
           d[n] = Broken, h[n+1] = h[n]
    PROVE  OpenIn(d, h, n+1) = OpenIn(d, h, n)
  <1>1. ASSUME NEW j \in OpenIn(d, h, n+1)
        PROVE  j \in OpenIn(d, h, n)
    BY DEF OpenIn
  <1>2. ASSUME NEW j \in OpenIn(d, h, n)
        PROVE  j \in OpenIn(d, h, n+1)
    <2>1. \A k \in j+1..n+1 : k = n+1 \/ k \in j+1..n
      BY DEF OpenIn
    <2>2. j \in 1..n-1 /\ n \in j+1..n
      BY DEF OpenIn
    <2>3. h[n] > h[j] /\ h[n+1] > h[j]
      BY <2>2 DEF OpenIn
    <2> QED
      BY <2>1, <2>2, <2>3 DEF OpenIn
  <1> QED
    BY <1>1, <1>2

LEMMA OpenAfterEnd ==
    ASSUME NEW d, NEW h, NEW n \in Nat \ {0}, \A k \in 1..n+1 : h[k] \in Nat,
           d[n] = End, h[n+1] = h[n] - 1
    PROVE  \A j : j \in OpenIn(d, h, n+1) <=> j \in OpenIn(d, h, n) /\ h[j] < h[n] - 1
  <1>1. ASSUME NEW j \in OpenIn(d, h, n+1)
        PROVE  j \in OpenIn(d, h, n) /\ h[j] < h[n] - 1
    <2>1. j \in 1..n-1 /\ n+1 \in j+1..n+1
      BY DEF OpenIn
    <2>2. h[n+1] > h[j]
      BY <2>1 DEF OpenIn
    <2> QED
      BY <2>1, <2>2 DEF OpenIn
  <1>2. ASSUME NEW j \in OpenIn(d, h, n), h[j] < h[n] - 1
        PROVE  j \in OpenIn(d, h, n+1)
    <2>1. \A k \in j+1..n+1 : k = n+1 \/ k \in j+1..n
      BY DEF OpenIn
    <2> QED
      BY <1>2, <2>1 DEF OpenIn
  <1> QED
    BY <1>1, <1>2

\* What is open is nested, and an open element is nested in the ones before it.
LEMMA OpenNests ==
    ASSUME NEW d, NEW h, NEW n \in Nat, \A k \in 1..n : h[k] \in Nat,
           NEW j \in OpenIn(d, h, n)
    PROVE  /\ h[j] < h[n]
           /\ \A k \in OpenIn(d, h, n) : j < k => h[j] < h[k]
           /\ OpenIn(d, h, j) = {k \in OpenIn(d, h, n) : k < j}
  <1>1. j \in 1..n-1 /\ n \in j+1..n /\ \A k \in j+1..n : h[k] > h[j]
    BY DEF OpenIn
  <1>2. ASSUME NEW k \in OpenIn(d, h, n), j < k
        PROVE  h[j] < h[k]
    <2>1. k \in 1..n-1
      BY DEF OpenIn
    <2> QED
      BY <1>1, <1>2, <2>1
  <1>3. ASSUME NEW k \in OpenIn(d, h, n), k < j
        PROVE  k \in OpenIn(d, h, j)
    BY <1>1, <1>3 DEF OpenIn
  <1>4. ASSUME NEW k \in OpenIn(d, h, j)
        PROVE  k \in OpenIn(d, h, n) /\ k < j
    <2>1. k \in 1..j-1 /\ h[j] > h[k]
      BY <1>1 DEF OpenIn
    <2>2. \A m \in k+1..n : m \in k+1..j \/ m \in j+1..n
      BY <1>1, <2>1
    <2>3. \A m \in j+1..n : h[m] > h[k]
      BY <1>1, <2>1
    <2> QED
      BY <1>1, <2>1, <2>2, <2>3 DEF OpenIn
  <1> QED
    BY <1>1, <1>2, <1>3, <1>4

LEMMA NothingOpen ==
    ASSUME NEW d, NEW h, NEW n \in Nat, \A k \in 1..n : h[k] \in Nat, n > 0, h[n] = 0
    PROVE  OpenIn(d, h, n) = {}
  <1>1. ASSUME NEW j \in OpenIn(d, h, n)
        PROVE  FALSE
    <2>1. h[j] < h[n]
      BY OpenNests
    <2>2. h[j] \in Nat
      BY OpenBefore
    <2> QED
      BY <2>1, <2>2
  <1> QED
    BY <1>1

\* The innermost open element.
LEMMA InnermostOpen ==
    ASSUME NEW d, NEW h, NEW n \in Nat, \A k \in 1..n : h[k] \in Nat, n > 0,
           NestedIn(d, h, n), h[n] > 0
    PROVE  \E p \in OpenIn(d, h, n) :
              /\ h[p] = h[n] - 1
              /\ \A j \in OpenIn(d, h, n) : j <= p /\ (j # p => h[j] < h[n] - 1)
              /\ OpenIn(d, h, n) = OpenIn(d, h, p) \cup {p}
  <1>1. PICK p \in OpenIn(d, h, n) : h[p] = h[n] - 1
    BY DEF NestedIn
  <1>2. OpenIn(d, h, n) \subseteq 1..n-1
    BY OpenBefore
  <1>3. ASSUME NEW j \in OpenIn(d, h, n)
        PROVE  j <= p /\ (j # p => h[j] < h[n] - 1)
    <2>1. j \in Nat /\ p \in Nat /\ h[j] \in Nat /\ h[p] \in Nat /\ h[n] \in Nat
      BY <1>2
    <2>2. h[j] < h[n]
      BY OpenNests
    <2>3. p < j => h[p] < h[j]
      BY OpenNests
    <2>4. j < p => h[j] < h[p]
      BY OpenNests
    <2> QED
      BY <1>1, <2>1, <2>2, <2>3, <2>4
  <1>4. OpenIn(d, h, p) = {k \in OpenIn(d, h, n) : k < p}
    BY OpenNests
  <1>5. \A k \in OpenIn(d, h, n) : k < p \/ k = p
    BY <1>2, <1>3
  <1>6. ~(p < p)
    BY <1>2
  <1>7. OpenIn(d, h, n) = OpenIn(d, h, p) \cup {p}
    BY <1>4, <1>5, <1>6
  <1> QED
    BY <1>1, <1>3, <1>7

LEMMA NestedAfterStart ==
    ASSUME NEW d, NEW h, NEW n \in Nat \ {0}, \A k \in 1..n+1 : h[k] \in Nat,
           d[n] \notin {End, Broken}, h[n+1] = h[n] + 1, NestedIn(d, h, n)
    PROVE  NestedIn(d, h, n+1)
  <1>1. OpenIn(d, h, n+1) = OpenIn(d, h, n) \cup {n}
    BY OpenAfterStart
  <1>2. Cardinality(OpenIn(d, h, n+1)) = h[n] + 1
    <2>1. IsFiniteSet(OpenIn(d, h, n)) /\ n \notin OpenIn(d, h, n)
      BY OpenBefore
    <2>2. Cardinality(OpenIn(d, h, n)) = h[n]
      BY DEF NestedIn
    <2> QED
      BY <1>1, <2>1, <2>2, FS_AddElement
  <1>3. ASSUME NEW e \in 0..h[n+1]-1
        PROVE  \E j \in OpenIn(d, h, n+1) : h[j] = e
    <2>1. h[n] \in Nat /\ (e \in 0..h[n]-1 \/ e = h[n])
      OBVIOUS
    <2> QED
      BY <1>1, <2>1 DEF NestedIn
  <1> QED
    BY <1>2, <1>3 DEF NestedIn

LEMMA NestedAfterEnd ==
    ASSUME NEW d, NEW h, NEW n \in Nat \ {0}, \A k \in 1..n+1 : h[k] \in Nat,
           d[n] = End, h[n] > 0, h[n+1] = h[n] - 1, NestedIn(d, h, n)
    PROVE  NestedIn(d, h, n+1)
  <1>1. \A j : j \in OpenIn(d, h, n+1) <=> j \in OpenIn(d, h, n) /\ h[j] < h[n] - 1
    BY OpenAfterEnd
  <1>2. PICK p \in OpenIn(d, h, n) :
              /\ h[p] = h[n] - 1
              /\ \A j \in OpenIn(d, h, n) : j <= p /\ (j # p => h[j] < h[n] - 1)
    BY InnermostOpen
  <1>3. OpenIn(d, h, n+1) = OpenIn(d, h, n) \ {p}
    <2>1. h[n] \in Nat
      OBVIOUS
    <2> QED
      BY <1>1, <1>2, <2>1
  <1>4. Cardinality(OpenIn(d, h, n+1)) = h[n] - 1
    <2>1. IsFiniteSet(OpenIn(d, h, n))
      BY OpenBefore
    <2>2. Cardinality(OpenIn(d, h, n)) = h[n]
      BY DEF NestedIn
    <2> QED
      BY <1>2, <1>3, <2>1, <2>2, FS_RemoveElement
  <1>5. ASSUME NEW e \in 0..h[n+1]-1
        PROVE  \E j \in OpenIn(d, h, n+1) : h[j] = e
    <2>1. e \in 0..h[n]-1 /\ e < h[n] - 1
      OBVIOUS
    <2> QED
      BY <1>1, <2>1 DEF NestedIn
  <1> QED
    BY <1>4, <1>5 DEF NestedIn

\* The extremes of a set of positions.
LEMMA Extremes ==
    ASSUME NEW n \in Nat, NEW A \in SUBSET (1..n), A # {}
    PROVE  /\ Max(A) \in A /\ \A k \in A : k <= Max(A)
           /\ Min(A) \in A /\ \A k \in A : Min(A) <= k
  <1> DEFINE B == {n - k : k \in A}
  <1>1. \E x \in B : \A y \in B : ~(y < x)
    <2>1. B \subseteq Nat /\ B # {}
      <3>1. \A k \in A : k \in Nat /\ n - k \in Nat
        OBVIOUS
      <3> QED
        BY <3>1
    <2>2. \A x, y \in B : <<y, x>> \in OpToRel(<, Nat) <=> y < x
      BY <2>1 DEF OpToRel
    <2> HIDE DEF B
    <2> QED
      BY <2>1, <2>2, NatLessThanWellFounded, WFMin
  <1>2. \E x \in A : \A y \in A : ~(y < x)
    <2>1. A \subseteq Nat
      OBVIOUS
    <2>2. \A x, y \in A : <<y, x>> \in OpToRel(<, Nat) <=> y < x
      BY <2>1 DEF OpToRel
    <2> QED
      BY <2>1, <2>2, NatLessThanWellFounded, WFMin
  <1>3. \E x \in A : \A y \in A : x >= y
    <2>1. PICK x \in A : \A y \in A : ~(n - y < n - x)
      BY <1>1
    <2>2. \A y \in A : x >= y
      BY <2>1
    <2> QED
      BY <2>2
  <1>4. \E x \in A : \A y \in A : x =< y
    BY <1>2
  <1>5. Max(A) \in A /\ \A y \in A : Max(A) >= y
    BY <1>3 DEF Max
  <1>6. Min(A) \in A /\ \A y \in A : Min(A) =< y
    BY <1>4 DEF Min
  <1> QED
    BY <1>5, <1>6

\* What is open at a tag depends on what is before it.
LEMMA OpenByPrefix ==
    ASSUME NEW d, NEW h, NEW d2, NEW h2, NEW n \in Nat,
           \A k \in 1..n-1 : d2[k] = d[k], \A k \in 1..n : h2[k] = h[k]
    PROVE  OpenIn(d2, h2, n) = OpenIn(d, h, n)
  <1>1. \A j \in 1..n-1 : \A k \in j+1..n : k \in 1..n /\ j \in 1..n
    OBVIOUS
  <1> QED
    BY <1>1 DEF OpenIn

LEMMA BaseByPrefix ==
    ASSUME NEW d, NEW d2, NEW n \in Nat, NEW X \in SUBSET (1..n), \A k \in X : d2[k] = d[k]
    PROVE  BaseOf(d2, X) = BaseOf(d, X)
  <1>1. ScopesOf(d2, X) = ScopesOf(d, X)
    BY DEF ScopesOf
  <1>2. AnchorsOf(d2, X) = AnchorsOf(d, X) /\ AnchorsOf(d, X) \subseteq X
    BY <1>1 DEF AnchorsOf, ScopesOf
  <1>3. RelativesOf(d2, X) = RelativesOf(d, X)
    BY <1>1, <1>2 DEF RelativesOf
  <1>4. AnchorOf(d2, X) = AnchorOf(d, X)
    <2>1. CASE AnchorsOf(d, X) # {}
      <3>1. d2[Max(AnchorsOf(d, X))] = d[Max(AnchorsOf(d, X))]
        BY <1>2, <2>1, Extremes
      <3> QED
        BY <1>2, <1>3, <3>1 DEF AnchorOf
    <2>2. CASE AnchorsOf(d, X) = {}
      BY <1>2, <2>2 DEF AnchorOf
    <2> QED
      BY <2>1, <2>2
  <1> QED
    BY <1>3, <1>4 DEF BaseOf

LEMMA BaseOfNone ==
    ASSUME NEW d
    PROVE  BaseOf(d, {}) = Source
  <1>1. AnchorOf(d, {}) = Source
    BY DEF AnchorOf, AnchorsOf, ScopesOf
  <1>2. RelativesOf(d, {}) = {}
    BY DEF RelativesOf, ScopesOf
  <1>3. Relative(0) = <<>>
    BY DEF Relative
  <1>4. Source \in Seq({"source"})
    BY DEF Source
  <1> QED
    BY <1>1, <1>2, <1>3, <1>4, FS_EmptySet, ConcatEmptySeq DEF BaseOf

\* The innermost element with an xml:base turns the base around it into its own.
LEMMA BaseInside ==
    ASSUME NEW d, NEW n \in Nat, NEW X \in SUBSET (1..n-1), d[n] \in AllElements
    PROVE  BaseOf(d, X \cup {n}) = BaseFor(BaseOf(d, X), d[n])
  <1> DEFINE Y == X \cup {n}
             ref == d[n].base
             R == RelativesOf(d, X)
             A == AnchorsOf(d, X)
  <1>0. /\ \A k \in X : k \in Nat /\ k < n
        /\ ~(n < n)
    OBVIOUS
  <1>1. CASE ref = NoRef
    <2>1. ScopesOf(d, Y) = ScopesOf(d, X)
      BY <1>1 DEF ScopesOf
    <2>2. AnchorsOf(d, Y) = AnchorsOf(d, X)
      BY <2>1 DEF AnchorsOf
    <2>3. RelativesOf(d, Y) = RelativesOf(d, X)
      BY <2>1, <2>2 DEF RelativesOf
    <2>4. AnchorOf(d, Y) = AnchorOf(d, X)
      BY <2>2, <2>3 DEF AnchorOf
    <2> QED
      BY <1>1, <2>3, <2>4 DEF BaseOf, BaseFor
  <1>2. CASE ref \in {"", "bad", "absolute"}
    <2>1. ScopesOf(d, Y) = ScopesOf(d, X) \cup {n}
      BY <1>2 DEF ScopesOf, NoRef
    <2>2. AnchorsOf(d, Y) = A \cup {n}
      BY <1>2, <2>1 DEF AnchorsOf
    <2>3. A \subseteq X /\ ScopesOf(d, X) \subseteq X
      BY DEF AnchorsOf, ScopesOf
    <2>4. RelativesOf(d, Y) = {}
      <3>1. ASSUME NEW j \in RelativesOf(d, Y)
            PROVE  FALSE
        <4>1. j \in ScopesOf(d, X) \cup {n} /\ n < j
          BY <2>1, <2>2 DEF RelativesOf
        <4>2. CASE j \in X
          <5>1. j < n /\ n \in Nat /\ j \in Nat
            BY <1>0, <4>2
          <5> QED
            BY <4>1, <5>1
        <4>3. CASE j = n
          BY <1>0, <4>1, <4>3
        <4> QED
          BY <2>3, <4>1, <4>2, <4>3
      <3> QED
        BY <3>1
    <2>5. Max(A \cup {n}) = n
      <3> HIDE DEF A
      <3>1. \A k \in A \cup {n} : k \in Nat /\ k <= n
        BY <1>0, <2>3
      <3>2. \A j \in A \cup {n} : (\A k \in A \cup {n} : j >= k) <=> j = n
        BY <3>1
      <3> QED
        BY <3>2 DEF Max
    <2>6. AnchorOf(d, Y) = IF ref = "" THEN NoURL ELSE <<ref>>
      <3>1. AnchorsOf(d, Y) # {} /\ d[Max(AnchorsOf(d, Y))].base = ref
        BY <2>2, <2>5
      <3> HIDE DEF A, Y, ref
      <3> QED
        BY <1>2, <2>4, <3>1 DEF AnchorOf
    <2>7. AnchorOf(d, Y) \in Seq({"bad", "absolute"})
      <3> HIDE DEF ref, Y
      <3>1. CASE ref = ""
        <4>1. AnchorOf(d, Y) = <<>>
          BY <2>6, <3>1 DEF NoURL
        <4> QED
          BY <4>1
      <3>2. CASE ref \in {"bad", "absolute"}
        <4>1. AnchorOf(d, Y) = <<ref>>
          BY <2>6, <3>2
        <4> QED
          BY <3>2, <4>1
      <3> QED
        BY <1>2, <3>1, <3>2
    <2>8. BaseOf(d, Y) = AnchorOf(d, Y)
      <3>1. Relative(Cardinality({})) = <<>>
        BY FS_EmptySet DEF Relative
      <3> QED
        BY <2>4, <2>7, <3>1, ConcatEmptySeq DEF BaseOf
    <2>9. Resolve(BaseOf(d, X), ref) = IF ref = "" THEN NoURL ELSE <<ref>>
      <3> HIDE DEF ref
      <3>1. CASE ref = ""
        BY <3>1 DEF Resolve
      <3>2. CASE ref \in {"bad", "absolute"}
        BY <3>2 DEF Resolve
      <3> QED
        BY <1>2, <3>1, <3>2
    <2> QED
      BY <1>2, <2>6, <2>8, <2>9 DEF BaseFor, NoRef
  <1>3. CASE ref = "relative"
    <2>1. ScopesOf(d, Y) = ScopesOf(d, X) \cup {n}
      BY <1>3 DEF ScopesOf, NoRef
    <2>2. AnchorsOf(d, Y) = A
      BY <1>3, <2>1 DEF AnchorsOf
    <2>3. A \subseteq X /\ ScopesOf(d, X) \subseteq X
      BY DEF AnchorsOf, ScopesOf
    <2>4. RelativesOf(d, Y) = R \cup {n}
      BY <1>0, <2>1, <2>2, <2>3 DEF RelativesOf
    <2>5. IsFiniteSet(R) /\ n \notin R
      <3>1. R \subseteq X /\ IsFiniteSet(1..n-1)
        BY FS_Interval DEF RelativesOf, ScopesOf
      <3>2. R \subseteq 1..n-1
        BY <3>1
      <3> QED
        BY <3>1, <3>2, FS_Subset
    <2>6. /\ Cardinality(R) \in Nat
          /\ Cardinality(R \cup {n}) = Cardinality(R) + 1
          /\ Cardinality(R) = 0 <=> R = {}
      <3> HIDE DEF R
      <3> QED
        BY <2>5, FS_AddElement, FS_CardinalityType, FS_EmptySet
    <2> DEFINE r == d[Max(A)].base
               m == Cardinality(R)
    <2>7. AnchorOf(d, X) = IF A = {} THEN Source ELSE
                           IF r = "absolute" \/ (r = "bad" /\ R = {}) THEN <<r>> ELSE NoURL
      BY DEF AnchorOf
    <2>8. AnchorOf(d, Y) = IF A = {} THEN Source ELSE IF r = "absolute" THEN <<r>> ELSE NoURL
      <3>1. RelativesOf(d, Y) # {}
        BY <2>4
      <3> HIDE DEF A, Y
      <3> QED
        BY <2>2, <3>1 DEF AnchorOf
    <2>9. BaseOf(d, X) = AnchorOf(d, X) \o Relative(m) /\ BaseOf(d, Y) = AnchorOf(d, Y) \o Relative(m+1)
      BY <2>4, <2>6 DEF BaseOf
    <2> HIDE DEF A, R, r, m
    <2>10. Relative(m) \in Seq({"relative"}) /\ Len(Relative(m)) = m
           /\ Relative(m+1) = Append(Relative(m), "relative")
      BY <2>6 DEF m, Relative
    <2>11. CASE A # {} /\ r = "bad" /\ R = {}
      <3>1. m = 0 /\ Relative(m) = <<>> /\ Relative(m+1) = <<"relative">>
        BY <2>6, <2>11 DEF m, Relative
      <3>2. AnchorOf(d, X) = <<"bad">> /\ AnchorOf(d, Y) = <<>>
        BY <2>7, <2>8, <2>11 DEF NoURL
      <3>3. BaseOf(d, X) = <<"bad">> /\ BaseOf(d, Y) = <<"relative">>
        <4>1. <<"bad">> \in Seq({"bad"}) /\ <<"relative">> \in Seq({"relative"})
          OBVIOUS
        <4> QED
          BY <2>9, <3>1, <3>2, <4>1, ConcatEmptySeq
      <3> QED
        BY <1>3, <3>3 DEF BaseFor, Resolve, NoRef
    <2>12. CASE ~(A # {} /\ r = "bad" /\ R = {})
      <3>1. AnchorOf(d, Y) = AnchorOf(d, X)
        BY <2>7, <2>8, <2>12
      <3>2. AnchorOf(d, X) \in Seq({"source", "absolute"})
        <4>1. Source \in Seq({"source", "absolute"}) /\ NoURL \in Seq({"source", "absolute"})
          BY DEF Source, NoURL
        <4>2. r = "absolute" => <<r>> \in Seq({"source", "absolute"})
          OBVIOUS
        <4> QED
          BY <2>7, <2>12, <4>1, <4>2
      <3>3. BaseOf(d, X) # <<"bad">>
        <4>1. BaseOf(d, X) \in Seq({"source", "absolute", "relative"})
          <5>1. /\ AnchorOf(d, X) \in Seq({"source", "absolute", "relative"})
                /\ Relative(m) \in Seq({"source", "absolute", "relative"})
            BY <2>10, <3>2
          <5> QED
            BY <2>9, <5>1, ConcatProperties
        <4>2. <<"bad">>[1] = "bad" /\ Len(<<"bad">>) = 1
          OBVIOUS
        <4>3. Len(BaseOf(d, X)) = 1 => BaseOf(d, X)[1] \in {"source", "absolute", "relative"}
          BY <4>1, ElementOfSeq
        <4> QED
          BY <4>2, <4>3
      <3>4. BaseOf(d, Y) = Append(BaseOf(d, X), "relative")
        <4> DEFINE a == AnchorOf(d, X)
                   b == Relative(m)
        <4>1. a \in Seq({"source", "absolute", "relative"}) /\ b \in Seq({"source", "absolute", "relative"})
          BY <2>10, <3>2
        <4>2. BaseOf(d, Y) = a \o Append(b, "relative") /\ BaseOf(d, X) = a \o b
          BY <2>9, <2>10, <3>1
        <4> HIDE DEF a, b
        <4>3. a \o Append(b, "relative") = Append(a \o b, "relative")
          BY <4>1
        <4> QED
          BY <4>2, <4>3
      <3> QED
        BY <1>3, <3>3, <3>4 DEF BaseFor, Resolve, NoRef
    <2> QED
      BY <2>11, <2>12
  <1> QED
    BY <1>1, <1>2, <1>3 DEF AllElements, References, NoRef

\* What a tag is in depends on what is before it.
LEMMA SameOpening ==
    ASSUME NEW d, NEW h, NEW d2, NEW h2, d \in Seq(Tag), Begins(d, h, d2, h2),
           NEW n \in 1..Len(d)+1
    PROVE  OpenIn(d2, h2, n) = OpenIn(d, h, n) /\ OpenIn(d, h, n) \subseteq 1..n-1
  <1>0. Len(d) \in Nat /\ n \in Nat
    OBVIOUS
  <1>1. (\A k \in 1..n-1 : d2[k] = d[k]) /\ (\A k \in 1..n : h2[k] = h[k])
    BY <1>0 DEF Begins
  <1> QED
    BY <1>0, <1>1, OpenByPrefix, OpenBefore

LEMMA SameInside ==
    ASSUME NEW d, NEW h, NEW d2, NEW h2, d \in Seq(Tag), Begins(d, h, d2, h2),
           NEW n \in 1..Len(d)+1, NEW name
    PROVE  InsideIn(d2, h2, n, name) <=> InsideIn(d, h, n, name)
  <1>1. OpenIn(d2, h2, n) = OpenIn(d, h, n) /\ OpenIn(d, h, n) \subseteq 1..n-1
    BY SameOpening
  <1>2. \A k \in 1..n-1 : d2[k] = d[k]
    <2>1. Len(d) \in Nat
      OBVIOUS
    <2> QED
      BY <2>1 DEF Begins
  <1> QED
    BY <1>1, <1>2 DEF InsideIn

LEMMA SameBase ==
    ASSUME NEW d, NEW h, NEW d2, NEW h2, d \in Seq(Tag), Begins(d, h, d2, h2),
           NEW n \in 1..Len(d)
    PROVE  BaseIn(d2, h2, n) = BaseIn(d, h, n)
  <1>0. Len(d) \in Nat /\ n \in 1..Len(d)+1 /\ 1..n-1 \subseteq 1..Len(d)
    OBVIOUS
  <1>1. OpenIn(d2, h2, n) = OpenIn(d, h, n) /\ OpenIn(d, h, n) \subseteq 1..n-1
    BY <1>0, SameOpening
  <1>2. OpenIn(d, h, n) \cup {n} \in SUBSET (1..Len(d))
    BY <1>0, <1>1
  <1>3. \A k \in OpenIn(d, h, n) \cup {n} : d2[k] = d[k]
    BY <1>2 DEF Begins
  <1>4. BaseOf(d2, OpenIn(d, h, n) \cup {n}) = BaseOf(d, OpenIn(d, h, n) \cup {n})
    BY <1>0, <1>2, <1>3, BaseByPrefix
  <1> QED
    BY <1>1, <1>4 DEF BaseIn

LEMMA SameMarks ==
    ASSUME NEW d, NEW h, NEW d2, NEW h2, d \in Seq(Tag), Begins(d, h, d2, h2),
           NEW n \in 1..Len(d)
    PROVE  /\ IsWrittenIn(d2, h2, n) <=> IsWrittenIn(d, h, n)
           /\ IsNextIn(d2, h2, n) <=> IsNextIn(d, h, n)
  <1>1. d2[n] = d[n] /\ n \in 1..Len(d)+1
    BY DEF Begins
  <1>2. /\ InsideIn(d2, h2, n, "text") <=> InsideIn(d, h, n, "text")
        /\ InsideIn(d2, h2, n, "entry") <=> InsideIn(d, h, n, "entry")
    BY <1>1, SameInside
  <1> QED
    BY <1>1, <1>2 DEF IsWrittenIn, IsNextIn

LEMMA DepthFacts ==
    ASSUME NEW d, NEW h, DocumentOK(d, h)
    PROVE  /\ Len(d) \in Nat /\ \A n \in 1..Len(d)+1 : h[n] \in 0..MaxDepth
           /\ h[1] = 0
           /\ \A n \in 1..Len(d) :
                /\ d[n] \in Tag
                /\ d[n] = End => h[n] > 0 /\ h[n+1] = h[n] - 1
                /\ d[n] = Broken => h[n+1] = h[n]
                /\ d[n] \notin {End, Broken} => d[n] \in Elements /\ d[n] \in AllElements /\ h[n+1] = h[n] + 1
           /\ \A n \in 1..Len(d)+1 : /\ n \in Nat /\ NestedIn(d, h, n)
                                     /\ \A k \in 1..n : h[k] \in Nat
  <1>1. Len(d) \in Nat /\ \A n \in 1..Len(d)+1 : h[n] \in 0..MaxDepth
    <2>1. h \in Seq(0..MaxDepth) /\ Len(h) = Len(d) + 1 /\ d \in Seq(Tag)
      BY DEF DocumentOK
    <2>2. Len(d) \in Nat
      BY <2>1
    <2>3. \A n \in 1..Len(d)+1 : h[n] \in 0..MaxDepth
      BY <2>1, ElementOfSeq
    <2> QED
      BY <2>2, <2>3
  <1>2. \A n \in 1..Len(d) : d[n] \in Tag
    BY DEF DocumentOK
  <1>3. End # Broken /\ Elements \subseteq AllElements
    BY XMLBaseAssumption DEF End, Broken
  <1>4. \A n \in 1..Len(d)+1 : /\ n \in Nat /\ NestedIn(d, h, n)
                               /\ \A k \in 1..n : h[k] \in Nat
    BY <1>1 DEF DocumentOK
  <1>5. h[1] = 0
    <2>1. OpenIn(d, h, 1) = {}
      BY DEF OpenIn
    <2>2. 1 \in 1..Len(d)+1
      BY <1>1
    <2> QED
      BY <1>4, <2>1, <2>2, FS_EmptySet DEF NestedIn
  <1>6. \A n \in 1..Len(d) :
          IF d[n] = End THEN h[n] > 0 /\ h[n+1] = h[n] - 1
          ELSE h[n+1] = IF d[n] = Broken THEN h[n] ELSE h[n] + 1
    BY DEF DocumentOK
  <1> QED
    BY <1>1, <1>2, <1>3, <1>4, <1>5, <1>6 DEF Tag

\* The base that an element finds on the stack.
LEMMA BaseOnStack ==
    ASSUME NEW d, NEW h, DocumentOK(d, h), NEW n \in 1..Len(d)+1,
           NEW below \in {0, 1}, NEW b \in Seq(URLs), StackIn(b, d, h, below, n),
           below = 1 => b[1] = Source
    PROVE  (IF b = <<>> THEN Source ELSE b[Len(b)]) = BaseOf(d, OpenIn(d, h, n))
  <1>1. n \in Nat /\ n > 0 /\ (\A k \in 1..n : h[k] \in Nat) /\ NestedIn(d, h, n) /\ h[n] \in Nat
    BY DepthFacts
  <1>2. Len(b) = below + h[n] /\ (b = <<>> <=> Len(b) = 0)
    BY DEF StackIn
  <1>3. CASE h[n] = 0
    <2>1. BaseOf(d, OpenIn(d, h, n)) = Source
      BY <1>1, <1>3, NothingOpen, BaseOfNone
    <2> QED
      BY <1>2, <1>3, <2>1
  <1>4. CASE h[n] > 0
    <2>1. PICK p \in OpenIn(d, h, n) : h[p] = h[n] - 1 /\ OpenIn(d, h, n) = OpenIn(d, h, p) \cup {p}
      BY <1>1, <1>4, InnermostOpen
    <2>2. b[below + h[p] + 1] = BaseIn(d, h, p)
      BY DEF StackIn
    <2>3. below + h[p] + 1 = Len(b) /\ b # <<>>
      BY <1>1, <1>2, <1>4, <2>1
    <2> QED
      BY <2>1, <2>2, <2>3 DEF BaseIn
  <1> QED
    BY <1>1, <1>3, <1>4

LEMMA BaseOfElement ==
    ASSUME NEW d, NEW h, DocumentOK(d, h), NEW n \in 1..Len(d), d[n] \notin {End, Broken}
    PROVE  BaseIn(d, h, n) = BaseFor(BaseOf(d, OpenIn(d, h, n)), d[n])
  <1>1. n \in Nat /\ d[n] \in AllElements
    BY DepthFacts
  <1>2. OpenIn(d, h, n) \in SUBSET (1..n-1)
    BY <1>1, OpenBefore
  <1> QED
    BY <1>1, <1>2, BaseInside DEF BaseIn

LEMMA PlaceOnStack ==
    ASSUME NEW x \in Nat, NEW y \in Nat, NEW below \in {0, 1}
    PROVE  /\ x < y => below + x + 1 \in 1..(below + y)
           /\ x < y - 1 => below + x + 1 \in 1..(below + y) - 1
  OBVIOUS

LEMMA Pushed ==
    ASSUME NEW d, NEW h, DocumentOK(d, h), NEW n \in 1..Len(d), d[n] \notin {End, Broken},
           NEW below \in {0, 1}, NEW b \in Seq(URLs), StackIn(b, d, h, below, n),
           BaseIn(d, h, n) \in URLs
    PROVE  StackIn(Append(b, BaseIn(d, h, n)), d, h, below, n+1)
  <1> DEFINE c == Append(b, BaseIn(d, h, n))
  <1>1. Len(d) \in Nat /\ n \in Nat \ {0} /\ n+1 \in 1..Len(d)+1
    BY DepthFacts
  <1>2. (\A k \in 1..n+1 : h[k] \in Nat) /\ h[n+1] = h[n] + 1 /\ h[n] \in Nat
    BY <1>1, DepthFacts
  <1>3. OpenIn(d, h, n+1) = OpenIn(d, h, n) \cup {n}
    BY <1>1, <1>2, OpenAfterStart
  <1>4. /\ Len(c) = Len(b) + 1 /\ c[Len(b)+1] = BaseIn(d, h, n)
        /\ \A k \in 1..Len(b) : c[k] = b[k]
    BY AppendProperties
  <1>5. Len(b) = below + h[n]
    BY DEF StackIn
  <1> HIDE DEF c
  <1>6. ASSUME NEW j \in OpenIn(d, h, n)
        PROVE  c[below + h[j] + 1] = BaseIn(d, h, j)
    <2>1. h[j] \in Nat /\ h[j] < h[n]
      BY <1>1, <1>2, OpenNests, OpenBefore
    <2>2. below + h[j] + 1 \in 1..Len(b)
      BY <1>2, <1>5, <2>1, PlaceOnStack
    <2> QED
      BY <1>4, <2>2 DEF StackIn
  <1>7. c[below + h[n] + 1] = BaseIn(d, h, n)
    BY <1>4, <1>5
  <1>8. Len(c) = below + h[n+1]
    BY <1>2, <1>4, <1>5
  <1>9. StackIn(c, d, h, below, n+1)
    BY <1>3, <1>6, <1>7, <1>8 DEF StackIn
  <1> QED
    BY <1>9 DEF c

LEMMA Popped ==
    ASSUME NEW d, NEW h, DocumentOK(d, h), NEW n \in 1..Len(d), d[n] = End,
           NEW below \in {0, 1}, NEW b \in Seq(URLs), StackIn(b, d, h, below, n)
    PROVE  /\ StackIn(Front(b), d, h, below, n+1)
           /\ Front(b) \in Seq(URLs) /\ Len(Front(b)) = Len(b) - 1
           /\ \A k \in 1..Len(b)-1 : Front(b)[k] = b[k]
  <1>1. Len(d) \in Nat /\ n \in Nat \ {0} /\ n+1 \in 1..Len(d)+1
    BY DepthFacts
  <1>2. (\A k \in 1..n+1 : h[k] \in Nat) /\ h[n+1] = h[n] - 1 /\ h[n] \in Nat /\ h[n] > 0
    BY <1>1, DepthFacts
  <1>3. \A j \in OpenIn(d, h, n+1) : j \in OpenIn(d, h, n) /\ h[j] < h[n] - 1
    BY <1>1, <1>2, OpenAfterEnd
  <1>4. Len(b) = below + h[n]
    BY DEF StackIn
  <1>5. /\ Front(b) \in Seq(URLs) /\ Len(Front(b)) = Len(b) - 1
        /\ \A k \in 1..Len(b)-1 : Front(b)[k] = b[k]
    BY <1>2, <1>4 DEF Front
  <1>6. ASSUME NEW j \in OpenIn(d, h, n+1)
        PROVE  Front(b)[below + h[j] + 1] = BaseIn(d, h, j)
    <2>1. j \in OpenIn(d, h, n) /\ h[j] < h[n] - 1
      BY <1>3
    <2>2. h[j] \in Nat
      BY <1>1, <1>2, <2>1, OpenBefore
    <2>3. below + h[j] + 1 \in 1..Len(b)-1
      BY <1>2, <1>4, <2>1, <2>2, PlaceOnStack
    <2> QED
      BY <1>5, <2>1, <2>3 DEF StackIn
  <1> QED
    BY <1>2, <1>4, <1>5, <1>6 DEF StackIn

LEMMA StackBegins ==
    ASSUME NEW d, NEW h, NEW d2, NEW h2, d \in Seq(Tag), Begins(d, h, d2, h2),
           NEW n \in 1..Len(d)+1, NEW b, NEW below, StackIn(b, d, h, below, n)
    PROVE  StackIn(b, d2, h2, below, n)
  <1>1. Len(d) \in Nat /\ n \in Nat
    OBVIOUS
  <1>2. OpenIn(d2, h2, n) = OpenIn(d, h, n) /\ OpenIn(d, h, n) \subseteq 1..n-1
    BY SameOpening
  <1>3. h2[n] = h[n] /\ \A j \in 1..n-1 : j \in 1..Len(d) /\ h2[j] = h[j]
    BY <1>1 DEF Begins
  <1>4. \A j \in OpenIn(d, h, n) : BaseIn(d2, h2, j) = BaseIn(d, h, j)
    BY <1>2, <1>3, SameBase
  <1> QED
    BY <1>2, <1>3, <1>4 DEF StackIn

LEMMA OutputBegins ==
    ASSUME NEW d, NEW h, NEW d2, NEW h2, d \in Seq(Tag), Begins(d, h, d2, h2),
           NEW n \in 1..Len(d)+1, NEW u, OutputIn(u, d, h, n)
    PROVE  OutputIn(u, d2, h2, n)
  <1>1. Len(d) \in Nat /\ \A m \in 1..n-1 : m \in 1..Len(d)
    OBVIOUS
  <1>2. \A m \in 1..n-1 : d2[m] = d[m] /\ BaseIn(d2, h2, m) = BaseIn(d, h, m)
    BY <1>1, SameBase DEF Begins
  <1>3. \A m \in 1..n-1 : IsWrittenIn(d2, h2, m) <=> IsWrittenIn(d, h, m)
    BY <1>1, SameMarks
  <1> QED
    BY <1>2, <1>3 DEF OutputIn

LEMMA ReadTag ==
    ASSUME XMLTypeOK, DocumentOK(doc, depth), NEW token \in Tag, Read(token)
    PROVE  /\ DocumentOK(doc', depth') /\ Begins(doc, depth, doc', depth')
           /\ here \in 1..Len(doc') /\ doc'[here] = token
           /\ \/ doc' = doc /\ depth' = depth /\ here <= Len(doc)
              \/ here = Len(doc) + 1 /\ Len(doc') = Len(doc) + 1 /\ result # "output"
  <1>1. Len(doc) \in Nat /\ here \in 1..Len(doc)+1 /\ doc \in Seq(Tag)
        /\ depth \in Seq(0..MaxDepth) /\ Len(depth) = Len(doc) + 1
    BY DEF XMLTypeOK, Tag
  <1>2. CASE here <= Len(doc)
    <2>1. token = doc[here] /\ doc' = doc /\ depth' = depth
      BY <1>2 DEF Read, tags
    <2> QED
      BY <1>1, <1>2, <2>1 DEF Begins
  <1>3. CASE ~(here <= Len(doc))
    <2> DEFINE n == Len(doc) + 1
               e == IF token = End THEN depth[n] - 1 ELSE IF token = Broken THEN depth[n] ELSE depth[n] + 1
    <2>1. here = n /\ n \in 1..n
      BY <1>1, <1>3
    <2>2. /\ Len(doc) < MaxTags /\ result # "output" /\ doc' = Append(doc, token)
          /\ token = End => depth[n] > 0
          /\ token \notin {End, Broken} => depth[n] < MaxDepth
          /\ depth' = Append(depth, e)
      BY <1>3, <2>1 DEF Read, End, Broken
    <2>3. depth[n] \in 0..MaxDepth /\ MaxDepth \in Nat /\ MaxTags \in Nat
      BY <1>1, <2>1, ElementOfSeq, XMLBaseAssumption
    <2>4. e \in 0..MaxDepth
      BY <2>2, <2>3
    <2>5. /\ doc' \in Seq(Tag) /\ Len(doc') = n /\ doc'[n] = token
          /\ \A k \in 1..Len(doc) : doc'[k] = doc[k]
      BY <1>1, <2>2, AppendProperties
    <2>6. /\ depth' \in Seq(0..MaxDepth) /\ Len(depth') = n + 1 /\ depth'[n+1] = e
          /\ \A k \in 1..n : depth'[k] = depth[k]
      <3> HIDE DEF e
      <3> QED
        BY <1>1, <2>2, <2>4, AppendProperties
    <2> HIDE DEF e
    <2>7. Begins(doc, depth, doc', depth')
      BY <1>1, <2>5, <2>6 DEF Begins
    <2>8. \A k \in 1..n+1 : depth'[k] \in Nat
      <3>1. n \in Nat
        BY <1>1
      <3> HIDE DEF n
      <3>2. \A k \in 1..n+1 : depth'[k] \in 0..MaxDepth
        BY <2>6, ElementOfSeq
      <3> QED
        BY <3>2
    <2>9. \A k \in 1..n : NestedIn(doc', depth', k)
      <3>1. ASSUME NEW k \in 1..n
            PROVE  NestedIn(doc', depth', k)
        <4>1. NestedIn(doc, depth, k)
          BY DEF DocumentOK
        <4>2. OpenIn(doc', depth', k) = OpenIn(doc, depth, k) /\ OpenIn(doc, depth, k) \subseteq 1..k-1
          BY <1>1, <2>7, SameOpening
        <4>3. depth'[k] = depth[k] /\ \A j \in 1..k-1 : depth'[j] = depth[j]
          BY <1>1, <2>6
        <4> QED
          BY <4>1, <4>2, <4>3 DEF NestedIn
      <3> QED
        BY <3>1
    <2>10. n \in Nat \ {0} /\ NestedIn(doc', depth', n) /\ depth'[n] = depth[n]
      BY <1>1, <2>1, <2>6, <2>9
    <2>11. NestedIn(doc', depth', n+1)
      <3>1. CASE token = End
        <4>1. e = depth[n] - 1
          BY <3>1 DEF e
        <4> QED
          BY <2>2, <2>5, <2>6, <2>8, <2>10, <3>1, <4>1, NestedAfterEnd
      <3>2. CASE token = Broken
        <4>1. e = depth[n]
          BY <3>2 DEF e, End, Broken
        <4>2. OpenIn(doc', depth', n+1) = OpenIn(doc', depth', n) /\ depth'[n+1] = depth'[n]
          BY <2>5, <2>6, <2>8, <2>10, <3>2, <4>1, OpenAfterBroken
        <4> QED
          BY <2>10, <4>2 DEF NestedIn
      <3>3. CASE token \notin {End, Broken}
        <4>1. e = depth[n] + 1
          BY <3>3 DEF e
        <4> QED
          BY <2>5, <2>6, <2>8, <2>10, <3>3, <4>1, NestedAfterStart
      <3> QED
        BY <3>1, <3>2, <3>3
    <2>12. \A k \in 1..n :
              IF doc'[k] = End THEN depth'[k] > 0 /\ depth'[k+1] = depth'[k] - 1
              ELSE depth'[k+1] = IF doc'[k] = Broken THEN depth'[k] ELSE depth'[k] + 1
      <3>1. ASSUME NEW k \in 1..Len(doc)
            PROVE  IF doc'[k] = End THEN depth'[k] > 0 /\ depth'[k+1] = depth'[k] - 1
                   ELSE depth'[k+1] = IF doc'[k] = Broken THEN depth'[k] ELSE depth'[k] + 1
        <4>1. doc'[k] = doc[k] /\ depth'[k] = depth[k] /\ depth'[k+1] = depth[k+1]
          BY <1>1, <2>5, <2>6
        <4>2. IF doc[k] = End THEN depth[k] > 0 /\ depth[k+1] = depth[k] - 1
              ELSE depth[k+1] = IF doc[k] = Broken THEN depth[k] ELSE depth[k] + 1
          BY DEF DocumentOK
        <4> QED
          BY <4>1, <4>2
      <3>2. IF doc'[n] = End THEN depth'[n] > 0 /\ depth'[n+1] = depth'[n] - 1
            ELSE depth'[n+1] = IF doc'[n] = Broken THEN depth'[n] ELSE depth'[n] + 1
        BY <2>2, <2>5, <2>6, <2>10 DEF e
      <3>3. \A k \in 1..n : k \in 1..Len(doc) \/ k = n
        BY <1>1
      <3> HIDE DEF n
      <3> QED
        BY <3>1, <3>2, <3>3
    <2>13. DocumentOK(doc', depth')
      <3>1. Len(doc') <= MaxTags
        BY <1>1, <2>2, <2>3, <2>5
      <3>2. \A k \in 1..n+1 : k \in 1..n \/ k = n+1
        BY <1>1
      <3> HIDE DEF n
      <3> QED
        BY <2>5, <2>6, <2>9, <2>11, <2>12, <3>1, <3>2 DEF DocumentOK
    <2> QED
      BY <2>1, <2>2, <2>5, <2>7, <2>13
  <1> QED
    BY <1>2, <1>3

LEMMA URLType ==
    ASSUME NEW base \in URLs
    PROVE  /\ \A ref \in References : Resolve(base, ref) \in URLs
           /\ \A element \in AllElements : BaseFor(base, element) \in URLs
  <1>1. ASSUME NEW ref \in References
        PROVE  Resolve(base, ref) \in URLs
    <2>1. ref \in References \cup {"source"} /\ base \in Seq(References \cup {"source"})
      BY DEF URLs
    <2>2. <<ref>> \in URLs /\ NoURL \in URLs /\ Append(base, ref) \in URLs
      BY <2>1 DEF URLs, NoURL
    <2> QED
      BY <2>2 DEF Resolve
  <1>2. ASSUME NEW element \in AllElements
        PROVE  BaseFor(base, element) \in URLs
    <2>1. element.base \in References \cup {NoRef}
      BY DEF AllElements
    <2> QED
      BY <1>1, <2>1 DEF BaseFor
  <1> QED
    BY <1>1, <1>2

LEMMA Kinds ==
    /\ \A element \in Elements : element \in AllElements /\ element \in Tag /\ element \notin {End, Broken}
    /\ End \in Tag /\ Broken \in Tag /\ End # Broken /\ End.uri = NoRef /\ Broken.uri = NoRef
  <1>1. \A element \in AllElements : element \notin {End, Broken}
    BY DEF AllElements, End, Broken
  <1> QED
    BY <1>1, XMLBaseAssumption DEF Tag, End, Broken

\* A tag is read before the document is over, and the text of no element is read
\* twice.
LEMMA ReadOn ==
    ASSUME XMLInv, reader # "done", NEW token \in Tag, Read(token)
    PROVE  /\ DocumentOK(doc', depth') /\ Begins(doc, depth, doc', depth') /\ doc \in Seq(Tag)
           /\ here \in 1..Len(doc') /\ here \in 1..Len(doc)+1 /\ here \in Nat /\ doc'[here] = token
           /\ Len(doc) \in Nat /\ Len(doc') \in Nat /\ Len(doc') <= MaxTags
           /\ Len(doc') = Len(doc) \/ Len(doc') = Len(doc) + 1
           /\ here = Len(doc) + 1 => Len(doc') = Len(doc) + 1
           /\ result = "output" => doc' = doc /\ depth' = depth
           /\ \A n \in 1..Len(doc') : doc'[n] = Broken => n = here /\ token = Broken /\ here = Len(doc')
  <1>1. XMLTypeOK /\ DocumentOK(doc, depth) /\ \A n \in 1..Len(doc) : doc[n] # Broken
    BY DEF XMLInv
  <1>2. /\ DocumentOK(doc', depth') /\ Begins(doc, depth, doc', depth')
        /\ here \in 1..Len(doc') /\ doc'[here] = token
        /\ \/ doc' = doc /\ depth' = depth /\ here <= Len(doc)
           \/ here = Len(doc) + 1 /\ Len(doc') = Len(doc) + 1 /\ result # "output"
    BY <1>1, ReadTag
  <1>3. /\ Len(doc) \in Nat /\ doc \in Seq(Tag) /\ here \in 1..Len(doc)+1 /\ here \in Nat
        /\ Len(doc') \in Nat /\ Len(doc') <= MaxTags
    BY <1>1, <1>2 DEF DocumentOK, XMLTypeOK
  <1>4. ASSUME NEW n \in 1..Len(doc'), doc'[n] = Broken
        PROVE  n = here /\ token = Broken /\ here = Len(doc')
    <2>1. CASE doc' = doc
      BY <1>1, <1>4, <2>1
    <2>2. CASE here = Len(doc) + 1 /\ Len(doc') = Len(doc) + 1
      <3>1. n \in 1..Len(doc) => doc'[n] # Broken
        BY <1>1, <1>2 DEF Begins
      <3> QED
        BY <1>2, <1>3, <1>4, <2>2, <3>1
    <2> QED
      BY <1>2, <2>1, <2>2
  <1> QED
    BY <1>2, <1>3, <1>4

\* The base of the element that is read.
LEMMA BaseRead ==
    ASSUME XMLInv, reader # "done", NEW element \in Elements, Read(element),
           NEW below \in {0, 1}, StackIn(bases, doc, depth, below, here), below = 1 => bases[1] = Source
    PROVE  /\ BaseFor(Parent, element) = BaseIn(doc', depth', here)
           /\ BaseFor(Parent, element) \in URLs
           /\ StackIn(bases, doc', depth', below, here)
           /\ StackIn(Append(bases, BaseFor(Parent, element)), doc', depth', below, here + 1)
  <1>1. element \in Tag /\ element \in AllElements /\ element \notin {End, Broken}
    BY Kinds
  <1>2. /\ DocumentOK(doc', depth') /\ Begins(doc, depth, doc', depth') /\ doc \in Seq(Tag)
        /\ here \in 1..Len(doc') /\ here \in 1..Len(doc)+1 /\ here \in Nat /\ doc'[here] = element
        /\ Len(doc') \in Nat
    BY <1>1, ReadOn
  <1>3. StackIn(bases, doc', depth', below, here)
    BY <1>2, StackBegins
  <1>4. bases \in Seq(URLs) /\ here \in 1..Len(doc')+1
    BY <1>2 DEF XMLInv, XMLTypeOK
  <1>5. Parent = BaseOf(doc', OpenIn(doc', depth', here))
    BY <1>2, <1>3, <1>4, BaseOnStack DEF Parent, Last
  <1>6. BaseIn(doc', depth', here) = BaseFor(Parent, element)
    <2>1. doc'[here] \notin {End, Broken}
      BY <1>1, <1>2
    <2> QED
      BY <1>2, <1>5, <2>1, BaseOfElement
  <1>7. BaseFor(Parent, element) \in URLs
    <2>1. Parent \in URLs
      <3>1. Source \in URLs
        BY DEF Source, URLs
      <3>2. bases # <<>> => Len(bases) \in 1..Len(bases)
        BY <1>4
      <3> QED
        BY <1>4, <3>1, <3>2, ElementOfSeq DEF Parent, Last
    <2> QED
      BY <1>1, <2>1, URLType
  <1>8. StackIn(Append(bases, BaseFor(Parent, element)), doc', depth', below, here + 1)
    BY <1>1, <1>2, <1>3, <1>4, <1>6, <1>7, Pushed
  <1> QED
    BY <1>3, <1>6, <1>7, <1>8

LEMMA OneMoreURI ==
    ASSUME NEW S, NEW u \in Seq(S), NEW v \in S, NEW d, NEW h, NEW n \in Nat, OutputIn(u, d, h, n),
           v.at = n, v.url = Resolve(BaseIn(d, h, n), d[n].uri), IsWrittenIn(d, h, n), n > 0
    PROVE  OutputIn(Append(u, v), d, h, n + 1)
  <1> DEFINE w == Append(u, v)
             l == Len(u)
  <1>1. l \in Nat /\ Len(w) = l + 1 /\ w[l+1] = v /\ \A k \in 1..l : w[k] = u[k]
    BY AppendProperties
  <1>2. \A k \in 1..l+1 : k \in 1..l \/ k = l + 1
    BY <1>1
  <1>3. \A k \in 1..l : u[k].at \in 1..n-1 /\ u[k].at < n /\ u[k].at \in 1..n
    BY DEF OutputIn
  <1> HIDE DEF w, l
  <1>4. ASSUME NEW k \in 1..l+1, NEW m \in 1..l+1, k < m
        PROVE  w[k].at < w[m].at
    <2>1. CASE m \in 1..l
      <3>1. k \in 1..l
        BY <1>1, <1>4, <2>1
      <3> QED
        BY <1>1, <1>4, <2>1, <3>1 DEF OutputIn, l
    <2>2. CASE m = l + 1
      <3>1. k \in 1..l
        BY <1>1, <1>4, <2>2
      <3> QED
        BY <1>1, <1>3, <2>2, <3>1
    <2> QED
      BY <1>2, <2>1, <2>2
  <1>5. ASSUME NEW k \in 1..l+1
        PROVE  /\ w[k].at \in 1..n /\ IsWrittenIn(d, h, w[k].at)
               /\ w[k].url = Resolve(BaseIn(d, h, w[k].at), d[w[k].at].uri)
    <2>1. CASE k \in 1..l
      BY <1>1, <1>3, <2>1 DEF OutputIn, l
    <2>2. CASE k = l + 1
      BY <1>1, <2>2
    <2> QED
      BY <1>2, <2>1, <2>2
  <1>6. ASSUME NEW m \in 1..n, IsWrittenIn(d, h, m)
        PROVE  \E k \in 1..l+1 : w[k].at = m
    <2>1. CASE m = n
      BY <1>1, <2>1
    <2>2. CASE m \in 1..n-1
      <3>1. PICK k \in 1..l : u[k].at = m
        BY <1>6, <2>2 DEF OutputIn, l
      <3> QED
        BY <1>1, <3>1
    <2> QED
      BY <2>1, <2>2
  <1>7. OutputIn(w, d, h, n + 1)
    <2>1. (n + 1) - 1 = n
      OBVIOUS
    <2> QED
      BY <1>1, <1>4, <1>5, <1>6, <2>1 DEF OutputIn
  <1> QED
    BY <1>7 DEF w

LEMMA OtherRootStep ==
    XMLInv /\ OtherRoot => XMLInv'
  <1> SUFFICES ASSUME XMLInv, OtherRoot
               PROVE  XMLInv'
    OBVIOUS
  <1>1. /\ reader = "normalize" /\ reader' = "next" /\ here' = 1 /\ bases' = <<>> /\ result' = "body"
        /\ UNCHANGED <<foundRoot, skip, entryDepth, output, nextLink>> /\ ~foundRoot
    BY DEF OtherRoot, StartNext, NotAtom
  <1>2. PICK element \in Elements : Read(element)
    BY DEF OtherRoot
  <1>3. element \in Tag /\ element \notin {End, Broken}
    BY Kinds
  <1>4. XMLTypeOK /\ Normalizing
    BY <1>1 DEF XMLInv
  <1>5. /\ DocumentOK(doc', depth') /\ Len(doc') \in Nat
        /\ \A n \in 1..Len(doc') : doc'[n] # Broken
    BY <1>1, <1>2, <1>3, ReadOn
  <1>6. depth'[1] = 0 /\ OpenIn(doc', depth', 1) = {}
    BY <1>5, DepthFacts DEF OpenIn
  <1>7. XMLTypeOK'
    <2>1. <<>> \in Seq(URLs) /\ Len(<<>>) <= MaxDepth + 1
      BY XMLBaseAssumption
    <2> QED
      BY <1>1, <1>4, <1>5, <2>1 DEF XMLTypeOK, DocumentOK, Tag
  <1>8. Continuing'
    <2>1. StackIn(<<>>, doc', depth', 0, 1)
      BY <1>6 DEF StackIn
    <2>2. EntriesIn(doc', depth', 1) = {}
      BY <1>6 DEF EntriesIn
    <2>3. entryDepth' = 0 /\ nextLink' = NoURL
      BY <1>1, <1>4 DEF Normalizing
    <2>4. StackIn(bases', doc', depth', 0, here')
      BY <1>1, <2>1
    <2>5. entryDepth' = Cardinality(EntriesIn(doc', depth', here'))
      BY <1>1, <2>2, <2>3, FS_EmptySet
    <2>6. \A n \in 1..here'-1 : ~IsNextIn(doc', depth', n)
      BY <1>1
    <2> QED
      BY <1>1, <2>3, <2>4, <2>5, <2>6 DEF Continuing
  <1> QED
    BY <1>1, <1>5, <1>7, <1>8 DEF XMLInv

LEMMA StartElementStep ==
    XMLInv /\ StartElement => XMLInv'
  <1> SUFFICES ASSUME XMLInv, StartElement
               PROVE  XMLInv'
    OBVIOUS
  <1>1. /\ reader = "normalize" /\ skip = 0 /\ foundRoot' = TRUE /\ here' = here + 1
        /\ UNCHANGED <<reader, entryDepth, result, nextLink>>
    BY DEF StartElement
  <1>2. PICK element \in Elements : /\ Read(element)
                                    /\ Push(Scope(element), element)
                                    /\ output' = Emitted(Scope(element), element)
    BY DEF StartElement
  <1>3. element \in Tag /\ element \in AllElements /\ element \notin {End, Broken}
    BY Kinds
  <1>4. XMLTypeOK /\ Normalizing
    BY <1>1 DEF XMLInv
  <1>5. /\ DocumentOK(doc', depth') /\ Begins(doc, depth, doc', depth') /\ doc \in Seq(Tag)
        /\ here = Len(doc') /\ here \in 1..Len(doc)+1 /\ here \in Nat \ {0} /\ doc'[here] = element
        /\ here \in 1..Len(doc') /\ Len(doc') <= MaxTags
        /\ \A n \in 1..Len(doc') : doc'[n] # Broken
    BY <1>1, <1>2, <1>3, <1>4, ReadOn DEF Normalizing
  <1> DEFINE base == Scope(element)
  <1>6. /\ base = BaseIn(doc', depth', here) /\ base \in URLs
        /\ StackIn(bases, doc', depth', 1, here)
        /\ StackIn(Append(bases, base), doc', depth', 1, here + 1)
    BY <1>1, <1>2, <1>4, BaseRead DEF Normalizing, Scope
  <1> HIDE DEF base
  <1>7. OpenIn(doc', depth', here + 1) = OpenIn(doc', depth', here) \cup {here}
    <2>1. (\A k \in 1..here+1 : depth'[k] \in Nat) /\ depth'[here+1] = depth'[here] + 1
      BY <1>3, <1>5, DepthFacts
    <2> QED
      BY <1>3, <1>5, <2>1, OpenAfterStart
  <1>8. depth'[here] \in Nat /\ depth'[here+1] = depth'[here] + 1 /\ depth'[here+1] \in 0..MaxDepth
    BY <1>3, <1>5, DepthFacts
  <1>9. ~InsideIn(doc', depth', here, "text")
    BY <1>1, <1>4, <1>5, SameInside DEF Normalizing
  <1>10. OutputIn(output', doc', depth', here + 1)
    <2>1. OutputIn(output, doc', depth', here)
      BY <1>4, <1>5, OutputBegins DEF Normalizing
    <2>2. IsWrittenIn(doc', depth', here) <=> element.uri # NoRef
      BY <1>3, <1>5, <1>9 DEF IsWrittenIn
    <2>3. CASE element.uri = NoRef
      <3>1. output' = output /\ ~IsWrittenIn(doc', depth', here)
        BY <1>2, <2>2, <2>3 DEF Emitted
      <3>2. \A k \in 1..here : k \in 1..here-1 \/ k = here
        BY <1>5
      <3> QED
        BY <1>5, <2>1, <3>1, <3>2 DEF OutputIn
    <2>4. CASE element.uri # NoRef
      <3> DEFINE v == [at |-> here, url |-> Resolve(base, element.uri)]
      <3>1. output' = Append(output, v)
        BY <1>2, <2>4 DEF Emitted, base
      <3>2. v.at = here /\ v.url = Resolve(BaseIn(doc', depth', here), doc'[here].uri)
        BY <1>5, <1>6
      <3>3. IsWrittenIn(doc', depth', here)
        BY <2>2, <2>4
      <3>4. output \in Seq([at : 1..MaxTags, url : URLs])
        BY <1>4 DEF XMLTypeOK
      <3>5. v \in [at : 1..MaxTags, url : URLs]
        <4>1. element.uri \in References
          BY <1>3, <2>4 DEF AllElements
        <4>2. here \in 1..MaxTags /\ Resolve(base, element.uri) \in URLs
          BY <1>5, <1>6, <4>1, URLType, XMLBaseAssumption
        <4> QED
          BY <4>2
      <3> HIDE DEF v
      <3>6. here > 0 /\ here \in Nat
        BY <1>5
      <3>7. OutputIn(Append(output, v), doc', depth', here + 1)
        BY <2>1, <3>2, <3>3, <3>4, <3>5, <3>6, OneMoreURI
      <3> QED
        BY <3>1, <3>7
    <2> QED
      BY <2>3, <2>4
  <1>11. output' \in Seq([at : 1..MaxTags, url : URLs])
    <2>1. output \in Seq([at : 1..MaxTags, url : URLs])
      BY <1>4 DEF XMLTypeOK
    <2>2. CASE element.uri = NoRef
      BY <1>2, <2>1, <2>2 DEF Emitted
    <2>3. CASE element.uri # NoRef
      <3>1. element.uri \in References
        BY <1>3, <2>3 DEF AllElements
      <3>2. here \in 1..MaxTags /\ Resolve(base, element.uri) \in URLs
        BY <1>5, <1>6, <3>1, URLType, XMLBaseAssumption
      <3> DEFINE v == [at |-> here, url |-> Resolve(base, element.uri)]
      <3>3. output' = Append(output, v) /\ v \in [at : 1..MaxTags, url : URLs]
        BY <1>2, <2>3, <3>2 DEF Emitted, base
      <3> HIDE DEF v
      <3> QED
        BY <2>1, <3>3, AppendProperties
    <2> QED
      BY <2>2, <2>3
  <1>12. /\ bases' \in Seq(URLs) /\ Len(bases') <= MaxDepth + 1 /\ skip' \in 0..MaxDepth
         /\ Len(bases') > 0 /\ bases'[1] = Source
    <2>1. /\ bases \in Seq(URLs) /\ Len(bases) <= MaxDepth + 1 /\ Len(bases) \in Nat
          /\ Len(bases) > 0 /\ bases[1] = Source /\ MaxDepth \in Nat
      BY <1>4, XMLBaseAssumption DEF XMLTypeOK, Normalizing
    <2>2. CASE element.name = "text"
      <3>1. bases' = bases /\ skip' = 1
        BY <1>2, <2>2 DEF Push
      <3> QED
        BY <1>8, <2>1, <3>1
    <2>3. CASE element.name # "text"
      <3>1. bases' = Append(bases, base) /\ skip' = 0
        BY <1>1, <1>2, <2>3 DEF Push, base
      <3>2. Len(bases') = 1 + depth'[here + 1]
        BY <1>6, <3>1 DEF StackIn
      <3>3. bases' \in Seq(URLs) /\ bases'[1] = bases[1]
        BY <1>6, <2>1, <3>1, AppendProperties
      <3> QED
        BY <1>8, <2>1, <3>1, <3>2, <3>3
    <2> QED
      BY <2>2, <2>3
  <1>13. XMLTypeOK'
    BY <1>1, <1>4, <1>5, <1>11, <1>12 DEF XMLTypeOK, DocumentOK, Tag
  <1>14. /\ skip' = 0 => ~InsideIn(doc', depth', here + 1, "text") /\ StackIn(bases', doc', depth', 1, here + 1)
         /\ skip' > 0 => \E t \in OpenIn(doc', depth', here + 1) :
                /\ doc'[t].name = "text" /\ ~InsideIn(doc', depth', t, "text")
                /\ depth'[here + 1] = depth'[t] + skip'
                /\ StackIn(bases', doc', depth', 1, t)
    <2>1. CASE element.name = "text"
      <3>1. bases' = bases /\ skip' = 1
        BY <1>2, <2>1 DEF Push
      <3> QED
        BY <1>5, <1>6, <1>7, <1>8, <1>9, <2>1, <3>1
    <2>2. CASE element.name # "text"
      <3>1. bases' = Append(bases, base) /\ skip' = 0
        BY <1>1, <1>2, <2>2 DEF Push, base
      <3>2. ~InsideIn(doc', depth', here + 1, "text")
        BY <1>5, <1>7, <1>9, <2>2 DEF InsideIn
      <3> QED
        BY <1>6, <3>1, <3>2
    <2> QED
      BY <2>1, <2>2
  <1>15. Normalizing'
    BY <1>1, <1>4, <1>5, <1>10, <1>12, <1>14 DEF Normalizing
  <1> QED
    BY <1>1, <1>5, <1>13, <1>15 DEF XMLInv, Normalizing

\* A tag that is no URI leaves the URIs as they are.
LEMMA NoURI ==
    ASSUME NEW u, NEW d, NEW h, NEW n \in Nat, OutputIn(u, d, h, n), ~IsWrittenIn(d, h, n)
    PROVE  OutputIn(u, d, h, n + 1)
  <1>1. \A k \in 1..n : k \in 1..n-1 \/ k = n
    OBVIOUS
  <1>2. 1..n-1 \subseteq 1..n /\ (n + 1) - 1 = n
    OBVIOUS
  <1> QED
    BY <1>1, <1>2 DEF OutputIn

LEMMA EndElementStep ==
    XMLInv /\ EndElement => XMLInv'
  <1> SUFFICES ASSUME XMLInv, EndElement
               PROVE  XMLInv'
    OBVIOUS
  <1>1. /\ reader = "normalize" /\ skip = 0 /\ Read(End) /\ here' = here + 1 /\ bases' = Front(bases)
        /\ UNCHANGED <<reader, foundRoot, skip, entryDepth, output, result, nextLink>>
    BY DEF EndElement
  <1>2. XMLTypeOK /\ Normalizing
    BY <1>1 DEF XMLInv
  <1>3. /\ DocumentOK(doc', depth') /\ Begins(doc, depth, doc', depth') /\ doc \in Seq(Tag)
        /\ here = Len(doc') /\ here \in 1..Len(doc)+1 /\ here \in Nat \ {0} /\ doc'[here] = End
        /\ here \in 1..Len(doc')
        /\ \A n \in 1..Len(doc') : doc'[n] # Broken
    BY <1>1, <1>2, Kinds, ReadOn DEF Normalizing
  <1>4. /\ \A k \in 1..here+1 : depth'[k] \in Nat
        /\ depth'[here] > 0 /\ depth'[here+1] = depth'[here] - 1 /\ depth'[here] \in 0..MaxDepth
    BY <1>3, DepthFacts
  <1>5. StackIn(bases, doc', depth', 1, here) /\ bases \in Seq(URLs)
    BY <1>1, <1>2, <1>3, StackBegins DEF Normalizing, XMLTypeOK
  <1>6. /\ StackIn(bases', doc', depth', 1, here')
        /\ bases' \in Seq(URLs) /\ Len(bases') = Len(bases) - 1
        /\ \A k \in 1..Len(bases)-1 : bases'[k] = bases[k]
    BY <1>1, <1>3, <1>5, Popped
  <1>7. Len(bases) = 1 + depth'[here]
    BY <1>5 DEF StackIn
  <1>8. Len(bases') > 0 /\ bases'[1] = Source /\ Len(bases') <= MaxDepth + 1
    <2>1. MaxDepth \in Nat /\ bases[1] = Source
      BY <1>2, XMLBaseAssumption DEF Normalizing
    <2>2. Len(bases') = depth'[here]
      BY <1>4, <1>6, <1>7
    <2>3. 1 \in 1..Len(bases)-1
      BY <1>4, <1>7
    <2> QED
      BY <1>4, <1>6, <2>1, <2>2, <2>3
  <1>9. ~InsideIn(doc', depth', here', "text")
    <2>1. ~InsideIn(doc', depth', here, "text")
      BY <1>1, <1>2, <1>3, SameInside DEF Normalizing
    <2>2. \A j \in OpenIn(doc', depth', here + 1) : j \in OpenIn(doc', depth', here)
      BY <1>3, <1>4, OpenAfterEnd
    <2> QED
      BY <1>1, <2>1, <2>2 DEF InsideIn
  <1>10. OutputIn(output', doc', depth', here')
    <2>1. OutputIn(output, doc', depth', here)
      BY <1>2, <1>3, OutputBegins DEF Normalizing
    <2>2. ~IsWrittenIn(doc', depth', here)
      BY <1>3 DEF IsWrittenIn
    <2> QED
      BY <1>1, <1>3, <2>1, <2>2, NoURI
  <1>11. XMLTypeOK'
    BY <1>1, <1>2, <1>3, <1>6, <1>8 DEF XMLTypeOK, DocumentOK, Tag
  <1>12. foundRoot'
    BY <1>1, <1>2, <1>3, <1>4, DepthFacts DEF Normalizing
  <1>13. Normalizing'
    BY <1>1, <1>2, <1>3, <1>6, <1>8, <1>9, <1>10, <1>12 DEF Normalizing
  <1> QED
    BY <1>1, <1>2, <1>3, <1>11, <1>13 DEF XMLInv, Normalizing

LEMMA DecodeElementStep ==
    XMLInv /\ DecodeElement => XMLInv'
  <1> SUFFICES ASSUME XMLInv, DecodeElement
               PROVE  XMLInv'
    OBVIOUS
  <1>1. /\ reader = "normalize" /\ skip > 0 /\ here' = here + 1
        /\ UNCHANGED <<reader, bases, foundRoot, entryDepth, output, result, nextLink>>
    BY DEF DecodeElement
  <1>2. PICK token \in Tag : /\ Read(token)
                             /\ \/ token = End /\ skip' = skip - 1
                                \/ token \in Elements /\ token \notin {End, Broken} /\ skip' = skip + 1
    BY Kinds DEF DecodeElement
  <1>3. XMLTypeOK /\ Normalizing /\ skip \in Nat
    BY <1>1 DEF XMLInv, XMLTypeOK
  <1>4. /\ DocumentOK(doc', depth') /\ Begins(doc, depth, doc', depth') /\ doc \in Seq(Tag)
        /\ here = Len(doc') /\ here \in 1..Len(doc)+1 /\ here \in Nat \ {0} /\ doc'[here] = token
        /\ here \in 1..Len(doc')
        /\ \A n \in 1..Len(doc') : doc'[n] # Broken
    BY <1>1, <1>2, <1>3, Kinds, ReadOn DEF Normalizing
  <1>5. /\ \A k \in 1..here+1 : depth'[k] \in Nat
        /\ depth'[here+1] \in 0..MaxDepth /\ depth'[here] \in 0..MaxDepth
        /\ token = End => depth'[here+1] = depth'[here] - 1 /\ depth'[here] > 0
        /\ token \notin {End, Broken} => depth'[here+1] = depth'[here] + 1
    BY <1>4, DepthFacts
  <1>6. PICK t \in OpenIn(doc', depth', here) :
            /\ doc'[t].name = "text" /\ ~InsideIn(doc', depth', t, "text")
            /\ depth'[here] = depth'[t] + skip
            /\ StackIn(bases, doc', depth', 1, t)
    <2>1. PICK t \in OpenIn(doc, depth, here) :
              /\ doc[t].name = "text" /\ ~InsideIn(doc, depth, t, "text")
              /\ depth[here] = depth[t] + skip
              /\ StackIn(bases, doc, depth, 1, t)
      BY <1>1, <1>3 DEF Normalizing
    <2>2. OpenIn(doc', depth', here) = OpenIn(doc, depth, here) /\ t \in 1..here-1
      BY <1>4, SameOpening
    <2>3. t \in 1..Len(doc) /\ t \in 1..Len(doc)+1 /\ here \in 1..Len(doc)+1
      BY <1>4, <2>2
    <2>4. doc'[t] = doc[t] /\ depth'[t] = depth[t] /\ depth'[here] = depth[here]
      BY <1>4, <2>3 DEF Begins
    <2>5. ~InsideIn(doc', depth', t, "text")
      BY <1>4, <2>1, <2>3, SameInside
    <2>6. StackIn(bases, doc', depth', 1, t)
      BY <1>4, <2>1, <2>3, StackBegins
    <2> QED
      BY <2>1, <2>2, <2>4, <2>5, <2>6
  <1>7. t \in 1..here-1 /\ t \in Nat /\ depth'[t] \in Nat
    BY <1>4, <1>5, OpenBefore
  <1>8. OutputIn(output', doc', depth', here')
    <2>1. OutputIn(output, doc', depth', here)
      BY <1>3, <1>4, OutputBegins DEF Normalizing
    <2>2. ~IsWrittenIn(doc', depth', here)
      BY <1>6 DEF IsWrittenIn, InsideIn
    <2> QED
      BY <1>1, <1>4, <2>1, <2>2, NoURI
  <1>9. /\ skip' \in 0..MaxDepth
        /\ skip' = 0 => ~InsideIn(doc', depth', here', "text") /\ StackIn(bases', doc', depth', 1, here')
        /\ skip' > 0 => \E q \in OpenIn(doc', depth', here') :
                /\ doc'[q].name = "text" /\ ~InsideIn(doc', depth', q, "text")
                /\ depth'[here'] = depth'[q] + skip'
                /\ StackIn(bases', doc', depth', 1, q)
    <2>1. CASE token = End
      <3>1. skip' = skip - 1 /\ depth'[here+1] = depth'[t] + skip'
        BY <1>2, <1>3, <1>5, <1>6, <1>7, <2>1
      <3>2. skip' \in 0..MaxDepth
        BY <1>1, <1>3, <1>5, <1>7, <3>1, XMLBaseAssumption
      <3>3. \A j : j \in OpenIn(doc', depth', here + 1)
                     <=> j \in OpenIn(doc', depth', here) /\ depth'[j] < depth'[here] - 1
        BY <1>4, <1>5, <2>1, OpenAfterEnd
      <3>4. CASE skip' > 0
        <4>1. t \in OpenIn(doc', depth', here + 1)
          BY <1>5, <1>6, <1>7, <3>1, <3>3, <3>4, <1>3
        <4> QED
          BY <1>1, <1>6, <3>1, <3>2, <3>4, <4>1
      <3>5. CASE skip' = 0
        <4>1. depth'[here+1] = depth'[t] /\ depth'[here] - 1 = depth'[t]
          BY <1>3, <1>5, <1>7, <2>1, <3>1, <3>5
        <4>2. OpenIn(doc', depth', here + 1) = OpenIn(doc', depth', t)
          <5>1. OpenIn(doc', depth', t) = {k \in OpenIn(doc', depth', here) : k < t}
            BY <1>4, <1>5, OpenNests
          <5>2. ASSUME NEW k \in OpenIn(doc', depth', here)
                PROVE  k < t <=> depth'[k] < depth'[t]
            <6>1. k \in Nat /\ depth'[k] \in Nat
              BY <1>4, <1>5, OpenBefore
            <6>2. k < t => depth'[k] < depth'[t]
              BY <1>4, <1>5, OpenNests
            <6>3. t < k => depth'[t] < depth'[k]
              BY <1>4, <1>5, OpenNests
            <6> QED
              BY <1>7, <6>1, <6>2, <6>3
          <5> QED
            BY <3>3, <4>1, <5>1, <5>2
        <4>3. ~InsideIn(doc', depth', here + 1, "text")
          BY <1>6, <4>2 DEF InsideIn
        <4>4. StackIn(bases, doc', depth', 1, here + 1)
          BY <1>6, <4>1, <4>2 DEF StackIn
        <4> QED
          BY <1>1, <3>2, <3>5, <4>3, <4>4
      <3> QED
        BY <3>2, <3>4, <3>5
    <2>2. CASE token \notin {End, Broken}
      <3>1. skip' = skip + 1 /\ depth'[here+1] = depth'[t] + skip' /\ skip' > 0
        BY <1>2, <1>3, <1>5, <1>6, <1>7, <2>2
      <3>2. skip' \in 0..MaxDepth
        BY <1>3, <1>5, <1>7, <3>1, XMLBaseAssumption
      <3>3. t \in OpenIn(doc', depth', here + 1)
        <4>1. OpenIn(doc', depth', here + 1) = OpenIn(doc', depth', here) \cup {here}
          BY <1>4, <1>5, <2>2, OpenAfterStart
        <4> QED
          BY <1>6, <4>1
      <3> QED
        BY <1>1, <1>6, <3>1, <3>2, <3>3
    <2> QED
      BY <1>2, <2>1, <2>2
  <1>10. XMLTypeOK'
    BY <1>1, <1>3, <1>4, <1>9 DEF XMLTypeOK, DocumentOK, Tag
  <1>11. foundRoot'
    BY <1>1, <1>3 DEF Normalizing
  <1>12. Normalizing'
    BY <1>1, <1>3, <1>4, <1>8, <1>9, <1>11 DEF Normalizing
  <1> QED
    BY <1>1, <1>3, <1>4, <1>10, <1>12 DEF XMLInv, Normalizing

LEMMA MalformedStep ==
    XMLInv /\ Malformed => XMLInv'
  <1> SUFFICES ASSUME XMLInv, Malformed
               PROVE  XMLInv'
    OBVIOUS
  <1>1. /\ reader = "normalize" /\ Read(Broken) /\ result' = "error" /\ reader' = "done"
        /\ UNCHANGED <<here, bases, foundRoot, skip, entryDepth, output, nextLink>>
    BY DEF Malformed
  <1>2. XMLTypeOK
    BY DEF XMLInv
  <1>3. /\ DocumentOK(doc', depth') /\ here \in 1..Len(doc') /\ Len(doc') \in Nat
    BY <1>1, Kinds, ReadOn
  <1>4. XMLTypeOK'
    BY <1>1, <1>2, <1>3 DEF XMLTypeOK, DocumentOK, Tag
  <1> QED
    BY <1>1, <1>3, <1>4 DEF XMLInv

LEMMA NormalizedStep ==
    XMLInv /\ Normalized => XMLInv'
  <1> SUFFICES ASSUME XMLInv, Normalized
               PROVE  XMLInv'
    OBVIOUS
  <1>1. /\ reader = "normalize" /\ reader' = "next" /\ here' = 1 /\ bases' = <<>> /\ result' = "output"
        /\ doc' = doc /\ depth' = depth
        /\ UNCHANGED <<foundRoot, skip, entryDepth, output, nextLink>>
    BY DEF Normalized, StartNext, tags
  <1>2. XMLTypeOK /\ Normalizing /\ DocumentOK(doc, depth) /\ \A n \in 1..Len(doc) : doc[n] # Broken
    BY <1>1 DEF XMLInv
  <1>3. depth[1] = 0 /\ OpenIn(doc, depth, 1) = {}
    BY <1>2, DepthFacts DEF OpenIn
  <1>4. XMLTypeOK'
    <2>1. <<>> \in Seq(URLs) /\ Len(<<>>) <= MaxDepth + 1 /\ 1 \in 1..Len(doc)+1
      BY <1>2, XMLBaseAssumption DEF XMLTypeOK
    <2> QED
      BY <1>1, <1>2, <2>1 DEF XMLTypeOK
  <1>5. Continuing'
    <2>1. StackIn(<<>>, doc, depth, 0, 1)
      BY <1>3 DEF StackIn
    <2>2. EntriesIn(doc, depth, 1) = {}
      BY <1>3 DEF EntriesIn
    <2>3. entryDepth' = 0 /\ nextLink' = NoURL
      BY <1>1, <1>2 DEF Normalizing
    <2>4. StackIn(bases', doc', depth', 0, here')
      BY <1>1, <2>1
    <2>5. entryDepth' = Cardinality(EntriesIn(doc', depth', here'))
      BY <1>1, <2>2, <2>3, FS_EmptySet
    <2>6. \A n \in 1..here'-1 : ~IsNextIn(doc', depth', n)
      BY <1>1
    <2> QED
      BY <1>1, <2>3, <2>4, <2>5, <2>6 DEF Continuing
  <1>6. OutputIn(output', doc', depth', Len(doc') + 1)
    BY <1>1, <1>2 DEF Normalizing
  <1> QED
    BY <1>1, <1>2, <1>4, <1>5, <1>6 DEF XMLInv

LEMMA EntriesCount ==
    ASSUME NEW d, NEW h, DocumentOK(d, h), NEW n \in 1..Len(d)+1
    PROVE  /\ IsFiniteSet(EntriesIn(d, h, n))
           /\ Cardinality(EntriesIn(d, h, n)) \in 0..MaxDepth
           /\ Cardinality(EntriesIn(d, h, n)) = 0 <=> ~InsideIn(d, h, n, "entry")
  <1>1. n \in Nat /\ NestedIn(d, h, n) /\ h[n] \in 0..MaxDepth
    BY DepthFacts
  <1>2. IsFiniteSet(OpenIn(d, h, n)) /\ Cardinality(OpenIn(d, h, n)) = h[n]
    BY <1>1, OpenBefore DEF NestedIn
  <1>3. EntriesIn(d, h, n) \subseteq OpenIn(d, h, n)
    BY DEF EntriesIn
  <1>4. /\ IsFiniteSet(EntriesIn(d, h, n)) /\ Cardinality(EntriesIn(d, h, n)) \in Nat
        /\ Cardinality(EntriesIn(d, h, n)) <= h[n]
    BY <1>2, <1>3, FS_Subset, FS_CardinalityType
  <1>5. Cardinality(EntriesIn(d, h, n)) = 0 <=> EntriesIn(d, h, n) = {}
    BY <1>4, FS_EmptySet
  <1>6. EntriesIn(d, h, n) = {} <=> ~InsideIn(d, h, n, "entry")
    BY DEF EntriesIn, InsideIn
  <1> QED
    BY <1>1, <1>4, <1>5, <1>6, XMLBaseAssumption

LEMMA SameEntries ==
    ASSUME NEW d, NEW h, NEW d2, NEW h2, d \in Seq(Tag), Begins(d, h, d2, h2),
           NEW n \in 1..Len(d)+1
    PROVE  EntriesIn(d2, h2, n) = EntriesIn(d, h, n)
  <1>1. OpenIn(d2, h2, n) = OpenIn(d, h, n) /\ OpenIn(d, h, n) \subseteq 1..n-1
    BY SameOpening
  <1>2. \A k \in 1..n-1 : d2[k] = d[k]
    <2>1. Len(d) \in Nat
      OBVIOUS
    <2> QED
      BY <2>1 DEF Begins
  <1> QED
    BY <1>1, <1>2 DEF EntriesIn

LEMMA NoLinkBegins ==
    ASSUME NEW d, NEW h, NEW d2, NEW h2, d \in Seq(Tag), Begins(d, h, d2, h2),
           NEW n \in 1..Len(d)+1, \A m \in 1..n-1 : ~IsNextIn(d, h, m)
    PROVE  \A m \in 1..n-1 : ~IsNextIn(d2, h2, m)
  <1>1. \A m \in 1..n-1 : m \in 1..Len(d)
    OBVIOUS
  <1> QED
    BY <1>1, SameMarks

\* What holds when nextPageURL reads a tag.
LEMMA NextReads ==
    ASSUME XMLInv, reader = "next", NEW token \in Tag, Read(token)
    PROVE  /\ StackIn(bases, doc', depth', 0, here) /\ bases \in Seq(URLs)
           /\ entryDepth = Cardinality(EntriesIn(doc', depth', here))
           /\ entryDepth = 0 <=> ~InsideIn(doc', depth', here, "entry")
           /\ \A m \in 1..here-1 : ~IsNextIn(doc', depth', m)
           /\ output' = output /\ result = "output" => OutputIn(output', doc', depth', Len(doc') + 1)
  <1>1. XMLTypeOK /\ Continuing /\ (result = "output" => OutputIn(output, doc, depth, Len(doc) + 1))
    BY DEF XMLInv
  <1>2. /\ DocumentOK(doc', depth') /\ Begins(doc, depth, doc', depth') /\ doc \in Seq(Tag)
        /\ here \in 1..Len(doc)+1 /\ here \in 1..Len(doc')+1
        /\ result = "output" => doc' = doc /\ depth' = depth
    BY ReadOn
  <1>3. StackIn(bases, doc', depth', 0, here) /\ bases \in Seq(URLs)
    BY <1>1, <1>2, StackBegins DEF Continuing, XMLTypeOK
  <1>4. entryDepth = Cardinality(EntriesIn(doc', depth', here))
    BY <1>1, <1>2, SameEntries DEF Continuing
  <1>5. entryDepth = 0 <=> ~InsideIn(doc', depth', here, "entry")
    BY <1>2, <1>4, EntriesCount
  <1>6. \A m \in 1..here-1 : ~IsNextIn(doc', depth', m)
    BY <1>1, <1>2, NoLinkBegins DEF Continuing
  <1> QED
    BY <1>1, <1>2, <1>3, <1>4, <1>5, <1>6

LEMMA VisitStep ==
    XMLInv /\ Visit => XMLInv'
  <1> SUFFICES ASSUME XMLInv, Visit
               PROVE  XMLInv'
    OBVIOUS
  <1>1. /\ reader = "next" /\ here' = here + 1
        /\ UNCHANGED <<reader, foundRoot, skip, output, result, nextLink>>
    BY DEF Visit
  <1>2. PICK element \in Elements :
            /\ Read(element) /\ ~IsNext(element)
            /\ bases' = Append(bases, BaseFor(Parent, element))
            /\ entryDepth' = IF element.name = "entry" THEN entryDepth + 1 ELSE entryDepth
    BY DEF Visit
  <1>3. element \in Tag /\ element \in AllElements /\ element \notin {End, Broken}
    BY Kinds
  <1>4. XMLTypeOK /\ Continuing
    BY <1>1 DEF XMLInv
  <1>5. /\ DocumentOK(doc', depth') /\ here \in 1..Len(doc') /\ here \in Nat \ {0} /\ doc'[here] = element
        /\ here + 1 \in 1..Len(doc')+1
        /\ \A n \in 1..Len(doc') : doc'[n] # Broken
    BY <1>1, <1>2, <1>3, ReadOn
  <1>6. /\ entryDepth = Cardinality(EntriesIn(doc', depth', here))
        /\ entryDepth = 0 <=> ~InsideIn(doc', depth', here, "entry")
        /\ \A m \in 1..here-1 : ~IsNextIn(doc', depth', m)
        /\ result = "output" => OutputIn(output', doc', depth', Len(doc') + 1)
    BY <1>1, <1>2, <1>3, NextReads
  <1>7. StackIn(bases', doc', depth', 0, here + 1) /\ BaseFor(Parent, element) \in URLs
    BY <1>1, <1>2, <1>4, BaseRead DEF Continuing
  <1>8. /\ \A k \in 1..here+1 : depth'[k] \in Nat
        /\ depth'[here+1] = depth'[here] + 1 /\ depth'[here+1] \in 0..MaxDepth
    BY <1>3, <1>5, DepthFacts
  <1>9. OpenIn(doc', depth', here + 1) = OpenIn(doc', depth', here) \cup {here}
    BY <1>3, <1>5, <1>8, OpenAfterStart
  <1>10. entryDepth' = Cardinality(EntriesIn(doc', depth', here + 1))
    <2>1. IsFiniteSet(EntriesIn(doc', depth', here)) /\ here \notin EntriesIn(doc', depth', here)
      <3>1. IsFiniteSet(EntriesIn(doc', depth', here))
        BY <1>5, EntriesCount
      <3>2. here \notin OpenIn(doc', depth', here)
        BY <1>5, OpenBefore
      <3> QED
        BY <3>1, <3>2 DEF EntriesIn
    <2>2. CASE element.name = "entry"
      <3>1. EntriesIn(doc', depth', here + 1) = EntriesIn(doc', depth', here) \cup {here}
        BY <1>5, <1>9, <2>2 DEF EntriesIn
      <3> QED
        BY <1>2, <1>6, <2>1, <2>2, <3>1, FS_AddElement
    <2>3. CASE element.name # "entry"
      <3>1. EntriesIn(doc', depth', here + 1) = EntriesIn(doc', depth', here)
        BY <1>5, <1>9, <2>3 DEF EntriesIn
      <3> QED
        BY <1>2, <1>6, <2>3, <3>1
    <2> QED
      BY <2>2, <2>3
  <1>11. \A m \in 1..here'-1 : ~IsNextIn(doc', depth', m)
    <2>1. ~IsNextIn(doc', depth', here)
      BY <1>2, <1>5, <1>6 DEF IsNextIn, IsNext
    <2>2. \A m \in 1..here'-1 : m \in 1..here-1 \/ m = here
      BY <1>1, <1>5
    <2> QED
      BY <1>6, <2>1, <2>2
  <1>12. XMLTypeOK'
    <2>1. entryDepth' \in 0..MaxDepth
      BY <1>5, <1>10, EntriesCount
    <2>2. bases' \in Seq(URLs)
      BY <1>2, <1>4, <1>7, AppendProperties DEF XMLTypeOK
    <2>3. Len(bases') <= MaxDepth + 1
      BY <1>7, <1>8, XMLBaseAssumption DEF StackIn
    <2> QED
      BY <1>1, <1>4, <1>5, <2>1, <2>2, <2>3 DEF XMLTypeOK, DocumentOK, Tag
  <1>13. Continuing'
    BY <1>1, <1>4, <1>7, <1>10, <1>11 DEF Continuing
  <1> QED
    BY <1>1, <1>5, <1>6, <1>12, <1>13 DEF XMLInv

LEMMA OpenHere == \A n : Open(n) = OpenIn(doc, depth, n)
  BY DEF Open, OpenIn, IsStart

LEMMA LeaveStep ==
    XMLInv /\ Leave => XMLInv'
  <1> SUFFICES ASSUME XMLInv, Leave
               PROVE  XMLInv'
    OBVIOUS
  <1>1. /\ reader = "next" /\ Read(End) /\ here' = here + 1 /\ bases' = Front(bases)
        /\ UNCHANGED <<reader, foundRoot, skip, output, result, nextLink>>
    BY DEF Leave
  <1>2. PICK q \in Open(here) : Innermost(here, q) /\ entryDepth' = DepthAfter(doc[q].name)
    BY DEF Leave
  <1>3. XMLTypeOK /\ Continuing
    BY <1>1 DEF XMLInv
  <1>4. /\ DocumentOK(doc', depth') /\ here \in 1..Len(doc') /\ here \in Nat \ {0} /\ doc'[here] = End
        /\ here + 1 \in 1..Len(doc')+1 /\ here \in 1..Len(doc')+1
        /\ here \in 1..Len(doc)+1 /\ Begins(doc, depth, doc', depth') /\ doc \in Seq(Tag)
        /\ \A n \in 1..Len(doc') : doc'[n] # Broken
    BY <1>1, Kinds, ReadOn
  <1>5. /\ StackIn(bases, doc', depth', 0, here) /\ bases \in Seq(URLs)
        /\ entryDepth = Cardinality(EntriesIn(doc', depth', here))
        /\ \A m \in 1..here-1 : ~IsNextIn(doc', depth', m)
        /\ result = "output" => OutputIn(output', doc', depth', Len(doc') + 1)
    BY <1>1, Kinds, NextReads
  <1>6. /\ StackIn(bases', doc', depth', 0, here + 1)
        /\ bases' \in Seq(URLs)
    BY <1>1, <1>4, <1>5, Popped
  <1>7. /\ \A k \in 1..here : depth'[k] \in Nat
        /\ \A k \in 1..here+1 : depth'[k] \in Nat
        /\ depth'[here+1] = depth'[here] - 1 /\ depth'[here+1] \in 0..MaxDepth /\ depth'[here] > 0
        /\ NestedIn(doc', depth', here)
    BY <1>4, DepthFacts
  <1>8. OpenIn(doc', depth', here + 1) = OpenIn(doc', depth', here) \ {q}
        /\ q \in OpenIn(doc', depth', here) /\ doc'[q] = doc[q]
    <2>1. PICK p \in OpenIn(doc', depth', here) :
              /\ depth'[p] = depth'[here] - 1
              /\ \A j \in OpenIn(doc', depth', here) : j <= p /\ (j # p => depth'[j] < depth'[here] - 1)
      BY <1>4, <1>7, InnermostOpen
    <2>2. OpenIn(doc', depth', here) = Open(here) /\ OpenIn(doc', depth', here) \subseteq 1..here-1
      BY <1>4, SameOpening, OpenHere
    <2>3. q \in Open(here) /\ \A k \in Open(here) : k <= q
      BY <1>2 DEF Innermost
    <2>4. p <= q /\ q <= p /\ p \in Int /\ q \in Int
      BY <2>1, <2>2, <2>3
    <2>5. p = q
      BY <2>4
    <2>6. \A j : j \in OpenIn(doc', depth', here + 1)
                   <=> j \in OpenIn(doc', depth', here) /\ depth'[j] < depth'[here] - 1
      BY <1>4, <1>7, OpenAfterEnd
    <2>7. ~(depth'[q] < depth'[here] - 1)
      BY <1>4, <1>7, <2>1, <2>5
    <2>8. doc'[q] = doc[q]
      <3>1. q \in 1..Len(doc)
        BY <1>4, <2>2, <2>3
      <3> QED
        BY <1>4, <3>1 DEF Begins
    <2> QED
      BY <2>1, <2>2, <2>3, <2>5, <2>6, <2>7, <2>8
  <1>9. entryDepth' = Cardinality(EntriesIn(doc', depth', here + 1))
    <2>1. IsFiniteSet(EntriesIn(doc', depth', here))
      BY <1>4, EntriesCount
    <2>2. CASE doc[q].name = "entry"
      <3>1. /\ EntriesIn(doc', depth', here + 1) = EntriesIn(doc', depth', here) \ {q}
            /\ q \in EntriesIn(doc', depth', here)
        BY <1>8, <2>2 DEF EntriesIn
      <3>2. entryDepth' = entryDepth - 1
        BY <1>2, <2>2 DEF DepthAfter
      <3> QED
        BY <1>5, <2>1, <3>1, <3>2, FS_RemoveElement
    <2>3. CASE doc[q].name # "entry"
      <3>1. EntriesIn(doc', depth', here + 1) = EntriesIn(doc', depth', here)
        BY <1>8, <2>3 DEF EntriesIn
      <3>2. entryDepth' = entryDepth
        BY <1>2, <2>3 DEF DepthAfter
      <3> QED
        BY <1>5, <3>1, <3>2
    <2> QED
      BY <2>2, <2>3
  <1>10. \A m \in 1..here'-1 : ~IsNextIn(doc', depth', m)
    <2>1. ~IsNextIn(doc', depth', here)
      BY <1>4 DEF IsNextIn
    <2>2. \A m \in 1..here'-1 : m \in 1..here-1 \/ m = here
      BY <1>1, <1>4
    <2> QED
      BY <1>5, <2>1, <2>2
  <1>11. XMLTypeOK'
    <2>1. entryDepth' \in 0..MaxDepth
      BY <1>4, <1>9, EntriesCount
    <2>2. Len(bases') <= MaxDepth + 1
      BY <1>6, <1>7, XMLBaseAssumption DEF StackIn
    <2> QED
      BY <1>1, <1>3, <1>4, <1>6, <2>1, <2>2 DEF XMLTypeOK, DocumentOK, Tag
  <1>12. Continuing'
    BY <1>1, <1>3, <1>6, <1>9, <1>10 DEF Continuing
  <1> QED
    BY <1>1, <1>4, <1>5, <1>11, <1>12 DEF XMLInv

LEMMA FindNextStep ==
    XMLInv /\ FindNext => XMLInv'
  <1> SUFFICES ASSUME XMLInv, FindNext
               PROVE  XMLInv'
    OBVIOUS
  <1>1. /\ reader = "next" /\ reader' = "done"
        /\ UNCHANGED <<here, bases, foundRoot, skip, entryDepth, output, result>>
    BY DEF FindNext
  <1>2. PICK element \in Elements :
            /\ Read(element) /\ IsNext(element)
            /\ nextLink' = Resolve(BaseFor(Parent, element), element.uri)
    BY DEF FindNext
  <1>3. element \in Tag /\ element \in AllElements /\ element \notin {End, Broken}
    BY Kinds
  <1>4. XMLTypeOK /\ Continuing
    BY <1>1 DEF XMLInv
  <1>5. /\ DocumentOK(doc', depth') /\ here \in 1..Len(doc') /\ Len(doc') \in Nat /\ doc'[here] = element
    BY <1>1, <1>2, <1>3, ReadOn
  <1>6. /\ entryDepth = 0 => ~InsideIn(doc', depth', here, "entry")
        /\ \A m \in 1..here-1 : ~IsNextIn(doc', depth', m)
        /\ result = "output" => OutputIn(output', doc', depth', Len(doc') + 1)
    BY <1>1, <1>2, <1>3, NextReads
  <1>7. BaseFor(Parent, element) = BaseIn(doc', depth', here) /\ BaseFor(Parent, element) \in URLs
    BY <1>1, <1>2, <1>4, BaseRead DEF Continuing
  <1>8. IsNextIn(doc', depth', here)
    BY <1>2, <1>3, <1>5, <1>6 DEF IsNextIn, IsNext
  <1>9. nextLink' = Resolve(BaseIn(doc', depth', here), doc'[here].uri) /\ nextLink' \in URLs
    <2>1. element.uri \in References
      BY <1>2, <1>3 DEF IsNext, AllElements
    <2> QED
      BY <1>2, <1>5, <1>7, <2>1, URLType
  <1>10. XMLTypeOK'
    BY <1>1, <1>4, <1>5, <1>9 DEF XMLTypeOK, DocumentOK, Tag
  <1>11. NextFound'
    BY <1>5, <1>6, <1>8, <1>9 DEF NextFound
  <1> QED
    BY <1>1, <1>5, <1>6, <1>10, <1>11 DEF XMLInv

LEMMA NoNextStep ==
    XMLInv /\ NoNext => XMLInv'
  <1> SUFFICES ASSUME XMLInv, NoNext
               PROVE  XMLInv'
    OBVIOUS
  <1>1. /\ reader = "next" /\ reader' = "done"
        /\ UNCHANGED <<here, bases, foundRoot, skip, entryDepth, output, result, nextLink>>
    BY DEF NoNext
  <1>2. XMLTypeOK /\ Continuing /\ DocumentOK(doc, depth)
    BY <1>1 DEF XMLInv
  <1>3. /\ DocumentOK(doc', depth') /\ here \in 1..Len(doc')+1 /\ Len(doc') \in Nat
        /\ \A m \in 1..Len(doc') : ~IsNextIn(doc', depth', m)
        /\ result = "output" => OutputIn(output', doc', depth', Len(doc') + 1)
    <2>1. CASE Read(Broken)
      <3>1. /\ DocumentOK(doc', depth') /\ here \in 1..Len(doc') /\ Len(doc') \in Nat /\ doc'[here] = Broken
            /\ here = Len(doc')
        BY <1>1, <2>1, Kinds, ReadOn
      <3>2. /\ \A m \in 1..here-1 : ~IsNextIn(doc', depth', m)
            /\ result = "output" => OutputIn(output', doc', depth', Len(doc') + 1)
        BY <1>1, <2>1, Kinds, NextReads
      <3>3. ~IsNextIn(doc', depth', here)
        BY <3>1 DEF IsNextIn
      <3>4. \A m \in 1..Len(doc') : m \in 1..here-1 \/ m = here
        BY <3>1
      <3> QED
        BY <3>1, <3>2, <3>3, <3>4
    <2>2. CASE AtEnd /\ UNCHANGED tags
      <3>1. doc' = doc /\ depth' = depth /\ here = Len(doc) + 1 /\ Len(doc) \in Nat
        BY <1>2, <2>2 DEF AtEnd, tags, XMLTypeOK
      <3>2. \A m \in 1..Len(doc) : m \in 1..here-1
        BY <3>1
      <3> QED
        BY <1>1, <1>2, <3>1, <3>2 DEF Continuing, XMLInv
    <2> QED
      BY <2>1, <2>2 DEF NoNext
  <1>4. XMLTypeOK'
    BY <1>1, <1>2, <1>3 DEF XMLTypeOK, DocumentOK, Tag
  <1>5. NextFound'
    BY <1>1, <1>2, <1>3 DEF NextFound, Continuing
  <1> QED
    BY <1>1, <1>3, <1>4, <1>5 DEF XMLInv

LEMMA XMLInitially == XMLInit => XMLInv
  <1> SUFFICES ASSUME XMLInit
               PROVE  XMLInv
    OBVIOUS
  <1>1. /\ doc = <<>> /\ depth = <<0>> /\ Len(doc) = 0 /\ Len(depth) = 1 /\ depth[1] = 0
        /\ reader = "normalize" /\ here = 1 /\ Len(bases) = 1 /\ bases[1] = Source
        /\ foundRoot = FALSE /\ skip = 0 /\ entryDepth = 0 /\ output = <<>> /\ result = "none" /\ nextLink = NoURL
    BY DEF XMLInit
  <1>2. OpenIn(doc, depth, 1) = {}
    BY DEF OpenIn
  <1>3. DocumentOK(doc, depth)
    <2>1. NestedIn(doc, depth, 1)
      BY <1>1, <1>2, FS_EmptySet DEF NestedIn
    <2>2. depth \in Seq(0..MaxDepth) /\ doc \in Seq(Tag)
      BY <1>1, XMLBaseAssumption
    <2> QED
      BY <1>1, <2>1, <2>2, XMLBaseAssumption DEF DocumentOK
  <1>4. XMLTypeOK
    <2>1. bases \in Seq(URLs) /\ nextLink \in URLs
      <3>1. Source \in URLs /\ NoURL \in URLs
        BY DEF Source, NoURL, URLs
      <3> QED
        BY <3>1 DEF XMLInit
    <2>2. output \in Seq([at : 1..MaxTags, url : URLs])
      BY <1>1
    <2>3. 0 \in 0..MaxDepth /\ 1 \in 1..0+1 /\ 1 <= MaxDepth + 1 /\ 0 <= MaxTags
      BY XMLBaseAssumption
    <2>4. /\ doc \in Seq(Elements \cup {End, Broken}) /\ Len(doc) <= MaxTags
          /\ depth \in Seq(0..MaxDepth) /\ Len(depth) = Len(doc) + 1
      BY <1>3 DEF DocumentOK, Tag
    <2>5. here \in 1..Len(doc) + 1 /\ Len(bases) <= MaxDepth + 1 /\ skip \in 0..MaxDepth /\ entryDepth \in 0..MaxDepth
      BY <1>1, <2>3
    <2>6. /\ reader \in {"normalize", "next", "done"} /\ foundRoot \in BOOLEAN
          /\ result \in {"none", "output", "body", "error"}
      BY <1>1
    <2> QED
      BY <2>1, <2>2, <2>4, <2>5, <2>6 DEF XMLTypeOK
  <1>5. Normalizing
    <2>1. ~InsideIn(doc, depth, here, "text") /\ StackIn(bases, doc, depth, 1, here)
      BY <1>1, <1>2 DEF InsideIn, StackIn
    <2>2. OutputIn(output, doc, depth, here)
      BY <1>1 DEF OutputIn
    <2> QED
      BY <1>1, <2>1, <2>2 DEF Normalizing
  <1> QED
    BY <1>1, <1>3, <1>4, <1>5 DEF XMLInv

\* The documents and both readers of them, for documents of any length and depth.
THEOREM XMLInvariance == XMLSpec => []XMLInv
  <1>1. XMLInv /\ UNCHANGED xmlVars => XMLInv'
    BY DEF XMLInv, xmlVars, tags, XMLTypeOK, Normalizing, Continuing, NextFound
  <1>2. XMLInv /\ [XMLNext]_xmlVars => XMLInv'
    BY <1>1, OtherRootStep, StartElementStep, EndElementStep, DecodeElementStep, MalformedStep,
       NormalizedStep, VisitStep, LeaveStep, FindNextStep, NoNextStep DEF XMLNext
  <1> QED
    BY <1>2, XMLInitially, PTL DEF XMLSpec

\* Type correctness of both readers: no stack holds more than a base per level of
\* nesting and one for the document (XMLBase.tla).
THEOREM XMLTypeCorrect == XMLSpec => []XMLTypeOK
  <1>1. XMLInv => XMLTypeOK
    BY DEF XMLInv
  <1> QED
    BY <1>1, XMLInvariance, PTL

\* In documents of any depth each reader has a base per open element, but for the
\* elements in one that DecodeElement reads to its end: no pop of an end tag finds
\* an empty stack (atom.go:107-110, feed.go:567 and 596).
THEOREM XMLStacks == XMLSpec => []StacksMatch
  <1>1. XMLInv => StacksMatch
    <2> SUFFICES ASSUME XMLInv PROVE StacksMatch
      OBVIOUS
    <2>1. here \in 1..Len(depth) /\ \A n \in 1..Len(depth) : depth[n] \in Nat
      <3>1. /\ here \in 1..Len(doc) + 1 /\ Len(depth) = Len(doc) + 1
            /\ depth \in Seq(0..MaxDepth) /\ skip \in 0..MaxDepth
        BY DEF XMLInv, XMLTypeOK
      <3> QED
        BY <3>1, XMLBaseAssumption
    <2>2. ASSUME reader = "normalize"
          PROVE  Len(bases) = 1 + depth[here] - skip
      <3>1. Normalizing /\ skip \in Nat /\ Len(bases) \in Nat
        BY <2>2, XMLBaseAssumption DEF XMLInv, XMLTypeOK
      <3>2. CASE skip = 0
        BY <2>1, <3>1, <3>2 DEF Normalizing, StackIn
      <3>3. CASE skip > 0
        <4>1. PICK t \in OpenIn(doc, depth, here) :
                  depth[here] = depth[t] + skip /\ StackIn(bases, doc, depth, 1, t)
          BY <3>1, <3>3 DEF Normalizing
        <4>2. t \in 1..here-1
          BY <4>1 DEF OpenIn
        <4>3. Len(bases) = 1 + depth[t] /\ depth[t] \in Nat
          BY <2>1, <4>1, <4>2 DEF StackIn
        <4> QED
          BY <3>1, <4>1, <4>3
      <3> QED
        BY <3>1, <3>2, <3>3
    <2>3. ASSUME reader = "next"
          PROVE  Len(bases) = depth[here]
      BY <2>1, <2>3 DEF XMLInv, Continuing, StackIn
    <2> QED
      BY <2>2, <2>3 DEF StacksMatch
  <1> QED
    BY <1>1, XMLInvariance, PTL

LEMMA DocumentSays ==
    /\ \A n : Base(n) = BaseIn(doc, depth, n)
    /\ \A n : URI(n) = Resolve(BaseIn(doc, depth, n), doc[n].uri)
    /\ \A n : IsWritten(n) <=> IsWrittenIn(doc, depth, n)
    /\ NextLinks = {n \in DOMAIN doc : IsNextIn(doc, depth, n)}
  <1>1. \A n : Open(n) = OpenIn(doc, depth, n)
    BY OpenHere
  <1>2. ASSUME NEW n
        PROVE  Base(n) = BaseIn(doc, depth, n)
    <2> DEFINE X == OpenIn(doc, depth, n) \cup {n}
    <2>1. Scopes(n) = ScopesOf(doc, X)
      BY <1>1 DEF Scopes, ScopesOf
    <2>2. Anchors(n) = AnchorsOf(doc, X)
      BY <2>1 DEF Anchors, AnchorsOf
    <2>3. Relatives(n) = RelativesOf(doc, X)
      BY <2>1, <2>2 DEF Relatives, RelativesOf
    <2> HIDE DEF X
    <2>4. Anchor(n) = AnchorOf(doc, X)
      BY <2>2, <2>3 DEF Anchor, AnchorOf
    <2>5. Base(n) = BaseOf(doc, X)
      BY <2>3, <2>4 DEF Base, BaseOf, Relative
    <2> QED
      BY <2>5 DEF X, BaseIn
  <1>3. \A n : URI(n) = Resolve(BaseIn(doc, depth, n), doc[n].uri)
    BY <1>2 DEF URI
  <1>4. \A n : IsWritten(n) <=> IsWrittenIn(doc, depth, n)
    BY <1>1 DEF IsWritten, IsWrittenIn, IsStart, Inside, InsideIn
  <1>5. NextLinks = {n \in DOMAIN doc : IsNextIn(doc, depth, n)}
    BY <1>1 DEF NextLinks, IsNextIn, IsStart, Inside, InsideIn
  <1> QED
    BY <1>2, <1>3, <1>4, <1>5

\* normalizeAtomDocument writes every URI of an Atom feed once, in their order,
\* and resolves it by the xml:base attributes of the elements around it, also
\* after elements that DecodeElement has read (atom.go:48-111).
THEOREM URIsResolvedOnce == XMLSpec => []ResolvedOnce
  <1>1. XMLInv => ResolvedOnce
    <2> SUFFICES ASSUME XMLInv, result = "output"
                 PROVE  /\ \A k, l \in DOMAIN output : k < l => output[k].at < output[l].at
                        /\ {output[k].at : k \in DOMAIN output} = {n \in DOMAIN doc : IsWritten(n)}
                        /\ \A k \in DOMAIN output : output[k].url = URI(output[k].at)
      BY DEF ResolvedOnce
    <2>1. /\ OutputIn(output, doc, depth, Len(doc) + 1)
          /\ DOMAIN output = 1..Len(output) /\ DOMAIN doc = 1..Len(doc) /\ Len(doc) + 1 - 1 = Len(doc)
      BY DEF XMLInv, XMLTypeOK
    <2>2. \A k, l \in DOMAIN output : k < l => output[k].at < output[l].at
      BY <2>1 DEF OutputIn
    <2>3. \A k \in DOMAIN output :
              /\ output[k].at \in DOMAIN doc /\ IsWritten(output[k].at)
              /\ output[k].url = URI(output[k].at)
      BY <2>1, DocumentSays DEF OutputIn
    <2>4. \A n \in DOMAIN doc : IsWritten(n) => \E k \in DOMAIN output : output[k].at = n
      BY <2>1, DocumentSays DEF OutputIn
    <2> QED
      BY <2>2, <2>3, <2>4
  <1> QED
    BY <1>1, XMLInvariance, PTL

\* nextPageURL finds the first next link outside of entries, and resolves it by
\* the bases that are gone from what normalizeAtomDocument has written
\* (feed.go:557-597).
THEOREM NextLinkFound == XMLSpec => []NextLinkExact
  <1>1. XMLInv => NextLinkExact
    <2> SUFFICES ASSUME XMLInv, reader = "done", result # "error"
                 PROVE  IF NextLinks = {} THEN nextLink = NoURL ELSE nextLink = URI(Min(NextLinks))
      BY DEF NextLinkExact
    <2>1. NextFound /\ DOMAIN doc = 1..Len(doc) /\ Len(doc) \in Nat
      BY DEF XMLInv, XMLTypeOK
    <2>2. \A n : n \in NextLinks <=> n \in 1..Len(doc) /\ IsNextIn(doc, depth, n)
      BY <2>1, DocumentSays
    <2>3. CASE nextLink = NoURL /\ \A m \in 1..Len(doc) : ~IsNextIn(doc, depth, m)
      BY <2>2, <2>3
    <2>4. ASSUME NEW n \in 1..Len(doc), IsNextIn(doc, depth, n), \A m \in 1..n-1 : ~IsNextIn(doc, depth, m),
                 nextLink = Resolve(BaseIn(doc, depth, n), doc[n].uri)
          PROVE  NextLinks # {} /\ nextLink = URI(Min(NextLinks))
      <3>1. n \in NextLinks /\ \A m \in NextLinks : n =< m
        BY <2>1, <2>2, <2>4
      <3>2. \A x \in NextLinks : (\A y \in NextLinks : x =< y) <=> x = n
        BY <2>2, <3>1
      <3>3. Min(NextLinks) = n
        BY <3>1, <3>2 DEF Min
      <3> QED
        BY <2>4, <3>1, <3>3, DocumentSays
    <2> QED
      BY <2>1, <2>3, <2>4 DEF NextFound
  <1> QED
    BY <1>1, XMLInvariance, PTL
==============================================================================
