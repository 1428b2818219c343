------------------------ MODULE FeedDiscoveryProofs ------------------------
(***************************************************************************)
(* What FindAll returns is what the document says, for documents of any    *)
(* length, any tags in them and any limit of the nesting.                  *)
(*                                                                         *)
(* The scanner keeps two numbers where the document has a set of elements  *)
(* that are open.  The invariant relates the two at the place where the    *)
(* scanner is; what was so at the places before it is kept in what is said *)
(* of the tags behind.                                                     *)
(***************************************************************************)
EXTENDS FeedDiscovery, FiniteSetTheorems, TLAPS

StartsIn(j, k) == {l \in j..k : Starts(doc[l])}
EndsIn(j, k) == {l \in j..k : Ends(doc[l])}

IsInnermost(m, S) == m \in S /\ \A k \in S : k <= m
From(j, S) == {l \in S : l >= j}

\* An open element is left with as many start tags too many as elements are
\* open from it on, and each set of open elements has an innermost.
Nested(i) ==
    /\ \A j \in Open(i) : Cardinality(StartsIn(j, i-1)) =
                              Cardinality(EndsIn(j, i-1)) + Cardinality(From(j, Open(i)))
    /\ \A S \in SUBSET Open(i) : S # {} => \E m \in S : IsInnermost(m, S)

\* The limits of the nesting and the tags at which a scan fails.
BrokenAt(i) ==
    \/ doc[i].kind = "broken"
    \/ Mismatched(i)
    \/ Cardinality(Open(i)) >= MaxNestingDepth /\ (Starts(doc[i]) \/ (IsXHTML /\ ~Ends(doc[i])))

IsBaseAt(i) == doc[i].kind = "base" /\ doc[i].href # "none" /\ Depth(i) = 0

\* The document is of the kind that the input says it is.
DocumentOK ==
    /\ input \in Inputs
    /\ doc \in IF ~Scannable THEN {<<>>} ELSE IF IsXHTML THEN XHTMLDocuments ELSE HTMLDocuments

\* The scan has come to pos without an error.
Scanned ==
    /\ Nested(pos)
    /\ templateDepth = Depth(pos)
    /\ IsXHTML => xmlDepth = Cardinality(Open(pos))
    /\ \A i \in 1..pos-1 : ~BrokenAt(i)

\* The links are those advertised by the tags before tag i.
LinksBefore(i) ==
    /\ \A p, q \in DOMAIN links : p < q => links[p].at < links[q].at
    /\ {links[p].at : p \in DOMAIN links} = {j \in 1..i-1 : Advertised(j)}
    /\ \A p \in DOMAIN links : links[p].url = Resolve(DocumentBase, doc[links[p].at].href)

\* What has been read is the head of the input, and all of it when it is used.
BodyOK ==
    /\ input \in AllInputs
    /\ body \in 0..MaxDocumentSize + 1
    /\ body <= input.size
    /\ Scanning \/ result = "links" => Readable /\ body = input.size
    /\ pass # "done" => result = "none"

\* The inductive invariant, but for BodyOK.
IInv ==
    /\ TypeOK
    /\ DocumentOK
    /\ pass = "read" => pos = 1 /\ xmlDepth = 0 /\ templateDepth = 0
    /\ Scanning => Scannable /\ Scanned /\ result = "none"
    /\ pass \in {"read", "base"} => links = <<>>
    /\ pass = "base" => \A i \in 1..pos-1 : ~IsBaseAt(i)
    /\ pass = "links" => baseURL = DocumentBase /\ LinksBefore(pos)
    /\ result = "none" <=> pass # "done"
    /\ pass = "done" =>
        IF Scannable
        THEN IF result = "error" THEN Broken ELSE ~Broken /\ LinksBefore(Len(doc) + 1)
        ELSE links = <<>> /\ (result = "error" <=> ~Readable \/ IsDocument)
-----------------------------------------------------------------------------
(* the elements that are open *)

LEMMA OpenFinite ==
    ASSUME NEW i \in Nat
    PROVE  /\ Open(i) \subseteq 1..i-1 /\ IsFiniteSet(Open(i)) /\ Cardinality(Open(i)) \in Nat
           /\ \A S \in SUBSET Open(i) : IsFiniteSet(S) /\ Cardinality(S) \in Nat
  <1>1. Open(i) \subseteq 1..i-1
    BY DEF Open
  <1>2. IsFiniteSet(1..i-1)
    BY FS_Interval
  <1>3. ASSUME NEW S \in SUBSET (1..i-1)
        PROVE  IsFiniteSet(S) /\ Cardinality(S) \in Nat
    BY <1>2, FS_Subset, FS_CardinalityType
  <1> QED
    BY <1>1, <1>3

\* One tag more.
LEMMA TagsIn ==
    ASSUME NEW j \in Nat \ {0}, NEW i \in Nat, j <= i
    PROVE  /\ Cardinality(StartsIn(j, i-1)) \in Nat /\ Cardinality(EndsIn(j, i-1)) \in Nat
           /\ Cardinality(StartsIn(j, i)) =
                Cardinality(StartsIn(j, i-1)) + IF Starts(doc[i]) THEN 1 ELSE 0
           /\ Cardinality(EndsIn(j, i)) =
                Cardinality(EndsIn(j, i-1)) + IF Ends(doc[i]) THEN 1 ELSE 0
  <1>1. j..i = (j..i-1) \cup {i} /\ i \notin j..i-1
    OBVIOUS
  <1>2. IsFiniteSet(j..i-1)
    BY FS_Interval
  <1>3. /\ IsFiniteSet(StartsIn(j, i-1)) /\ Cardinality(StartsIn(j, i-1)) \in Nat
        /\ IsFiniteSet(EndsIn(j, i-1)) /\ Cardinality(EndsIn(j, i-1)) \in Nat
    BY <1>2, FS_Subset, FS_CardinalityType DEF StartsIn, EndsIn
  <1>4. /\ StartsIn(j, i) = IF Starts(doc[i]) THEN StartsIn(j, i-1) \cup {i} ELSE StartsIn(j, i-1)
        /\ i \notin StartsIn(j, i-1)
        /\ EndsIn(j, i) = IF Ends(doc[i]) THEN EndsIn(j, i-1) \cup {i} ELSE EndsIn(j, i-1)
        /\ i \notin EndsIn(j, i-1)
    BY <1>1 DEF StartsIn, EndsIn
  <1>5. Cardinality(StartsIn(j, i)) =
           Cardinality(StartsIn(j, i-1)) + IF Starts(doc[i]) THEN 1 ELSE 0
    <2>1. CASE Starts(doc[i])
      BY <1>3, <1>4, <2>1, FS_AddElement
    <2>2. CASE ~Starts(doc[i])
      BY <1>3, <1>4, <2>2
    <2> QED
      BY <2>1, <2>2
  <1>6. Cardinality(EndsIn(j, i)) =
           Cardinality(EndsIn(j, i-1)) + IF Ends(doc[i]) THEN 1 ELSE 0
    <2>1. CASE Ends(doc[i])
      BY <1>3, <1>4, <2>1, FS_AddElement
    <2>2. CASE ~Ends(doc[i])
      BY <1>3, <1>4, <2>2
    <2> QED
      BY <2>1, <2>2
  <1> QED
    BY <1>3, <1>5, <1>6

LEMMA OpenIs ==
    ASSUME NEW i
    PROVE  Open(i) = {j \in 1..i-1 : Starts(doc[j]) /\ \A k \in j..i-1 :
                        Cardinality(StartsIn(j, k)) > Cardinality(EndsIn(j, k))}
  BY DEF Open, StartsIn, EndsIn

\* An element that is open was so at the tag before, or is that tag.
LEMMA OpenAfter ==
    ASSUME NEW i \in Nat \ {0}
    PROVE  Open(i+1) = {j \in Open(i) : Cardinality(StartsIn(j, i)) > Cardinality(EndsIn(j, i))}
                          \cup (IF Starts(doc[i]) THEN {i} ELSE {})
  <1> DEFINE More(j, k) == Cardinality(StartsIn(j, k)) > Cardinality(EndsIn(j, k))
  <1>1. Open(i) = {j \in 1..i-1 : Starts(doc[j]) /\ \A k \in j..i-1 : More(j, k)}
    BY OpenIs
  <1>2. Open(i+1) = {j \in 1..i : Starts(doc[j]) /\ \A k \in j..i : More(j, k)}
    <2>1. (i+1)-1 = i
      OBVIOUS
    <2> QED
      BY <2>1, OpenIs
  <1>3. Starts(doc[i]) => More(i, i)
    <2>1. ASSUME Starts(doc[i]) PROVE ~Ends(doc[i])
      BY <2>1 DEF Starts, Ends
    <2>2. StartsIn(i, i-1) = {} /\ EndsIn(i, i-1) = {}
      BY DEF StartsIn, EndsIn
    <2>3. ASSUME Starts(doc[i])
          PROVE  Cardinality(StartsIn(i, i)) = 1 /\ Cardinality(EndsIn(i, i)) = 0
      <3>1. Cardinality(StartsIn(i, i-1)) = 0 /\ Cardinality(EndsIn(i, i-1)) = 0
        BY <2>2, FS_EmptySet
      <3>2. /\ Cardinality(StartsIn(i, i)) =
                  Cardinality(StartsIn(i, i-1)) + IF Starts(doc[i]) THEN 1 ELSE 0
            /\ Cardinality(EndsIn(i, i)) =
                  Cardinality(EndsIn(i, i-1)) + IF Ends(doc[i]) THEN 1 ELSE 0
        BY TagsIn
      <3> QED
        BY <2>1, <2>3, <3>1, <3>2
    <2> QED
      BY <2>3
  <1> HIDE DEF More
  <1>4. \A j \in 1..i-1 : j..i = (j..i-1) \cup {i}
    OBVIOUS
  <1>5. 1..i = (1..i-1) \cup {i} /\ i \notin 1..i-1 /\ i..i = {i}
    OBVIOUS
  <1>6. Open(i+1) = {j \in Open(i) : More(j, i)} \cup (IF Starts(doc[i]) THEN {i} ELSE {})
    BY <1>1, <1>2, <1>3, <1>4, <1>5
  <1> QED
    BY <1>6 DEF More

\* Nested, for the elements open at tag i.
LEMMA FromOpen ==
    ASSUME NEW i \in Nat \ {0}, Nested(i), NEW j \in Open(i)
    PROVE  /\ j \in Nat \ {0} /\ j < i
           /\ IsFiniteSet(From(j, Open(i))) /\ j \in From(j, Open(i))
           /\ Cardinality(From(j, Open(i))) \in Nat \ {0}
           /\ Cardinality(EndsIn(j, i-1)) \in Nat
           /\ Cardinality(StartsIn(j, i)) =
                Cardinality(EndsIn(j, i-1)) + Cardinality(From(j, Open(i)))
                    + IF Starts(doc[i]) THEN 1 ELSE 0
           /\ Cardinality(EndsIn(j, i)) =
                Cardinality(EndsIn(j, i-1)) + IF Ends(doc[i]) THEN 1 ELSE 0
  <1>1. j \in 1..i-1
    BY OpenFinite
  <1>2. j \in Nat \ {0} /\ j < i /\ j <= i
    BY <1>1
  <1>3. j \in From(j, Open(i)) /\ From(j, Open(i)) \in SUBSET Open(i)
    BY <1>1 DEF From
  <1>4. /\ IsFiniteSet(From(j, Open(i))) /\ Cardinality(From(j, Open(i))) \in Nat
        /\ Cardinality(From(j, Open(i))) # 0
    BY <1>3, OpenFinite, FS_EmptySet
  <1>5. /\ Cardinality(EndsIn(j, i-1)) \in Nat
        /\ Cardinality(StartsIn(j, i)) =
             Cardinality(StartsIn(j, i-1)) + IF Starts(doc[i]) THEN 1 ELSE 0
        /\ Cardinality(EndsIn(j, i)) =
             Cardinality(EndsIn(j, i-1)) + IF Ends(doc[i]) THEN 1 ELSE 0
    BY <1>2, TagsIn
  <1>6. Cardinality(StartsIn(j, i-1)) = Cardinality(EndsIn(j, i-1)) + Cardinality(From(j, Open(i)))
    BY DEF Nested
  <1> QED
    BY <1>2, <1>3, <1>4, <1>5, <1>6

LEMMA NestedAt1 == Nested(1) /\ Open(1) = {} /\ Depth(1) = 0 /\ Cardinality(Open(1)) = 0
  <1>1. Open(1) = {}
    BY OpenFinite
  <1>2. {j \in {} : doc[j].kind = "template"} = {}
    OBVIOUS
  <1> QED
    BY <1>1, <1>2, FS_EmptySet DEF Nested, Depth

LEMMA NestedOther ==
    ASSUME NEW i \in Nat \ {0}, Nested(i), ~Starts(doc[i]), ~Ends(doc[i])
    PROVE  Nested(i+1) /\ Open(i+1) = Open(i)
  <1>1. \A j \in Open(i) : /\ Cardinality(StartsIn(j, i)) =
                                Cardinality(EndsIn(j, i)) + Cardinality(From(j, Open(i)))
                           /\ Cardinality(StartsIn(j, i)) > Cardinality(EndsIn(j, i))
    BY FromOpen
  <1>2. Open(i+1) = Open(i)
    BY <1>1, OpenAfter
  <1>3. (i+1)-1 = i
    OBVIOUS
  <1> QED
    BY <1>1, <1>2, <1>3 DEF Nested

LEMMA NestedStart ==
    ASSUME NEW i \in Nat \ {0}, Nested(i), Starts(doc[i])
    PROVE  Nested(i+1) /\ Open(i+1) = Open(i) \cup {i} /\ i \notin Open(i)
  <1>1. ~Ends(doc[i])
    BY DEF Starts, Ends
  <1>2. \A j \in Open(i) : /\ Cardinality(StartsIn(j, i)) =
                                Cardinality(EndsIn(j, i)) + Cardinality(From(j, Open(i))) + 1
                           /\ Cardinality(StartsIn(j, i)) > Cardinality(EndsIn(j, i))
    BY <1>1, FromOpen
  <1>3. Open(i+1) = Open(i) \cup {i}
    BY <1>2, OpenAfter
  <1>4. Open(i) \subseteq 1..i-1 /\ i \notin Open(i)
    BY OpenFinite
  <1>5. ASSUME NEW j \in Open(i+1)
        PROVE  Cardinality(StartsIn(j, i)) =
                   Cardinality(EndsIn(j, i)) + Cardinality(From(j, Open(i+1)))
    <2>1. CASE j \in Open(i)
      <3>1. From(j, Open(i+1)) = From(j, Open(i)) \cup {i} /\ i \notin From(j, Open(i))
        BY <1>3, <1>4, <2>1 DEF From
      <3>2. IsFiniteSet(From(j, Open(i)))
        BY <2>1, FromOpen
      <3>3. Cardinality(From(j, Open(i+1))) = Cardinality(From(j, Open(i))) + 1
        BY <3>1, <3>2, FS_AddElement
      <3>4. Cardinality(EndsIn(j, i)) \in Nat /\ Cardinality(From(j, Open(i))) \in Nat
        BY <1>1, <2>1, FromOpen
      <3> QED
        BY <1>2, <2>1, <3>3, <3>4
    <2>2. CASE j = i
      <3>1. From(j, Open(i+1)) = {i}
        BY <1>3, <1>4, <2>2 DEF From
      <3>2. StartsIn(i, i-1) = {} /\ EndsIn(i, i-1) = {}
        BY DEF StartsIn, EndsIn
      <3>3. Cardinality(StartsIn(i, i-1)) = 0 /\ Cardinality(EndsIn(i, i-1)) = 0
        BY <3>2, FS_EmptySet
      <3>4. /\ Cardinality(StartsIn(i, i)) = Cardinality(StartsIn(i, i-1)) + 1
            /\ Cardinality(EndsIn(i, i)) = Cardinality(EndsIn(i, i-1)) + 0
        BY <1>1, TagsIn
      <3>5. Cardinality({i}) = 1
        BY FS_Singleton
      <3> QED
        BY <2>2, <3>1, <3>3, <3>4, <3>5
    <2> QED
      BY <1>3, <2>1, <2>2
  <1>6. ASSUME NEW S \in SUBSET Open(i+1), S # {}
        PROVE  \E m \in S : IsInnermost(m, S)
    <2>1. CASE i \in S
      BY <1>3, <1>4, <1>6, <2>1 DEF IsInnermost
    <2>2. CASE i \notin S
      BY <1>3, <1>6, <2>2 DEF Nested
    <2> QED
      BY <2>1, <2>2
  <1>7. (i+1)-1 = i
    OBVIOUS
  <1> QED
    BY <1>3, <1>4, <1>5, <1>6, <1>7 DEF Nested

\* An end tag closes the innermost element.
LEMMA NestedEnd ==
    ASSUME NEW i \in Nat \ {0}, Nested(i), Ends(doc[i])
    PROVE  /\ Nested(i+1)
           /\ Open(i) = {} => Open(i+1) = {}
           /\ \A m : IsInnermost(m, Open(i)) => Open(i+1) = Open(i) \ {m}
  <1>1. ~Starts(doc[i])
    BY DEF Starts, Ends
  <1>2. \A j \in Open(i) : /\ Cardinality(StartsIn(j, i)) =
                                (Cardinality(EndsIn(j, i)) - 1) + Cardinality(From(j, Open(i)))
                           /\ Cardinality(EndsIn(j, i)) \in Nat \ {0}
    BY <1>1, FromOpen
  <1>3. Open(i+1) = {j \in Open(i) : Cardinality(StartsIn(j, i)) > Cardinality(EndsIn(j, i))}
    BY <1>1, OpenAfter
  <1>4. CASE Open(i) = {}
    BY <1>3, <1>4 DEF Nested, IsInnermost
  <1>5. CASE Open(i) # {}
    <2>1. PICK m \in Open(i) : IsInnermost(m, Open(i))
      BY <1>5 DEF Nested
    <2>2. Open(i) \subseteq 1..i-1
      BY OpenFinite
    <2>3. \A n : IsInnermost(n, Open(i)) => n = m
      BY <2>1, <2>2 DEF IsInnermost
    <2>4. \A j \in Open(i) : Cardinality(From(j, Open(i))) \in Nat \ {0}
      BY FromOpen
    <2>5. From(m, Open(i)) = {m}
      BY <2>1, <2>2 DEF From, IsInnermost
    <2>6. Cardinality(From(m, Open(i))) = 1
      BY <2>5, FS_Singleton
    <2>7. ASSUME NEW j \in Open(i), j # m
          PROVE  /\ IsFiniteSet(From(j, Open(i))) /\ j \in From(j, Open(i)) /\ m \in From(j, Open(i))
                 /\ Cardinality(From(j, Open(i))) # 1
      <3>1. IsFiniteSet(From(j, Open(i))) /\ j \in From(j, Open(i))
        BY FromOpen
      <3>2. m \in From(j, Open(i))
        BY <2>1, <2>2 DEF From, IsInnermost
      <3>3. Cardinality(From(j, Open(i))) # 1
        BY <2>7, <3>1, <3>2, FS_Singleton
      <3> QED
        BY <3>1, <3>2, <3>3
    <2>8. Open(i+1) = Open(i) \ {m}
      <3>1. m \notin Open(i+1)
        BY <1>2, <1>3, <2>6
      <3>2. \A j \in Open(i) : j # m => Cardinality(StartsIn(j, i)) > Cardinality(EndsIn(j, i))
        BY <1>2, <2>4, <2>7
      <3> QED
        BY <1>3, <3>1, <3>2
    <2>9. ASSUME NEW j \in Open(i+1)
          PROVE  Cardinality(StartsIn(j, i)) =
                     Cardinality(EndsIn(j, i)) + Cardinality(From(j, Open(i+1)))
      <3>1. j \in Open(i) /\ j # m
        BY <2>8
      <3>2. From(j, Open(i+1)) = From(j, Open(i)) \ {m}
        BY <2>8 DEF From
      <3>3. Cardinality(From(j, Open(i+1))) = Cardinality(From(j, Open(i))) - 1
        BY <2>7, <3>1, <3>2, FS_RemoveElement
      <3> QED
        BY <1>2, <2>4, <3>1, <3>3
    <2>10. \A S \in SUBSET Open(i+1) : S # {} => \E n \in S : IsInnermost(n, S)
      BY <2>8 DEF Nested
    <2>11. (i+1)-1 = i
      OBVIOUS
    <2>12. Nested(i+1)
      BY <2>9, <2>10, <2>11 DEF Nested
    <2> QED
      BY <1>5, <2>3, <2>8, <2>12
  <1> QED
    BY <1>4, <1>5
-----------------------------------------------------------------------------
(* the document does not change *)

LEMMA SameOpen ==
    ASSUME UNCHANGED document
    PROVE  /\ \A i : Open(i)' = Open(i) /\ Depth(i)' = Depth(i) /\ (Nested(i)' <=> Nested(i))
           /\ IsXHTML' <=> IsXHTML
           /\ Scannable' <=> Scannable
           /\ Readable' <=> Readable
           /\ IsDocument' <=> IsDocument
  <1>1. doc' = doc /\ input' = input
    BY DEF document
  <1>2. \A j, k : StartsIn(j, k)' = StartsIn(j, k) /\ EndsIn(j, k)' = EndsIn(j, k)
    BY <1>1 DEF StartsIn, EndsIn
  <1>3. \A i : Open(i)' = Open(i)
    <2> SUFFICES ASSUME NEW i PROVE Open(i)' = Open(i)
      OBVIOUS
    <2> QED
      BY <1>1 DEF Open
  <1>4. \A i : Depth(i)' = Depth(i)
    BY <1>1, <1>3 DEF Depth
  <1>5. \A i : Nested(i)' <=> Nested(i)
    BY <1>2, <1>3 DEF Nested
  <1>6. /\ (IsXHTML' <=> IsXHTML) /\ (Readable' <=> Readable)
        /\ (IsDocument' <=> IsDocument) /\ (Scannable' <=> Scannable)
    BY <1>1 DEF IsXHTML, Readable, IsDocument, LooksLikeHTML, Scannable
  <1> QED
    BY <1>3, <1>4, <1>5, <1>6

LEMMA SameDocument ==
    ASSUME UNCHANGED document
    PROVE  /\ \A i : /\ BrokenAt(i)' <=> BrokenAt(i)
                     /\ IsBaseAt(i)' <=> IsBaseAt(i)
                     /\ Advertised(i)' <=> Advertised(i)
           /\ Broken' <=> Broken
           /\ DocumentBase' = DocumentBase
  <1>1. doc' = doc
    BY DEF document
  <1>2. \A i : Mismatched(i)' <=> Mismatched(i)
    BY <1>1, SameOpen DEF Mismatched
  <1>3. \A i : BrokenAt(i)' <=> BrokenAt(i)
    BY <1>1, <1>2, SameOpen DEF BrokenAt
  <1>4. \A i : IsBaseAt(i)' <=> IsBaseAt(i)
    BY <1>1, SameOpen DEF IsBaseAt
  <1>5. FirstBases' = FirstBases
    BY <1>1, SameOpen DEF FirstBases
  <1>6. DocumentBase' = DocumentBase
    BY <1>1, <1>5 DEF DocumentBase
  <1>7. \A i : Advertised(i)' <=> Advertised(i)
    BY <1>1, <1>6, SameOpen DEF Advertised
  <1>8. Broken' <=> Broken
    BY <1>1, <1>2, SameOpen DEF Broken
  <1> QED
    BY <1>3, <1>4, <1>6, <1>7, <1>8
-----------------------------------------------------------------------------
(* one tag of a scan *)

LEMMA DocumentType ==
    ASSUME DocumentOK
    PROVE  /\ doc \in Seq(AllTags) /\ Len(doc) \in Nat /\ DOMAIN doc = 1..Len(doc)
           /\ \A i \in 1..Len(doc) :
                /\ doc[i] \in AllTags
                /\ ~IsXHTML => doc[i].kind \notin {"foreign", "/foreign"}
           /\ ~Scannable => doc = <<>>
  <1> DEFINE Tags == {t \in AllTags : t.kind \notin {"foreign", "/foreign"}}
  <1>1. doc \in Seq(AllTags) /\ (~IsXHTML => doc \in Seq(Tags))
    <2>1. CASE ~Scannable
      BY <2>1 DEF DocumentOK
    <2>2. CASE Scannable /\ IsXHTML
      BY <2>2, DiscoveryAssumption DEF DocumentOK
    <2>3. CASE Scannable /\ ~IsXHTML
      <3>1. doc \in HTMLDocuments
        BY <2>3 DEF DocumentOK
      <3>2. Seq(Tags) \subseteq Seq(AllTags)
        <4>1. Tags \subseteq AllTags
          OBVIOUS
        <4> HIDE DEF Tags
        <4> QED
          BY <4>1
      <3> QED
        BY <2>3, <3>1, <3>2, DiscoveryAssumption
    <2> QED
      BY <2>1, <2>2, <2>3
  <1>2. \A i \in 1..Len(doc) : doc[i] \in AllTags /\ (~IsXHTML => doc[i] \in Tags)
    BY <1>1
  <1> QED
    BY <1>1, <1>2 DEF DocumentOK

\* Templates are the only elements that HTML counts.
LEMMA DepthType ==
    ASSUME DocumentOK, NEW i \in 1..Len(doc) + 1
    PROVE  /\ Depth(i) \in Nat /\ Depth(i) <= Cardinality(Open(i))
           /\ ~IsXHTML => Depth(i) = Cardinality(Open(i)) /\ \A j \in Open(i) : doc[j].kind = "template"
  <1> DEFINE T == {j \in Open(i) : doc[j].kind = "template"}
  <1>1. i \in Nat /\ 1..i-1 \subseteq 1..Len(doc)
    BY DocumentType
  <1>2. Open(i) \subseteq 1..i-1 /\ IsFiniteSet(Open(i))
    BY <1>1, OpenFinite
  <1>3. Cardinality(T) \in Nat /\ Cardinality(T) <= Cardinality(Open(i))
    BY <1>2, FS_Subset, FS_CardinalityType
  <1>4. ASSUME ~IsXHTML, NEW j \in Open(i) PROVE doc[j].kind = "template"
    <2>1. Starts(doc[j])
      BY DEF Open
    <2> QED
      BY <1>1, <1>2, <1>4, <2>1, DocumentType DEF Starts
  <1>5. ~IsXHTML => T = Open(i)
    BY <1>4
  <1> QED
    BY <1>3, <1>4, <1>5 DEF Depth

\* A tag at which the scan goes on is not one at which it fails.
LEMMA PassedTag ==
    ASSUME DocumentOK, pos \in 1..Len(doc) + 1, xmlDepth \in Nat, Scanned, AtTag, ~TooDeep
    PROVE  pos \in 1..Len(doc) /\ ~BrokenAt(pos)
  <1>1. pos \in 1..Len(doc)
    BY DocumentType DEF AtTag, Ended
  <1>2. doc[pos].kind # "broken" /\ ~Mismatched(pos)
    BY DEF AtTag, Malformed, Tag
  <1>3. ~Ends(doc[pos]) => /\ IsXHTML => xmlDepth < MaxNestingDepth
                           /\ IsTemplate(doc[pos]) => ~(templateDepth >= MaxNestingDepth)
    BY DEF TooDeep, Tag, HasRoom
  <1>4. Starts(doc[pos]) => ~Ends(doc[pos])
    BY DEF Starts, Ends
  <1>5. Starts(doc[pos]) /\ ~IsXHTML => IsTemplate(doc[pos])
    BY <1>1, DocumentType DEF Starts, IsTemplate
  <1>6. ~IsXHTML => templateDepth = Cardinality(Open(pos))
    BY DepthType DEF Scanned
  <1>7. Cardinality(Open(pos)) \in Nat /\ MaxNestingDepth \in Nat
    BY <1>1, OpenFinite, DiscoveryAssumption
  <1>8. IsXHTML => xmlDepth = Cardinality(Open(pos))
    BY DEF Scanned
  <1> QED
    BY <1>1, <1>2, <1>3, <1>4, <1>5, <1>6, <1>7, <1>8 DEF BrokenAt

LEMMA FailedTag ==
    ASSUME DocumentOK, pos \in 1..Len(doc) + 1, xmlDepth \in Nat, Scanned,
           (Scanning /\ Malformed) \/ TooDeep
    PROVE  Broken
  <1>1. CASE Scanning /\ Malformed /\ Ended
    <2>1. pos = Len(doc) + 1
      BY <1>1, DocumentType DEF Ended
    <2> QED
      BY <1>1, <2>1 DEF Broken, Malformed
  <1>2. CASE Scanning /\ Malformed /\ ~Ended
    <2>1. pos \in DOMAIN doc
      BY <1>2, DocumentType DEF Ended
    <2> QED
      BY <1>2, <2>1 DEF Broken, Malformed, Tag
  <1>3. CASE TooDeep
    <2>1. pos \in DOMAIN doc /\ ~Ends(doc[pos])
      BY <1>3, DocumentType DEF TooDeep, AtTag, Ended, Tag
    <2>2. Cardinality(Open(pos)) \in Nat /\ MaxNestingDepth \in Nat
      BY <2>1, DocumentType, OpenFinite, DiscoveryAssumption
    <2>3. Depth(pos) \in Nat /\ Depth(pos) <= Cardinality(Open(pos)) /\ templateDepth = Depth(pos)
      BY DepthType DEF Scanned
    <2>4. CASE IsXHTML /\ ~HasRoom
      <3>1. Cardinality(Open(pos)) >= MaxNestingDepth
        BY <2>2, <2>4 DEF Scanned, HasRoom
      <3> QED
        BY <2>1, <2>4, <3>1 DEF Broken
    <2>5. CASE IsTemplate(doc[pos]) /\ templateDepth >= MaxNestingDepth
      <3>1. Cardinality(Open(pos)) >= MaxNestingDepth
        BY <2>2, <2>3, <2>5
      <3>2. Starts(doc[pos])
        BY <2>1, <2>5 DEF IsTemplate, Starts, Ends
      <3> QED
        BY <2>1, <3>1, <3>2 DEF Broken
    <2> QED
      BY <1>3, <2>4, <2>5 DEF TooDeep, Tag
  <1> QED
    BY <1>1, <1>2, <1>3

\* What the two counters become at a start tag and at an end tag is the depth
\* behind it.
LEMMA StartedTag ==
    ASSUME DocumentOK, pos \in 1..Len(doc), Scanned, Starts(doc[pos])
    PROVE  /\ Nested(pos + 1)
           /\ Cardinality(Open(pos + 1)) = Cardinality(Open(pos)) + 1
           /\ Depth(pos + 1) = IF IsTemplate(doc[pos]) THEN Depth(pos) + 1 ELSE Depth(pos)
  <1> DEFINE T(i) == {j \in Open(i) : doc[j].kind = "template"}
  <1>1. pos \in Nat \ {0}
    BY DocumentType
  <1>2. Nested(pos + 1) /\ Open(pos + 1) = Open(pos) \cup {pos} /\ pos \notin Open(pos)
    BY <1>1, NestedStart DEF Scanned
  <1>3. IsFiniteSet(Open(pos)) /\ IsFiniteSet(T(pos)) /\ pos \notin T(pos)
    BY <1>1, <1>2, OpenFinite
  <1>4. Cardinality(Open(pos + 1)) = Cardinality(Open(pos)) + 1
    BY <1>2, <1>3, FS_AddElement
  <1>5. T(pos + 1) = IF doc[pos].kind = "template" THEN T(pos) \cup {pos} ELSE T(pos)
    BY <1>2
  <1>6. IsTemplate(doc[pos]) <=> doc[pos].kind = "template"
    BY DEF Starts, IsTemplate
  <1>7. Cardinality(T(pos + 1)) =
           IF doc[pos].kind = "template" THEN Cardinality(T(pos)) + 1 ELSE Cardinality(T(pos))
    <2> HIDE DEF T
    <2> QED
      BY <1>3, <1>5, FS_AddElement
  <1> QED
    BY <1>2, <1>4, <1>6, <1>7 DEF Depth

LEMMA EndedTag ==
    ASSUME DocumentOK, pos \in 1..Len(doc), Scanned, Ends(doc[pos]), ~Mismatched(pos)
    PROVE  /\ Nested(pos + 1)
           /\ IsXHTML => /\ Cardinality(Open(pos)) > 0
                         /\ Cardinality(Open(pos + 1)) = Cardinality(Open(pos)) - 1
           /\ Depth(pos + 1) = IF IsTemplate(doc[pos]) /\ Depth(pos) > 0
                               THEN Depth(pos) - 1 ELSE Depth(pos)
  <1> DEFINE T(i) == {j \in Open(i) : doc[j].kind = "template"}
  <1>1. pos \in Nat \ {0} /\ pos \in 1..Len(doc) + 1
    BY DocumentType
  <1>2. /\ Nested(pos) /\ Nested(pos + 1)
        /\ Open(pos) = {} => Open(pos + 1) = {}
        /\ \A m : IsInnermost(m, Open(pos)) => Open(pos + 1) = Open(pos) \ {m}
    BY <1>1, NestedEnd DEF Scanned
  <1>3. CASE Open(pos) = {}
    <2>1. ~IsXHTML
      BY <1>3 DEF Mismatched
    <2>2. T(pos) = {} /\ T(pos + 1) = {}
      BY <1>2, <1>3
    <2>3. Depth(pos) = 0 /\ Depth(pos + 1) = 0
      BY <2>2, FS_EmptySet DEF Depth
    <2> QED
      BY <1>2, <2>1, <2>3
  <1>4. CASE Open(pos) # {}
    <2>1. PICK m \in Open(pos) :
             /\ IsInnermost(m, Open(pos))
             /\ IsTemplate(doc[pos]) <=> doc[m].kind = "template"
      <3>1. CASE IsXHTML
        <4>1. PICK j \in Open(pos) :
                 /\ \A k \in Open(pos) : k <= j
                 /\ doc[pos].kind = IF doc[j].kind = "template" THEN "/template" ELSE "/foreign"
          BY <3>1 DEF Mismatched
        <4> QED
          BY <4>1 DEF IsInnermost, IsTemplate
      <3>2. CASE ~IsXHTML
        <4>1. PICK j \in Open(pos) : IsInnermost(j, Open(pos))
          BY <1>2, <1>4 DEF Nested
        <4>2. doc[j].kind = "template"
          BY <1>1, <3>2, DepthType
        <4>3. IsTemplate(doc[pos])
          BY <3>2, DocumentType DEF Ends, IsTemplate
        <4> QED
          BY <4>1, <4>2, <4>3
      <3> QED
        BY <3>1, <3>2
    <2>2. Open(pos + 1) = Open(pos) \ {m}
      BY <1>2, <2>1
    <2>3. IsFiniteSet(Open(pos)) /\ IsFiniteSet(T(pos)) /\ Cardinality(Open(pos)) \in Nat
          /\ Cardinality(T(pos)) \in Nat
      BY <1>1, OpenFinite
    <2>4. Cardinality(Open(pos)) # 0 /\ Cardinality(Open(pos + 1)) = Cardinality(Open(pos)) - 1
      BY <1>4, <2>2, <2>3, FS_EmptySet, FS_RemoveElement
    <2>5. CASE IsTemplate(doc[pos])
      <3>1. T(pos + 1) = T(pos) \ {m} /\ m \in T(pos)
        BY <2>1, <2>2, <2>5
      <3> HIDE DEF T
      <3>2. Cardinality(T(pos)) # 0 /\ Cardinality(T(pos + 1)) = Cardinality(T(pos)) - 1
        BY <2>3, <3>1, FS_EmptySet, FS_RemoveElement
      <3>3. Depth(pos) > 0 /\ Depth(pos + 1) = Depth(pos) - 1
        BY <2>3, <3>2 DEF T, Depth
      <3> QED
        BY <1>2, <2>3, <2>4, <2>5, <3>3
    <2>6. CASE ~IsTemplate(doc[pos])
      <3>1. T(pos + 1) = T(pos)
        BY <2>1, <2>2, <2>6
      <3>2. Depth(pos + 1) = Depth(pos)
        BY <3>1 DEF Depth
      <3> QED
        BY <1>2, <2>3, <2>4, <2>6, <3>2
    <2> QED
      BY <2>5, <2>6
  <1> QED
    BY <1>3, <1>4

LEMMA OtherTag ==
    ASSUME DocumentOK, pos \in 1..Len(doc), Scanned, ~Starts(doc[pos]), ~Ends(doc[pos])
    PROVE  Nested(pos + 1) /\ Open(pos + 1) = Open(pos) /\ Depth(pos + 1) = Depth(pos)
  <1>1. pos \in Nat \ {0}
    BY DocumentType
  <1> QED
    BY <1>1, NestedOther DEF Scanned, Depth
-----------------------------------------------------------------------------
(* the base and the links *)

LEMMA NoBaseOrLink ==
    ASSUME NEW i, Starts(doc[i]) \/ Ends(doc[i])
    PROVE  ~IsBaseAt(i) /\ ~Advertised(i)
  BY DEF Starts, Ends, IsBaseAt, Advertised

\* The base found is that of the document.
LEMMA BaseFound ==
    ASSUME DocumentOK, NEW i \in 1..Len(doc), IsBaseAt(i), \A j \in 1..i-1 : ~IsBaseAt(j)
    PROVE  /\ DocumentBase = IF doc[i].href \in {"malformed", "blank"} THEN "page" ELSE doc[i].href
           /\ DocumentBase \in Bases
  <1>1. doc[i] \in AllTags /\ DOMAIN doc = 1..Len(doc) /\ Len(doc) \in Nat
    BY DocumentType
  <1>2. doc[i].href \in {"malformed", "blank", "elsewhere", "opaque"}
    BY <1>1 DEF IsBaseAt, AllTags
  <1>3. \A j \in 1..Len(doc) : j \in FirstBases <=> IsBaseAt(j) /\ \A k \in 1..j-1 : ~IsBaseAt(k)
    BY <1>1 DEF FirstBases, IsBaseAt
  <1>4. FirstBases \subseteq 1..Len(doc)
    BY <1>1 DEF FirstBases
  <1>5. i \in FirstBases
    BY <1>3
  <1>6. ASSUME NEW j \in FirstBases, j # i PROVE FALSE
    <2>1. j < i => j \in 1..i-1
      BY <1>4
    <2>2. i < j => i \in 1..j-1
      BY <1>4
    <2> QED
      BY <1>1, <1>3, <1>4, <1>6, <2>1, <2>2
  <1>7. FirstBases = {i}
    BY <1>5, <1>6
  <1>8. (CHOOSE j \in FirstBases : TRUE) = i
    BY <1>7
  <1> QED
    BY <1>2, <1>7, <1>8 DEF DocumentBase, Bases

LEMMA NoBaseFound ==
    ASSUME DocumentOK, \A j \in 1..Len(doc) : ~IsBaseAt(j)
    PROVE  DocumentBase = "page" /\ DocumentBase \in Bases
  <1>1. FirstBases = {}
    BY DocumentType DEF FirstBases, IsBaseAt
  <1> QED
    BY <1>1 DEF DocumentBase, Bases

LEMMA NoLinksYet == links = <<>> => LinksBefore(1)
  <1>1. {j \in 1..1-1 : Advertised(j)} = {}
    OBVIOUS
  <1> QED
    BY <1>1 DEF LinksBefore

LEMMA SameLinks ==
    ASSUME UNCHANGED document, UNCHANGED links
    PROVE  \A i : LinksBefore(i)' <=> LinksBefore(i)
  <1>1. doc' = doc
    BY DEF document
  <1> QED
    BY <1>1, SameDocument DEF LinksBefore

LEMMA NotALink ==
    ASSUME NEW i \in Nat \ {0}, LinksBefore(i), ~Advertised(i)
    PROVE  LinksBefore(i + 1)
  <1>1. 1..(i+1)-1 = (1..i-1) \cup {i}
    OBVIOUS
  <1>2. {j \in 1..(i+1)-1 : Advertised(j)} = {j \in 1..i-1 : Advertised(j)}
    BY <1>1
  <1> QED
    BY <1>2 DEF LinksBefore

LEMMA ALink ==
    ASSUME NEW i \in Nat \ {0}, NEW R, links \in Seq(R), LinksBefore(i), Advertised(i),
           UNCHANGED document,
           links' = Append(links, [at |-> i, url |-> Resolve(DocumentBase, doc[i].href)])
    PROVE  LinksBefore(i + 1)'
  <1> DEFINE n == Len(links) + 1
             url == Resolve(DocumentBase, doc[i].href)
  <1>1. /\ DOMAIN links = 1..n-1 /\ DOMAIN links' = 1..n /\ n \in Nat \ {0}
        /\ \A p \in 1..n-1 : links'[p] = links[p]
        /\ links'[n] = [at |-> i, url |-> url]
    OBVIOUS
  <1> HIDE DEF n
  <1>2. links'[n].at = i /\ links'[n].url = url
    BY <1>1
  <1>3. doc' = doc
    BY DEF document
  <1>4. 1..(i+1)-1 = (1..i-1) \cup {i}
    OBVIOUS
  <1>5. {j \in 1..(i+1)-1 : Advertised(j)} = {j \in 1..i-1 : Advertised(j)} \cup {i}
    BY <1>4
  <1>6. \A p \in 1..n-1 : links[p].at \in 1..i-1
    BY <1>1 DEF LinksBefore
  <1>7. {links'[p].at : p \in 1..n} = {j \in 1..(i+1)-1 : Advertised(j)}
    <2>1. {links'[p].at : p \in 1..n} = {links[p].at : p \in 1..n-1} \cup {i}
      <3>1. 1..n = (1..n-1) \cup {n}
        BY <1>1
      <3> QED
        BY <1>1, <1>2, <3>1
    <2> QED
      BY <1>1, <1>5, <2>1 DEF LinksBefore
  <1>8. \A p, q \in 1..n : p < q => links'[p].at < links'[q].at
    <2> SUFFICES ASSUME NEW p \in 1..n, NEW q \in 1..n, p < q
                 PROVE  links'[p].at < links'[q].at
      OBVIOUS
    <2>1. p \in 1..n-1
      BY <1>1
    <2>2. CASE q = n
      BY <1>1, <1>2, <1>6, <2>1, <2>2
    <2>3. CASE q # n
      BY <1>1, <2>1, <2>3 DEF LinksBefore
    <2> QED
      BY <2>2, <2>3
  <1>9. \A p \in 1..n : links'[p].url = Resolve(DocumentBase, doc[links'[p].at].href)
    <2> SUFFICES ASSUME NEW p \in 1..n
                 PROVE  links'[p].url = Resolve(DocumentBase, doc[links'[p].at].href)
      OBVIOUS
    <2>1. CASE p = n
      BY <1>2, <2>1
    <2>2. CASE p # n
      BY <1>1, <2>2 DEF LinksBefore
    <2> QED
      BY <2>1, <2>2
  <1>10. /\ \A j : Advertised(j)' <=> Advertised(j)
         /\ DocumentBase' = DocumentBase
    BY SameDocument
  <1>11. {links'[p].at : p \in 1..n} = {j \in 1..(i+1)-1 : Advertised(j)}'
    BY <1>7, <1>10
  <1> QED
    BY <1>1, <1>3, <1>8, <1>9, <1>10, <1>11 DEF LinksBefore
-----------------------------------------------------------------------------
(* the invariant *)

\* A tag has been passed.
LEMMA Advanced ==
    ASSUME Scanned, pos \in 1..Len(doc), UNCHANGED document, Len(doc) \in Nat,
           pos' = pos + 1, Nested(pos + 1), ~BrokenAt(pos),
           templateDepth' = Depth(pos + 1),
           IsXHTML => xmlDepth' = Cardinality(Open(pos + 1))
    PROVE  Scanned'
  <1>1. /\ \A i : /\ Nested(i)' <=> Nested(i)
                  /\ Depth(i)' = Depth(i)
                  /\ Open(i)' = Open(i)
                  /\ BrokenAt(i)' <=> BrokenAt(i)
        /\ IsXHTML' <=> IsXHTML
    BY SameOpen, SameDocument
  <1>2. \A i \in 1..pos'-1 : ~BrokenAt(i)
    <2>1. 1..pos'-1 = (1..pos-1) \cup {pos}
      OBVIOUS
    <2> QED
      BY <2>1 DEF Scanned
  <1> QED
    BY <1>1, <1>2 DEF Scanned

\* Each pass begins at the first tag.
LEMMA Rewound ==
    ASSUME UNCHANGED document, pos' = 1, xmlDepth' = 0, templateDepth' = 0
    PROVE  Scanned'
  <1>1. /\ \A i : /\ Nested(i)' <=> Nested(i)
                  /\ Depth(i)' = Depth(i)
                  /\ Open(i)' = Open(i)
    BY SameOpen
  <1>2. 1..pos'-1 = {}
    OBVIOUS
  <1> QED
    BY <1>1, <1>2, NestedAt1 DEF Scanned

LinkType == [at : 1..Len(doc), url : (Bases \cup {"another"}) \X {"", "path"}]

LEMMA InvFacts ==
    ASSUME IInv
    PROVE  /\ DocumentOK /\ Len(doc) \in Nat /\ DOMAIN doc = 1..Len(doc)
           /\ pos \in 1..Len(doc) + 1 /\ pos \in Nat \ {0}
           /\ xmlDepth \in 0..MaxNestingDepth /\ xmlDepth \in Nat
           /\ templateDepth \in 0..MaxNestingDepth /\ templateDepth \in Nat
           /\ MaxNestingDepth \in Nat
           /\ links \in Seq(LinkType)
           /\ Scanning => Scanned /\ result = "none"
  <1>1. DocumentOK /\ TypeOK
    BY DEF IInv
  <1>2. Len(doc) \in Nat /\ DOMAIN doc = 1..Len(doc)
    BY <1>1, DocumentType
  <1>3. links \in Seq(LinkType)
    BY <1>1, <1>2 DEF TypeOK, LinkType
  <1>4. Scanning => Scanned /\ result = "none"
    BY DEF IInv
  <1>5. /\ pos \in 1..Len(doc) + 1 /\ xmlDepth \in 0..MaxNestingDepth
        /\ templateDepth \in 0..MaxNestingDepth /\ MaxNestingDepth \in Nat
    BY <1>1, DiscoveryAssumption DEF TypeOK
  <1> QED
    BY <1>1, <1>2, <1>3, <1>4, <1>5

LEMMA SameDocumentOK ==
    ASSUME DocumentOK, UNCHANGED document
    PROVE  DocumentOK' /\ Len(doc') = Len(doc)
  BY SameOpen DEF DocumentOK, document

LEMMA SameLinkType ==
    ASSUME TypeOK, UNCHANGED <<document, body, links>>
    PROVE  /\ input' \in Inputs
           /\ doc' \in HTMLDocuments \cup XHTMLDocuments \cup {<<>>}
           /\ links' \in Seq([at : DOMAIN doc', url : (Bases \cup {"another"}) \X {"", "path"}])
  BY DEF TypeOK, document

\* A tag that the pass has no use for.
LEMMA Passed ==
    ASSUME IInv, Scanning, Scanned', UNCHANGED <<document, body, pass, baseURL, links, result>>,
           pos' = pos + 1, pos \in 1..Len(doc),
           xmlDepth' \in 0..MaxNestingDepth, templateDepth' \in 0..MaxNestingDepth,
           pass = "base" => ~IsBaseAt(pos),
           pass = "links" => ~Advertised(pos)
    PROVE  IInv'
  <1>0. UNCHANGED document /\ UNCHANGED links
    OBVIOUS
  <1>1. /\ DocumentOK' /\ Len(doc') = Len(doc)
        /\ \A i : IsBaseAt(i)' <=> IsBaseAt(i)
        /\ \A i : LinksBefore(i)' <=> LinksBefore(i)
        /\ DocumentBase' = DocumentBase
        /\ Scannable' <=> Scannable
        /\ input' = input
    BY <1>0, InvFacts, SameDocumentOK, SameDocument, SameLinks, SameOpen DEF document
  <1>2. TypeOK'
    <2>1. pos' \in 1..Len(doc') + 1
      BY <1>1, InvFacts
    <2> QED
      BY <2>1, SameLinkType DEF IInv, TypeOK
  <1>3. pass = "base" => \A i \in 1..pos'-1 : ~IsBaseAt(i)'
    <2>1. 1..pos'-1 = (1..pos-1) \cup {pos}
      BY InvFacts
    <2> QED
      BY <1>1, <2>1 DEF IInv
  <1>4. pass = "links" => LinksBefore(pos')
    BY InvFacts, NotALink DEF IInv
  <1>5. pass = "links" => LinksBefore(pos)'
    BY <1>1, <1>4
  <1> QED
    BY <1>1, <1>2, <1>3, <1>5 DEF IInv, Scanning

LEMMA StartElementStep == IInv /\ StartElement => IInv'
  <1> SUFFICES ASSUME IInv, StartElement PROVE IInv'
    OBVIOUS
  <1>1. /\ AtTag /\ Scanning /\ Starts(doc[pos]) /\ ~TooDeep
        /\ xmlDepth' = IF IsXHTML THEN xmlDepth + 1 ELSE 0
        /\ templateDepth' = IF IsTemplate(doc[pos]) THEN templateDepth + 1 ELSE templateDepth
        /\ pos' = pos + 1
        /\ UNCHANGED <<document, body, pass, baseURL, links, result>>
    BY DEF StartElement, Advance, AtTag, Tag
  <1>2. pos \in 1..Len(doc) /\ ~BrokenAt(pos)
    BY <1>1, InvFacts, PassedTag
  <1>3. /\ Nested(pos + 1)
        /\ Cardinality(Open(pos + 1)) = Cardinality(Open(pos)) + 1
        /\ Depth(pos + 1) = IF IsTemplate(doc[pos]) THEN Depth(pos) + 1 ELSE Depth(pos)
    BY <1>1, <1>2, InvFacts, StartedTag
  <1>4. Scanned'
    <2>1. templateDepth' = Depth(pos + 1)
      BY <1>1, <1>3, InvFacts DEF Scanned
    <2>2. IsXHTML => xmlDepth' = Cardinality(Open(pos + 1))
      BY <1>1, <1>3, InvFacts DEF Scanned
    <2> QED
      BY <1>1, <1>2, <1>3, <2>1, <2>2, InvFacts, Advanced
  <1>5. xmlDepth' \in 0..MaxNestingDepth /\ templateDepth' \in 0..MaxNestingDepth
    <2>1. ~Ends(Tag) /\ Tag = doc[pos]
      BY <1>1 DEF Starts, Ends, Tag
    <2>2. /\ IsXHTML => xmlDepth < MaxNestingDepth
          /\ IsTemplate(doc[pos]) => ~(templateDepth >= MaxNestingDepth)
      BY <1>1, <2>1 DEF TooDeep, HasRoom
    <2> QED
      BY <1>1, <2>2, InvFacts
  <1> QED
    BY <1>1, <1>2, <1>4, <1>5, NoBaseOrLink, Passed

LEMMA EndElementStep == IInv /\ EndElement => IInv'
  <1> SUFFICES ASSUME IInv, EndElement PROVE IInv'
    OBVIOUS
  <1>1. /\ AtTag /\ Scanning /\ Ends(doc[pos]) /\ ~Mismatched(pos)
        /\ xmlDepth' = IF IsXHTML THEN xmlDepth - 1 ELSE 0
        /\ templateDepth' = IF IsTemplate(doc[pos]) /\ templateDepth > 0
                            THEN templateDepth - 1 ELSE templateDepth
        /\ pos' = pos + 1
        /\ UNCHANGED <<document, body, pass, baseURL, links, result>>
    BY DEF EndElement, Advance, AtTag, Tag, Malformed
  <1>2. ~TooDeep
    BY <1>1 DEF TooDeep, Tag
  <1>3. pos \in 1..Len(doc) /\ ~BrokenAt(pos)
    BY <1>1, <1>2, InvFacts, PassedTag
  <1>4. /\ Nested(pos + 1)
        /\ IsXHTML => /\ Cardinality(Open(pos)) > 0
                      /\ Cardinality(Open(pos + 1)) = Cardinality(Open(pos)) - 1
        /\ Depth(pos + 1) = IF IsTemplate(doc[pos]) /\ Depth(pos) > 0
                            THEN Depth(pos) - 1 ELSE Depth(pos)
    BY <1>1, <1>3, InvFacts, EndedTag
  <1>5. Scanned'
    <2>1. templateDepth' = Depth(pos + 1)
      BY <1>1, <1>4, InvFacts DEF Scanned
    <2>2. IsXHTML => xmlDepth' = Cardinality(Open(pos + 1))
      BY <1>1, <1>4, InvFacts DEF Scanned
    <2> QED
      BY <1>1, <1>3, <1>4, <2>1, <2>2, InvFacts, Advanced
  <1>6. xmlDepth' \in 0..MaxNestingDepth /\ templateDepth' \in 0..MaxNestingDepth
    <2>1. IsXHTML => xmlDepth > 0
      BY <1>1, <1>4, InvFacts DEF Scanned
    <2> QED
      BY <1>1, <2>1, InvFacts
  <1> QED
    BY <1>1, <1>3, <1>5, <1>6, NoBaseOrLink, Passed

\* What the base and the links are recognised by is what the document says.
LEMMA Recognised ==
    ASSUME IInv, Scanning
    PROVE  /\ IsBase <=> IsBaseAt(pos)
           /\ IsLink <=> /\ doc[pos].kind = "link" /\ Depth(pos) = 0
                         /\ doc[pos].rel = "feed" \/ (doc[pos].rel = "alternate" /\ doc[pos].hint)
                         /\ doc[pos].href \notin {"none", "blank"}
  <1>1. TopLevel <=> Depth(pos) = 0
    BY InvFacts DEF Scanned, TopLevel
  <1> QED
    BY <1>1 DEF IsBase, IsLink, IsBaseAt, Tag

LEMMA OtherScanned ==
    ASSUME IInv, AtElement, pos' = pos + 1, UNCHANGED <<document, body, xmlDepth, templateDepth>>
    PROVE  Scanned' /\ pos \in 1..Len(doc) /\ Scanning
  <1>1. AtTag /\ Scanning /\ ~TooDeep /\ ~Starts(doc[pos]) /\ ~Ends(doc[pos])
    BY DEF AtElement, AtTag, Tag
  <1>2. pos \in 1..Len(doc) /\ ~BrokenAt(pos)
    BY <1>1, InvFacts, PassedTag
  <1>3. Nested(pos + 1) /\ Open(pos + 1) = Open(pos) /\ Depth(pos + 1) = Depth(pos)
    BY <1>1, <1>2, InvFacts, OtherTag
  <1>4. templateDepth' = Depth(pos + 1) /\ (IsXHTML => xmlDepth' = Cardinality(Open(pos + 1)))
    BY <1>1, <1>3, InvFacts DEF Scanned
  <1>5. UNCHANGED document
    OBVIOUS
  <1> QED
    BY <1>1, <1>2, <1>3, <1>4, <1>5, InvFacts, Advanced

LEMMA SkipStep == IInv /\ Skip => IInv'
  <1> SUFFICES ASSUME IInv, Skip PROVE IInv'
    OBVIOUS
  <1>1. /\ AtElement /\ pos' = pos + 1
        /\ UNCHANGED <<document, body, pass, xmlDepth, templateDepth, baseURL, links, result>>
        /\ ~(pass = "base" /\ IsBase)
        /\ ~(pass = "links" /\ IsLink)
    BY DEF Skip, Advance
  <1>2. Scanned' /\ pos \in 1..Len(doc) /\ Scanning
    BY <1>1, OtherScanned
  <1>3. (pass = "base" => ~IsBaseAt(pos)) /\ (pass = "links" => ~Advertised(pos))
    BY <1>1, <1>2, Recognised DEF Advertised
  <1> QED
    BY <1>1, <1>2, <1>3, InvFacts, Passed

\* The second pass, with the base of the document.
LEMMA LinksStarted ==
    ASSUME IInv, pass = "base", NEW base, base = DocumentBase, base \in Bases, StartLinks(base)
    PROVE  IInv'
  <1>1. /\ pass' = "links" /\ pos' = 1 /\ xmlDepth' = 0 /\ templateDepth' = 0
        /\ baseURL' = base /\ UNCHANGED <<document, body, links, result>>
        /\ UNCHANGED document /\ UNCHANGED links
    BY DEF StartLinks
  <1>2. /\ DocumentOK' /\ Len(doc') = Len(doc) /\ input' = input
        /\ LinksBefore(1)' <=> LinksBefore(1)
        /\ DocumentBase' = DocumentBase
        /\ Scannable' <=> Scannable
    BY <1>1, InvFacts, SameDocumentOK, SameDocument, SameLinks, SameOpen DEF document
  <1>3. TypeOK'
    <2>1. pos' \in 1..Len(doc') + 1 /\ 0 \in 0..MaxNestingDepth
      BY <1>1, <1>2, InvFacts
    <2> QED
      BY <1>1, <2>1, SameLinkType DEF IInv, TypeOK
  <1>4. Scanned'
    BY <1>1, Rewound
  <1>5. LinksBefore(1)'
    BY <1>2, NoLinksYet DEF IInv
  <1>6. LinksBefore(pos)'
    BY <1>1, <1>5
  <1> QED
    BY <1>1, <1>2, <1>3, <1>4, <1>6 DEF IInv, Scanning

LEMMA FindBaseStep == IInv /\ FindBase => IInv'
  <1> SUFFICES ASSUME IInv, FindBase PROVE IInv'
    OBVIOUS
  <1> DEFINE base == IF doc[pos].href \in {"malformed", "blank"} THEN "page" ELSE doc[pos].href
  <1>1. AtElement /\ pass = "base" /\ IsBase /\ StartLinks(base)
    BY DEF FindBase, Tag
  <1>2. Scanning /\ pos \in 1..Len(doc)
    BY <1>1, InvFacts DEF AtElement, AtTag, Ended
  <1>3. IsBaseAt(pos) /\ \A j \in 1..pos-1 : ~IsBaseAt(j)
    BY <1>1, <1>2, Recognised DEF IInv
  <1>4. base = DocumentBase /\ base \in Bases
    BY <1>2, <1>3, InvFacts, BaseFound
  <1> HIDE DEF base
  <1> QED
    BY <1>1, <1>4, LinksStarted

LEMMA NoBaseStep == IInv /\ NoBase => IInv'
  <1> SUFFICES ASSUME IInv, NoBase PROVE IInv'
    OBVIOUS
  <1>1. pass = "base" /\ AtEnd /\ StartLinks("page")
    BY DEF NoBase
  <1>2. pos = Len(doc) + 1 /\ pos-1 = Len(doc)
    BY <1>1, InvFacts DEF AtEnd, Ended
  <1>3. \A j \in 1..Len(doc) : ~IsBaseAt(j)
    BY <1>1, <1>2 DEF IInv
  <1> QED
    BY <1>1, <1>3, InvFacts, NoBaseFound, LinksStarted

LEMMA FindLinkStep == IInv /\ FindLink => IInv'
  <1> SUFFICES ASSUME IInv, FindLink PROVE IInv'
    OBVIOUS
  <1> DEFINE url == Resolve(baseURL, doc[pos].href)
  <1>1. /\ AtElement /\ pass = "links" /\ IsLink /\ pos' = pos + 1
        /\ links' = IF url \notin {NoURL, SourceFetchURL}
                    THEN Append(links, [at |-> pos, url |-> url]) ELSE links
        /\ UNCHANGED <<document, body, pass, xmlDepth, templateDepth, baseURL, result>>
        /\ UNCHANGED document
    BY DEF FindLink, Advance, Tag
  <1>2. Scanned' /\ pos \in 1..Len(doc) /\ Scanning
    BY <1>1, OtherScanned
  <1>3. LinksBefore(pos) /\ baseURL = DocumentBase
    BY <1>1 DEF IInv
  <1>4. Advertised(pos) <=> url \notin {NoURL, SourceFetchURL}
    BY <1>1, <1>2, <1>3, Recognised DEF Advertised, SourceFetchURL
  <1>5. CASE ~Advertised(pos)
    <2>1. UNCHANGED links
      BY <1>1, <1>4, <1>5
    <2> QED
      BY <1>1, <1>2, <1>5, <2>1, InvFacts, Passed
  <1>6. CASE Advertised(pos)
    <2>1. links' = Append(links, [at |-> pos, url |-> url])
      BY <1>1, <1>4, <1>6
    <2>2. PICK n \in Nat \ {0} : n = pos
      BY InvFacts
    <2>3. LinksBefore(pos)'
      <3>1. LinksBefore(n) /\ Advertised(n)
        BY <1>3, <1>6, <2>2
      <3>2. links' = Append(links, [at |-> n, url |-> Resolve(DocumentBase, doc[n].href)])
        BY <1>3, <2>1, <2>2
      <3>3. links \in Seq(LinkType)
        BY InvFacts
      <3>4. LinksBefore(n + 1)'
        BY <1>1, <3>1, <3>2, <3>3, ALink
      <3> QED
        BY <1>1, <2>2, <3>4
    <2>4. /\ DocumentOK' /\ Len(doc') = Len(doc) /\ input' = input /\ doc' = doc
          /\ DocumentBase' = DocumentBase
          /\ Scannable' <=> Scannable
      BY <1>1, InvFacts, SameDocumentOK, SameDocument, SameOpen DEF document
    <2>5. links' \in Seq([at : DOMAIN doc', url : (Bases \cup {"another"}) \X {"", "path"}])
      <3>1. doc[pos] \in AllTags /\ doc[pos].kind = "link"
        BY <1>1, <1>2, InvFacts, Recognised, DocumentType
      <3>2. doc[pos].href \in Hrefs
        BY <3>1 DEF AllTags
      <3>3. baseURL \in Bases
        BY DEF IInv, TypeOK
      <3>4. url \in (Bases \cup {"another"}) \X {"", "path"}
        BY <1>4, <1>6, <3>2, <3>3, InvFacts, Recognised, <1>2, <1>1 DEF Resolve, Hrefs, NoURL
      <3>5. [at |-> pos, url |-> url] \in LinkType
        BY <1>2, <3>4 DEF LinkType
      <3>6. links' \in Seq(LinkType)
        BY <2>1, <3>5, InvFacts
      <3> QED
        BY <2>4, <3>6, InvFacts DEF LinkType
    <2>6. TypeOK'
      <3>1. pos' \in 1..Len(doc') + 1
        BY <1>1, <1>2, <2>4, InvFacts
      <3> QED
        BY <1>1, <2>4, <2>5, <3>1 DEF IInv, TypeOK
    <2> QED
      BY <1>1, <1>2, <1>3, <2>3, <2>4, <2>6 DEF IInv, Scanning
  <1> QED
    BY <1>5, <1>6

\* Steps that return.
LEMMA Returned ==
    ASSUME IInv, UNCHANGED <<document, body, pos, xmlDepth, templateDepth, baseURL, links>>,
           pass' = "done", result' \in {"links", "error"},
           IF Scannable
           THEN IF result' = "error" THEN Broken ELSE ~Broken /\ LinksBefore(Len(doc) + 1)
           ELSE links = <<>> /\ (result' = "error" <=> ~Readable \/ IsDocument)
    PROVE  IInv'
  <1>1. UNCHANGED document /\ UNCHANGED links /\ input' = input
    BY DEF document
  <1>2. /\ DocumentOK' /\ Len(doc') = Len(doc)
        /\ LinksBefore(Len(doc) + 1)' <=> LinksBefore(Len(doc) + 1)
        /\ Broken' <=> Broken
        /\ Scannable' <=> Scannable
        /\ Readable' <=> Readable
        /\ IsDocument' <=> IsDocument
    BY <1>1, InvFacts, SameDocumentOK, SameDocument, SameLinks, SameOpen DEF document
  <1>3. TypeOK'
    <2>1. pos' \in 1..Len(doc') + 1
      BY <1>2, InvFacts
    <2> QED
      BY <2>1, SameLinkType DEF IInv, TypeOK
  <1> QED
    BY <1>1, <1>2, <1>3 DEF IInv, Scanning

LEMMA FinishStep == IInv /\ Finish => IInv'
  <1> SUFFICES ASSUME IInv, Finish PROVE IInv'
    OBVIOUS
  <1>1. pass = "links" /\ Scanning /\ Ended /\ ~Malformed
    BY DEF Finish, AtEnd
  <1>2. pos = Len(doc) + 1 /\ pos-1 = Len(doc)
    BY <1>1, InvFacts DEF Ended
  <1>3. ~Broken
    <2>1. \A i \in DOMAIN doc : ~BrokenAt(i)
      BY <1>1, <1>2, InvFacts DEF Scanned
    <2>2. ~(IsXHTML /\ Open(Len(doc) + 1) # {})
      BY <1>1, <1>2 DEF Malformed
    <2> QED
      BY <2>1, <2>2 DEF Broken, BrokenAt
  <1>4. LinksBefore(Len(doc) + 1)
    BY <1>1, <1>2 DEF IInv
  <1>5. Scannable
    BY <1>1 DEF IInv
  <1> QED
    BY <1>3, <1>4, <1>5, Returned DEF Finish

LEMMA FailStep == IInv /\ Fail => IInv'
  <1> SUFFICES ASSUME IInv, Fail PROVE IInv'
    OBVIOUS
  <1>1. Scanning /\ (Malformed \/ TooDeep)
    BY DEF Fail, TooDeep, AtTag
  <1>2. Scannable
    BY <1>1 DEF IInv
  <1>3. Broken
    BY <1>1, InvFacts, FailedTag
  <1> QED
    BY <1>2, <1>3, Returned DEF Fail

\* What readDocument has returned tells what the input is.
LEMMA BodyIsInput ==
    ASSUME BodyOK, pass = "read"
    PROVE  /\ BodyRead => Readable /\ body = input.size
           /\ input.page = "invalid" \/ ReadFailed \/ TooLarge => ~Readable
  <1>1. /\ input.size \in Nat /\ input.page \in {"valid", "invalid"}
        /\ MaxDocumentSize \in Nat /\ body \in Nat /\ body <= input.size
    <2>1. input.size \in Nat /\ input.page \in {"valid", "invalid"}
      BY DEF BodyOK, AllInputs
    <2>2. MaxDocumentSize \in Nat /\ body \in Nat /\ body <= input.size
      BY DiscoveryAssumption DEF BodyOK
    <2> QED
      BY <2>1, <2>2
  <1> QED
    BY <1>1 DEF BodyRead, ReadEnded, ReadFailed, ReadLimit, TooLarge, Readable

LEMMA BodyStep == BodyOK /\ [Next]_vars => BodyOK'
  <1> SUFFICES ASSUME BodyOK, [Next]_vars PROVE BodyOK'
    OBVIOUS
  <1>1. CASE ReadMore
    <2>1. /\ input' = input /\ pass = "read" /\ pass' = "read" /\ result' = result
          /\ body' \in body+1..MaxDocumentSize + 1 /\ body' <= input.size
      BY <1>1 DEF ReadMore, ReadLimit, document
    <2>2. body' \in 0..MaxDocumentSize + 1
      BY <2>1, DiscoveryAssumption DEF BodyOK
    <2> QED
      BY <2>1, <2>2 DEF BodyOK, Scanning
  <1>2. CASE ~ReadMore
    <2>1. input' = input /\ body' = body /\ (Readable' <=> Readable)
      <3>1. UNCHANGED <<document, body>>
        BY <1>2 DEF Next, RefuseInput, NotHTML, StartBase, StartElement, EndElement, Fail, Skip,
                    FindBase, NoBase, StartLinks, FindLink, Finish, Terminated, vars
      <3> QED
        BY <3>1 DEF document, Readable
    <2>2. \/ Scanning \/ (pass = "read" /\ BodyRead)
          \/ pass' = "done" /\ result' = "error"
          \/ UNCHANGED <<pass, result>>
      BY <1>2 DEF Next, RefuseInput, NotHTML, StartBase, StartElement, EndElement, Fail, Skip,
                  FindBase, NoBase, FindLink, Finish, Terminated, vars, AtElement, AtTag, AtEnd,
                  Scanning
    <2>3. Scanning \/ (pass = "read" /\ BodyRead) => Readable /\ body = input.size
      BY BodyIsInput DEF BodyOK
    <2>4. pass' # "done" => result' = "none"
      BY <1>2 DEF BodyOK, Next, RefuseInput, NotHTML, StartBase, StartElement, EndElement, Fail,
                  Skip, FindBase, NoBase, StartLinks, FindLink, Finish, Terminated, vars
    <2>5. pass' = "done" /\ result' = "error" => ~(Scanning' \/ result' = "links")
      BY DEF Scanning
    <2> QED
      BY <2>1, <2>2, <2>3, <2>4, <2>5 DEF BodyOK, Scanning
  <1> QED
    BY <1>1, <1>2

LEMMA ReadMoreStep == IInv /\ BodyOK' /\ ReadMore => IInv'
  <1> SUFFICES ASSUME IInv, BodyOK', ReadMore PROVE IInv'
    OBVIOUS
  <1>1. /\ UNCHANGED document /\ UNCHANGED links /\ input' = input /\ pass = "read"
        /\ UNCHANGED <<pass, pos, xmlDepth, templateDepth, baseURL, result>>
    BY DEF ReadMore, document
  <1>2. DocumentOK' /\ Len(doc') = Len(doc)
    BY <1>1, InvFacts, SameDocumentOK
  <1>3. TypeOK'
    <2>1. pos' \in 1..Len(doc') + 1
      BY <1>1, <1>2, InvFacts
    <2>2. body' \in 0..MaxDocumentSize + 1
      BY DEF BodyOK
    <2>3. /\ input' \in Inputs
          /\ doc' \in HTMLDocuments \cup XHTMLDocuments \cup {<<>>}
          /\ links' \in Seq([at : DOMAIN doc', url : (Bases \cup {"another"}) \X {"", "path"}])
      BY <1>1 DEF IInv, TypeOK, document
    <2> QED
      BY <1>1, <2>1, <2>2, <2>3 DEF IInv, TypeOK
  <1> QED
    BY <1>1, <1>2, <1>3 DEF IInv, Scanning

LEMMA ReadStep == IInv /\ BodyOK /\ (RefuseInput \/ NotHTML \/ StartBase) => IInv'
  <1> SUFFICES ASSUME IInv, BodyOK PROVE RefuseInput \/ NotHTML \/ StartBase => IInv'
    OBVIOUS
  <1>1. pass = "read" => links = <<>>
    BY DEF IInv
  <1>0. input.size \in Nat
    BY DEF BodyOK, AllInputs
  <1>2. ASSUME RefuseInput PROVE IInv'
    <2>1. ~Scannable /\ (~Readable \/ IsDocument)
      BY <1>0, <1>2, BodyIsInput DEF RefuseInput, Scannable, IsDocument
    <2> QED
      BY <1>1, <1>2, <2>1, Returned DEF RefuseInput
  <1>3. ASSUME NotHTML PROVE IInv'
    <2>1. ~Scannable /\ Readable /\ ~IsDocument
      BY <1>0, <1>3, BodyIsInput DEF NotHTML, Scannable, IsDocument
    <2> QED
      BY <1>1, <1>3, <2>1, Returned DEF NotHTML
  <1>4. ASSUME StartBase PROVE IInv'
    <2>0. Scannable
      BY <1>0, <1>4, BodyIsInput DEF StartBase, Scannable, IsDocument
    <2>1. /\ pass = "read" /\ pass' = "base"
          /\ UNCHANGED <<document, body, pos, xmlDepth, templateDepth, baseURL, links, result>>
          /\ UNCHANGED document /\ UNCHANGED links /\ input' = input
      BY <1>4 DEF StartBase, document
    <2>2. /\ DocumentOK' /\ Len(doc') = Len(doc)
          /\ Scannable' <=> Scannable
      BY <2>1, InvFacts, SameDocumentOK, SameOpen DEF document
    <2>3. pos' = 1 /\ xmlDepth' = 0 /\ templateDepth' = 0
      BY <2>1 DEF IInv
    <2>4. Scanned'
      BY <2>1, <2>3, Rewound
    <2>5. TypeOK'
      <3>1. pos' \in 1..Len(doc') + 1
        BY <2>1, <2>2, InvFacts
      <3> QED
        BY <2>1, <3>1, SameLinkType DEF IInv, TypeOK
    <2>6. \A i \in 1..pos'-1 : ~IsBaseAt(i)'
      BY <2>3
    <2> QED
      BY <1>1, <2>0, <2>1, <2>2, <2>4, <2>5, <2>6 DEF IInv, Scanning
  <1> QED
    BY <1>2, <1>3, <1>4

LEMMA Stuttering == IInv /\ UNCHANGED vars => IInv'
  <1> SUFFICES ASSUME IInv, UNCHANGED vars PROVE IInv'
    OBVIOUS
  <1>1. /\ UNCHANGED <<document, body, pass, pos, xmlDepth, templateDepth, baseURL, links, result>>
        /\ UNCHANGED document /\ UNCHANGED links /\ input' = input
    BY DEF vars, document
  <1>2. /\ DocumentOK' /\ Len(doc') = Len(doc)
        /\ \A i : /\ BrokenAt(i)' <=> BrokenAt(i)
                  /\ IsBaseAt(i)' <=> IsBaseAt(i)
                  /\ LinksBefore(i)' <=> LinksBefore(i)
        /\ \A i : Depth(i)' = Depth(i) /\ Open(i)' = Open(i) /\ (Nested(i)' <=> Nested(i))
        /\ (Broken' <=> Broken) /\ DocumentBase' = DocumentBase
        /\ (Scannable' <=> Scannable) /\ (IsXHTML' <=> IsXHTML)
        /\ (Readable' <=> Readable) /\ (IsDocument' <=> IsDocument)
    BY <1>1, InvFacts, SameDocumentOK, SameDocument, SameLinks, SameOpen
  <1>3. TypeOK'
    <2>1. pos' \in 1..Len(doc') + 1
      BY <1>1, <1>2, InvFacts
    <2> QED
      BY <1>1, <2>1, SameLinkType DEF IInv, TypeOK
  <1>4. Scanning => Scanned'
    BY <1>1, <1>2, InvFacts DEF Scanned
  <1> QED
    BY <1>1, <1>2, <1>3, <1>4 DEF IInv, Scanning

LEMMA Initially == Init => IInv
  <1> SUFFICES ASSUME Init PROVE IInv
    OBVIOUS
  <1>1. DocumentOK
    BY DEF Init, DocumentOK, IsXHTML
  <1>2. /\ pass = "read" /\ pos = 1 /\ xmlDepth = 0 /\ templateDepth = 0 /\ baseURL = "page"
        /\ links = <<>> /\ result = "none" /\ body = 0
    BY DEF Init
  <1>3. Len(doc) \in Nat /\ MaxNestingDepth \in Nat
    BY <1>1, DocumentType, DiscoveryAssumption
  <1>4. TypeOK
    <2>1. /\ pos \in 1..Len(doc) + 1 /\ 0 \in 0..MaxNestingDepth
          /\ 0 \in 0..MaxDocumentSize + 1
      BY <1>2, <1>3, DiscoveryAssumption
    <2>2. doc \in HTMLDocuments \cup XHTMLDocuments \cup {<<>>}
      BY <1>1 DEF DocumentOK
    <2>3. links \in Seq([at : DOMAIN doc, url : (Bases \cup {"another"}) \X {"", "path"}])
      BY <1>2
    <2> QED
      BY <1>1, <1>2, <2>1, <2>2, <2>3 DEF TypeOK, Bases, DocumentOK
  <1> QED
    BY <1>1, <1>2, <1>4 DEF IInv, Scanning

LEMMA BodyInitially == Init => BodyOK
  <1> SUFFICES ASSUME Init PROVE BodyOK
    OBVIOUS
  <1>1. input \in AllInputs
    BY DiscoveryAssumption DEF Init
  <1>2. input.size \in Nat
    BY <1>1 DEF AllInputs
  <1> QED
    BY <1>1, <1>2, DiscoveryAssumption DEF Init, BodyOK, Scanning

THEOREM Invariance == Spec => [](IInv /\ BodyOK)
  <1>1. IInv /\ BodyOK /\ [Next]_vars => IInv' /\ BodyOK'
    BY BodyStep, ReadMoreStep, ReadStep, StartElementStep, EndElementStep, FailStep, SkipStep, FindBaseStep, NoBaseStep,
       FindLinkStep, FinishStep, Stuttering DEF Next, Terminated
  <1> QED
    BY Initially, BodyInitially, <1>1, PTL DEF Spec

\* The types of the state; the counters stay within the limit of the nesting.
THEOREM TypeCorrect == Spec => []TypeOK
  BY Invariance, PTL DEF IInv

\* The links returned are those the document advertises, resolved against its
\* base, in document order.
THEOREM LinksAdvertised == Spec => []LinksExact
  <1>1. IInv => LinksExact
    <2> SUFFICES ASSUME IInv, result = "links" PROVE LinksExact
      BY DEF LinksExact
    <2>1. pass = "done"
      BY DEF IInv
    <2>2. DOMAIN doc = 1..Len(doc) /\ Len(doc) \in Nat /\ (~Scannable => doc = <<>>)
      BY InvFacts, DocumentType
    <2>3. CASE Scannable
      <3>1. LinksBefore(Len(doc) + 1)
        BY <2>1, <2>3 DEF IInv
      <3>2. (Len(doc) + 1)-1 = Len(doc)
        BY <2>2
      <3> QED
        BY <2>2, <3>1, <3>2 DEF LinksBefore, LinksExact
    <2>4. CASE ~Scannable
      <3>1. links = <<>> /\ doc = <<>>
        BY <2>1, <2>2, <2>4 DEF IInv
      <3> QED
        BY <3>1 DEF LinksExact
    <2> QED
      BY <2>3, <2>4
  <1> QED
    BY Invariance, <1>1, PTL

\* FindAll fails exactly for a document that is broken somewhere.
THEOREM ErrorsReported == Spec => []NoPartialLinks
  <1>1. IInv => NoPartialLinks
    BY DEF IInv, NoPartialLinks
  <1> QED
    BY Invariance, <1>1, PTL

\* A document is scanned, or said to have no links, only if all of it has been
\* read within the limit; any other is an error unless it is no HTML.
THEOREM DocumentsReadInFull == Spec => []ReadInFull
  <1>1. IInv /\ BodyOK => ReadInFull
    BY DEF IInv, BodyOK, ReadInFull
  <1> QED
    BY Invariance, <1>1, PTL
=============================================================================
