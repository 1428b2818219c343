-------------------------- MODULE DateOrderProofs --------------------------
(***************************************************************************)
(* Ending the pagination early omits nothing, and happens only after       *)
(* enough items with a date, for all dates, any number of samples and      *)
(* feeds of any length.                                                    *)
(***************************************************************************)
EXTENDS DateOrder, FiniteSetTheorems, TLAPS

\* What a candidate knows of the items s it has observed: whether they are in
\* order, and the date of the last one that has a date.
Tracks(c, s, p) ==
    /\ c.rejected <=> ~NewestFirst(s, p)
    /\ c.count = 0 <=> c.previous = NoDate
    /\ c.previous = NoDate => \A i \in DOMAIN s : FilterDate(s[i], p) = NoDate
    /\ c.previous # NoDate =>
          \E i \in DOMAIN s :
             /\ FilterDate(s[i], p) = c.previous
             /\ \A j \in DOMAIN s : j > i => FilterDate(s[j], p) = NoDate

\* The inductive invariant.
IInv ==
    /\ TypeOK
    /\ Tracks(published, fetched, FALSE)
    /\ Tracks(modified, fetched, TRUE)
    /\ modifiedBoundsPublished <=> AllBounded(fetched)
    /\ ~stopped => unseen = <<>>
    /\ stopped => Exhausted
    /\ KeepsOrder(fetched \o unseen)

LEMMA FilterDateType ==
    ASSUME NEW x \in Items, NEW p \in BOOLEAN
    PROVE  FilterDate(x, p) \in Dates
  BY DEF FilterDate, Items

\* An item added at the end is in order if it is not newer than the last one
\* that has a date.
LEMMA ObserveTracks ==
    ASSUME NEW c \in Candidate, NEW s \in Seq(Items), NEW x \in Items, NEW p \in BOOLEAN,
           Tracks(c, s, p)
    PROVE  /\ Observe(c, FilterDate(x, p)) \in Candidate
           /\ Tracks(Observe(c, FilterDate(x, p)), Append(s, x), p)
  <1> DEFINE t == Append(s, x)
             n == Len(s) + 1
             D(i) == FilterDate(t[i], p)
             d == FilterDate(x, p)
             o == Observe(c, d)
  <1>1. /\ t \in Seq(Items) /\ DOMAIN t = 1..n /\ DOMAIN s = 1..(n-1) /\ n \in Nat \ {0}
        /\ t[n] = x
        /\ \A i \in 1..(n-1) : t[i] = s[i]
    OBVIOUS
  <1>2. \A i \in 1..n : D(i) \in Dates
    BY <1>1, FilterDateType
  <1>3. d = D(n) /\ d \in Dates
    BY <1>1, <1>2
  <1>4. \A i \in 1..(n-1) : FilterDate(s[i], p) = D(i)
    BY <1>1
  <1>5. NewestFirst(s, p) <=>
          \A i, j \in 1..(n-1) : i < j /\ D(i) # NoDate /\ D(j) # NoDate => D(j) <= D(i)
    BY <1>1, <1>4 DEF NewestFirst
  <1>6. NewestFirst(t, p) <=>
          \A i, j \in 1..n : i < j /\ D(i) # NoDate /\ D(j) # NoDate => D(j) <= D(i)
    BY <1>1 DEF NewestFirst
  <1>7. /\ c.previous \in Dates /\ c.count \in Nat /\ c.rejected \in BOOLEAN
        /\ c.rejected <=> ~NewestFirst(s, p)
        /\ c.count = 0 <=> c.previous = NoDate
        /\ c.previous = NoDate => \A i \in 1..(n-1) : D(i) = NoDate
        /\ c.previous # NoDate =>
              \E i \in 1..(n-1) : D(i) = c.previous /\ \A j \in 1..(n-1) : j > i => D(j) = NoDate
    BY <1>1, <1>4 DEF Tracks, Candidate
  <1> HIDE DEF t, n, D, d
  <1>8. SUFFICES /\ o \in Candidate
                 /\ o.rejected <=> ~NewestFirst(t, p)
                 /\ o.count = 0 <=> o.previous = NoDate
                 /\ o.previous = NoDate => \A i \in 1..n : D(i) = NoDate
                 /\ o.previous # NoDate =>
                       \E i \in 1..n : D(i) = o.previous /\ \A j \in 1..n : j > i => D(j) = NoDate
    BY <1>1 DEF Tracks, t, d, D
  <1>9. CASE d = NoDate
    <2>1. o = c
      BY <1>9 DEF Observe
    <2>2. D(n) = NoDate
      BY <1>3, <1>9
    <2>3. NewestFirst(t, p) <=> NewestFirst(s, p)
      BY <1>1, <1>5, <1>6, <2>2
    <2> QED
      BY <1>1, <1>7, <2>1, <2>2, <2>3
  <1>10. CASE d # NoDate
    <2>1. d \in Times /\ d \in Int
      BY <1>3, <1>10, DateAssumption DEF Dates
    <2>2. o = [previous |-> d, count |-> c.count + 1,
               rejected |-> c.rejected \/ (c.count > 0 /\ d > c.previous)]
      BY <1>10 DEF Observe
    <2>3. /\ o.previous = d /\ o.count = c.count + 1
          /\ o.rejected = (c.rejected \/ (c.count > 0 /\ d > c.previous))
      <3> HIDE DEF o
      <3> QED
        BY <2>2, Zenon
    <2>4. o \in Candidate
      BY <1>7, <2>1, <2>2 DEF Candidate, Dates
    <2>5. o.rejected <=> ~NewestFirst(t, p)
      <3>1. CASE c.previous = NoDate
        <4>1. ~(c.count > 0)
          BY <1>7, <3>1
        <4>2. \A i \in 1..(n-1) : D(i) = NoDate
          BY <1>7, <3>1
        <4>3. NewestFirst(t, p) /\ NewestFirst(s, p)
          BY <1>1, <1>5, <1>6, <4>2
        <4> QED
          BY <1>7, <2>3, <4>1, <4>3
      <3>2. CASE c.previous # NoDate
        <4>1. PICK k \in 1..(n-1) : D(k) = c.previous /\ \A j \in 1..(n-1) : j > k => D(j) = NoDate
          BY <1>7, <3>2
        <4>2. c.count > 0
          BY <1>7, <3>2
        <4>3. c.previous \in Int
          BY <1>7, <3>2, DateAssumption DEF Dates
        <4>4. \A i \in 1..n : D(i) # NoDate => D(i) \in Int
          BY <1>2, DateAssumption DEF Dates
        <4>5. NewestFirst(t, p) => NewestFirst(s, p)
          BY <1>1, <1>5, <1>6
        <4>6. NewestFirst(t, p) => ~(d > c.previous)
          BY <1>1, <1>3, <1>6, <1>10, <2>1, <3>2, <4>1, <4>3
        <4>7. ASSUME NewestFirst(s, p), ~(d > c.previous)
              PROVE  NewestFirst(t, p)
          <5>1. SUFFICES ASSUME NEW i \in 1..n, NEW j \in 1..n,
                                i < j, D(i) # NoDate, D(j) # NoDate
                         PROVE  D(j) <= D(i)
            BY <1>6
          <5>2. CASE j # n
            BY <1>1, <1>5, <4>7, <5>1, <5>2
          <5>3. CASE j = n
            <6>1. i \in 1..(n-1) /\ i <= k
              BY <1>1, <4>1, <5>1, <5>3
            <6>2. c.previous <= D(i)
              BY <1>5, <3>2, <4>1, <4>3, <4>7, <5>1, <6>1
            <6> QED
              BY <1>3, <2>1, <4>3, <4>4, <4>7, <5>1, <5>3, <6>2
          <5> QED
            BY <5>2, <5>3
        <4> QED
          BY <1>7, <2>3, <4>2, <4>5, <4>6, <4>7
      <3> QED
        BY <3>1, <3>2
    <2>6. o.count # 0 /\ o.previous # NoDate
      BY <1>7, <1>10, <2>3
    <2>7. D(n) = o.previous /\ \A j \in 1..n : ~(j > n)
      BY <1>1, <1>3, <2>3
    <2> QED
      BY <1>1, <2>4, <2>5, <2>6, <2>7
  <1> QED
    BY <1>9, <1>10

\* The types of the two candidates and of the histories.
LEMMA Typing == TypeOK /\ [Next]_vars => TypeOK'
  <1> SUFFICES ASSUME TypeOK, [Next]_vars PROVE TypeOK'
    OBVIOUS
  <1>1. ASSUME NEW item \in Items, ObserveItem(item)
        PROVE  TypeOK'
    <2>1. ASSUME NEW c \in Candidate, NEW p \in BOOLEAN
          PROVE  Observe(c, FilterDate(item, p)) \in Candidate
      BY FilterDateType DEF Observe, Candidate
    <2>2. published \in Candidate /\ modified \in Candidate /\ fetched \in Seq(Items)
      BY DEF TypeOK
    <2>3. published' \in Candidate /\ modified' \in Candidate
      BY <1>1, <2>1, <2>2 DEF ObserveItem
    <2>4. fetched' \in Seq(Items)
      BY <1>1, <2>2 DEF ObserveItem
    <2>5. modifiedBoundsPublished' \in BOOLEAN
      BY <1>1 DEF ObserveItem
    <2> QED
      BY <1>1, <2>3, <2>4, <2>5 DEF TypeOK, ObserveItem
  <1>2. ASSUME NEW item \in Items, UnseenItem(item)
        PROVE  TypeOK'
    BY <1>2 DEF TypeOK, UnseenItem, order
  <1>3. CASE Stop
    BY <1>3 DEF TypeOK, Stop, order
  <1>4. CASE UNCHANGED vars
    BY <1>4 DEF TypeOK, vars, order
  <1> QED
    BY <1>1, <1>2, <1>3, <1>4 DEF Next

\* The items fetched and those not fetched, one after the other.
LEMMA Concatenation ==
    ASSUME NEW s \in Seq(Items), NEW t \in Seq(Items)
    PROVE  /\ s \o t \in Seq(Items)
           /\ DOMAIN s \subseteq DOMAIN (s \o t)
           /\ \A i \in DOMAIN s : (s \o t)[i] = s[i]
           /\ \A k \in DOMAIN t : /\ Len(s) + k \in DOMAIN (s \o t)
                                  /\ (s \o t)[Len(s) + k] = t[k]
                                  /\ \A i \in DOMAIN s : i < Len(s) + k
  OBVIOUS

THEOREM Invariance == Spec => []IInv
  <1>1. Init => IInv
    <2> SUFFICES ASSUME Init PROVE IInv
      OBVIOUS
    <2>1. fetched = <<>> /\ unseen = <<>> /\ fetched \o unseen = <<>>
      BY DEF Init
    <2>2. TypeOK
      <3>1. NoItems \in Candidate
        BY DEF NoItems, Candidate, Dates
      <3>2. fetched \in Seq(Items) /\ unseen \in Seq(Items)
        BY <2>1
      <3>3. published \in Candidate /\ modified \in Candidate
        BY <3>1 DEF Init
      <3>4. modifiedBoundsPublished \in BOOLEAN /\ stopped \in BOOLEAN
        BY DEF Init
      <3> QED
        BY <3>2, <3>3, <3>4 DEF TypeOK
    <2>3. \A p \in BOOLEAN : Tracks(NoItems, <<>>, p)
      BY DEF Tracks, NoItems, NewestFirst
    <2>4. Tracks(published, fetched, FALSE) /\ Tracks(modified, fetched, TRUE)
      BY <2>3 DEF Init
    <2>5. KeepsOrder(<<>>) /\ AllBounded(<<>>)
      BY <2>1 DEF KeepsOrder, NewestFirst, AllBounded
    <2> QED
      BY <2>1, <2>2, <2>4, <2>5 DEF IInv, Init
  <1>2. IInv /\ [Next]_vars => IInv'
    <2> SUFFICES ASSUME IInv, [Next]_vars PROVE IInv'
      OBVIOUS
    <2> USE DEF IInv
    <2>1. TypeOK'
      BY Typing
    <2>2. ASSUME NEW item \in Items, ObserveItem(item)
          PROVE  IInv'
      <3>1. published \in Candidate /\ modified \in Candidate /\ fetched \in Seq(Items)
        BY DEF TypeOK
      <3>2. Tracks(published', fetched', FALSE) /\ Tracks(modified', fetched', TRUE)
        BY <2>2, <3>1, ObserveTracks DEF ObserveItem
      <3>3. AllBounded(Append(fetched, item)) <=> AllBounded(fetched) /\ Bounded(item)
        <4>1. /\ DOMAIN Append(fetched, item) = 1..(Len(fetched) + 1)
              /\ DOMAIN fetched = 1..Len(fetched) /\ Len(fetched) \in Nat
              /\ \A i \in 1..Len(fetched) : Append(fetched, item)[i] = fetched[i]
              /\ Append(fetched, item)[Len(fetched) + 1] = item
          BY <3>1
        <4> HIDE DEF IInv
        <4> QED
          BY <4>1 DEF AllBounded
      <3>4. modifiedBoundsPublished' <=> AllBounded(fetched')
        BY <2>2, <3>3 DEF ObserveItem
      <3>5. unseen = <<>> /\ unseen' = <<>> /\ ~stopped /\ ~stopped'
        BY <2>2 DEF ObserveItem
      <3>6. fetched' \in Seq(Items) /\ fetched' \o unseen' = fetched'
        BY <2>1, <3>5 DEF TypeOK
      <3>7. KeepsOrder(fetched \o unseen)'
        BY <3>6 DEF KeepsOrder
      <3> QED
        BY <2>1, <3>2, <3>4, <3>5, <3>7
    <2>3. ASSUME NEW item \in Items, UnseenItem(item)
          PROVE  IInv'
      <3>1. KeepsOrder(fetched \o unseen)'
        BY <2>3 DEF UnseenItem, KeepsOrder
      <3>2. stopped /\ UNCHANGED <<order, stopped, fetched>>
        BY <2>3 DEF UnseenItem
      <3>3. Exhausted'
        BY <3>2 DEF Exhausted, order
      <3> QED
        BY <2>1, <3>1, <3>2, <3>3 DEF order
    <2>4. CASE Stop
      <3>1. Exhausted /\ stopped' /\ UNCHANGED <<order, fetched, unseen>>
        BY <2>4 DEF Stop
      <3>2. Exhausted' /\ KeepsOrder(fetched \o unseen)'
        BY <3>1 DEF Exhausted, order, KeepsOrder
      <3> QED
        BY <2>1, <3>1, <3>2 DEF order
    <2>5. CASE UNCHANGED vars
      BY <2>1, <2>5 DEF vars, order, Exhausted, KeepsOrder
    <2> QED
      BY <2>2, <2>3, <2>4, <2>5 DEF Next
  <1> QED
    BY <1>1, <1>2, PTL DEF Spec

\* The types of the state.
THEOREM TypeCorrect == Spec => []TypeOK
  BY Invariance, PTL DEF IInv

\* A candidate is rejected exactly when the items it has seen are not in
\* newest-first order.
THEOREM OrderTracked == Spec => []OrderExact
  <1>1. IInv => OrderExact
    BY DEF IInv, OrderExact, Tracks
  <1> QED
    BY Invariance, <1>1, PTL

\* A candidate that is exhausted dates everything that keeps its order
\* before SinceTime.
LEMMA ExhaustedBefore ==
    ASSUME TypeOK, NEW c \in Candidate, NEW p \in BOOLEAN, NEW k \in DOMAIN unseen,
           Tracks(c, fetched, p), CandidateExhausted(c), KeepsOrder(fetched \o unseen),
           FilterDate(unseen[k], p) # NoDate
    PROVE  FilterDate(unseen[k], p) < SinceTime
  <1> DEFINE s == fetched \o unseen
             m == Len(fetched) + k
  <1>1. fetched \in Seq(Items) /\ unseen \in Seq(Items)
    BY DEF TypeOK
  <1>2. /\ DOMAIN fetched \subseteq DOMAIN s
        /\ \A i \in DOMAIN fetched : s[i] = fetched[i]
        /\ m \in DOMAIN s /\ s[m] = unseen[k]
        /\ \A i \in DOMAIN fetched : i < m
    BY <1>1, Concatenation
  <1>3. unseen[k] \in Items
    BY <1>1
  <1> HIDE DEF s, m
  <1>4. ~c.rejected /\ c.count # 0 /\ c.previous < SinceTime
    BY DateAssumption DEF CandidateExhausted, Candidate
  <1>5. NewestFirst(fetched, p) /\ c.previous # NoDate
    BY <1>4 DEF Tracks
  <1>6. PICK i \in DOMAIN fetched : FilterDate(fetched[i], p) = c.previous
    BY <1>5 DEF Tracks
  <1>7. NewestFirst(s, p)
    BY <1>5 DEF KeepsOrder, s
  <1>8. FilterDate(unseen[k], p) <= c.previous
    BY <1>2, <1>5, <1>6, <1>7 DEF NewestFirst
  <1>9. FilterDate(unseen[k], p) \in Int /\ c.previous \in Int /\ SinceTime \in Int
    BY <1>3, <1>5, FilterDateType, DateAssumption DEF Dates, Candidate
  <1> QED
    BY <1>4, <1>8, <1>9

\* Stopping early omits no item of the period from a feed that keeps its
\* order.
THEOREM EarlyStopSound == Spec => []NothingOmitted
  <1>1. ASSUME IInv, NEW k \in DOMAIN unseen
        PROVE  ~Selected(unseen[k])
    <2> DEFINE x == unseen[k]
    <2>1. TypeOK /\ published \in Candidate /\ modified \in Candidate /\ PreferUpdated \in BOOLEAN
      BY <1>1, DateAssumption DEF IInv, TypeOK
    <2>2. x \in Items /\ stopped
      BY <1>1, <2>1 DEF IInv, TypeOK
    <2>3. SUFFICES ASSUME FilterDate(x, PreferUpdated) # NoDate
                   PROVE  FilterDate(x, PreferUpdated) < SinceTime
      <3>1. FilterDate(x, PreferUpdated) # NoDate =>
               FilterDate(x, PreferUpdated) \in Int /\ SinceTime \in Int
        BY <2>1, <2>2, FilterDateType, DateAssumption DEF Dates
      <3> QED
        BY <2>3, <3>1, DateAssumption DEF Selected, WithinPeriod
    <2>4. Exhausted
      BY <1>1, <2>2 DEF IInv
    <2>5. CASE PreferUpdated
      <3>1. CandidateExhausted(modified)
        BY <2>4, <2>5 DEF Exhausted
      <3> QED
        BY <1>1, <2>1, <2>3, <2>5, <3>1, ExhaustedBefore DEF IInv
    <2>6. CASE ~PreferUpdated /\ CandidateExhausted(published)
      BY <1>1, <2>1, <2>3, <2>6, ExhaustedBefore DEF IInv
    <2>7. CASE ~PreferUpdated /\ modifiedBoundsPublished /\ CandidateExhausted(modified)
      <3>1. FilterDate(x, TRUE) # NoDate
        BY <2>3, <2>7 DEF FilterDate
      <3>2. FilterDate(x, TRUE) < SinceTime
        BY <1>1, <2>1, <2>7, <3>1, ExhaustedBefore DEF IInv
      <3>3. AllBounded(fetched \o unseen)
        BY <1>1, <2>7 DEF IInv, KeepsOrder
      <3>4. Bounded(x)
        <4>1. /\ Len(fetched) + k \in DOMAIN (fetched \o unseen)
              /\ (fetched \o unseen)[Len(fetched) + k] = x
          BY <1>1, Concatenation DEF IInv, TypeOK
        <4> QED
          BY <3>3, <4>1 DEF AllBounded
      <3>5. FilterDate(x, FALSE) \in Int /\ FilterDate(x, TRUE) \in Int /\ SinceTime \in Int
        BY <2>2, <2>3, <2>7, <3>1, FilterDateType, DateAssumption DEF Dates
      <3>6. FilterDate(x, FALSE) <= FilterDate(x, TRUE)
        BY <2>2, <3>4, <3>5 DEF Bounded, FilterDate
      <3>7. PreferUpdated = FALSE
        BY <2>1, <2>7
      <3>8. FilterDate(x, FALSE) < SinceTime
        <4>1. \A f, g, h \in Int : f <= g /\ g < h => f < h
          OBVIOUS
        <4> QED
          BY <3>2, <3>5, <3>6, <4>1, Zenon
      <3> QED
        BY <3>7, <3>8, Zenon
    <2> QED
      BY <2>1, <2>4, <2>5, <2>6, <2>7 DEF Exhausted
  <1>2. IInv => NothingOmitted
    BY <1>1 DEF NothingOmitted
  <1> QED
    BY Invariance, <1>2, PTL

\* The items that have a date, and what a candidate knows of their number.
Dated(s, p) == {i \in DOMAIN s : FilterDate(s[i], p) # NoDate}
Counts(c, s, p) == IsFiniteSet(Dated(s, p)) /\ c.count = Cardinality(Dated(s, p))
Counted == Counts(published, fetched, FALSE) /\ Counts(modified, fetched, TRUE)

LEMMA ObserveCounts ==
    ASSUME NEW c \in Candidate, NEW s \in Seq(Items), NEW x \in Items, NEW p \in BOOLEAN,
           Counts(c, s, p)
    PROVE  Counts(Observe(c, FilterDate(x, p)), Append(s, x), p)
  <1> DEFINE t == Append(s, x)
             n == Len(s) + 1
  <1>1. /\ DOMAIN t = 1..n /\ DOMAIN s = 1..(n-1) /\ n \in Nat \ {0}
        /\ t[n] = x
        /\ \A i \in 1..(n-1) : t[i] = s[i]
    OBVIOUS
  <1>2. c.count \in Nat
    BY DEF Candidate
  <1> HIDE DEF t, n
  <1>3. CASE FilterDate(x, p) = NoDate
    <2>1. Dated(t, p) = Dated(s, p)
      BY <1>1, <1>3 DEF Dated
    <2>2. Observe(c, FilterDate(x, p)) = c
      BY <1>3 DEF Observe
    <2> QED
      BY <2>1, <2>2 DEF Counts, t
  <1>4. CASE FilterDate(x, p) # NoDate
    <2>1. Dated(t, p) = Dated(s, p) \cup {n}
      BY <1>1, <1>4 DEF Dated
    <2>2. n \notin Dated(s, p)
      BY <1>1 DEF Dated
    <2>3. /\ IsFiniteSet(Dated(t, p))
          /\ Cardinality(Dated(t, p)) = Cardinality(Dated(s, p)) + 1
      BY <2>1, <2>2, FS_AddElement DEF Counts
    <2>4. Observe(c, FilterDate(x, p)).count = c.count + 1
      BY <1>4 DEF Observe
    <2> QED
      BY <2>3, <2>4 DEF Counts, t
  <1> QED
    BY <1>3, <1>4

\* Each candidate counts the items that have its date.
LEMMA CountInvariance == Spec => []Counted
  <1>1. Init => Counted
    <2> SUFFICES ASSUME Init PROVE Counted
      OBVIOUS
    <2>1. \A p \in BOOLEAN : Dated(<<>>, p) = {}
      BY DEF Dated
    <2>2. \A p \in BOOLEAN : Counts(NoItems, <<>>, p)
      BY <2>1, FS_EmptySet DEF Counts, NoItems
    <2> QED
      BY <2>2 DEF Init, Counted
  <1>2. TypeOK /\ Counted /\ [Next]_vars => Counted'
    <2> SUFFICES ASSUME TypeOK, Counted, [Next]_vars PROVE Counted'
      OBVIOUS
    <2>1. ASSUME NEW item \in Items, ObserveItem(item)
          PROVE  Counted'
      <3>1. published \in Candidate /\ modified \in Candidate /\ fetched \in Seq(Items)
        BY DEF TypeOK
      <3>2. /\ Counts(Observe(published, FilterDate(item, FALSE)), Append(fetched, item), FALSE)
            /\ Counts(Observe(modified, FilterDate(item, TRUE)), Append(fetched, item), TRUE)
        BY <3>1, ObserveCounts DEF Counted
      <3> QED
        BY <2>1, <3>2 DEF ObserveItem, Counted
    <2>2. (\E item \in Items : UnseenItem(item)) \/ Stop \/ UNCHANGED vars
             => UNCHANGED <<published, modified, fetched>>
      BY DEF UnseenItem, Stop, vars, order
    <2>3. UNCHANGED <<published, modified, fetched>> => Counted'
      BY DEF Counted
    <2> QED
      BY <2>1, <2>2, <2>3 DEF Next
  <1> QED
    BY Invariance, <1>1, <1>2, PTL DEF Spec, IInv

\* The pagination is cut short only after MinSamples items with a date.
THEOREM StopSampled == Spec => []EnoughSamples
  <1>1. IInv /\ Counted => EnoughSamples
    <2> SUFFICES ASSUME IInv, Counted, stopped
                 PROVE  Cardinality({i \in DOMAIN fetched :
                            fetched[i] # [published |-> NoDate, modified |-> NoDate]}) >= MinSamples
      BY DEF EnoughSamples
    <2> DEFINE D == {i \in DOMAIN fetched : fetched[i] # [published |-> NoDate, modified |-> NoDate]}
    <2>1. /\ fetched \in Seq(Items) /\ published \in Candidate /\ modified \in Candidate
          /\ MinSamples \in Nat
      BY DateAssumption DEF IInv, TypeOK
    <2>2. IsFiniteSet(D)
      <3>1. DOMAIN fetched = 1..Len(fetched) /\ Len(fetched) \in Nat
        BY <2>1
      <3>2. IsFiniteSet(DOMAIN fetched)
        BY <3>1, FS_Interval
      <3> QED
        BY <3>2, FS_Subset
    <2>3. \A p \in BOOLEAN : Dated(fetched, p) \subseteq D
      BY <2>1 DEF Dated, FilterDate
    <2>4. ASSUME NEW c \in Candidate, NEW p \in BOOLEAN, Counts(c, fetched, p), c.count >= MinSamples
          PROVE  Cardinality(D) >= MinSamples
      <3>1. Cardinality(Dated(fetched, p)) <= Cardinality(D)
        BY <2>2, <2>3, FS_Subset
      <3>2. Cardinality(D) \in Nat /\ c.count \in Nat
        BY <2>2, FS_CardinalityType DEF Candidate
      <3> QED
        BY <2>1, <2>4, <3>1, <3>2 DEF Counts
    <2>5. published.count >= MinSamples \/ modified.count >= MinSamples
      BY DEF IInv, Exhausted, CandidateExhausted
    <2> HIDE DEF D
    <2>6. Cardinality(D) >= MinSamples
      BY <2>1, <2>4, <2>5 DEF Counted
    <2> QED
      BY <2>6 DEF D
  <1> QED
    BY Invariance, CountInvariance, <1>1, PTL
=============================================================================
