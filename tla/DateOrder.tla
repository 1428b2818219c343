------------------------------ MODULE DateOrder ------------------------------
(***************************************************************************)
(* The dates of the items of a paginated feed, read with WithSince         *)
(* (src/feed.go): dateOrderCandidate and paginationDateOrder watch the     *)
(* order of the items and end the pagination at the end of a page when     *)
(* what follows must be too old, and withinPeriod later filters the items. *)
(*                                                                         *)
(* After the pagination has stopped the model goes on with the items that  *)
(* are never fetched.  They are assumed to keep the order that the items   *)
(* before them have; nothing is claimed of a feed that does not.           *)
(***************************************************************************)
EXTENDS Integers, Sequences, FiniteSets, Periods

CONSTANTS Times,          \* the instants a date can name
          SinceTime,      \* WithSince
          UntilTime,      \* WithUntil, or NoDate
          PreferUpdated,  \* WithUpdated
          MinSamples,     \* minDateOrderSamples
          MaxFetched,     \* bound on the number of items fetched
          MaxUnseen       \* bound on the number of items not fetched

ASSUME DateAssumption ==
    /\ Times \subseteq Int
    /\ NoDate \notin Int
    /\ SinceTime \in Times
    /\ UntilTime \in Times \cup {NoDate}
    /\ PreferUpdated \in BOOLEAN
    /\ MinSamples \in Nat \ {0}
    /\ MaxFetched \in Nat
    /\ MaxUnseen \in Nat

Dates == Times \cup {NoDate}
Items == [published : Dates, modified : Dates]

Selected(item) == WithinPeriod(item, SinceTime, UntilTime, PreferUpdated)

\* dateOrderCandidate
Candidate == [previous : Dates, count : Nat, rejected : BOOLEAN]
NoItems == [previous |-> NoDate, count |-> 0, rejected |-> FALSE]

\* Fault: once there is a date to compare with, items without one count.
ObserveUndated(c, date) ==
    IF date = NoDate
    THEN [c EXCEPT !.count = IF @ > 0 THEN @ + 1 ELSE 0]
    ELSE [previous |-> date,
          count    |-> c.count + 1,
          rejected |-> c.rejected \/ (c.count > 0 /\ date > c.previous)]

\* Fault: the order is judged by the last two items.
ObserveForgiving(c, date) ==
    IF date = NoDate
    THEN c
    ELSE [previous |-> date,
          count    |-> c.count + 1,
          rejected |-> c.count > 0 /\ date > c.previous]

Observe(c, date) ==
    IF date = NoDate
    THEN c
    ELSE [previous |-> date,
          count    |-> c.count + 1,
          rejected |-> c.rejected \/ (c.count > 0 /\ date > c.previous)]

CandidateExhausted(c) ==
    /\ ~c.rejected
    /\ c.count >= MinSamples
    /\ c.previous < SinceTime

VARIABLES
    published,                \* the candidates of paginationDateOrder
    modified,
    modifiedBoundsPublished,
    stopped,                  \* the pagination has ended here
    fetched,                  \* history: the items of the pages read
    unseen                    \* the items of the pages that are not read

order == <<published, modified, modifiedBoundsPublished>>
vars == <<order, stopped, fetched, unseen>>

Init ==
    /\ published = NoItems
    /\ modified = NoItems
    /\ modifiedBoundsPublished = TRUE
    /\ stopped = FALSE
    /\ fetched = <<>>
    /\ unseen = <<>>

Bounded(item) ==
    item.published # NoDate /\ item.modified # NoDate => item.published <= item.modified

\* paginationDateOrder.observe, for each item, duplicates included
ObserveItem(item) ==
    /\ ~stopped /\ Len(fetched) < MaxFetched
    /\ published' = Observe(published, FilterDate(item, FALSE))
    /\ modified' = Observe(modified, FilterDate(item, TRUE))
    /\ modifiedBoundsPublished' = (modifiedBoundsPublished /\ Bounded(item))
    /\ fetched' = Append(fetched, item)
    /\ UNCHANGED <<stopped, unseen>>

\* Fault: the order of the modification dates is enough.
ExhaustedEither == CandidateExhausted(published) \/ CandidateExhausted(modified)

\* paginationDateOrder.exhausted
Exhausted ==
    IF PreferUpdated
    THEN CandidateExhausted(modified)
    ELSE \/ CandidateExhausted(published)
         \/ modifiedBoundsPublished /\ CandidateExhausted(modified)

\* The end of a page at which the pagination stops; at the others nothing
\* changes here.
Stop ==
    /\ ~stopped
    /\ Exhausted
    /\ stopped' = TRUE
    /\ UNCHANGED <<order, fetched, unseen>>
-----------------------------------------------------------------------------
(* what the items have in common *)

NewestFirst(s, preferUpdated) ==
    \A i, j \in DOMAIN s :
        LET earlier == FilterDate(s[i], preferUpdated)
            later   == FilterDate(s[j], preferUpdated)
        IN i < j /\ earlier # NoDate /\ later # NoDate => later <= earlier

AllBounded(s) == \A i \in DOMAIN s : Bounded(s[i])

\* What was true of the items fetched is true with the others, too
\* (feed.go:271-272, README.md:170-172).
KeepsOrder(s) ==
    /\ \A p \in BOOLEAN : NewestFirst(fetched, p) => NewestFirst(s, p)
    /\ AllBounded(fetched) => AllBounded(s)

UnseenItem(item) ==
    /\ stopped /\ Len(unseen) < MaxUnseen
    /\ unseen' = Append(unseen, item)
    /\ KeepsOrder(fetched \o unseen')
    /\ UNCHANGED <<order, stopped, fetched>>

Next ==
    \/ \E item \in Items : ObserveItem(item) \/ UnseenItem(item)
    \/ Stop

Spec == Init /\ [][Next]_vars
-----------------------------------------------------------------------------
(* properties *)

TypeOK ==
    /\ published \in Candidate
    /\ modified \in Candidate
    /\ modifiedBoundsPublished \in BOOLEAN
    /\ stopped \in BOOLEAN
    /\ fetched \in Seq(Items)
    /\ unseen \in Seq(Items)

\* Comparing each date with the one before it, with items without a date in
\* between, tells whether all items are in newest-first order: one item out
\* of order anywhere counts for the rest of the pagination (feed.go:63-72 and
\* 90-101).
OrderExact ==
    /\ published.rejected <=> ~NewestFirst(fetched, FALSE)
    /\ modified.rejected <=> ~NewestFirst(fetched, TRUE)
    /\ modifiedBoundsPublished <=> AllBounded(fetched)

\* The pagination is cut short only after MinSamples items with a date, for
\* one of the two choices of date (feed.go:74-78, README.md:162-168).
EnoughSamples ==
    stopped => Cardinality({i \in DOMAIN fetched : fetched[i] # [published |-> NoDate, modified |-> NoDate]})
                 >= MinSamples

\* Stopping early omits no item of the period from a feed that goes on in the
\* order in which it began (feed.go:103-109, 271-275, withinPeriod).
NothingOmitted == \A i \in DOMAIN unseen : ~Selected(unseen[i])
=============================================================================
