------------------------------- MODULE Output -------------------------------
(***************************************************************************)
(* writeItemsWithCodeContextAndFeed (src/output.go): the values of a query *)
(* over the items of one feed, written as lines.                           *)
(*                                                                         *)
(* Of an item the model keeps the values its query yields: the item as the *)
(* query received it, a string, a value encoding/json refuses (gojq has    *)
(* infinities and nan) or an error.  gojq, whose iterator yields the error *)
(* of the context once that is done, and encoding/json are external.       *)
(***************************************************************************)
EXTENDS Naturals, Sequences, SequencesExt

CONSTANTS MaxFeedItems,   \* bound on the items of the feed
          MaxValues       \* bound on the values of one item

ASSUME OutputAssumption == MaxFeedItems \in Nat /\ MaxValues \in Nat \ {0}

Values == {"item", "text", "bad", "error"}

\* What an item becomes; without a query, itself.
Queried == SeqOf(Values, MaxValues)
Unqueried == {<<"item">>}

VARIABLES
    queried,   \* the feed, with what the query yields for each item
    code,      \* a query was given
    raw,       \* -r; run refuses it without a query
    withFeed,  \* --with-feed
    at,        \* where writeItemValuesWithFeed is
    pos,       \* the item it is at
    index,     \* how many values of this item iter.Next has returned
    lines,     \* what has been written
    ctxDone,   \* the context is done
    late,      \* history: lines written since then
    ret        \* what is returned

input == <<queried, code, raw, withFeed>>
outputVars == <<input, at, pos, index, lines, ctxDone, late, ret>>

OutputInit ==
    /\ code \in BOOLEAN
    /\ queried \in SeqOf(IF code THEN Queried ELSE Unqueried, MaxFeedItems)
    /\ raw \in (IF code THEN BOOLEAN ELSE {FALSE})
    /\ withFeed \in BOOLEAN
    /\ at = "items"
    /\ pos = 1
    /\ index = 0
    /\ lines = <<>>
    /\ ctxDone = FALSE
    /\ late = 0
    /\ ret = "none"

ReturnWith(r) == at' = "returned" /\ ret' = r

\* The query of the item at pos is given a copy, from which _feed may be
\* deleted; a line shows the feed only as part of that copy.
Form(v) == IF raw /\ v = "text" THEN "raw" ELSE "json"
Line(i, k) ==
    LET v == queried[i][k]
    IN  [item |-> i, value |-> k, form |-> Form(v), feed |-> withFeed /\ v = "item"]

AllWritten ==
    /\ at = "items" /\ pos > Len(queried)
    /\ ReturnWith("nil")
    /\ UNCHANGED <<input, pos, index, lines, ctxDone, late>>

ItemsCanceled ==
    /\ at = "items" /\ pos <= Len(queried) /\ ctxDone
    /\ ReturnWith("canceled")
    /\ UNCHANGED <<input, pos, index, lines, ctxDone, late>>

\* Fault: the values of an item are counted on from those of the item before.
Continued == index
First == 0

\* applyQueryWithFeed and itemValue, which has no item that encoding/json
\* refuses: all dates are strings by now.
ApplyQuery ==
    /\ at = "items" /\ pos <= Len(queried) /\ ~ctxDone
    /\ at' = "next"
    /\ index' = First
    /\ UNCHANGED <<input, pos, lines, ctxDone, late, ret>>

\* Fault: the query is run without the context.
NeverInterrupted == FALSE
\* RunWithContext; NewIter, without a query, knows no context.
Interrupted == code /\ ctxDone

QueryCanceled ==
    /\ at = "next" /\ Interrupted
    /\ ReturnWith("canceled")
    /\ UNCHANGED <<input, pos, index, lines, ctxDone, late>>

HasNext == index < Len(queried[pos])

NextValue ==
    /\ at = "next" /\ ~Interrupted /\ HasNext
    /\ index' = index + 1
    /\ at' = "value"
    /\ UNCHANGED <<input, pos, lines, ctxDone, late, ret>>

NextItem ==
    /\ at = "next" /\ ~Interrupted /\ ~HasNext
    /\ pos' = pos + 1
    /\ at' = "items"
    /\ UNCHANGED <<input, index, lines, ctxDone, late, ret>>

Value == queried[pos][index]

QueryFails ==
    /\ at = "value" /\ Value = "error"
    /\ ReturnWith("query")
    /\ UNCHANGED <<input, pos, index, lines, ctxDone, late>>

\* The encoder refuses the value before it writes anything of it.
EncodeFails ==
    /\ at = "value" /\ Value = "bad"
    /\ ReturnWith("write")
    /\ UNCHANGED <<input, pos, index, lines, ctxDone, late>>

WriteFails ==
    /\ at = "value" /\ Value \in {"item", "text"}
    /\ ReturnWith("write")
    /\ UNCHANGED <<input, pos, index, lines, ctxDone, late>>

WriteValue ==
    /\ at = "value" /\ Value \in {"item", "text"}
    /\ lines' = Append(lines, Line(pos, index))
    /\ late' = IF ctxDone THEN late + 1 ELSE late
    /\ at' = "next"
    /\ UNCHANGED <<input, pos, index, ctxDone, ret>>

Cancel ==
    /\ ~ctxDone /\ at # "returned"
    /\ ctxDone' = TRUE
    /\ UNCHANGED <<input, at, pos, index, lines, late, ret>>

OutputNext ==
    \/ AllWritten
    \/ ItemsCanceled
    \/ ApplyQuery
    \/ QueryCanceled
    \/ NextValue
    \/ NextItem
    \/ QueryFails
    \/ EncodeFails
    \/ WriteFails
    \/ WriteValue
    \/ Cancel

OutputSpec == OutputInit /\ [][OutputNext]_outputVars
-----------------------------------------------------------------------------
(* properties *)

OutputTypeOK ==
    /\ at \in {"items", "next", "value", "returned"}
    /\ pos \in 1..Len(queried) + 1
    /\ at \in {"next", "value"} => pos <= Len(queried) /\ index <= Len(queried[pos])
    /\ index \in 0..MaxValues
    /\ lines \in Seq([item : 1..MaxFeedItems, value : 1..MaxValues,
                      form : {"json", "raw"}, feed : BOOLEAN])
    /\ ctxDone \in BOOLEAN
    /\ late \in Nat
    /\ ret \in {"none", "nil", "canceled", "query", "write"}

\* The values of all items, as places <<item, value>> in their order, and the
\* lines for them.
Places == UNION {{<<i, k>> : k \in DOMAIN queried[i]} : i \in DOMAIN queried}
Before(p, q) == p[1] < q[1] \/ (p[1] = q[1] /\ p[2] < q[2])
PlaceOf(line) == <<line.item, line.value>>
Written == {PlaceOf(lines[n]) : n \in DOMAIN lines}
ValueAt(p) == queried[p[1]][p[2]]
LineOf(p) ==
    [item |-> p[1], value |-> p[2],
     form |-> IF raw /\ ValueAt(p) = "text" THEN "raw" ELSE "json",
     feed |-> withFeed /\ ValueAt(p) = "item"]

\* The lines are those of the values in their order, from the first on without
\* a gap; success means all of them, and an error of the query is reported
\* right where the lines end (output.go:67-91).
LinesExact ==
    /\ \A n \in DOMAIN lines : /\ PlaceOf(lines[n]) \in Places
                               /\ lines[n] = LineOf(PlaceOf(lines[n]))
                               /\ ValueAt(PlaceOf(lines[n])) \in {"item", "text"}
    /\ \A m, n \in DOMAIN lines : m < n => Before(PlaceOf(lines[m]), PlaceOf(lines[n]))
    /\ \A q \in Written : \A p \in Places : Before(p, q) => p \in Written
    /\ ret = "nil" => Written = Places
    /\ ret = "query" =>
        \E p \in Places : ValueAt(p) = "error" /\ Written = {q \in Places : Before(q, p)}

\* Once the context is done at most the value at hand is still written,
\* however many the query would yield for the item (output.go:103).
StopsWhenCanceled == late <= 1
=============================================================================
