------------------------------- MODULE Library -------------------------------
(***************************************************************************)
(* Fetch and Parse (src/api.go): options, source URL, document and parser  *)
(* in the order in which they are looked at, and filterItems, which builds *)
(* its result in the array it reads from.                                  *)
(*                                                                         *)
(* fetchFeedPagesWithOptions is the module Pagination; here it is a step   *)
(* with any outcome.                                                       *)
(***************************************************************************)
EXTENDS Options, FiniteSets

CONSTANTS Calls,      \* calls of Fetch and Parse by other programs
          MaxItems    \* bound on the number of items of a feed

Items == [published : Times \cup {NoDate}, modified : Times \cup {NoDate}]

\* The receiver of the call is a nil context or a nil reader.
AnyCall == [function : {"Fetch", "Parse"}, nil : BOOLEAN, options : Seq(Option),
            url : {"valid", "userinfo", "invalid"}]

VARIABLES
    call,
    pc,         \* "start", "options", "url", "read", "parse", "filter", "done"
    resolved,   \* the options of newOptions
    original,   \* history: the items before the filter
    array,      \* the array behind items and filtered
    next,       \* the index of the range loop
    kept,       \* len(filtered)
    result      \* "none", "items", or the error

vars == <<call, pc, resolved, original, array, next, kept, result>>
filter == <<original, array, next, kept>>

Unstarted ==
    /\ resolved = DefaultOptions
    /\ original = <<>>
    /\ array = <<>>
    /\ next = 1
    /\ kept = 0
    /\ result = "none"

Init == call \in Calls /\ pc = "start" /\ Unstarted

IsFetch == call.function = "Fetch"

Fail(error) ==
    /\ pc' = "done"
    /\ result' = error
    /\ UNCHANGED <<call, resolved, filter>>

Continue(at) ==
    /\ pc' = at
    /\ UNCHANGED <<call, result>>

CheckReceiver ==
    /\ pc = "start"
    /\ IF call.nil THEN Fail("nil") ELSE Continue("options") /\ UNCHANGED <<resolved, filter>>

ResolveOptions ==
    /\ pc = "options"
    /\ IF Rejected(call.options)
       THEN Fail("option")
       ELSE /\ Continue("url")
            /\ resolved' = NewOptions(call.options)
            /\ UNCHANGED filter

\* validateDocumentURL; Fetch leaves it to fetchFeedDocument, validateHTTPURL
CheckURL ==
    /\ pc = "url"
    /\ IF call.url # "valid" THEN Fail("url")
       ELSE Continue("read") /\ UNCHANGED <<resolved, filter>>

\* readFeedDocument: a document can be read, is too large, or fails while it
\* is read.
Read ==
    /\ pc = "read"
    /\ \/ Continue("parse") /\ UNCHANGED <<resolved, filter>>
       \/ \E error \in {"read", "too large"} : Fail(error)

\* parseFeedDetails, or the rest of fetchFeedPagesWithOptions
Parse ==
    /\ pc = "parse"
    /\ \/ \E items \in BoundedSeq(Items, MaxItems) :
            /\ original' = items
            /\ array' = items
            /\ Continue("filter")
            /\ UNCHANGED <<resolved, next, kept>>
       \/ Fail("not a feed")
       \/ IsFetch /\ \E error \in {"no feed found", "status", "network"} : Fail(error)
-----------------------------------------------------------------------------
(* filterItems *)

Unlimited == resolved.since = NoDate /\ resolved.until = NoDate

ReturnAll ==
    /\ pc = "filter" /\ Unlimited
    /\ pc' = "done"
    /\ kept' = Len(array)
    /\ result' = "items"
    /\ UNCHANGED <<call, resolved, original, array, next>>

Slot == kept + 1

FilterItem ==
    /\ pc = "filter" /\ ~Unlimited
    /\ next <= Len(array)
    /\ next' = next + 1
    /\ IF WithinPeriod(array[next], resolved.since, resolved.until, resolved.preferUpdated)
       THEN /\ array' = [i \in 1..Len(array) |-> IF i = Slot THEN array[next] ELSE array[i]]
            /\ kept' = kept + 1
       ELSE UNCHANGED <<array, kept>>
    /\ UNCHANGED <<call, pc, resolved, original, result>>

ReturnFiltered ==
    /\ pc = "filter" /\ ~Unlimited
    /\ next > Len(array)
    /\ pc' = "done"
    /\ result' = "items"
    /\ UNCHANGED <<call, resolved, filter>>

Next ==
    \/ CheckReceiver
    \/ ResolveOptions
    \/ CheckURL
    \/ Read
    \/ Parse
    \/ ReturnAll
    \/ FilterItem
    \/ ReturnFiltered

Spec == Init /\ [][Next]_vars
-----------------------------------------------------------------------------
TypeOK ==
    /\ call \in AnyCall
    /\ pc \in {"start", "options", "url", "read", "parse", "filter", "done"}
    /\ DOMAIN resolved = DOMAIN DefaultOptions
    /\ original \in Seq(Items)
    /\ array \in Seq(Items) /\ Len(array) = Len(original)
    /\ next \in 1..Len(array) + 1
    /\ kept \in 0..Len(array)
    /\ result \in {"none", "items", "nil", "option", "url", "read", "too large", "not a feed",
                   "no feed found", "status", "network"}
=============================================================================
