----------------------------- MODULE FetchFeeds -----------------------------
(***************************************************************************)
(* fetchFeeds (src/rssnip.go): the goroutines that fetch several feeds at  *)
(* once and hand their items to the consumer in input order.               *)
(*                                                                         *)
(*   main     sends feed indexes on the unbuffered channel jobs, receives  *)
(*            results, keeps those that are early in the map pending and   *)
(*            consumes the others; a deferred function stops everything    *)
(*   workers  range over jobs, call Fetch and send on the unbuffered       *)
(*            channel results unless the fetch context is done             *)
(*   closer   closes results once every worker has returned                *)
(*                                                                         *)
(* A send on an unbuffered channel and its receive are one step, enabled   *)
(* when both goroutines are at it.  A select with several ready cases is a *)
(* choice between the actions of the cases.                                *)
(***************************************************************************)
EXTENDS Naturals, Sequences, FiniteSets

CONSTANTS NumURLs,               \* len(urls)
          MaxConcurrentFetches,  \* maxConcurrentFetches
          MaxItems               \* bound on the items one Fetch returns

\* run returns before fetchFeeds when there is no URL.
ASSUME FetchAssumption ==
    /\ NumURLs \in Nat \ {0}
    /\ MaxConcurrentFetches \in Nat \ {0}
    /\ MaxItems \in Nat

URLs == 0 .. NumURLs - 1

NumWorkers == IF NumURLs < MaxConcurrentFetches
              THEN NumURLs ELSE MaxConcurrentFetches
Workers == 1 .. NumWorkers

\* What Fetch returns: items, or an error and no items.  "canceled" is an
\* error that wraps that of the fetch context.
Fetched(n) == [items |-> n, err |-> "none"]
Failed(e)  == [items |-> 0, err |-> e]
NoResult   == [items |-> 0, err |-> "pending"]
Results    == {Fetched(n) : n \in 0..MaxItems} \cup {Failed("fetch"), Failed("canceled")}

NoJob == NumURLs
Idle      == [pc |-> "recv",   job |-> NoJob, res |-> NoResult]
Exited    == [pc |-> "exited", job |-> NoJob, res |-> NoResult]
Working(i)    == [pc |-> "fetch", job |-> i, res |-> NoResult]
Sending(i, r) == [pc |-> "send",  job |-> i, res |-> r]

VARIABLES
    pc,             \* where main is
    next,           \* main: the feed to consume next
    nextJob,        \* main: the feed to dispatch next
    pending,        \* main: results received early; NoResult where absent
    size,           \* main: number of items of the feed being consumed
    item,           \* main: how many of them have been written
    out,            \* the items written so far, as <<feed, item>> pairs
    ret,            \* what fetchFeeds is about to return
    worker,         \* the state of each worker
    ctxDone,        \* the caller's context is done
    fetchDone,      \* fetchContext is done
    jobsClosed,     \* jobs has been closed
    resultsClosed,  \* results has been closed
    fetched         \* history: what Fetch has returned for each feed

mainVars == <<pc, next, nextJob, pending, size, item, out, ret>>
env == <<ctxDone, fetchDone, jobsClosed, resultsClosed, fetched>>
vars == <<mainVars, worker, env>>

Busy(w) == worker[w].pc \in {"fetch", "send"}

\* main has decided what to return and is in its deferred function.
Leaving == pc \in {"cancel", "close", "wait", "returned"}

Init ==
    /\ pc = "fill"
    /\ next = 0
    /\ nextJob = 0
    /\ pending = [i \in URLs |-> NoResult]
    /\ size = 0
    /\ item = 0
    /\ out = <<>>
    /\ ret = "none"
    /\ worker = [w \in Workers |-> Idle]
    /\ ctxDone = FALSE
    /\ fetchDone = FALSE
    /\ jobsClosed = FALSE
    /\ resultsClosed = FALSE
    /\ fetched = [i \in URLs |-> NoResult]
-----------------------------------------------------------------------------
(* main *)

\* The return statements; the deferred function runs next.
Return(r) ==
    /\ ret' = r
    /\ pc' = "cancel"

\* The first loop dispatches one job per worker.
\* Fault: it dispatches every feed.
FilledWithAll(n) == n = NumURLs
Filled(n) == n = NumWorkers

\* The select of dispatch, for the first jobs ("fill") and for the one that
\* replaces a consumed feed ("refill").
Dispatch(w) ==
    /\ pc \in {"fill", "refill"}
    /\ worker[w] = Idle
    /\ worker' = [worker EXCEPT ![w] = Working(nextJob)]
    /\ nextJob' = nextJob + 1
    /\ pc' = IF pc = "fill" /\ ~Filled(nextJob + 1) THEN "fill" ELSE "loop"
    /\ UNCHANGED <<next, pending, size, item, out, ret, env>>

DispatchCanceled ==
    /\ pc \in {"fill", "refill"}
    /\ fetchDone
    /\ Return("canceled")
    /\ UNCHANGED <<next, nextJob, pending, size, item, out, worker, env>>

AllConsumed ==
    /\ pc = "loop" /\ next = NumURLs
    /\ Return("nil")
    /\ UNCHANGED <<next, nextJob, pending, size, item, out, worker, env>>

\* Fault: a feed that failed is passed over.
SkipFailed ==
    /\ pc = "loop" /\ next < NumURLs
    /\ pending[next] # NoResult
    /\ pending' = [pending EXCEPT ![next] = NoResult]
    /\ IF pending[next].err # "none"
       THEN /\ next' = next + 1
            /\ UNCHANGED <<pc, size, item>>
       ELSE /\ pc' = "consume"
            /\ size' = pending[next].items
            /\ item' = 0
            /\ UNCHANGED next
    /\ UNCHANGED <<nextJob, out, ret, worker, env>>

\* The feed whose turn it is has been received: its error ends the run, its
\* items go to consume.
TakePending ==
    /\ pc = "loop" /\ next < NumURLs
    /\ pending[next] # NoResult
    /\ pending' = [pending EXCEPT ![next] = NoResult]
    /\ IF pending[next].err # "none"
       THEN /\ Return(pending[next].err)
            /\ UNCHANGED <<size, item>>
       ELSE /\ pc' = "consume"
            /\ size' = pending[next].items
            /\ item' = 0
            /\ UNCHANGED ret
    /\ UNCHANGED <<next, nextJob, out, worker, env>>

\* Fault: the last job is not the last.
MoreJobsPastEnd == nextJob <= NumURLs
MoreJobs == nextJob < NumURLs

\* The feed a result is filed under in pending.
\* Fault: the one main is waiting for.
AwaitedIndex(w) == next
Index(w) == worker[w].job

Waiting == pc = "loop" /\ next < NumURLs /\ pending[next] = NoResult

\* Fault: a failed result ends the run when it arrives, before its turn.
ReceiveFailsAtOnce(w) ==
    /\ Waiting
    /\ worker[w].pc = "send"
    /\ pending' = [pending EXCEPT ![Index(w)] = worker[w].res]
    /\ worker' = [worker EXCEPT ![w] = Idle]
    /\ IF worker[w].res.err = "none" THEN UNCHANGED <<pc, ret>>
                                     ELSE Return(worker[w].res.err)
    /\ UNCHANGED <<next, nextJob, size, item, out, env>>

\* Fault: a failed result cancels the other fetches when it arrives.
ReceiveCancels(w) ==
    /\ Waiting
    /\ worker[w].pc = "send"
    /\ pending' = [pending EXCEPT ![Index(w)] = worker[w].res]
    /\ worker' = [worker EXCEPT ![w] = Idle]
    /\ fetchDone' = (fetchDone \/ worker[w].res.err # "none")
    /\ UNCHANGED <<pc, next, nextJob, size, item, out, ret,
                   ctxDone, jobsClosed, resultsClosed, fetched>>

\* Fault: a worker is given a new job as soon as it has delivered one.
ReceiveRefills(w) ==
    /\ Waiting
    /\ worker[w].pc = "send"
    /\ pending' = [pending EXCEPT ![Index(w)] = worker[w].res]
    /\ worker' = [worker EXCEPT ![w] = Idle]
    /\ pc' = IF MoreJobs THEN "refill" ELSE "loop"
    /\ UNCHANGED <<next, nextJob, size, item, out, ret, env>>

Receive(w) ==
    /\ Waiting
    /\ worker[w].pc = "send"
    /\ pending' = [pending EXCEPT ![Index(w)] = worker[w].res]
    /\ worker' = [worker EXCEPT ![w] = Idle]
    /\ UNCHANGED <<pc, next, nextJob, size, item, out, ret, env>>

ReceiveClosed ==
    /\ Waiting
    /\ resultsClosed
    /\ Return(IF fetchDone THEN "canceled" ELSE "incomplete")
    /\ UNCHANGED <<next, nextJob, pending, size, item, out, worker, env>>

ReceiveCanceled ==
    /\ Waiting
    /\ fetchDone
    /\ Return("canceled")
    /\ UNCHANGED <<next, nextJob, pending, size, item, out, worker, env>>

\* One turn of the loop of writeItemValuesWithFeed: the check of the caller's
\* context, then the values of one item, which the query or the output may
\* fail to produce.
WriteItem ==
    /\ pc = "consume" /\ item < size
    /\ ~ctxDone
    /\ out' = Append(out, <<next, item>>)
    /\ item' = item + 1
    /\ UNCHANGED <<pc, next, nextJob, pending, size, ret, worker, env>>

WriteFails ==
    /\ pc = "consume" /\ item < size
    /\ ~ctxDone
    /\ Return("consume")
    /\ UNCHANGED <<next, nextJob, pending, size, item, out, worker, env>>

WriteCanceled ==
    /\ pc = "consume" /\ item < size
    /\ ctxDone
    /\ Return("canceled")
    /\ UNCHANGED <<next, nextJob, pending, size, item, out, worker, env>>

\* Fault: a feed that is known to have failed does not stop new fetches.
NoPendingError == FALSE
HasPendingError == \E i \in URLs : pending[i].err \in {"fetch", "canceled"}

\* consume has returned nil.  The loop variable advances when the turn ends,
\* which is here or after dispatch; dispatch does not read it.
FinishFeed ==
    /\ pc = "consume" /\ item = size
    /\ next' = next + 1
    /\ pc' = IF MoreJobs /\ ~HasPendingError THEN "refill" ELSE "loop"
    /\ size' = 0
    /\ item' = 0
    /\ UNCHANGED <<nextJob, pending, out, ret, worker, env>>

\* Fault: cancel() is missing from the deferred function.
LeaveFetchesRunning ==
    /\ pc = "cancel"
    /\ pc' = "close"
    /\ UNCHANGED <<next, nextJob, pending, size, item, out, ret, worker, env>>

\* The deferred function: cancel(), closeJobStream(), workers.Wait().
CancelFetches ==
    /\ pc = "cancel"
    /\ pc' = "close"
    /\ fetchDone' = TRUE
    /\ UNCHANGED <<next, nextJob, pending, size, item, out, ret, worker,
                   ctxDone, jobsClosed, resultsClosed, fetched>>

CloseJobs ==
    /\ pc = "close"
    /\ pc' = "wait"
    /\ jobsClosed' = TRUE
    /\ UNCHANGED <<next, nextJob, pending, size, item, out, ret, worker,
                   ctxDone, fetchDone, resultsClosed, fetched>>

AwaitWorkers ==
    /\ pc = "wait"
    /\ \A w \in Workers : worker[w] = Exited
    /\ pc' = "returned"
    /\ UNCHANGED <<next, nextJob, pending, size, item, out, ret, worker, env>>

Main ==
    \/ \E w \in Workers : Dispatch(w) \/ Receive(w)
    \/ DispatchCanceled
    \/ AllConsumed
    \/ TakePending
    \/ ReceiveClosed
    \/ ReceiveCanceled
    \/ WriteItem
    \/ WriteFails
    \/ WriteCanceled
    \/ FinishFeed
    \/ CancelFetches
    \/ CloseJobs
    \/ AwaitWorkers
-----------------------------------------------------------------------------
(* workers and closer *)

\* Fetch may succeed or fail at any time; it reports a cancelled context only
\* when the context is done.
FetchReturns(w) ==
    /\ worker[w].pc = "fetch"
    /\ \E r \in Results :
          /\ r = Failed("canceled") => fetchDone
          /\ worker' = [worker EXCEPT ![w] = Sending(worker[w].job, r)]
          /\ fetched' = [fetched EXCEPT ![worker[w].job] = r]
    /\ UNCHANGED <<mainVars, ctxDone, fetchDone, jobsClosed, resultsClosed>>

\* Fault: the worker's select has a default case instead.
AbandonUnreceived(w) ==
    /\ worker[w].pc = "send"
    /\ worker' = [worker EXCEPT ![w] = Exited]
    /\ UNCHANGED <<mainVars, ctxDone, fetchDone, jobsClosed, resultsClosed, fetched>>

\* The worker's select takes the case of the fetch context.
AbandonResult(w) ==
    /\ worker[w].pc = "send"
    /\ fetchDone
    /\ worker' = [worker EXCEPT ![w] = Exited]
    /\ UNCHANGED <<mainVars, ctxDone, fetchDone, jobsClosed, resultsClosed, fetched>>

JobsExhausted(w) ==
    /\ worker[w] = Idle
    /\ jobsClosed
    /\ worker' = [worker EXCEPT ![w] = Exited]
    /\ UNCHANGED <<mainVars, ctxDone, fetchDone, jobsClosed, resultsClosed, fetched>>

Worker(w) == FetchReturns(w) \/ AbandonResult(w) \/ JobsExhausted(w)

CloseResults ==
    /\ ~resultsClosed
    /\ \A w \in Workers : worker[w] = Exited
    /\ resultsClosed' = TRUE
    /\ UNCHANGED <<mainVars, worker, ctxDone, fetchDone, jobsClosed, fetched>>
-----------------------------------------------------------------------------
(* the contexts *)

\* A signal or the library's caller cancels the context given to run.
CallerCancels ==
    /\ ~ctxDone
    /\ ctxDone' = TRUE
    /\ UNCHANGED <<mainVars, worker, fetchDone, jobsClosed, resultsClosed, fetched>>

\* context.WithCancel: the derived context follows.
CancelPropagates ==
    /\ ctxDone /\ ~fetchDone
    /\ fetchDone' = TRUE
    /\ UNCHANGED <<mainVars, worker, ctxDone, jobsClosed, resultsClosed, fetched>>

\* Everything has returned.
Terminated == pc = "returned" /\ resultsClosed /\ UNCHANGED vars

Next ==
    \/ Main
    \/ \E w \in Workers : Worker(w)
    \/ CloseResults
    \/ CallerCancels
    \/ CancelPropagates
    \/ Terminated

Spec == Init /\ [][Next]_vars

\* The Go scheduler runs every goroutine that can go on, and Fetch returns,
\* which PacedFetch shows of the requests it makes.
Fairness ==
    /\ WF_vars(Main)
    /\ \A w \in Workers : WF_vars(Worker(w))
    /\ WF_vars(CloseResults)
    /\ WF_vars(CancelPropagates)

FairSpec == Spec /\ Fairness
-----------------------------------------------------------------------------
(* properties *)

TypeOK ==
    /\ pc \in {"fill", "loop", "consume", "refill",
               "cancel", "close", "wait", "returned"}
    /\ next \in 0..NumURLs
    /\ nextJob \in 0..NumURLs
    /\ pending \in [URLs -> Results \cup {NoResult}]
    /\ size \in 0..MaxItems
    /\ item \in 0..MaxItems
    /\ out \in Seq(URLs \X (0..MaxItems))
    /\ ret \in {"none", "nil", "fetch", "canceled", "consume", "incomplete"}
    /\ worker \in [Workers -> [pc  : {"recv", "fetch", "send", "exited"},
                               job : 0..NumURLs,
                               res : Results \cup {NoResult}]]
    /\ ctxDone \in BOOLEAN
    /\ fetchDone \in BOOLEAN
    /\ jobsClosed \in BOOLEAN
    /\ resultsClosed \in BOOLEAN
    /\ fetched \in [URLs -> Results \cup {NoResult}]

\* Items come out in input order, and in feed order within a feed, whatever
\* the order in which the workers finish (rssnip.go:198-229).
InputOrder ==
    \A p, q \in DOMAIN out :
        p < q => \/ out[p][1] < out[q][1]
                 \/ out[p][1] = out[q][1] /\ out[p][2] < out[q][2]

\* Every item of every feed already passed has been written, the current feed
\* up to the item it is at, and nothing of the feeds fetched ahead of their
\* turn: no result is lost between worker, channel and pending.  Each is in
\* its place, so that none is written twice.
OutputExact ==
    /\ InputOrder
    /\ \A i \in URLs, k \in 0..MaxItems :
           (\E p \in DOMAIN out : out[p] = <<i, k>>)
               <=> \/ i < next /\ k < fetched[i].items
                   \/ i = next /\ k < item

\* The run fails with the error of the first feed in input order that failed,
\* even when a later one failed earlier, and succeeds only when all did.
FirstErrorWins ==
    /\ \A i \in URLs : i < next => fetched[i].err = "none"
    /\ ret = "nil" => next = NumURLs
    /\ ret = "fetch" => next < NumURLs /\ fetched[next].err = "fetch"

\* Stopping the other fetches after a failure never turns that failure into
\* "context canceled": a cancellation is reported only when the caller did it.
NoSpuriousCancellation == ret = "canceled" => ctxDone

\* The error "incomplete result stream" (rssnip.go:221) is never returned:
\* results is not closed while main still expects a result.
NoIncompleteStream == ret # "incomplete"

\* Backpressure: at most NumWorkers feeds are dispatched and not yet consumed,
\* so pending cannot outgrow the capacity it is made with (rssnip.go:174), and
\* it holds nothing of the past.
Window ==
    /\ nextJob <= next + NumWorkers
    /\ \A i \in URLs : pending[i] # NoResult => next <= i /\ i < nextJob

\* dispatch is never left waiting for workers that all wait for main to
\* receive: unless cancelled, a worker is ready whenever main sends a job.
DispatchReady ==
    pc \in {"fill", "refill"} /\ ~fetchDone => \E w \in Workers : worker[w] = Idle

\* Fail fast: once main holds a failed result it starts no further fetch.
FailFast ==
    [][nextJob' # nextJob => \A i \in URLs : pending[i].err \in {"none", "pending"}]_vars

\* fetchFeeds returns, and leaves no goroutine behind.
Returns == <>(pc = "returned" /\ resultsClosed)

Sequential == INSTANCE SequentialFetch WITH turn <- next, loaded <- (pc = "consume")

\* To its caller fetchFeeds is the sequential loop: concurrency changes
\* neither what is written nor in which order nor what is returned.
ImplementsSequential == Sequential!Spec
=============================================================================
