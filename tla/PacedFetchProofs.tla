-------------------------- MODULE PacedFetchProofs --------------------------
(***************************************************************************)
(* The properties of fetchFeeds, alone and on politeTransport, proved for  *)
(* every number of URLs, workers, items, hosts and requests.  First the    *)
(* properties of FetchFeeds.  Then those of the composition, from the      *)
(* theorems about the two: a run of it is a run of each, so what is shown  *)
(* of them here and in PoliteTransportProofs holds of it.  What is left to *)
(* prove is what joins them: where a worker is says where its client can   *)
(* be.                                                                     *)
(***************************************************************************)
EXTENDS PacedFetch, FiniteSetTheorems, TLAPS

-----------------------------------------------------------------------------
(* fetchFeeds: the inductive invariant, what main, the workers and the      *)
(* channels know of each other.                                             *)

\* Nothing is known of a feed before it is dispatched.
Undispatched ==
    \A i \in URLs : nextJob <= i => fetched[i] = NoResult /\ pending[i] = NoResult

\* A busy worker has a dispatched feed that main is not done with; what it
\* offers is what Fetch has returned.
WorkersOwnJobs ==
    \A w \in Workers :
        /\ worker[w].pc = "recv" => worker[w] = Idle
        /\ worker[w].pc = "exited" => worker[w] = Exited
        /\ Busy(w) => /\ worker[w].job \in URLs
                      /\ next <= worker[w].job
                      /\ worker[w].job < nextJob
                      /\ pc = "consume" => worker[w].job # next
                      /\ worker[w].res = fetched[worker[w].job]
                      /\ pending[worker[w].job] = NoResult
        /\ worker[w].pc = "fetch" => worker[w].res = NoResult
        /\ worker[w].pc = "send" => worker[w].res # NoResult

DistinctJobs ==
    \A v, w \in Workers : Busy(v) /\ Busy(w) /\ v # w => worker[v].job # worker[w].job

\* pending holds what Fetch has returned, for feeds that are still to come.
PendingFetched ==
    \A i \in URLs :
        pending[i] # NoResult => /\ pending[i] = fetched[i]
                                 /\ next <= i
                                 /\ i < nextJob
                                 /\ pc = "consume" => i # next

\* What main knows at each place of its loop.
MainProgress ==
    /\ next <= nextJob
    /\ nextJob <= next + NumWorkers
    /\ pc = "fill" => /\ next = 0
                      /\ nextJob < NumWorkers
                      /\ \A i \in URLs : pending[i] = NoResult
    /\ pc = "refill" => /\ nextJob < next + NumWorkers
                        /\ nextJob < NumURLs
                        /\ ~HasPendingError
    /\ pc = "consume" => /\ next < nextJob
                         /\ size = fetched[next].items
                         /\ fetched[next].err = "none"
                         /\ item <= size
    /\ pc \in {"fill", "loop", "refill"} => item = 0 /\ size = 0

\* The order in which things are shut down.
Shutdown ==
    /\ ret = "none" <=> ~Leaving
    /\ fetchDone => ctxDone \/ Leaving
    /\ pc \in {"close", "wait", "returned"} => fetchDone
    /\ jobsClosed => pc \in {"wait", "returned"}
    /\ \A w \in Workers : worker[w].pc = "exited" => fetchDone
    /\ resultsClosed => \A w \in Workers : worker[w].pc = "exited"
    /\ \A i \in URLs : fetched[i].err = "canceled" => fetchDone

\* Where the items written so far come from.
Written ==
    /\ item > 0 => next < NumURLs /\ item <= fetched[next].items
    /\ \A i \in URLs, k \in 0..MaxItems :
          (\E p \in DOMAIN out : out[p] = <<i, k>>)
              <=> \/ i < next /\ k < fetched[i].items
                  \/ i = next /\ k < item

IInv ==
    /\ TypeOK
    /\ Undispatched
    /\ WorkersOwnJobs
    /\ DistinctJobs
    /\ PendingFetched
    /\ MainProgress
    /\ Shutdown
    /\ FirstErrorWins
    /\ NoSpuriousCancellation
    /\ NoIncompleteStream
    /\ Written
    /\ InputOrder
-----------------------------------------------------------------------------
USE DEF URLs, Workers, NoJob, NoResult, Fetched, Failed, Results,
        Idle, Exited, Working, Sending, Busy

LEMMA WorkerCount ==
    /\ NumURLs \in Nat /\ MaxItems \in Nat /\ NumWorkers \in Nat
    /\ 1 <= NumWorkers /\ NumWorkers <= NumURLs
  BY FetchAssumption DEF NumWorkers

LEMMA InitInvariant == Init => IInv
<1> SUFFICES ASSUME Init PROVE IInv
  OBVIOUS
<1>1. TypeOK
  <2>1. out \in Seq(URLs \X (0..MaxItems))
    BY DEF Init
  <2>2. /\ worker \in [Workers -> [pc  : {"recv", "fetch", "send", "exited"},
                                   job : 0..NumURLs,
                                   res : Results \cup {NoResult}]]
        /\ pending \in [URLs -> Results \cup {NoResult}]
        /\ fetched \in [URLs -> Results \cup {NoResult}]
    BY WorkerCount DEF Init
  <2>3. /\ next \in 0..NumURLs /\ nextJob \in 0..NumURLs
        /\ size \in 0..MaxItems /\ item \in 0..MaxItems
    BY WorkerCount DEF Init
  <2>4. /\ pc = "fill" /\ ret = "none"
        /\ ctxDone = FALSE /\ fetchDone = FALSE
        /\ jobsClosed = FALSE /\ resultsClosed = FALSE
    BY DEF Init
  <2> QED
    BY <2>1, <2>2, <2>3, <2>4 DEF TypeOK
<1>2. Undispatched /\ WorkersOwnJobs /\ DistinctJobs /\ PendingFetched
  BY DEF Init, Undispatched, WorkersOwnJobs, DistinctJobs, PendingFetched
<1>3. MainProgress /\ Shutdown
  BY WorkerCount DEF Init, MainProgress, Shutdown, Leaving
<1>4. FirstErrorWins /\ NoSpuriousCancellation /\ NoIncompleteStream
  BY DEF Init, FirstErrorWins, NoSpuriousCancellation, NoIncompleteStream
<1>5. Written /\ InputOrder
  BY DEF Init, Written, InputOrder
<1> QED
  BY <1>1, <1>2, <1>3, <1>4, <1>5 DEF IInv

(***************************************************************************)
(* Each conjunct is preserved by a step from a state of the invariant.     *)
(***************************************************************************)

LEMMA TypeStep == IInv /\ [Next]_vars => TypeOK'
<1> SUFFICES ASSUME IInv, [Next]_vars PROVE TypeOK'
  OBVIOUS
<1> USE WorkerCount DEF IInv, TypeOK, mainVars, env
<1>1. ASSUME NEW w \in Workers, Dispatch(w) PROVE TypeOK'
  <2>1. nextJob \in URLs /\ nextJob + 1 \in 0..NumURLs
    BY <1>1 DEF Dispatch, MainProgress
  <2>2. Working(nextJob) \in [pc : {"recv", "fetch", "send", "exited"}, job : 0..NumURLs,
                              res : Results \cup {NoResult}]
    BY <2>1
  <2> QED
    BY <1>1, <2>1, <2>2 DEF Dispatch
<1>2. ASSUME NEW w \in Workers, Receive(w) PROVE TypeOK'
  <2>1. worker[w].job \in URLs /\ worker[w].res \in Results
    BY <1>2 DEF Receive, WorkersOwnJobs
  <2>2. pending' \in [URLs -> Results \cup {NoResult}]
    BY <1>2, <2>1 DEF Receive, Index
  <2>3. worker' \in [Workers -> [pc  : {"recv", "fetch", "send", "exited"},
                                 job : 0..NumURLs,
                                 res : Results \cup {NoResult}]]
    BY <1>2 DEF Receive
  <2> QED
    BY <1>2, <2>2, <2>3 DEF Receive
<1>3. CASE TakePending
  <2>1. pending' = [pending EXCEPT ![next] = NoResult] /\ pending[next] \in Results
    BY <1>3 DEF TakePending
  <2>2. pending' \in [URLs -> Results \cup {NoResult}]
    BY <2>1
  <2>3. /\ pc' \in {"consume", "cancel"} /\ size' \in 0..MaxItems /\ item' \in 0..MaxItems
        /\ ret' \in {"none", "nil", "fetch", "canceled", "consume", "incomplete"}
    BY <1>3, <2>1 DEF TakePending, Return
  <2>4. UNCHANGED <<next, nextJob, out, worker, env>>
    BY <1>3 DEF TakePending
  <2> QED
    BY <2>2, <2>3, <2>4
<1>4. CASE WriteItem
  <2>1. out' \in Seq(URLs \X (0..MaxItems))
    BY <1>4 DEF WriteItem, MainProgress
  <2>2. item' \in 0..MaxItems /\ UNCHANGED <<pc, next, nextJob, pending, size, ret, worker, env>>
    BY <1>4 DEF WriteItem
  <2> QED
    BY <2>1, <2>2
<1>5. CASE FinishFeed
  BY <1>5 DEF FinishFeed, MainProgress
<1>6. CASE \/ DispatchCanceled \/ AllConsumed \/ ReceiveClosed \/ ReceiveCanceled
           \/ WriteFails \/ WriteCanceled
  BY <1>6 DEF DispatchCanceled, AllConsumed, ReceiveClosed, ReceiveCanceled,
              WriteFails, WriteCanceled, Return
<1>7. CASE CancelFetches \/ CloseJobs \/ AwaitWorkers
  <2> USE DEF CancelFetches, CloseJobs, AwaitWorkers
  <2>1. UNCHANGED <<next, nextJob, pending, size, item, out, ret, worker,
                    ctxDone, resultsClosed, fetched>>
    BY <1>7
  <2>2. /\ pc' \in {"close", "wait", "returned"}
        /\ fetchDone' \in BOOLEAN /\ jobsClosed' \in BOOLEAN
    BY <1>7
  <2> QED
    BY <2>1, <2>2
<1>8. ASSUME NEW w \in Workers, FetchReturns(w) PROVE TypeOK'
  <2> PICK r \in Results :
        /\ worker' = [worker EXCEPT ![w] = Sending(worker[w].job, r)]
        /\ fetched' = [fetched EXCEPT ![worker[w].job] = r]
    BY <1>8 DEF FetchReturns
  <2>1. worker' \in [Workers -> [pc  : {"recv", "fetch", "send", "exited"},
                                 job : 0..NumURLs,
                                 res : Results \cup {NoResult}]]
    OBVIOUS
  <2>2. fetched' \in [URLs -> Results \cup {NoResult}]
    OBVIOUS
  <2> QED
    BY <1>8, <2>1, <2>2 DEF FetchReturns
<1>9. ASSUME NEW w \in Workers, AbandonResult(w) \/ JobsExhausted(w) PROVE TypeOK'
  <2>1. worker' = [worker EXCEPT ![w] = Exited]
    BY <1>9 DEF AbandonResult, JobsExhausted
  <2>2. worker' \in [Workers -> [pc  : {"recv", "fetch", "send", "exited"},
                                 job : 0..NumURLs,
                                 res : Results \cup {NoResult}]]
    BY <2>1
  <2>3. UNCHANGED <<mainVars, env>>
    BY <1>9 DEF AbandonResult, JobsExhausted
  <2> QED
    BY SMTT(30), <2>2, <2>3
<1>10. CASE CloseResults \/ CallerCancels \/ CancelPropagates
  <2> USE DEF CloseResults, CallerCancels, CancelPropagates
  <2>1. UNCHANGED <<mainVars, worker, fetched>>
    BY <1>10
  <2>2. /\ ctxDone' \in BOOLEAN /\ fetchDone' \in BOOLEAN
        /\ jobsClosed' \in BOOLEAN /\ resultsClosed' \in BOOLEAN
    BY <1>10
  <2> QED
    BY <2>1, <2>2
<1>11. CASE UNCHANGED vars
  BY <1>11 DEF vars
<1> QED
  BY <1>1, <1>2, <1>3, <1>4, <1>5, <1>6, <1>7, <1>8, <1>9, <1>10, <1>11
  DEF Next, Main, Worker, Terminated

LEMMA UndispatchedStep == IInv /\ [Next]_vars => Undispatched'
<1> SUFFICES ASSUME IInv, [Next]_vars PROVE Undispatched'
  OBVIOUS
<1> USE WorkerCount DEF IInv, TypeOK, Undispatched, mainVars, env
<1>1. ASSUME NEW w \in Workers, Dispatch(w) PROVE Undispatched'
  BY SMTT(30), <1>1 DEF Dispatch
<1>2. ASSUME NEW w \in Workers, Receive(w) PROVE Undispatched'
  BY <1>2 DEF Receive, Index, WorkersOwnJobs
<1>3. CASE TakePending
  BY <1>3 DEF TakePending
<1>4. ASSUME NEW w \in Workers, FetchReturns(w) PROVE Undispatched'
  BY <1>4 DEF FetchReturns, WorkersOwnJobs
<1>5. CASE UNCHANGED <<nextJob, pending, fetched>>
  BY <1>5
<1> QED
  BY <1>1, <1>2, <1>3, <1>4, <1>5
  DEF Next, Main, Worker, Terminated, vars, DispatchCanceled, AllConsumed,
      ReceiveClosed, ReceiveCanceled, WriteItem, WriteFails, WriteCanceled,
      FinishFeed, CancelFetches, CloseJobs, AwaitWorkers, AbandonResult,
      JobsExhausted, CloseResults, CallerCancels, CancelPropagates

LEMMA WorkersOwnJobsStep == IInv /\ [Next]_vars => WorkersOwnJobs'
<1> SUFFICES ASSUME IInv, [Next]_vars PROVE WorkersOwnJobs'
  OBVIOUS
<1> USE WorkerCount DEF IInv, TypeOK, WorkersOwnJobs, mainVars, env
<1>1. ASSUME NEW w \in Workers, Dispatch(w) PROVE WorkersOwnJobs'
  <2>1. /\ nextJob \in URLs /\ next <= nextJob
        /\ fetched[nextJob] = NoResult /\ pending[nextJob] = NoResult
        /\ pc' # "consume" /\ UNCHANGED <<next, pending, fetched>>
    BY <1>1 DEF Dispatch, Undispatched, MainProgress
  <2>2. /\ worker' = [worker EXCEPT ![w] = Working(nextJob)]
        /\ nextJob' = nextJob + 1
    BY <1>1 DEF Dispatch
  <2> QED
    BY <2>1, <2>2
<1>2. ASSUME NEW w \in Workers, Receive(w) PROVE WorkersOwnJobs'
  BY <1>2 DEF Receive, Index, Waiting, DistinctJobs
<1>3. CASE TakePending
  BY <1>3 DEF TakePending, Return
<1>4. CASE FinishFeed
  BY <1>4 DEF FinishFeed
<1>5. ASSUME NEW w \in Workers, FetchReturns(w) PROVE WorkersOwnJobs'
  <2> PICK r \in Results :
        /\ worker' = [worker EXCEPT ![w] = Sending(worker[w].job, r)]
        /\ fetched' = [fetched EXCEPT ![worker[w].job] = r]
    BY <1>5 DEF FetchReturns
  <2>1. worker[w].pc = "fetch" /\ UNCHANGED <<pc, next, nextJob, pending>>
    BY <1>5 DEF FetchReturns
  <2>2. \A v \in Workers : v # w /\ Busy(v) => worker[v].job # worker[w].job
    BY <2>1 DEF DistinctJobs
  <2> QED
    BY <2>1, <2>2
<1>6. ASSUME NEW w \in Workers, AbandonResult(w) PROVE WorkersOwnJobs'
  BY <1>6 DEF AbandonResult
<1>7. ASSUME NEW w \in Workers, JobsExhausted(w) PROVE WorkersOwnJobs'
  BY <1>7 DEF JobsExhausted
<1>8. CASE /\ UNCHANGED <<next, nextJob, pending, worker, fetched>>
           /\ pc' = "consume" => pc = "consume"
  BY <1>8
<1> QED
  BY <1>1, <1>2, <1>3, <1>4, <1>5, <1>6, <1>7, <1>8
  DEF Next, Main, Worker, Terminated, vars, DispatchCanceled, AllConsumed,
      ReceiveClosed, ReceiveCanceled, WriteItem, WriteFails, WriteCanceled,
      CancelFetches, CloseJobs, AwaitWorkers, CloseResults, CallerCancels,
      CancelPropagates, Return

LEMMA DistinctJobsStep == IInv /\ [Next]_vars => DistinctJobs'
<1> SUFFICES ASSUME IInv, [Next]_vars PROVE DistinctJobs'
  OBVIOUS
<1> USE DEF IInv, TypeOK, DistinctJobs, mainVars, env
<1>1. ASSUME NEW w \in Workers, Dispatch(w) PROVE DistinctJobs'
  <2>1. ASSUME NEW v \in Workers, Busy(v) PROVE worker[v].job # nextJob
    <3>1. worker[v].job < nextJob
      BY <2>1 DEF WorkersOwnJobs
    <3>2. worker[v].job \in Nat /\ nextJob \in Nat
      BY <2>1, WorkerCount
    <3> QED
      BY <3>1, <3>2
  <2> QED
    BY <1>1, <2>1 DEF Dispatch
<1>2. ASSUME NEW w \in Workers, Receive(w) PROVE DistinctJobs'
  BY <1>2 DEF Receive
<1>3. ASSUME NEW w \in Workers, FetchReturns(w) PROVE DistinctJobs'
  BY <1>3 DEF FetchReturns
<1>4. ASSUME NEW w \in Workers, AbandonResult(w) PROVE DistinctJobs'
  BY <1>4 DEF AbandonResult
<1>5. ASSUME NEW w \in Workers, JobsExhausted(w) PROVE DistinctJobs'
  BY <1>5 DEF JobsExhausted
<1>6. CASE UNCHANGED worker
  BY <1>6
<1> QED
  BY <1>1, <1>2, <1>3, <1>4, <1>5, <1>6
  DEF Next, Main, Worker, Terminated, vars, DispatchCanceled, AllConsumed,
      TakePending, ReceiveClosed, ReceiveCanceled, WriteItem, WriteFails,
      WriteCanceled, FinishFeed, CancelFetches, CloseJobs, AwaitWorkers,
      CloseResults, CallerCancels, CancelPropagates

LEMMA PendingFetchedStep == IInv /\ [Next]_vars => PendingFetched'
<1> SUFFICES ASSUME IInv, [Next]_vars PROVE PendingFetched'
  OBVIOUS
<1> USE WorkerCount DEF IInv, TypeOK, PendingFetched, mainVars, env
<1>1. ASSUME NEW w \in Workers, Dispatch(w) PROVE PendingFetched'
  BY SMTT(30), <1>1 DEF Dispatch
<1>2. ASSUME NEW w \in Workers, Receive(w) PROVE PendingFetched'
  BY <1>2 DEF Receive, Index, Waiting, WorkersOwnJobs
<1>3. CASE TakePending
  BY <1>3 DEF TakePending, Return
<1>4. CASE FinishFeed
  BY <1>4 DEF FinishFeed
<1>5. ASSUME NEW w \in Workers, FetchReturns(w) PROVE PendingFetched'
  BY <1>5 DEF FetchReturns, WorkersOwnJobs
<1>6. CASE /\ UNCHANGED <<next, nextJob, pending, fetched>>
           /\ pc' = "consume" => pc = "consume"
  BY <1>6
<1> QED
  BY SMTT(30), <1>1, <1>2, <1>3, <1>4, <1>5, <1>6
  DEF Next, Main, Worker, Terminated, vars, DispatchCanceled, AllConsumed,
      ReceiveClosed, ReceiveCanceled, WriteItem, WriteFails, WriteCanceled,
      CancelFetches, CloseJobs, AwaitWorkers, AbandonResult, JobsExhausted,
      CloseResults, CallerCancels, CancelPropagates, Return

LEMMA MainProgressStep == IInv /\ [Next]_vars => MainProgress'
<1> SUFFICES ASSUME IInv, [Next]_vars PROVE MainProgress'
  OBVIOUS
<1> USE WorkerCount DEF IInv, TypeOK, MainProgress, HasPendingError, mainVars, env
<1>1. ASSUME NEW w \in Workers, Dispatch(w) PROVE MainProgress'
  BY <1>1 DEF Dispatch, Filled
<1>2. ASSUME NEW w \in Workers, Receive(w) PROVE MainProgress'
  BY <1>2 DEF Receive, Waiting
<1>3. CASE TakePending
  <2>1. pending[next] = fetched[next] /\ next < nextJob
    BY <1>3 DEF TakePending, PendingFetched
  <2>2. CASE pending[next].err = "none"
    BY <1>3, <2>1, <2>2 DEF TakePending
  <2>3. CASE pending[next].err # "none"
    BY <1>3, <2>3 DEF TakePending, Return
  <2> QED
    BY <2>2, <2>3
<1>4. CASE WriteItem
  BY <1>4 DEF WriteItem
<1>5. CASE FinishFeed
  BY <1>5 DEF FinishFeed, MoreJobs
<1>6. ASSUME NEW w \in Workers, FetchReturns(w) PROVE MainProgress'
  BY <1>6 DEF FetchReturns, WorkersOwnJobs
<1>7. CASE /\ UNCHANGED <<next, nextJob, pending, size, item, fetched>>
           /\ pc' = pc \/ pc' \in {"cancel", "close", "wait", "returned"}
  BY <1>7
<1> QED
  BY <1>1, <1>2, <1>3, <1>4, <1>5, <1>6, <1>7
  DEF Next, Main, Worker, Terminated, vars, DispatchCanceled, AllConsumed,
      ReceiveClosed, ReceiveCanceled, WriteFails, WriteCanceled,
      CancelFetches, CloseJobs, AwaitWorkers, AbandonResult, JobsExhausted,
      CloseResults, CallerCancels, CancelPropagates, Return

LEMMA ShutdownStep == IInv /\ [Next]_vars => Shutdown'
<1> SUFFICES ASSUME IInv, [Next]_vars PROVE Shutdown'
  OBVIOUS
<1> USE DEF IInv, TypeOK, Shutdown, Leaving, mainVars, env
<1>1. ASSUME NEW w \in Workers, Dispatch(w) PROVE Shutdown'
  BY <1>1 DEF Dispatch
<1>2. ASSUME NEW w \in Workers, Receive(w) PROVE Shutdown'
  BY <1>2 DEF Receive, Waiting
<1>3. CASE TakePending
  <2>1. CASE pending[next].err = "none"
    BY <1>3, <2>1 DEF TakePending
  <2>2. CASE pending[next].err # "none"
    <3>1. ret' # "none"
      BY <1>3, <2>2, WorkerCount DEF TakePending, Return
    <3> QED
      BY <1>3, <2>2, <3>1 DEF TakePending, Return
  <2> QED
    BY <2>1, <2>2
<1>4. CASE \/ DispatchCanceled \/ AllConsumed \/ ReceiveClosed \/ ReceiveCanceled
           \/ WriteFails \/ WriteCanceled
  <2>1. /\ pc \in {"fill", "loop", "consume", "refill"}
        /\ pc' = "cancel" /\ ret' # "none"
        /\ UNCHANGED <<worker, env>>
    BY <1>4 DEF DispatchCanceled, AllConsumed, ReceiveClosed, ReceiveCanceled,
                WriteFails, WriteCanceled, Return, Waiting
  <2> QED
    BY <2>1
<1>5. CASE WriteItem
  BY <1>5 DEF WriteItem
<1>6. CASE FinishFeed
  BY <1>6 DEF FinishFeed
<1>7. CASE CancelFetches \/ CloseJobs \/ AwaitWorkers
  <2>1. CASE CancelFetches
    BY <2>1 DEF CancelFetches
  <2>2. CASE CloseJobs
    BY <2>2 DEF CloseJobs
  <2>3. CASE AwaitWorkers
    BY <2>3 DEF AwaitWorkers
  <2> QED
    BY <1>7, <2>1, <2>2, <2>3
<1>8. ASSUME NEW w \in Workers, FetchReturns(w) PROVE Shutdown'
  <2> PICK r \in Results :
        /\ r = Failed("canceled") => fetchDone
        /\ worker' = [worker EXCEPT ![w] = Sending(worker[w].job, r)]
        /\ fetched' = [fetched EXCEPT ![worker[w].job] = r]
    BY <1>8 DEF FetchReturns
  <2> QED
    BY <1>8 DEF FetchReturns
<1>9. ASSUME NEW w \in Workers, AbandonResult(w) PROVE Shutdown'
  BY <1>9 DEF AbandonResult
<1>10. ASSUME NEW w \in Workers, JobsExhausted(w) PROVE Shutdown'
  BY <1>10 DEF JobsExhausted
<1>11. CASE CloseResults \/ CallerCancels \/ CancelPropagates
  <2>1. CASE CloseResults
    BY <2>1 DEF CloseResults
  <2>2. CASE CallerCancels
    BY <2>2 DEF CallerCancels
  <2>3. CASE CancelPropagates
    BY <2>3 DEF CancelPropagates
  <2> QED
    BY <1>11, <2>1, <2>2, <2>3
<1>12. CASE UNCHANGED vars
  BY <1>12 DEF vars
<1> QED
  BY <1>1, <1>2, <1>3, <1>4, <1>5, <1>6, <1>7, <1>8, <1>9, <1>10, <1>11, <1>12
  DEF Next, Main, Worker, Terminated

LEMMA FirstErrorWinsStep == IInv /\ [Next]_vars => FirstErrorWins'
<1> SUFFICES ASSUME IInv, [Next]_vars PROVE FirstErrorWins'
  OBVIOUS
<1> USE WorkerCount DEF IInv, TypeOK, FirstErrorWins, mainVars, env
<1>1. CASE AllConsumed
  BY <1>1 DEF AllConsumed, Return
<1>2. CASE TakePending
  <2>1. pending[next] = fetched[next]
    BY <1>2 DEF TakePending, PendingFetched
  <2>2. CASE pending[next].err = "none"
    BY <1>2, <2>2 DEF TakePending
  <2>3. CASE pending[next].err # "none"
    <3>1. /\ ret' = fetched[next].err /\ next \in URLs
          /\ UNCHANGED <<next, fetched>>
      BY <1>2, <2>1, <2>3 DEF TakePending, Return
    <3>2. fetched[next] \in Results \cup {NoResult} /\ fetched[next] # NoResult
      BY <1>2, <2>1, <3>1 DEF TakePending
    <3>3. ret' \in {"fetch", "canceled"}
      BY <2>1, <2>3, <3>1, <3>2
    <3> QED
      BY <3>1, <3>3
  <2> QED
    BY <2>2, <2>3
<1>3. CASE FinishFeed
  BY <1>3 DEF FinishFeed, MainProgress, Shutdown, Leaving
<1>4. ASSUME NEW w \in Workers, FetchReturns(w) PROVE FirstErrorWins'
  BY <1>4 DEF FetchReturns, WorkersOwnJobs
<1>5. CASE /\ UNCHANGED <<next, fetched>>
           /\ ret' = ret \/ ret' \in {"canceled", "consume", "incomplete"}
  BY <1>5
<1> QED
  BY <1>1, <1>2, <1>3, <1>4, <1>5
  DEF Next, Main, Worker, Terminated, vars, Dispatch, DispatchCanceled,
      Receive, ReceiveClosed, ReceiveCanceled, WriteItem, WriteFails,
      WriteCanceled, CancelFetches, CloseJobs, AwaitWorkers, AbandonResult,
      JobsExhausted, CloseResults, CallerCancels, CancelPropagates, Return

LEMMA CancellationStep ==
  IInv /\ [Next]_vars => NoSpuriousCancellation' /\ NoIncompleteStream'
<1> SUFFICES ASSUME IInv, [Next]_vars
             PROVE  NoSpuriousCancellation' /\ NoIncompleteStream'
  OBVIOUS
<1> USE DEF IInv, NoSpuriousCancellation, NoIncompleteStream, mainVars, env
<1>1. CASE DispatchCanceled \/ ReceiveCanceled
  BY <1>1 DEF DispatchCanceled, ReceiveCanceled, Waiting, Return, Shutdown, Leaving
<1>2. CASE ReceiveClosed
  <2>1. fetchDone
    BY <1>2, WorkerCount DEF ReceiveClosed, Shutdown
  <2> QED
    BY <1>2, <2>1 DEF ReceiveClosed, Waiting, Return, Shutdown, Leaving
<1>3. CASE TakePending
  <2>1. CASE pending[next].err = "none"
    BY <1>3, <2>1 DEF TakePending
  <2>2. CASE pending[next].err # "none"
    <3>1. next \in URLs /\ pending[next] \in Results
      BY <1>3, WorkerCount DEF TakePending, TypeOK
    <3>2. pending[next] = fetched[next]
      BY <1>3, <3>1 DEF TakePending, PendingFetched
    <3>3. pending[next].err = "canceled" => ctxDone
      BY <1>3, <3>1, <3>2 DEF TakePending, Shutdown, Leaving
    <3> QED
      BY <1>3, <2>2, <3>1, <3>3 DEF TakePending, Return
  <2> QED
    BY <2>1, <2>2
<1>4. CASE /\ ctxDone => ctxDone'
           /\ \/ ret' = ret
              \/ ret' \in {"nil", "consume"}
              \/ ret' = "canceled" /\ ctxDone
  BY <1>4
<1> QED
  BY <1>1, <1>2, <1>3, <1>4
  DEF Next, Main, Worker, Terminated, vars, Dispatch, AllConsumed, Receive,
      WriteItem, WriteFails, WriteCanceled, FinishFeed, CancelFetches,
      CloseJobs, AwaitWorkers, FetchReturns, AbandonResult, JobsExhausted,
      CloseResults, CallerCancels, CancelPropagates, Return

\* What a sequence holds after Append.
LEMMA AppendMember ==
  ASSUME NEW S, NEW s \in Seq(S), NEW e \in S, NEW x
  PROVE  (\E p \in DOMAIN Append(s, e) : Append(s, e)[p] = x)
            <=> (\E p \in DOMAIN s : s[p] = x) \/ x = e
<1>1. DOMAIN Append(s, e) = 1..Len(s)+1 /\ DOMAIN s = 1..Len(s) /\ Len(s) \in Nat
  OBVIOUS
<1>2. /\ Append(s, e)[Len(s)+1] = e
      /\ \A p \in 1..Len(s) : Append(s, e)[p] = s[p]
  OBVIOUS
<1> QED
  BY <1>1, <1>2

LEMMA WrittenStep == IInv /\ [Next]_vars => Written'
<1> SUFFICES ASSUME IInv, [Next]_vars PROVE Written'
  OBVIOUS
<1> USE DEF Written, mainVars, env
<1>a. TypeOK /\ Written /\ MainProgress /\ WorkersOwnJobs
  BY DEF IInv
<1>1. CASE TakePending
  <2>1. UNCHANGED <<next, out, fetched>> /\ item' \in {item, 0}
    BY <1>1 DEF TakePending, Return
  <2>2. item = 0
    BY <1>1, <1>a DEF TakePending, MainProgress
  <2> QED
    BY <1>a, <2>1, <2>2
<1>2. CASE WriteItem
  <2>1. /\ pc = "consume" /\ item < size
        /\ item' = item + 1 /\ out' = Append(out, <<next, item>>)
        /\ UNCHANGED <<next, fetched>>
    BY <1>2 DEF WriteItem
  <2>2. next \in URLs /\ item' <= fetched[next].items
    BY <1>a, <2>1, WorkerCount DEF MainProgress, TypeOK
  <2>3. item \in 0..MaxItems /\ out \in Seq(URLs \X (0..MaxItems))
    BY <1>a DEF TypeOK
  <2>4. ASSUME NEW i \in URLs, NEW k \in 0..MaxItems
        PROVE  (\E p \in DOMAIN out' : out'[p] = <<i, k>>)
                 <=> \/ i < next' /\ k < fetched'[i].items
                     \/ i = next' /\ k < item'
    <3> DEFINE S == URLs \X (0..MaxItems)
    <3>1. out \in Seq(S) /\ <<next, item>> \in S
      BY <2>2, <2>3
    <3> HIDE DEF S
    <3>2. (\E p \in DOMAIN out' : out'[p] = <<i, k>>)
             <=> (\E p \in DOMAIN out : out[p] = <<i, k>>) \/ <<i, k>> = <<next, item>>
      <4> DEFINE e == <<next, item>>
                 x == <<i, k>>
      <4>1. out' = Append(out, e) /\ e \in S
        BY <2>1, <3>1
      <4> HIDE DEF e, x
      <4>2. (\E p \in DOMAIN Append(out, e) : Append(out, e)[p] = x)
              <=> (\E p \in DOMAIN out : out[p] = x) \/ x = e
        BY <3>1, <4>1, AppendMember
      <4> QED
        BY <4>1, <4>2 DEF e, x
    <3>3. k < item' <=> k < item \/ k = item
      BY <2>1, <2>3
    <3>4. (\E p \in DOMAIN out : out[p] = <<i, k>>)
             <=> (i < next /\ k < fetched[i].items) \/ (i = next /\ k < item)
      BY <1>a
    <3> QED
      BY <2>1, <3>2, <3>3, <3>4
  <2>5. item' > 0 => next' < NumURLs /\ item' <= fetched'[next'].items
    BY <2>1, <2>2, WorkerCount
  <2> QED
    BY <2>4, <2>5
<1>3. CASE FinishFeed
  <2>1. /\ pc = "consume" /\ item = size /\ next' = next + 1 /\ item' = 0
        /\ UNCHANGED <<out, fetched>>
    BY <1>3 DEF FinishFeed
  <2>2. next \in URLs /\ item = fetched[next].items
    BY <1>a, <2>1, WorkerCount DEF MainProgress, TypeOK
  <2>3. ASSUME NEW i \in URLs, NEW k \in 0..MaxItems
        PROVE  (i < next' /\ k < fetched'[i].items) \/ (i = next' /\ k < item')
                 <=> (i < next /\ k < fetched[i].items) \/ (i = next /\ k < item)
    <3>1. i < next' <=> i < next \/ i = next
      BY <2>1, <2>2
    <3>2. ~(k < item')
      BY <2>1
    <3>3. ~(next < next)
      BY <2>2
    <3> QED
      BY <2>1, <2>2, <3>1, <3>2, <3>3
  <2>4. ~(item' > 0)
    BY <2>1
  <2> QED
    BY <1>a, <2>1, <2>3, <2>4
<1>4. ASSUME NEW w \in Workers, FetchReturns(w) PROVE Written'
  <2> PICK r \in Results : fetched' = [fetched EXCEPT ![worker[w].job] = r]
    BY <1>4 DEF FetchReturns
  <2>1. /\ worker[w].job \in URLs /\ next <= worker[w].job
        /\ fetched[worker[w].job] = NoResult
        /\ UNCHANGED <<next, item, out>>
    BY <1>4, <1>a DEF FetchReturns, WorkersOwnJobs, TypeOK
  <2>2. \A i \in URLs : i < next => fetched'[i] = fetched[i]
    BY <1>a, <2>1, WorkerCount DEF TypeOK
  <2>3. item > 0 => fetched'[next] = fetched[next]
    <3>1. /\ next \in 0..NumURLs /\ item \in 0..MaxItems
          /\ item > 0 => next < NumURLs /\ item <= fetched[next].items
      BY <1>a DEF TypeOK
    <3>2. item > 0 => next # worker[w].job
      <4>1. fetched[worker[w].job].items = 0
        BY <2>1 DEF NoResult
      <4> QED
        BY <3>1, <4>1
    <3>3. DOMAIN fetched = URLs
      BY <1>a DEF TypeOK
    <3>4. item > 0 => next \in URLs
      BY <3>1, WorkerCount
    <3> QED
      BY <3>2, <3>3, <3>4
  <2>4. ASSUME NEW i \in URLs, NEW k \in 0..MaxItems
        PROVE  (i < next' /\ k < fetched'[i].items) \/ (i = next' /\ k < item')
                 <=> (i < next /\ k < fetched[i].items) \/ (i = next /\ k < item)
    BY <2>1, <2>2
  <2>5. item' > 0 => next' < NumURLs /\ item' <= fetched'[next'].items
    BY <1>a, <2>1, <2>3
  <2>6. out' = out
    BY <2>1
  <2> QED
    BY <1>a, <2>4, <2>5, <2>6
<1>5. CASE UNCHANGED <<next, item, out, fetched>>
  BY <1>a, <1>5
<1> QED
  BY <1>1, <1>2, <1>3, <1>4, <1>5
  DEF Next, Main, Worker, Terminated, vars, Dispatch, DispatchCanceled,
      AllConsumed, Receive, ReceiveClosed, ReceiveCanceled, WriteFails,
      WriteCanceled, CancelFetches, CloseJobs, AwaitWorkers, AbandonResult,
      JobsExhausted, CloseResults, CallerCancels, CancelPropagates, Return

LEMMA InputOrderStep == IInv /\ [Next]_vars => InputOrder'
<1> SUFFICES ASSUME IInv, [Next]_vars PROVE InputOrder'
  OBVIOUS
<1> USE DEF IInv, InputOrder, mainVars, env
<1>1. CASE WriteItem
  <2>1. /\ out \in Seq(URLs \X (0..MaxItems)) /\ next \in Nat /\ item \in Nat
        /\ out' = Append(out, <<next, item>>)
    BY <1>1 DEF WriteItem, TypeOK
  <2>2. ASSUME NEW p \in DOMAIN out
        PROVE  out[p][1] < next \/ (out[p][1] = next /\ out[p][2] < item)
    <3>1. out[p] \in URLs \X (0..MaxItems)
      BY <2>1
    <3>2. PICK i \in URLs, k \in 0..MaxItems : out[p] = <<i, k>>
      BY <3>1
    <3> QED
      BY <3>2 DEF Written
  <2>3. DOMAIN out = 1..Len(out) /\ DOMAIN out' = 1..Len(out)+1 /\ Len(out) \in Nat
    BY <2>1
  <2>4. /\ out'[Len(out)+1] = <<next, item>>
        /\ \A p \in 1..Len(out) : out'[p] = out[p]
    BY <2>1
  <2>5. ASSUME NEW p \in DOMAIN out', NEW q \in DOMAIN out', p < q
        PROVE  \/ out'[p][1] < out'[q][1]
               \/ out'[p][1] = out'[q][1] /\ out'[p][2] < out'[q][2]
    <3>1. CASE q = Len(out) + 1
      BY <2>2, <2>3, <2>4, <2>5, <3>1
    <3>2. CASE q \in 1..Len(out)
      BY <2>3, <2>4, <2>5, <3>2
    <3> QED
      BY <2>3, <3>1, <3>2
  <2> QED
    BY <2>5
<1>2. CASE UNCHANGED out
  BY <1>2
<1> QED
  BY <1>1, <1>2
  DEF Next, Main, Worker, Terminated, vars, Dispatch, DispatchCanceled,
      AllConsumed, TakePending, Receive, ReceiveClosed, ReceiveCanceled,
      WriteFails, WriteCanceled, FinishFeed, CancelFetches, CloseJobs,
      AwaitWorkers, FetchReturns, AbandonResult, JobsExhausted, CloseResults,
      CallerCancels, CancelPropagates

-----------------------------------------------------------------------------
(* The theorems. *)

\* The state of main, the workers and the channels stays consistent in every
\* run, whatever the number of feeds and workers (rssnip.go:131-230).
THEOREM Invariance == Spec => []IInv
<1>1. IInv /\ [Next]_vars => IInv'
  BY TypeStep, UndispatchedStep, WorkersOwnJobsStep, DistinctJobsStep,
     PendingFetchedStep, MainProgressStep, ShutdownStep, FirstErrorWinsStep,
     CancellationStep, WrittenStep, InputOrderStep
  DEF IInv
<1> QED
  BY InitInvariant, <1>1, PTL DEF Spec

\* Every variable keeps its type.
THEOREM TypeCorrect == Spec => []TypeOK
  BY Invariance, PTL DEF IInv

\* The items are written in input order (rssnip.go:198-229).
THEOREM OrderedOutput == Spec => []InputOrder
  BY Invariance, PTL DEF IInv

\* Each item of the feeds passed so far has been written once, in its place, and
\* no other (rssnip.go:198-229).
THEOREM ExactOutput == Spec => []OutputExact
<1>1. IInv => OutputExact
  BY DEF IInv, Written, OutputExact
<1> QED
  BY Invariance, <1>1, PTL

\* The run reports the error of the first feed in input order that failed.
THEOREM FirstErrorReported == Spec => []FirstErrorWins
  BY Invariance, PTL DEF IInv

\* "context canceled" is reported only when the caller cancelled.
THEOREM HonestCancellation == Spec => []NoSpuriousCancellation
  BY Invariance, PTL DEF IInv

\* The guard against an incomplete result stream (rssnip.go:217-222) is never
\* hit.
THEOREM CompleteStream == Spec => []NoIncompleteStream
  BY Invariance, PTL DEF IInv

\* No more feeds are ahead of the consumer than there are workers.
THEOREM BoundedWindow == Spec => []Window
<1>1. IInv => Window
  BY DEF IInv, MainProgress, PendingFetched, Window
<1> QED
  BY Invariance, <1>1, PTL

\* Before main dispatches, fewer feeds are in the window than there are
\* workers, and busy workers have distinct feeds of it: one worker is not busy.
LEMMA SomeWorkerFree ==
  ASSUME IInv, pc \in {"fill", "refill"}
  PROVE  \E w \in Workers : ~Busy(w)
<1> SUFFICES ASSUME \A w \in Workers : Busy(w) PROVE FALSE
  OBVIOUS
<1> DEFINE InWindow == next .. nextJob - 1
           job == [w \in Workers |-> worker[w].job]
<1>1. next \in Int /\ nextJob \in Int /\ nextJob < next + NumWorkers /\ next <= nextJob
  BY WorkerCount DEF IInv, TypeOK, MainProgress
<1>2. job \in [Workers -> InWindow]
  <2> SUFFICES ASSUME NEW w \in Workers PROVE worker[w].job \in InWindow
    OBVIOUS
  <2>1. worker[w].job \in Int /\ next <= worker[w].job /\ worker[w].job < nextJob
    BY WorkerCount DEF IInv, WorkersOwnJobs
  <2> QED
    BY <1>1, <2>1
<1>3. \A v, w \in Workers : v # w => job[v] # job[w]
  BY DEF IInv, DistinctJobs
<1>4. IsFiniteSet(InWindow) /\ Cardinality(InWindow) = nextJob - next
  BY <1>1, FS_Interval
<1>5. IsFiniteSet(Workers) /\ Cardinality(Workers) = NumWorkers
  BY WorkerCount, FS_Interval
<1>6. Cardinality(InWindow) < Cardinality(Workers)
  BY <1>1, <1>4, <1>5, WorkerCount
<1> HIDE DEF InWindow, job, Workers
<1>7. \E v, w \in Workers : v # w /\ job[v] = job[w]
  BY <1>2, <1>4, <1>5, <1>6, FS_PigeonHole
<1> QED
  BY <1>3, <1>7

\* A worker is ready for the job whenever main dispatches one, unless the run
\* is cancelled: main and the workers never wait for each other.
THEOREM DispatchNeverStuck == Spec => []DispatchReady
<1>1. ASSUME IInv, pc \in {"fill", "refill"}, ~fetchDone
      PROVE  \E w \in Workers : worker[w] = Idle
  <2> PICK w \in Workers : ~Busy(w)
    BY <1>1, SomeWorkerFree
  <2>1. worker[w].pc # "exited"
    BY <1>1 DEF IInv, Shutdown
  <2>2. worker[w].pc = "recv"
    BY <1>1, <2>1 DEF IInv, TypeOK
  <2> QED
    BY <1>1, <2>2 DEF IInv, WorkersOwnJobs
<1>2. IInv => DispatchReady
  BY <1>1 DEF DispatchReady
<1> QED
  BY Invariance, <1>2, PTL

\* No fetch is started once a failed result is held (rssnip.go:208).
THEOREM NoFetchAfterFailure == Spec => FailFast
<1> DEFINE NoneFailed == \A i \in URLs : pending[i].err \in {"none", "pending"}
<1>1. IInv /\ [Next]_vars => [nextJob' # nextJob => NoneFailed]_vars
  <2> SUFFICES ASSUME IInv, [Next]_vars, nextJob' # nextJob PROVE NoneFailed
    OBVIOUS
  <2> USE DEF mainVars, env
  <2>1. PICK w \in Workers : Dispatch(w)
    BY DEF Next, Main, Worker, Terminated, vars, DispatchCanceled,
           AllConsumed, TakePending, Receive, ReceiveClosed, ReceiveCanceled,
           WriteItem, WriteFails, WriteCanceled, FinishFeed, CancelFetches,
           CloseJobs, AwaitWorkers, FetchReturns, AbandonResult,
           JobsExhausted, CloseResults, CallerCancels, CancelPropagates
  <2>2. ~HasPendingError
    <3>1. CASE pc = "fill"
      BY <3>1 DEF IInv, MainProgress, HasPendingError
    <3>2. CASE pc = "refill"
      BY <3>2 DEF IInv, MainProgress
    <3> QED
      BY <2>1, <3>1, <3>2 DEF Dispatch
  <2>3. \A i \in URLs : pending[i].err \in {"none", "pending", "fetch", "canceled"}
    <3>1. pending \in [URLs -> Results \cup {NoResult}]
      BY DEF IInv, TypeOK
    <3>2. \A r \in Results \cup {NoResult} : r.err \in {"none", "pending", "fetch", "canceled"}
      OBVIOUS
    <3> QED
      BY <3>1, <3>2
  <2> QED
    BY <2>2, <2>3 DEF HasPendingError
<1> QED
  BY Invariance, <1>1, PTL DEF Spec, FailFast

-----------------------------------------------------------------------------
(***************************************************************************)
(* fetchFeeds implements the sequential loop.  A step of main that takes,  *)
(* writes or leaves a feed is a step of SequentialFetch; what the workers, *)
(* the closer and the channels do is invisible in it.                      *)
(***************************************************************************)

LEMMA TakePendingRefines == ASSUME IInv, TakePending PROVE Sequential!Next
<1>1. /\ pc = "loop" /\ ret = "none" /\ next \in URLs /\ next < NumURLs
      /\ pending[next] = fetched[next] /\ fetched[next] \in Results
  BY WorkerCount DEF IInv, TypeOK, TakePending, PendingFetched, Shutdown, Leaving
<1>2. CASE pending[next].err = "none"
  <2>1. pending[next].items \in 0..MaxItems
    BY <1>1, WorkerCount
  <2>2. Sequential!Load(pending[next].items)
    BY <1>1, <1>2 DEF TakePending, env, Sequential!Load, Sequential!Running
  <2> QED
    BY <2>1, <2>2 DEF Sequential!Next
<1>3. CASE pending[next].err = "fetch"
  BY <1>1, <1>3 DEF TakePending, Return, env, Sequential!Next, Sequential!LoadFails,
     Sequential!Running
<1>4. CASE pending[next].err = "canceled"
  <2>1. ctxDone
    BY <1>1, <1>4 DEF IInv, Shutdown, Leaving
  <2> QED
    BY <1>1, <1>4, <2>1 DEF TakePending, Return, env, Sequential!Next,
       Sequential!Canceled, Sequential!Running
<1> QED
  BY <1>1, <1>2, <1>3, <1>4

LEMMA StepRefines == IInv /\ [Next]_vars => [Sequential!Next]_Sequential!vars
<1> SUFFICES ASSUME IInv, [Next]_vars PROVE [Sequential!Next]_Sequential!vars
  OBVIOUS
<1> USE DEF mainVars, env, Sequential!vars
<1>a. /\ ret = "none" <=> ~Leaving
      /\ fetchDone => ctxDone \/ Leaving
      /\ pc \in {"fill", "loop", "refill"} => item = 0 /\ size = 0
  BY DEF IInv, Shutdown, MainProgress
<1>b. pc = "consume" => next < NumURLs
  BY WorkerCount DEF IInv, MainProgress, TypeOK
<1>c. pc = "fill" => next < NumURLs
  BY WorkerCount DEF IInv, MainProgress, TypeOK
<1>d. pc = "refill" => next < NumURLs
  BY WorkerCount DEF IInv, MainProgress, TypeOK
<1>1. CASE DispatchCanceled
  BY <1>1, <1>a, <1>c, <1>d DEF DispatchCanceled, Return, Leaving, Sequential!Next,
     Sequential!Canceled, Sequential!Running
<1>2. CASE AllConsumed
  BY <1>2, <1>a DEF AllConsumed, Return, Leaving, Sequential!Next, Sequential!Finish
<1>3. CASE TakePending
  BY <1>3, TakePendingRefines
<1>4. CASE ReceiveClosed
  <2>1. fetchDone
    BY <1>4, WorkerCount DEF ReceiveClosed, IInv, Shutdown
  <2> QED
    BY <1>4, <1>a, <2>1 DEF ReceiveClosed, Waiting, Return, Leaving, Sequential!Next,
       Sequential!Canceled, Sequential!Running
<1>5. CASE ReceiveCanceled
  BY <1>5, <1>a DEF ReceiveCanceled, Waiting, Return, Leaving, Sequential!Next,
     Sequential!Canceled, Sequential!Running
<1>6. CASE WriteItem
  BY <1>6, <1>a, <1>b DEF WriteItem, Leaving, Sequential!Next,
     Sequential!WriteItem, Sequential!Running
<1>7. CASE WriteFails
  BY <1>7, <1>a, <1>b DEF WriteFails, Return, Leaving, Sequential!Next,
     Sequential!WriteFails, Sequential!Running
<1>8. CASE WriteCanceled
  BY <1>8, <1>a, <1>b DEF WriteCanceled, Return, Leaving, Sequential!Next,
     Sequential!Canceled, Sequential!Running
<1>9. CASE FinishFeed
  BY <1>9, <1>a, <1>b DEF FinishFeed, Leaving, Sequential!Next,
     Sequential!NextFeed, Sequential!Running
<1>10. CASE CallerCancels
  BY <1>10 DEF CallerCancels, Sequential!Next, Sequential!Cancel
<1>11. CASE /\ UNCHANGED <<next, size, item, out, ret, ctxDone>>
            /\ pc # "consume" /\ pc' # "consume"
  BY <1>11
<1>12. CASE UNCHANGED <<pc, next, size, item, out, ret, ctxDone>>
  BY <1>12
<1> QED
  BY <1>1, <1>2, <1>3, <1>4, <1>5, <1>6, <1>7, <1>8, <1>9, <1>10, <1>11, <1>12
  DEF Next, Main, Worker, Terminated, vars, Dispatch, Receive, Waiting,
      CancelFetches, CloseJobs, AwaitWorkers, FetchReturns, AbandonResult,
      JobsExhausted, CloseResults, CancelPropagates

\* Seen by its caller, fetchFeeds loads, writes and fails as the sequential
\* loop does (rssnip.go:198-229), for every number of feeds and workers.
THEOREM Refinement == Spec => ImplementsSequential
<1>1. Init => Sequential!Init
  BY DEF Init, Sequential!Init
<1> QED
  BY Invariance, <1>1, StepRefines, PTL DEF Spec, ImplementsSequential, Sequential!Spec

-----------------------------------------------------------------------------
(* fetchFeeds on politeTransport. *)

HIDE DEF URLs, Workers, NoJob, NoResult, Fetched, Failed, Results,
         Idle, Exited, Working, Sending, Busy

\* The transport of PacedFetch, with the theorems about it.
Paced == INSTANCE PoliteTransportProofs WITH
    Clients <- Workers, pc <- place, canceled <- fetchDone

LEMMA PacedAssumption == Paced!TransportAssumption
  BY RequestsAssumption DEF Paced!TransportAssumption

\* A request is under way only while its worker is in Fetch.
ClientInFetch == \A w \in Workers : place[w] # "idle" => worker[w].pc = "fetch"

\* fetchFeeds has waited for its workers.
AllReturned == pc = "returned" => \A w \in Workers : worker[w] = Exited

Joined == ClientInFetch /\ AllReturned
-----------------------------------------------------------------------------
(* A step of the composition is a step of fetchFeeds. *)

LEMMA StepIsFetchFeeds == [PacedNext]_pacedVars => [Next]_vars
<1> SUFFICES ASSUME PacedNext, ~UNCHANGED vars PROVE Next
  BY DEF pacedVars
<1>1. ASSUME NEW w \in Workers, WorkerStep(w) PROVE Worker(w)
  BY <1>1 DEF WorkerStep, Request, FetchEnds, Worker
<1>2. ASSUME NEW w \in Workers PROVE ~Transfer(w)
  BY DEF Transfer
<1>3. CASE Coordinate
  BY <1>3 DEF Coordinate, Next
<1> QED
  BY <1>1, <1>2, <1>3 DEF PacedNext, Time, Next

THEOREM RunsFetchFeeds == PacedSpec => Spec
<1>1. PacedInit => Init
  BY DEF PacedInit
<1> QED
  BY <1>1, StepIsFetchFeeds, PTL DEF PacedSpec, Spec
-----------------------------------------------------------------------------
(* It is a step of the transport, too. *)

LEMMA SameInit == Transport!Init => Paced!Init
  BY DEF Transport!Init, Paced!Init

LEMMA SameDo == ASSUME NEW w, NEW n, Transport!Do(w, n) PROVE Paced!Do(w, n)
  BY DEF Transport!Do, Paced!Do, Transport!Goto, Paced!Goto,
         Transport!hostVars, Paced!hostVars

LEMMA SameEnd ==
  ASSUME NEW w, NEW p, Transport!EndExchange(w, p)
  PROVE  Paced!EndExchange(w, p)
  BY DEF Transport!EndExchange, Paced!EndExchange, Transport!Goto, Paced!Goto,
         Transport!Host, Paced!Host, Transport!Key, Paced!Key

LEMMA SameTransfer ==
  ASSUME NEW w \in Workers, Transfer(w)
  PROVE  \/ Paced!AcquireToken(w)
         \/ Paced!Step(w)
         \/ Paced!GiveUp(w)
         \/ Paced!Network(w)
<1> USE DEF Transport!Goto, Paced!Goto, Transport!Host, Paced!Host, Transport!Key, Paced!Key,
            Transport!Acquired, Paced!Acquired, Transport!Refused, Paced!Refused,
            Transport!Done, Paced!Done, Transport!Expired, Paced!Expired,
            Transport!Armed, Paced!Armed, Transport!clientVars, Paced!clientVars,
            Transport!hostVars, Paced!hostVars
<1>1. CASE Transport!AcquireToken(w)
  BY <1>1 DEF Transport!AcquireToken, Paced!AcquireToken
<1>2. CASE Transport!Step(w)
  <2>1. /\ Transport!DelayElapsed(w) => Paced!DelayElapsed(w)
        /\ Transport!DoFails(w) => Paced!DoFails(w)
        /\ Transport!RoundTrip(w) => Paced!RoundTrip(w)
        /\ Transport!Stamp(w) => Paced!Stamp(w)
        /\ Transport!Unlock(w) => Paced!Unlock(w)
        /\ Transport!RedirectFails(w) => Paced!RedirectFails(w)
    BY DEF Transport!DelayElapsed, Paced!DelayElapsed, Transport!DoFails, Paced!DoFails,
           Transport!RoundTrip, Paced!RoundTrip, Transport!Stamp, Paced!Stamp,
           Transport!Unlock, Paced!Unlock, Transport!RedirectFails, Paced!RedirectFails
  <2>2. ASSUME NEW n \in Names, Transport!Redirect(w, n) PROVE Paced!Redirect(w, n)
    BY <2>2 DEF Transport!Redirect, Paced!Redirect
  <2> QED
    BY <1>2, <2>1, <2>2 DEF Transport!Step, Paced!Step
<1>3. /\ Transport!RoundTripFails(w) => Paced!RoundTripFails(w)
      /\ Transport!CloseBody(w) => Paced!CloseBody(w)
      /\ Transport!NoBody(w) => Paced!NoBody(w)
  BY SameEnd DEF Transport!RoundTripFails, Paced!RoundTripFails,
                 Transport!CloseBody, Paced!CloseBody, Transport!NoBody, Paced!NoBody
<1>4. CASE Transport!GiveUp(w)
  <2>1. /\ Transport!AcquireCanceled(w) => Paced!AcquireCanceled(w)
        /\ Transport!DelayCanceled(w) => Paced!DelayCanceled(w)
    BY DEF Transport!AcquireCanceled, Paced!AcquireCanceled,
           Transport!DelayCanceled, Paced!DelayCanceled
  <2> QED
    BY <1>3, <1>4, <2>1 DEF Transport!GiveUp, Paced!GiveUp
<1>5. CASE Transport!Network(w)
  <2>1. /\ Transport!ClientFails(w) => Paced!ClientFails(w)
        /\ Transport!Response(w) => Paced!Response(w)
    BY DEF Transport!ClientFails, Paced!ClientFails, Transport!Response, Paced!Response
  <2> QED
    BY <1>3, <1>5, <2>1 DEF Transport!Network, Paced!Network
<1> QED
  BY <1>1, <1>2, <1>4, <1>5 DEF Transfer

LEMMA SameTick == Transport!Tick => Paced!Tick
  BY DEF Transport!Tick, Paced!Tick, Transport!Less, Paced!Less,
         Transport!Armed, Paced!Armed

\* fetchFeeds touches the transport only by the context it gives it.
LEMMA CancelOrStutter ==
  ASSUME fetchDone \in BOOLEAN, UNCHANGED transportVars,
         fetchDone' = fetchDone \/ fetchDone' = TRUE
  PROVE  Paced!Cancel \/ UNCHANGED Paced!vars
  BY DEF transportVars, Paced!Cancel, Paced!vars, Paced!clientVars, Paced!hostVars

LEMMA StepIsTransport ==
  fetchDone \in BOOLEAN /\ [PacedNext]_pacedVars => [Paced!Next]_Paced!vars
<1> SUFFICES ASSUME fetchDone \in BOOLEAN, [PacedNext]_pacedVars
             PROVE  Paced!Next \/ UNCHANGED Paced!vars
  OBVIOUS
<1>1. ASSUME NEW w \in Workers, Request(w) PROVE Paced!Next
  BY <1>1, SameDo DEF Request, Paced!Next
<1>2. ASSUME NEW w \in Workers, Transfer(w) PROVE Paced!Next
  BY <1>2, SameTransfer DEF Paced!Next
<1>3. ASSUME NEW w \in Workers,
             FetchEnds(w) \/ AbandonResult(w) \/ JobsExhausted(w), UNCHANGED transportVars
      PROVE  Paced!Cancel \/ UNCHANGED Paced!vars
  <2>1. fetchDone' = fetchDone
    BY <1>3 DEF FetchEnds, FetchReturns, AbandonResult, JobsExhausted
  <2> QED
    BY <1>3, <2>1, CancelOrStutter
<1>4. CASE Coordinate
  <2>1. fetchDone' = fetchDone \/ fetchDone' = TRUE
    BY <1>4
    DEF Coordinate, Main, Dispatch, Receive, DispatchCanceled, AllConsumed, TakePending,
        ReceiveClosed, ReceiveCanceled, WriteItem, WriteFails, WriteCanceled, FinishFeed,
        CancelFetches, CloseJobs, AwaitWorkers, CloseResults, CallerCancels,
        CancelPropagates, Terminated, vars, env
  <2> QED
    BY <1>4, <2>1, CancelOrStutter DEF Coordinate, Paced!Next
<1>5. CASE Time
  BY <1>5, SameTick DEF Time, Paced!Next
<1>6. CASE UNCHANGED pacedVars
  BY <1>6, CancelOrStutter DEF pacedVars, vars, env, Paced!Next
<1> QED
  BY <1>1, <1>2, <1>3, <1>4, <1>5, <1>6
  DEF PacedNext, WorkerStep, FetchEnds, Paced!Next

\* The transport sees of fetchFeeds what PoliteTransport allows its clients.
THEOREM RunsTransport == PacedSpec => Paced!Spec
<1>1. PacedInit => Paced!Init
  BY SameInit DEF PacedInit
<1>2. Spec => [](fetchDone \in BOOLEAN)
  <2>1. TypeOK => fetchDone \in BOOLEAN
    BY DEF TypeOK
  <2> QED
    BY <2>1, TypeCorrect, PTL
<1> QED
  BY <1>1, <1>2, RunsFetchFeeds, StepIsTransport, PTL DEF PacedSpec, Paced!Spec
-----------------------------------------------------------------------------
(* What joins the two. *)

\* Only a request that is under way moves the place of a client, and no other.
LEMMA TransferMoves ==
  ASSUME Paced!TypeOK, NEW w \in Workers, Transfer(w)
  PROVE  /\ place[w] # "idle"
         /\ \A v \in Workers : v # w => place'[v] = place[v]
  BY DEF Paced!TypeOK, Transfer, Transport!AcquireToken, Transport!Step, Transport!GiveUp,
         Transport!Network, Transport!DelayElapsed, Transport!DoFails,
         Transport!RoundTrip, Transport!Stamp, Transport!Unlock, Transport!Redirect,
         Transport!RedirectFails, Transport!AcquireCanceled, Transport!DelayCanceled,
         Transport!RoundTripFails, Transport!CloseBody, Transport!NoBody,
         Transport!ClientFails, Transport!Response, Transport!EndExchange, Transport!Goto

LEMMA ClientInFetchStep ==
  TypeOK /\ Paced!TypeOK /\ ClientInFetch /\ [PacedNext]_pacedVars => ClientInFetch'
<1> SUFFICES ASSUME TypeOK, Paced!TypeOK, ClientInFetch, [PacedNext]_pacedVars
             PROVE  ClientInFetch'
  OBVIOUS
<1> USE DEF ClientInFetch, TypeOK
<1>1. ASSUME NEW w \in Workers, Request(w) PROVE ClientInFetch'
  <2>1. worker[w].pc = "fetch" /\ worker' = worker
    BY <1>1 DEF Request, vars
  <2>2. \A v \in Workers : v # w => place'[v] = place[v]
    BY <1>1 DEF Request, Transport!Do, Transport!Goto, Paced!TypeOK
  <2> QED
    BY <2>1, <2>2
<1>2. ASSUME NEW w \in Workers, FetchEnds(w) PROVE ClientInFetch'
  BY <1>2 DEF FetchEnds, RequestOver, FetchReturns, transportVars
<1>3. ASSUME NEW w \in Workers, AbandonResult(w) \/ JobsExhausted(w), UNCHANGED transportVars
      PROVE  ClientInFetch'
  <2>1. worker[w].pc # "fetch" /\ place' = place
    BY <1>3 DEF AbandonResult, JobsExhausted, Idle, transportVars
  <2>2. \A v \in Workers : v # w => worker'[v] = worker[v]
    BY <1>3 DEF AbandonResult, JobsExhausted
  <2> QED
    BY <2>1, <2>2
<1>4. ASSUME NEW w \in Workers, Transfer(w) PROVE ClientInFetch'
  <2>1. worker' = worker
    BY <1>4 DEF Transfer, vars
  <2> QED
    BY <1>4, <2>1, TransferMoves
<1>5. CASE Coordinate
  <2>1. place' = place
    BY <1>5 DEF Coordinate, transportVars
  <2>2. ASSUME NEW w \in Workers, Dispatch(w) \/ Receive(w) PROVE ClientInFetch'
    <3>1. worker[w].pc # "fetch" /\ \A v \in Workers : v # w => worker'[v] = worker[v]
      BY <2>2 DEF Dispatch, Receive, Idle
    <3> QED
      BY <2>1, <3>1
  <2>3. ASSUME worker' = worker PROVE ClientInFetch'
    BY <2>1, <2>3
  <2> QED
    BY <1>5, <2>2, <2>3
    DEF Coordinate, Main, DispatchCanceled, AllConsumed, TakePending,
        ReceiveClosed, ReceiveCanceled, WriteItem, WriteFails, WriteCanceled, FinishFeed,
        CancelFetches, CloseJobs, AwaitWorkers, CloseResults, CallerCancels,
        CancelPropagates, Terminated, vars
<1>6. CASE Time \/ UNCHANGED pacedVars
  BY <1>6 DEF Time, Transport!Tick, pacedVars, transportVars, vars
<1> QED
  BY <1>1, <1>2, <1>3, <1>4, <1>5, <1>6 DEF PacedNext, WorkerStep

\* A worker that has returned does nothing more, and main waits for all.
LEMMA AllReturnedStep == AllReturned /\ [Next]_vars => AllReturned'
<1> SUFFICES ASSUME AllReturned, [Next]_vars PROVE AllReturned'
  OBVIOUS
<1> USE DEF AllReturned
<1>1. ASSUME NEW w \in Workers, Worker(w) PROVE AllReturned'
  <2>1. worker[w] # Exited /\ pc' = pc
    BY <1>1 DEF Worker, FetchReturns, AbandonResult, JobsExhausted, Idle, Exited, mainVars
  <2> QED
    BY <2>1
<1>2. CASE Main
  BY <1>2 DEF Main, Dispatch, Receive, DispatchCanceled, AllConsumed, TakePending,
        ReceiveClosed, ReceiveCanceled, WriteItem, WriteFails, WriteCanceled, FinishFeed,
        CancelFetches, CloseJobs, AwaitWorkers, Waiting, Return
<1>3. ASSUME UNCHANGED <<pc, worker>> PROVE AllReturned'
  BY <1>3
<1> QED
  BY <1>1, <1>2, <1>3
  DEF Next, CloseResults, CallerCancels, CancelPropagates, Terminated, vars, mainVars

\* Where its requests are, where the workers are and where main is agree.
THEOREM JoinedInvariance == PacedSpec => [](IInv /\ Paced!IInv /\ Joined)
<1>1. PacedSpec => []IInv
  BY RunsFetchFeeds, Invariance, PTL
<1>2. PacedSpec => []Paced!IInv
  <2>1. Paced!Spec => []Paced!IInv
    BY Paced!Invariance, PacedAssumption DEF Paced!Invariance
  <2> QED
    BY <2>1, RunsTransport, PTL
<1>3. PacedInit => Joined
  BY DEF PacedInit, Init, Transport!Init, Joined, ClientInFetch, AllReturned
<1>4. IInv /\ Paced!IInv /\ Joined /\ [PacedNext]_pacedVars => Joined'
  BY ClientInFetchStep, AllReturnedStep, StepIsFetchFeeds DEF Joined, IInv, Paced!IInv
<1> QED
  BY <1>1, <1>2, <1>3, <1>4, PTL DEF PacedSpec
-----------------------------------------------------------------------------
(* The theorems. *)

\* When fetchFeeds has returned no exchange is under way and no host is held
\* (rssnip.go:153-157): the workers have exited, so their clients are idle, and
\* a token is out only while a client is to release it.
THEOREM NothingLeftRunning == PacedSpec => []QuietOnReturn
<1>1. ASSUME IInv, Paced!IInv, Joined, pc = "returned"
      PROVE  \A w \in Workers : place[w] = "idle"
  BY <1>1 DEF Joined, ClientInFetch, AllReturned, Exited
<1>2. ASSUME Paced!IInv, \A w \in Workers : place[w] = "idle"
      PROVE  /\ \A w \in Workers : ~Transport!OnWire(w)
             /\ \A n \in Names : ~token[n]
  <2>1. \A w \in Workers : ~Transport!OnWire(w)
    BY <1>2 DEF Transport!OnWire
  <2>2. \A w \in Workers : ~Paced!Holds(w)
    BY <1>2 DEF Paced!Holds
  <2> QED
    BY <1>2, <2>1, <2>2 DEF Paced!IInv, Paced!TokenOwned
<1>3. IInv /\ Paced!IInv /\ Joined => QuietOnReturn
  BY <1>1, <1>2 DEF QuietOnReturn
<1> QED
  BY JoinedInvariance, <1>3, PTL

\* With the transport under its workers, fetchFeeds is to its caller still the
\* loop that fetches one feed after the other (rssnip.go:140-230).
THEOREM PacedFetchIsSequential == PacedSpec => ImplementsSequential
  BY RunsFetchFeeds, Refinement, PTL

\* All the workers of a run together leave each host its pause: their client,
\* and with it the state of the hosts, is one (rssnip.go:83-118).
THEOREM WorkersPaceHosts == PacedSpec => Paced!PacesHosts
<1>1. Paced!Spec => Paced!PacesHosts
  BY Paced!Pacing, PacedAssumption DEF Paced!Pacing
<1> QED
  BY <1>1, RunsTransport, PTL
=============================================================================
