----------------------------- MODULE PacedFetch -----------------------------
(***************************************************************************)
(* The workers of fetchFeeds on one politeTransport, as run joins them     *)
(* (src/rssnip.go): while a worker is in Fetch it is a client of the       *)
(* transport, page after page, and the fetch context is the context of its *)
(* requests.  Fetch itself is reduced to the requests it makes; what it    *)
(* does between two of them is in Pagination.                              *)
(***************************************************************************)
EXTENDS FetchFeeds

CONSTANTS Names, Canonical, Interval, Timeout, MaxRedirects,  \* see PoliteTransport
          MaxRequests    \* one per page and one for a discovered feed

ASSUME RequestsAssumption ==
    /\ MaxRequests \in Nat \ {0}
    /\ Names # {}
    /\ Canonical \in [Names -> Names]
    /\ {Interval, Timeout, MaxRedirects} \subseteq Nat

VARIABLES
    place, name, taken, wait, left, hops, then,  \* the workers as clients
    token, cooldown, pause,                      \* the hosts
    requests    \* how many requests the current Fetch of a worker has made

Transport == INSTANCE PoliteTransport WITH
    Clients <- Workers, pc <- place, canceled <- fetchDone

transportVars == <<place, name, taken, wait, left, hops, then, token, cooldown, pause>>
pacedVars == <<vars, transportVars, requests>>

PacedInit ==
    /\ Init
    /\ Transport!Init
    /\ requests = [w \in Workers |-> 0]

MorePages(w) == requests[w] < MaxRequests

\* fetchFeedDocument calls doRequest.
Request(w) ==
    /\ worker[w].pc = "fetch"
    /\ MorePages(w)
    /\ \E n \in Names : Transport!Do(w, n)
    /\ requests' = [requests EXCEPT ![w] = @ + 1]
    /\ UNCHANGED vars

\* Fault: Fetch returns while the body of a response is open.
BodyClosedOrNot(w) == place[w] \in {"idle", "body"}

\* Do has failed, or the deferred resp.Body.Close() has run.
RequestOver(w) == place[w] = "idle"

\* Without a request, Fetch has refused the URL.
FetchEnds(w) ==
    /\ RequestOver(w)
    /\ FetchReturns(w)
    /\ requests[w] = 0 => worker'[w].res = Failed("fetch")
    /\ requests' = [requests EXCEPT ![w] = 0]
    /\ UNCHANGED transportVars

Transfer(w) ==
    /\ \/ Transport!AcquireToken(w)
       \/ Transport!Step(w)
       \/ Transport!GiveUp(w)
       \/ Transport!Network(w)
    /\ UNCHANGED <<vars, requests>>

WorkerStep(w) ==
    \/ Request(w)
    \/ FetchEnds(w)
    \/ /\ AbandonResult(w) \/ JobsExhausted(w)
       /\ UNCHANGED <<transportVars, requests>>

Coordinate ==
    /\ Main \/ CloseResults \/ CallerCancels \/ CancelPropagates \/ Terminated
    /\ UNCHANGED <<transportVars, requests>>

Time == Transport!Tick /\ UNCHANGED <<vars, requests>>

PacedNext ==
    \/ \E w \in Workers : WorkerStep(w) \/ Transfer(w)
    \/ Coordinate
    \/ Time

PacedSpec == PacedInit /\ [][PacedNext]_pacedVars

\* As in FetchFeeds and PoliteTransport, but nothing is assumed of Fetch: a
\* worker goes on only from one request to the next.
PacedFairness ==
    /\ WF_pacedVars(Main /\ UNCHANGED <<transportVars, requests>>)
    /\ WF_pacedVars(CloseResults /\ UNCHANGED <<transportVars, requests>>)
    /\ WF_pacedVars(CancelPropagates /\ UNCHANGED <<transportVars, requests>>)
    /\ \A w \in Workers :
          /\ WF_pacedVars(WorkerStep(w))
          /\ WF_pacedVars(Transport!Step(w) /\ UNCHANGED <<vars, requests>>)
          /\ WF_pacedVars(Transport!GiveUp(w) /\ UNCHANGED <<vars, requests>>)
          /\ SF_pacedVars(Transport!AcquireToken(w) /\ UNCHANGED <<vars, requests>>)
    /\ WF_pacedVars(Time)

PacedFairSpec == PacedSpec /\ PacedFairness
-----------------------------------------------------------------------------
(* properties *)

\* When fetchFeeds has returned, by any way out, no exchange is under way and
\* no host is held: the defer of fetchFeeds waits for the workers, and they
\* return only when their bodies are closed (rssnip.go:153-157).
QuietOnReturn ==
    pc = "returned" => /\ \A w \in Workers : ~Transport!OnWire(w)
                       /\ \A n \in Names : ~token[n]

\* The fairness that FetchFeeds assumes of Fetch is what its requests have:
\* they are bounded, each ends, and no feed waits for ever for a host.
ImplementsFetchFeeds == FairSpec
=============================================================================
