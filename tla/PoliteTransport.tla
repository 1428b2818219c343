--------------------------- MODULE PoliteTransport ---------------------------
(***************************************************************************)
(* politeTransport (src/feed_transport.go): the transport that lets one    *)
(* request at a time through to a host, waits hostFetchInterval after each *)
(* and gives each call of Do a timeout.                                    *)
(*                                                                         *)
(* A client is a goroutine in fetchFeedDocument, the caller of Do.         *)
(* http.Client, which Do calls and which calls RoundTrip for the first     *)
(* request and for every redirect, is external: it closes the body of a    *)
(* redirect response before it follows it, and it may fail before it calls *)
(* RoundTrip.  Time is counted in ticks; instead of the points in time of  *)
(* the code the model keeps what is left until them.                       *)
(***************************************************************************)
EXTENDS Integers

CONSTANTS Clients,       \* the goroutines that fetch
          Names,         \* host names as they occur in URLs
          Canonical,     \* canonicalHost, as a function on Names
          Interval,      \* hostFetchInterval
          Timeout,       \* feedRequestTimeout
          MaxRedirects   \* what http.Client follows

ASSUME TransportAssumption ==
    /\ Names # {}
    /\ Canonical \in [Names -> Names]
    /\ Interval \in Nat
    /\ Timeout \in Nat
    /\ MaxRedirects \in Nat

VARIABLES
    pc,        \* where a client is
    name,      \* the host of its current request
    taken,     \* scheduledHostFetch.taken of its current Do
    wait,      \* what is left of the timer of acquireHostFetch
    left,      \* what is left until the deadline of requestContext
    hops,      \* redirects followed by its current Do
    then,      \* what follows the release of the host
    token,     \* hostFetchState.token: TRUE when the channel is full
    cooldown,  \* what is left until lastFinished + hostFetchInterval
    canceled,  \* the context of the callers of Do is done
    pause      \* history: what is left until Interval after the last exchange

clientVars == <<name, taken, wait, left, hops, then>>
hostVars == <<token, cooldown, pause>>
vars == <<pc, clientVars, hostVars, canceled>>

Init ==
    /\ pc = [c \in Clients |-> "idle"]
    /\ name = [c \in Clients |-> CHOOSE n \in Names : TRUE]
    /\ taken = [c \in Clients |-> FALSE]
    /\ wait = [c \in Clients |-> 0]
    /\ left = [c \in Clients |-> Timeout]
    /\ hops = [c \in Clients |-> 0]
    /\ then = [c \in Clients |-> "idle"]
    /\ token = [n \in Names |-> FALSE]
    /\ cooldown = [n \in Names |-> 0]
    /\ canceled = FALSE
    /\ pause = [n \in Names |-> 0]

\* hostState: one state per canonical name, made by the first LoadOrStore.
\* Fault: the name is used as it is.
RawKey(n) == n
Key(n) == Canonical[n]
Host(c) == Key(name[c])

\* The first request of a Do has its turn before requestContext is made and
\* before http.Client takes it on; a redirect is already under that context.
Armed(c) == hops[c] > 0 \/ pc[c] \notin {"idle", "acquire", "delay"}
Expired(c) == Armed(c) /\ left[c] = 0
Done(c) == canceled \/ Expired(c)

OnWire(c) == pc[c] \in {"wire", "body"}

Goto(c, p) == pc' = [pc EXCEPT ![c] = p]
-----------------------------------------------------------------------------
(* Do *)

Do(c, n) ==
    /\ pc[c] = "idle"
    /\ Goto(c, "acquire")
    /\ name' = [name EXCEPT ![c] = n]
    /\ taken' = [taken EXCEPT ![c] = FALSE]
    /\ left' = [left EXCEPT ![c] = Timeout]
    /\ hops' = [hops EXCEPT ![c] = 0]
    /\ UNCHANGED <<wait, then, hostVars, canceled>>

\* Where acquireHostFetch returns to: Do, which calls http.Client, or
\* RoundTrip, which calls the base transport.
Acquired(c) == IF taken[c] THEN "wire" ELSE "client"

\* acquireHostFetch gets the token and computes the delay.
AcquireToken(c) ==
    /\ pc[c] = "acquire" /\ ~token[Host(c)]
    /\ token' = [token EXCEPT ![Host(c)] = TRUE]
    /\ wait' = [wait EXCEPT ![c] = cooldown[Host(c)]]
    /\ Goto(c, IF cooldown[Host(c)] > 0 THEN "delay" ELSE Acquired(c))
    /\ UNCHANGED <<name, taken, left, hops, then, cooldown, pause, canceled>>

\* An error of acquireHostFetch goes to the caller of Do, from RoundTrip by
\* way of http.Client.
Refused(c) == IF taken[c] THEN "failed" ELSE "idle"

AcquireCanceled(c) ==
    /\ pc[c] = "acquire" /\ Done(c)
    /\ Goto(c, Refused(c))
    /\ UNCHANGED <<clientVars, hostVars, canceled>>

DelayElapsed(c) ==
    /\ pc[c] = "delay" /\ wait[c] = 0
    /\ Goto(c, Acquired(c))
    /\ UNCHANGED <<clientVars, hostVars, canceled>>

\* Fault: the token is kept.
DelayCanceledKeepsToken(c) ==
    /\ pc[c] = "delay" /\ Done(c)
    /\ Goto(c, Refused(c))
    /\ UNCHANGED <<clientVars, hostVars, canceled>>

\* The token is given back and lastFinished is left alone.
DelayCanceled(c) ==
    /\ pc[c] = "delay" /\ Done(c) /\ token[Host(c)]
    /\ token' = [token EXCEPT ![Host(c)] = FALSE]
    /\ Goto(c, Refused(c))
    /\ UNCHANGED <<clientVars, cooldown, pause, canceled>>

\* http.Client fails before it calls RoundTrip.
ClientFails(c) ==
    /\ pc[c] = "client"
    /\ Goto(c, "failed")
    /\ UNCHANGED <<clientVars, hostVars, canceled>>

\* Fault: the host is released whoever has taken the scheduled fetch.
AlwaysRelease(c) ==
    /\ pc[c] = "failed"
    /\ taken' = [taken EXCEPT ![c] = TRUE]
    /\ then' = [then EXCEPT ![c] = "idle"]
    /\ Goto(c, "stamp")
    /\ UNCHANGED <<name, wait, left, hops, hostVars, canceled>>

\* The error path of Do: the host is released here unless RoundTrip has taken
\* the scheduled fetch and with it the duty to release.
DoFails(c) ==
    /\ pc[c] = "failed"
    /\ taken' = [taken EXCEPT ![c] = TRUE]
    /\ then' = [then EXCEPT ![c] = "idle"]
    /\ Goto(c, IF taken[c] THEN "idle" ELSE "stamp")
    /\ UNCHANGED <<name, wait, left, hops, hostVars, canceled>>
-----------------------------------------------------------------------------
(* RoundTrip *)

\* The first RoundTrip of a Do takes the scheduled fetch, a later one acquires
\* the host itself.
RoundTrip(c) ==
    /\ pc[c] = "client"
    /\ taken' = [taken EXCEPT ![c] = TRUE]
    /\ Goto(c, IF taken[c] THEN "acquire" ELSE "wire")
    /\ UNCHANGED <<name, wait, left, hops, then, hostVars, canceled>>

\* The exchange is over: the base transport has failed, has returned no body,
\* or the body has been closed.  p follows the release of the host.
EndExchange(c, p) ==
    /\ Goto(c, "stamp")
    /\ then' = [then EXCEPT ![c] = p]
    /\ pause' = [pause EXCEPT ![Host(c)] = Interval]
    /\ UNCHANGED <<name, taken, wait, left, hops, token, cooldown, canceled>>

RoundTripFails(c) == pc[c] = "wire" /\ EndExchange(c, "failed")

NoBody(c) ==
    /\ pc[c] = "wire"
    /\ \E p \in {"idle", "redirect"} : EndExchange(c, p)

Response(c) ==
    /\ pc[c] = "wire"
    /\ Goto(c, "body")
    /\ UNCHANGED <<clientVars, hostVars, canceled>>

\* hostFetchBody.Close, called by fetchFeedDocument when it has read the body
\* or failed to, and by http.Client before it follows a redirect.
CloseBody(c) ==
    /\ pc[c] = "body"
    /\ \E p \in {"idle", "redirect"} : EndExchange(c, p)

\* releaseHostFetch: lastFinished is set, then the token is received.
Stamp(c) ==
    /\ pc[c] = "stamp"
    /\ cooldown' = [cooldown EXCEPT ![Host(c)] = Interval]
    /\ Goto(c, "unlock")
    /\ UNCHANGED <<clientVars, token, pause, canceled>>

Unlock(c) ==
    /\ pc[c] = "unlock" /\ token[Host(c)]
    /\ token' = [token EXCEPT ![Host(c)] = FALSE]
    /\ Goto(c, then[c])
    /\ UNCHANGED <<clientVars, cooldown, pause, canceled>>

\* http.Client follows a redirect to n under the context of the first request.
Redirect(c, n) ==
    /\ pc[c] = "redirect" /\ hops[c] < MaxRedirects
    /\ hops' = [hops EXCEPT ![c] = @ + 1]
    /\ name' = [name EXCEPT ![c] = n]
    /\ Goto(c, "client")
    /\ UNCHANGED <<taken, wait, left, then, hostVars, canceled>>

\* Too many redirects, or a Location that cannot be followed.
RedirectFails(c) ==
    /\ pc[c] = "redirect"
    /\ Goto(c, "failed")
    /\ UNCHANGED <<clientVars, hostVars, canceled>>
-----------------------------------------------------------------------------
(* time and cancellation *)

Less(n) == IF n > 0 THEN n - 1 ELSE 0

Tick ==
    /\ cooldown' = [n \in Names |-> Less(cooldown[n])]
    /\ pause' = [n \in Names |-> Less(pause[n])]
    /\ wait' = [c \in Clients |-> IF pc[c] = "delay" THEN Less(wait[c]) ELSE wait[c]]
    /\ left' = [c \in Clients |-> IF Armed(c) THEN Less(left[c]) ELSE left[c]]
    /\ UNCHANGED <<pc, name, taken, hops, then, token, canceled>>

Cancel ==
    /\ ~canceled
    /\ canceled' = TRUE
    /\ UNCHANGED <<pc, clientVars, hostVars>>

\* What a client does by itself, what it does once its context is done, and
\* what the network decides.
Step(c) ==
    \/ DelayElapsed(c) \/ DoFails(c) \/ RoundTrip(c) \/ Stamp(c) \/ Unlock(c)
    \/ RedirectFails(c) \/ \E n \in Names : Redirect(c, n)
GiveUp(c) ==
    /\ Done(c)
    /\ AcquireCanceled(c) \/ DelayCanceled(c) \/ RoundTripFails(c) \/ CloseBody(c)
Network(c) == ClientFails(c) \/ RoundTripFails(c) \/ NoBody(c) \/ Response(c) \/ CloseBody(c)

Next ==
    \/ \E c \in Clients :
          \/ \E n \in Names : Do(c, n)
          \/ AcquireToken(c)
          \/ Step(c)
          \/ GiveUp(c)
          \/ Network(c)
    \/ Tick
    \/ Cancel

Spec == Init /\ [][Next]_vars

\* Go hands a channel to its senders in the order they came, hence strong
\* fairness for the token.  A server may never answer: what is fair is that
\* the base transport and the reader of the body return when the context of
\* the request is done.
Fairness ==
    /\ \A c \in Clients : /\ WF_vars(Step(c))
                          /\ WF_vars(GiveUp(c))
                          /\ SF_vars(AcquireToken(c))
    /\ WF_vars(Tick)

FairSpec == Spec /\ Fairness
-----------------------------------------------------------------------------
(* properties *)

Places == {"idle", "acquire", "delay", "client", "wire", "body",
           "stamp", "unlock", "redirect", "failed"}

TypeOK ==
    /\ pc \in [Clients -> Places]
    /\ name \in [Clients -> Names]
    /\ taken \in [Clients -> BOOLEAN]
    /\ wait \in [Clients -> 0..Interval]
    /\ left \in [Clients -> 0..Timeout]
    /\ hops \in [Clients -> 0..MaxRedirects]
    /\ then \in [Clients -> {"idle", "redirect", "failed"}]
    /\ token \in [Names -> BOOLEAN]
    /\ cooldown \in [Names -> 0..Interval]
    /\ canceled \in BOOLEAN
    /\ pause \in [Names -> 0..Interval]

\* c has to release the token of its host.
Holds(c) ==
    \/ pc[c] \in {"delay", "wire", "body", "stamp", "unlock"}
    \/ pc[c] \in {"client", "failed"} /\ ~taken[c]

\* The token of a host is out exactly while one client is to release it: no
\* path through Do, RoundTrip, redirects and their errors forgets it or
\* releases it twice.
TokenOwned ==
    /\ \A h \in Names : token[h] <=> \E c \in Clients : Holds(c) /\ Host(c) = h
    /\ \A b, c \in Clients : Holds(b) /\ Holds(c) /\ Host(b) = Host(c) => b = c

\* Whoever spells its name, a host sees one exchange at a time, from request
\* to closed body, and a pause between two: the promise of doc.go:24-26.
Exchange == INSTANCE PacedHosts WITH
    Hosts <- Names,
    busy <- [h \in Names |-> \E c \in Clients : OnWire(c) /\ Canonical[name[c]] = h]

PacesHosts == Exchange!Spec

\* Every call of Do ends, and so does its use of the host, even when servers
\* never answer and redirects lead from host to host.
RequestsEnd == \A c \in Clients : pc[c] # "idle" ~> pc[c] = "idle"
=============================================================================
