------------------------ MODULE PoliteTransportProofs ------------------------
(***************************************************************************)
(* The safety properties of PoliteTransport, proved for any number of      *)
(* clients, host names and redirects and any interval and timeout.         *)
(***************************************************************************)
EXTENDS PoliteTransport, TLAPS

\* Once http.Client has been through RoundTrip, the scheduled fetch is taken.
TakenOnce ==
    \A c \in Clients :
        pc[c] \in {"wire", "body", "stamp", "unlock", "redirect"} => taken[c]

\* What is left of the pause after the last exchange with a host is covered by
\* lastFinished, or by the delay of the client that has the token; it is over
\* once that client is past its delay.
PauseCovered ==
    /\ \A h \in Names :
          (\A c \in Clients : Holds(c) => Host(c) # h) => pause[h] <= cooldown[h]
    /\ \A c \in Clients :
          /\ pc[c] = "delay" => /\ pause[Host(c)] <= wait[c]
                               /\ wait[c] <= cooldown[Host(c)]
          /\ pc[c] \in {"client", "failed"} /\ ~taken[c] => pause[Host(c)] = 0
          /\ pc[c] \in {"wire", "body"} => pause[Host(c)] = 0
          /\ pc[c] = "unlock" => pause[Host(c)] <= cooldown[Host(c)]

IInv == TypeOK /\ TokenOwned /\ TakenOnce /\ PauseCovered
-----------------------------------------------------------------------------
USE TransportAssumption DEF Key, Goto

LEMMA HostType == ASSUME TypeOK, NEW c \in Clients PROVE Host(c) \in Names
  BY DEF TypeOK, Host

LEMMA Bounds ==
    /\ 0 \in 0..Interval /\ Interval \in 0..Interval
    /\ 0 \in 0..Timeout /\ Timeout \in 0..Timeout
    /\ 0 \in 0..MaxRedirects
  OBVIOUS

LEMMA InitInvariant == Init => IInv
<1> SUFFICES ASSUME Init PROVE IInv
  OBVIOUS
<1>1. name \in [Clients -> Names]
  BY DEF Init
<1>2. TypeOK
  BY <1>1, Bounds, Zenon DEF Init, TypeOK, Places
<1>3. TokenOwned /\ TakenOnce /\ PauseCovered
  BY DEF Init, TokenOwned, TakenOnce, PauseCovered, Holds
<1> QED
  BY <1>2, <1>3 DEF IInv

LEMMA TypeStep == TypeOK /\ [Next]_vars => TypeOK'
<1> SUFFICES ASSUME TypeOK, [Next]_vars PROVE TypeOK'
  OBVIOUS
<1> USE DEF TypeOK, Places, clientVars, hostVars
<1>1. ASSUME NEW c \in Clients, NEW n \in Names, Do(c, n) \/ Redirect(c, n) PROVE TypeOK'
  <2>1. CASE Do(c, n)
    BY <2>1, Bounds DEF Do
  <2>2. CASE Redirect(c, n)
    <3>1. hops[c] + 1 \in 0..MaxRedirects
      BY <2>2 DEF Redirect
    <3> QED
      BY <2>2, <3>1 DEF Redirect
  <2> QED
    BY <1>1, <2>1, <2>2
<1>2. ASSUME NEW c \in Clients, AcquireToken(c) PROVE TypeOK'
  <2>1. token' \in [Names -> BOOLEAN]
    BY <1>2 DEF AcquireToken
  <2>2. wait' \in [Clients -> 0..Interval]
    BY <1>2, HostType DEF AcquireToken
  <2>3. pc' \in [Clients -> Places]
    BY <1>2 DEF AcquireToken, Acquired
  <2> QED
    BY <1>2, <2>1, <2>2, <2>3 DEF AcquireToken
<1>3. ASSUME NEW c \in Clients,
             \/ AcquireCanceled(c) \/ DelayElapsed(c) \/ ClientFails(c) \/ DoFails(c)
             \/ RoundTrip(c) \/ Response(c) \/ RedirectFails(c)
      PROVE  TypeOK'
  <2>1. UNCHANGED <<name, wait, left, hops, hostVars, canceled>>
    BY <1>3 DEF AcquireCanceled, DelayElapsed, ClientFails, DoFails, RoundTrip,
                Response, RedirectFails
  <2>2. /\ pc' \in [Clients -> Places]
        /\ taken' \in [Clients -> BOOLEAN]
        /\ then' \in [Clients -> {"idle", "redirect", "failed"}]
    BY <1>3 DEF AcquireCanceled, DelayElapsed, ClientFails, DoFails, RoundTrip,
                Response, RedirectFails, Acquired, Refused
  <2> QED
    BY <2>1, <2>2
<1>4. ASSUME NEW c \in Clients, DelayCanceled(c) \/ Stamp(c) \/ Unlock(c) PROVE TypeOK'
  <2>1. pc' \in [Clients -> Places]
    BY <1>4 DEF DelayCanceled, Stamp, Unlock, Refused
  <2>2. CASE DelayCanceled(c) \/ Unlock(c)
    <3>1. token' \in [Names -> BOOLEAN] /\ cooldown' = cooldown
      BY <2>2 DEF DelayCanceled, Unlock
    <3> QED
      BY <2>1, <2>2, <3>1 DEF DelayCanceled, Unlock
  <2>3. CASE Stamp(c)
    <3>1. cooldown' \in [Names -> 0..Interval]
      BY <2>3, Bounds DEF Stamp
    <3> QED
      BY <2>1, <2>3, <3>1 DEF Stamp
  <2> QED
    BY <1>4, <2>2, <2>3
<1>5. ASSUME NEW c \in Clients, NEW p \in {"idle", "redirect", "failed"}, EndExchange(c, p)
      PROVE  TypeOK'
  <2>1. pause' \in [Names -> 0..Interval]
    BY <1>5, Bounds DEF EndExchange
  <2> QED
    BY <1>5, <2>1 DEF EndExchange
<1>6. CASE Tick
  <2>1. /\ \A i \in 0..Interval : Less(i) \in 0..Interval
        /\ \A i \in 0..Timeout : Less(i) \in 0..Timeout
    BY DEF Less
  <2>2. /\ cooldown' \in [Names -> 0..Interval] /\ pause' \in [Names -> 0..Interval]
        /\ wait' \in [Clients -> 0..Interval] /\ left' \in [Clients -> 0..Timeout]
    BY <1>6, <2>1 DEF Tick
  <2> QED
    BY <1>6, <2>2 DEF Tick
<1>7. CASE Cancel
  BY <1>7 DEF Cancel
<1>8. CASE UNCHANGED vars
  BY <1>8 DEF vars
<1> QED
  BY <1>1, <1>2, <1>3, <1>4, <1>5, <1>6, <1>7, <1>8
  DEF Next, Step, GiveUp, Network, RoundTripFails, NoBody, CloseBody

LEMMA TakenOnceStep == IInv /\ [Next]_vars => TakenOnce'
<1> SUFFICES ASSUME IInv, [Next]_vars PROVE TakenOnce'
  OBVIOUS
<1> USE DEF IInv, TypeOK, TakenOnce, clientVars, hostVars
<1>1. ASSUME NEW c \in Clients, NEW n \in Names, Do(c, n) \/ Redirect(c, n) PROVE TakenOnce'
  BY <1>1 DEF Do, Redirect
<1>2. ASSUME NEW c \in Clients,
             \/ AcquireToken(c) \/ AcquireCanceled(c) \/ DelayElapsed(c)
             \/ DelayCanceled(c) \/ ClientFails(c) \/ RedirectFails(c)
      PROVE  TakenOnce'
  BY <1>2 DEF AcquireToken, AcquireCanceled, DelayElapsed, DelayCanceled,
              ClientFails, RedirectFails, Acquired, Refused
<1>3. ASSUME NEW c \in Clients, DoFails(c) \/ RoundTrip(c) PROVE TakenOnce'
  BY <1>3 DEF DoFails, RoundTrip
<1>4. ASSUME NEW c \in Clients, Response(c) \/ Stamp(c) \/ Unlock(c) PROVE TakenOnce'
  BY <1>4 DEF Response, Stamp, Unlock
<1>5. ASSUME NEW c \in Clients, NEW p, OnWire(c), EndExchange(c, p) PROVE TakenOnce'
  BY <1>5 DEF EndExchange, OnWire
<1>6. CASE Tick \/ Cancel
  BY <1>6 DEF Tick, Cancel
<1>7. CASE UNCHANGED vars
  BY <1>7 DEF vars
<1> QED
  BY <1>1, <1>2, <1>3, <1>4, <1>5, <1>6, <1>7
  DEF Next, Step, GiveUp, Network, RoundTripFails, NoBody, CloseBody, OnWire

(***************************************************************************)
(* The token.  A step of client c that neither takes nor gives back the    *)
(* token leaves its host and its duty to release it as they are.           *)
(***************************************************************************)

\* c alone may come to hold, or cease to hold, host h.
LEMMA Untouched ==
  ASSUME TokenOwned, token' = token,
         \A b \in Clients : Holds(b)' <=> Holds(b),
         \A b \in Clients : Holds(b) => Host(b)' = Host(b)
  PROVE  TokenOwned'
  BY DEF TokenOwned

LEMMA TokenOwnedStep == IInv /\ [Next]_vars => TokenOwned'
<1> SUFFICES ASSUME IInv, [Next]_vars PROVE TokenOwned'
  OBVIOUS
<1>a. TypeOK /\ TokenOwned /\ TakenOnce
  BY DEF IInv
<1> USE <1>a DEF TypeOK, clientVars, hostVars
<1>1. ASSUME NEW c \in Clients, AcquireToken(c) PROVE TokenOwned'
  <2>1. /\ token' = [token EXCEPT ![Host(c)] = TRUE]
        /\ ~token[Host(c)] /\ Host(c) \in Names
    BY <1>1, HostType DEF AcquireToken
  <2>2. \A b \in Clients : Host(b)' = Host(b)
    BY <1>1 DEF AcquireToken, Host
  <2>3. \A b \in Clients : Holds(b)' <=> Holds(b) \/ b = c
    BY <1>1 DEF AcquireToken, Acquired, Holds
  <2>4. \A b \in Clients : Holds(b) => Host(b) # Host(c)
    BY <2>1 DEF TokenOwned
  <2> QED
    BY <2>1, <2>2, <2>3, <2>4 DEF TokenOwned
<1>2. ASSUME NEW c \in Clients, DelayCanceled(c) \/ Unlock(c) PROVE TokenOwned'
  <2>1. /\ token' = [token EXCEPT ![Host(c)] = FALSE] /\ Host(c) \in Names
        /\ Holds(c)
    BY <1>2, HostType DEF DelayCanceled, Unlock, Holds
  <2>2. \A b \in Clients : Host(b)' = Host(b)
    BY <1>2 DEF DelayCanceled, Unlock, Host
  <2>3. \A b \in Clients : Holds(b)' <=> Holds(b) /\ b # c
    BY <1>2 DEF DelayCanceled, Unlock, Refused, Holds, TakenOnce
  <2> QED
    BY <2>1, <2>2, <2>3 DEF TokenOwned
<1>3. ASSUME NEW c \in Clients, NEW n \in Names, Do(c, n) \/ Redirect(c, n) PROVE TokenOwned'
  <2>1. ~Holds(c)
    BY <1>3 DEF Do, Redirect, Holds
  <2>2. \A b \in Clients : Holds(b)' <=> Holds(b)
    BY <1>3 DEF Do, Redirect, Holds, TakenOnce
  <2>3. \A b \in Clients : b # c => Host(b)' = Host(b)
    BY <1>3 DEF Do, Redirect, Host
  <2>4. token' = token
    BY <1>3 DEF Do, Redirect
  <2> QED
    BY <2>1, <2>2, <2>3, <2>4, Untouched
<1>4. ASSUME NEW c \in Clients,
             \/ AcquireCanceled(c) \/ DelayElapsed(c) \/ ClientFails(c) \/ DoFails(c)
             \/ RoundTrip(c) \/ Response(c) \/ Stamp(c) \/ RedirectFails(c)
             \/ OnWire(c) /\ \E p \in {"idle", "redirect", "failed"} : EndExchange(c, p)
      PROVE  TokenOwned'
  <2> USE DEF AcquireCanceled, DelayElapsed, ClientFails, DoFails, RoundTrip,
              Response, Stamp, RedirectFails, EndExchange, OnWire
  <2>1. \A b \in Clients : Holds(b)' <=> Holds(b)
    BY <1>4 DEF Acquired, Refused, Holds, TakenOnce
  <2>2. \A b \in Clients : Host(b)' = Host(b)
    BY <1>4 DEF Host
  <2>3. token' = token
    BY <1>4
  <2> QED
    BY <2>1, <2>2, <2>3, Untouched
<1>5. CASE Tick \/ Cancel \/ UNCHANGED vars
  <2>1. UNCHANGED <<pc, name, taken, token>>
    BY <1>5 DEF Tick, Cancel, vars
  <2> QED
    BY <2>1 DEF TokenOwned, Holds, Host
<1> QED
  BY <1>1, <1>2, <1>3, <1>4, <1>5
  DEF Next, Step, GiveUp, Network, RoundTripFails, NoBody, CloseBody, OnWire

LEMMA LessFacts ==
  /\ \A i \in Nat : Less(i) \in Nat
  /\ \A i, j \in Nat : i <= j => Less(i) <= Less(j)
  /\ Less(0) = 0
  BY DEF Less

LEMMA PauseCoveredStep == IInv /\ [Next]_vars => PauseCovered'
<1> SUFFICES ASSUME IInv, [Next]_vars PROVE PauseCovered'
  OBVIOUS
<1>a. TypeOK /\ TokenOwned /\ TakenOnce /\ PauseCovered
  BY DEF IInv
<1>b. \A c \in Clients : Host(c) \in Names
  BY <1>a, HostType
<1>c. /\ \A h \in Names : pause[h] \in Nat /\ cooldown[h] \in Nat
      /\ \A c \in Clients : wait[c] \in Nat
  BY <1>a DEF TypeOK
<1>d. \A b, c \in Clients : Holds(b) /\ Holds(c) /\ b # c => Host(b) # Host(c)
  BY <1>a DEF TokenOwned
<1>1. ASSUME NEW c \in Clients, AcquireToken(c) PROVE PauseCovered'
  <2>1. /\ wait' = [wait EXCEPT ![c] = cooldown[Host(c)]]
        /\ UNCHANGED <<name, taken, cooldown, pause>>
        /\ pc' = [pc EXCEPT ![c] = IF cooldown[Host(c)] > 0 THEN "delay" ELSE Acquired(c)]
        /\ ~token[Host(c)]
    BY <1>1 DEF AcquireToken
  <2>2. \A b \in Clients : Host(b)' = Host(b)
    BY <2>1 DEF Host
  <2>3. \A b \in Clients : Holds(b)' <=> Holds(b) \/ b = c
    BY <1>a, <2>1 DEF Acquired, Holds, TypeOK, AcquireToken, hostVars
  <2>4. pause[Host(c)] <= cooldown[Host(c)]
    BY <1>a, <1>b, <2>1 DEF TokenOwned, PauseCovered
  <2>5. ~(cooldown[Host(c)] > 0) => pause[Host(c)] = 0
    BY <1>b, <1>c, <2>4
  <2> QED
    BY <1>a, <1>b, <1>c, <2>1, <2>2, <2>3, <2>4, <2>5
    DEF PauseCovered, TypeOK, Acquired
<1>2. ASSUME NEW c \in Clients, DelayCanceled(c) PROVE PauseCovered'
  <2>1. /\ pc[c] = "delay" /\ pc' = [pc EXCEPT ![c] = Refused(c)]
        /\ UNCHANGED <<name, taken, wait, cooldown, pause>>
    BY <1>2 DEF DelayCanceled, clientVars
  <2>2. \A b \in Clients : Host(b)' = Host(b)
    BY <2>1 DEF Host
  <2>3. \A b \in Clients : Holds(b)' <=> Holds(b) /\ b # c
    BY <1>a, <2>1 DEF Holds, Refused, TypeOK
  <2>4. pause[Host(c)] <= cooldown[Host(c)]
    BY <1>a, <1>b, <1>c, <2>1 DEF PauseCovered
  <2> QED
    BY <1>a, <1>b, <1>c, <2>1, <2>2, <2>3, <2>4 DEF PauseCovered, TypeOK, Refused
<1>3. ASSUME NEW c \in Clients, Unlock(c) PROVE PauseCovered'
  <2>1. /\ pc[c] = "unlock" /\ pc' = [pc EXCEPT ![c] = then[c]]
        /\ then[c] \in {"idle", "redirect", "failed"} /\ taken[c]
        /\ UNCHANGED <<name, taken, wait, cooldown, pause>>
    BY <1>3, <1>a DEF Unlock, clientVars, TypeOK, TakenOnce
  <2>2. \A b \in Clients : Host(b)' = Host(b)
    BY <2>1 DEF Host
  <2>3. \A b \in Clients : Holds(b)' <=> Holds(b) /\ b # c
    BY <1>a, <2>1 DEF Holds, TypeOK
  <2>4. pause[Host(c)] <= cooldown[Host(c)]
    BY <1>a, <2>1 DEF PauseCovered
  <2> QED
    BY <1>a, <2>1, <2>2, <2>3, <2>4 DEF PauseCovered, TypeOK
<1>4. ASSUME NEW c \in Clients, NEW n \in Names, Do(c, n) \/ Redirect(c, n) PROVE PauseCovered'
  <2>1. /\ ~Holds(c) /\ ~Holds(c)'
        /\ pc'[c] = "acquire" \/ (pc'[c] = "client" /\ taken'[c])
    BY <1>4, <1>a DEF Do, Redirect, Holds, TakenOnce, TypeOK
  <2>2. \A b \in Clients : b # c => /\ Holds(b)' <=> Holds(b)
                                    /\ Host(b)' = Host(b)
                                    /\ pc'[b] = pc[b] /\ taken'[b] = taken[b]
    BY <1>4, <1>a DEF Do, Redirect, Holds, Host, TypeOK
  <2>3. UNCHANGED <<wait, cooldown, pause>>
    BY <1>4 DEF Do, Redirect, hostVars
  <2> QED
    BY <1>a, <2>1, <2>2, <2>3 DEF PauseCovered
<1>5. ASSUME NEW c \in Clients,
             \/ AcquireCanceled(c) \/ DelayElapsed(c) \/ ClientFails(c) \/ DoFails(c)
             \/ RoundTrip(c) \/ Response(c) \/ RedirectFails(c)
      PROVE  PauseCovered'
  <2> USE DEF AcquireCanceled, DelayElapsed, ClientFails, DoFails, RoundTrip,
              Response, RedirectFails, clientVars, hostVars
  <2>1. \A b \in Clients : (Holds(b)' <=> Holds(b)) /\ Host(b)' = Host(b)
    BY <1>5, <1>a DEF Acquired, Refused, Holds, TakenOnce, TypeOK, Host
  <2>2. UNCHANGED <<wait, cooldown, pause>>
    BY <1>5
  <2>3. \A b \in Clients : b # c => pc'[b] = pc[b] /\ taken'[b] = taken[b]
    BY <1>5, <1>a DEF TypeOK
  <2>4. pc[c] = "delay" /\ wait[c] = 0 => pause[Host(c)] = 0
    BY <1>a, <1>b, <1>c DEF PauseCovered
  <2>5. /\ pc'[c] \notin {"delay", "unlock"}
        /\ pc'[c] \in {"client", "failed"} /\ ~taken'[c] => pause[Host(c)] = 0
        /\ pc'[c] \in {"wire", "body"} => pause[Host(c)] = 0
    BY <1>5, <1>a, <2>4 DEF Acquired, Refused, PauseCovered, TakenOnce, TypeOK
  <2> QED
    BY <1>a, <2>1, <2>2, <2>3, <2>5 DEF PauseCovered
<1>6. ASSUME NEW c \in Clients, NEW p, OnWire(c), EndExchange(c, p) PROVE PauseCovered'
  <2>1. /\ pc' = [pc EXCEPT ![c] = "stamp"] /\ pc[c] \in {"wire", "body"}
        /\ pause' = [pause EXCEPT ![Host(c)] = Interval]
        /\ UNCHANGED <<name, taken, wait, cooldown>>
    BY <1>6 DEF EndExchange, OnWire
  <2>2. \A b \in Clients : (Holds(b)' <=> Holds(b)) /\ Host(b)' = Host(b)
    BY <2>1, <1>a DEF Holds, Host, TypeOK
  <2>3. Holds(c) /\ pc'[c] = "stamp"
    BY <2>1, <1>a DEF Holds, TypeOK
  <2>4. \A b \in Clients : b # c => pc'[b] = pc[b]
    BY <2>1, <1>a DEF TypeOK
  <2>5. \A b \in Clients : Holds(b) /\ b # c => pause'[Host(b)] = pause[Host(b)]
    BY <1>a, <1>b, <1>d, <2>1, <2>3 DEF TypeOK
  <2>6. \A h \in Names : h # Host(c) => pause'[h] = pause[h]
    BY <1>a, <2>1 DEF TypeOK
  <2>7. \A b \in Clients : ~Holds(b) => /\ pc[b] \notin {"delay", "wire", "body", "unlock"}
                                        /\ pc[b] \in {"client", "failed"} => taken[b]
    BY DEF Holds
  <2> QED
    BY <1>a, <2>1, <2>2, <2>3, <2>4, <2>5, <2>6, <2>7 DEF PauseCovered
<1>7. ASSUME NEW c \in Clients, Stamp(c) PROVE PauseCovered'
  <2>1. /\ pc[c] = "stamp" /\ pc' = [pc EXCEPT ![c] = "unlock"]
        /\ cooldown' = [cooldown EXCEPT ![Host(c)] = Interval]
        /\ UNCHANGED <<name, taken, wait, pause>>
    BY <1>7 DEF Stamp, clientVars
  <2>2. \A b \in Clients : (Holds(b)' <=> Holds(b)) /\ Host(b)' = Host(b)
    BY <2>1, <1>a DEF Holds, Host, TypeOK
  <2>3. Holds(c) /\ pc'[c] = "unlock" /\ \A b \in Clients : b # c => pc'[b] = pc[b]
    BY <2>1, <1>a DEF Holds, TypeOK
  <2>4. \A b \in Clients : Holds(b) /\ b # c => cooldown'[Host(b)] = cooldown[Host(b)]
    BY <1>a, <1>b, <1>d, <2>1, <2>3 DEF TypeOK
  <2>5. \A h \in Names : h # Host(c) => cooldown'[h] = cooldown[h]
    BY <1>a, <2>1 DEF TypeOK
  <2>6. pause[Host(c)] <= cooldown'[Host(c)]
    BY <1>a, <1>b, <2>1 DEF TypeOK
  <2>7. \A b \in Clients : pc[b] \in {"delay", "unlock"} => Holds(b)
    BY DEF Holds
  <2> QED
    BY <1>a, <2>1, <2>2, <2>3, <2>4, <2>5, <2>6, <2>7 DEF PauseCovered
<1>8. CASE Tick
  <2>1. UNCHANGED <<pc, name, taken>>
    BY <1>8 DEF Tick
  <2>2. \A b \in Clients : (Holds(b)' <=> Holds(b)) /\ Host(b)' = Host(b)
    BY <2>1 DEF Holds, Host
  <2>3. /\ \A h \in Names : /\ cooldown'[h] = Less(cooldown[h])
                            /\ pause'[h] = Less(pause[h])
        /\ \A c \in Clients : pc[c] = "delay" => wait'[c] = Less(wait[c])
    BY <1>8 DEF Tick
  <2> QED
    BY <1>a, <1>b, <1>c, <2>1, <2>2, <2>3, LessFacts DEF PauseCovered
<1>9. CASE Cancel \/ UNCHANGED vars
  BY <1>9, <1>a DEF Cancel, vars, clientVars, hostVars, PauseCovered, Holds, Host
<1> QED
  BY <1>1, <1>2, <1>3, <1>4, <1>5, <1>6, <1>7, <1>8, <1>9
  DEF Next, Step, GiveUp, Network, RoundTripFails, NoBody, CloseBody, OnWire

-----------------------------------------------------------------------------
(* The theorems. *)

\* Tokens, timers and the state of every client stay consistent in every run.
THEOREM Invariance == Spec => []IInv
<1>1. IInv /\ [Next]_vars => IInv'
  BY TypeStep, TakenOnceStep, TokenOwnedStep, PauseCoveredStep DEF IInv
<1> QED
  BY InitInvariant, <1>1, PTL DEF Spec

\* Every variable keeps its type.
THEOREM TypeCorrect == Spec => []TypeOK
  BY Invariance, PTL DEF IInv

\* No path through Do, RoundTrip and redirects leaks the token of a host or
\* releases it twice (feed_transport.go:46-115, 158-180).
THEOREM TokenNeverLost == Spec => []TokenOwned
  BY Invariance, PTL DEF IInv

\* A client that finds the token out waits for another one, which is past its own
\* wait for a token, and a release always finds the token to receive.
NoWaitCycle ==
    \A c \in Clients :
        /\ pc[c] = "acquire" /\ token[Host(c)] =>
              \E b \in Clients \ {c} : Host(b) = Host(c) /\ Holds(b) /\ pc[b] # "acquire"
        /\ pc[c] \in {"delay", "unlock"} => token[Host(c)]

\* Clients, redirected from host to host in any order, never wait in a circle for
\* the tokens of one another, and no release blocks: the receives of
\* feed_transport.go:170 and 179 find what the send of line 160 has put there.
THEOREM NoDeadlock == Spec => []NoWaitCycle
<1>1. IInv => NoWaitCycle
  <2> SUFFICES ASSUME IInv, NEW c \in Clients
               PROVE  /\ pc[c] = "acquire" /\ token[Host(c)] =>
                            \E b \in Clients \ {c} :
                               Host(b) = Host(c) /\ Holds(b) /\ pc[b] # "acquire"
                      /\ pc[c] \in {"delay", "unlock"} => token[Host(c)]
    BY DEF NoWaitCycle
  <2>1. Host(c) \in Names
    BY HostType DEF IInv
  <2>2. token[Host(c)] <=> \E b \in Clients : Holds(b) /\ Host(b) = Host(c)
    BY <2>1 DEF IInv, TokenOwned
  <2>3. \A b \in Clients : Holds(b) => pc[b] # "acquire"
    BY DEF Holds
  <2>4. pc[c] \in {"delay", "unlock"} => Holds(c)
    BY DEF Holds
  <2> QED
    BY <2>2, <2>3, <2>4
<1> QED
  BY Invariance, <1>1, PTL

-----------------------------------------------------------------------------
(* What goes over the wire implements PacedHosts. *)

\* A client that goes on the wire finds its host free and rested.
LEMMA StartRefines ==
  ASSUME IInv, NEW c \in Clients,
         ~OnWire(c), OnWire(c)',
         \A b \in Clients : b # c => (OnWire(b)' <=> OnWire(b)),
         UNCHANGED <<name, pause>>,
         pause[Host(c)] = 0,
         \A b \in Clients : OnWire(b) => Host(b) # Host(c)
  PROVE  Exchange!Next
<1> DEFINE busy == [h \in Names |-> \E b \in Clients : OnWire(b) /\ Canonical[name[b]] = h]
<1> PICK h \in Names : h = Host(c)
  BY HostType DEF IInv
<1>1. ~busy[h] /\ pause[h] = 0
  BY DEF Host
<1>2. busy' = [busy EXCEPT ![h] = TRUE]
  BY DEF Host
<1>3. Exchange!Start(h)
  BY <1>1, <1>2 DEF Exchange!Start
<1> QED
  BY <1>3 DEF Exchange!Next

\* A client that ends its exchange frees its host and starts the pause.
LEMMA EndRefines ==
  ASSUME IInv, NEW c \in Clients, NEW p, OnWire(c), EndExchange(c, p)
  PROVE  Exchange!Next
<1> DEFINE busy == [h \in Names |-> \E b \in Clients : OnWire(b) /\ Canonical[name[b]] = h]
<1>a. TypeOK /\ TokenOwned
  BY DEF IInv
<1> PICK h \in Names : h = Host(c)
  BY <1>a, HostType
<1>1. busy[h]
  BY DEF Host
<1>2. /\ \A b \in Clients : OnWire(b)' <=> OnWire(b) /\ b # c
      /\ name' = name
  BY <1>a DEF EndExchange, OnWire, TypeOK
<1>3. \A b \in Clients : OnWire(b) /\ b # c => Canonical[name[b]] # h
  BY <1>a DEF TokenOwned, Holds, OnWire, Host
<1>4. busy' = [busy EXCEPT ![h] = FALSE]
  <2>1. Canonical[name[c]] = h
    BY DEF Host
  <2>2. ASSUME NEW k \in Names
        PROVE  busy'[k] = IF k = h THEN FALSE ELSE busy[k]
    <3>1. busy'[k] = \E b \in Clients : OnWire(b) /\ b # c /\ Canonical[name[b]] = k
      BY <1>2
    <3>2. CASE k = h
      BY <1>3, <3>1, <3>2
    <3>3. CASE k # h
      BY <2>1, <3>1, <3>3
    <3> QED
      BY <3>2, <3>3
  <2> QED
    BY <2>2
<1>5. Exchange!End(h)
  BY <1>1, <1>4 DEF Exchange!End, EndExchange
<1> QED
  BY <1>5 DEF Exchange!Next

LEMMA StepRefines ==
  IInv /\ [Next]_vars =>
    [Exchange!Next]_<<[h \in Names |-> \E c \in Clients : OnWire(c) /\ Canonical[name[c]] = h],
                      pause>>
<1> DEFINE busy == [h \in Names |-> \E c \in Clients : OnWire(c) /\ Canonical[name[c]] = h]
<1> SUFFICES ASSUME IInv, [Next]_vars PROVE [Exchange!Next]_<<busy, pause>>
  OBVIOUS
<1>a. TypeOK /\ TokenOwned /\ TakenOnce /\ PauseCovered
  BY DEF IInv
<1>b. ASSUME \A c \in Clients : (OnWire(c)' <=> OnWire(c)) /\ (OnWire(c) => name'[c] = name[c]),
             pause' = pause
      PROVE  UNCHANGED <<busy, pause>>
  BY <1>b
<1>c. ASSUME NEW c \in Clients, Holds(c), ~OnWire(c)
      PROVE  \A b \in Clients : OnWire(b) => Host(b) # Host(c)
  BY <1>a, <1>c DEF TokenOwned, Holds, OnWire
<1>1. ASSUME NEW c \in Clients, AcquireToken(c) PROVE [Exchange!Next]_<<busy, pause>>
  <2>1. \A b \in Clients : b # c => (OnWire(b)' <=> OnWire(b))
    BY <1>1, <1>a DEF AcquireToken, OnWire, TypeOK
  <2>2. ~OnWire(c) /\ UNCHANGED <<name, pause>> /\ Host(c) \in Names
    BY <1>1, <1>a, HostType DEF AcquireToken, OnWire
  <2>3. CASE OnWire(c)'
    <3>1. \A b \in Clients : Holds(b) => Host(b) # Host(c)
      BY <1>1, <1>a, <2>2 DEF AcquireToken, TokenOwned
    <3>2. cooldown[Host(c)] = 0
      BY <1>1, <1>a, <2>2, <2>3 DEF AcquireToken, OnWire, TypeOK
    <3>3. pause[Host(c)] = 0
      BY <1>a, <2>2, <3>1, <3>2 DEF PauseCovered, TypeOK
    <3>4. \A b \in Clients : OnWire(b) => Host(b) # Host(c)
      BY <3>1 DEF Holds, OnWire
    <3> QED
      BY <2>1, <2>2, <2>3, <3>3, <3>4, StartRefines
  <2>4. CASE ~OnWire(c)'
    BY <1>b, <2>1, <2>2, <2>4
  <2> QED
    BY <2>3, <2>4
<1>2. ASSUME NEW c \in Clients, DelayElapsed(c) \/ RoundTrip(c)
      PROVE  [Exchange!Next]_<<busy, pause>>
  <2>1. \A b \in Clients : b # c => (OnWire(b)' <=> OnWire(b))
    BY <1>2, <1>a DEF DelayElapsed, RoundTrip, OnWire, TypeOK
  <2>2. ~OnWire(c) /\ UNCHANGED <<name, pause>> /\ Host(c) \in Names
    BY <1>2, <1>a, HostType DEF DelayElapsed, RoundTrip, OnWire, clientVars, hostVars
  <2>3. CASE OnWire(c)'
    <3>1. \/ pc[c] = "delay" /\ wait[c] = 0
          \/ pc[c] = "client" /\ ~taken[c]
      BY <1>2, <1>a, <2>3 DEF DelayElapsed, RoundTrip, OnWire, TypeOK
    <3>2. Holds(c) /\ pause[Host(c)] = 0
      BY <1>a, <2>2, <3>1 DEF Holds, PauseCovered, TypeOK
    <3>3. \A b \in Clients : OnWire(b) => Host(b) # Host(c)
      BY <1>c, <2>2, <3>2
    <3> QED
      BY <2>1, <2>2, <2>3, <3>2, <3>3, StartRefines
  <2>4. CASE ~OnWire(c)'
    BY <1>b, <2>1, <2>2, <2>4
  <2> QED
    BY <2>3, <2>4
<1>3. ASSUME NEW c \in Clients, NEW p, OnWire(c), EndExchange(c, p)
      PROVE  [Exchange!Next]_<<busy, pause>>
  BY <1>3, EndRefines
<1>4. CASE Tick
  <2>1. UNCHANGED busy
    BY <1>4 DEF Tick, OnWire
  <2>2. Exchange!Tick
    BY <1>4, <2>1 DEF Tick, Less, Exchange!Tick
  <2> QED
    BY <2>2 DEF Exchange!Next
<1>5. ASSUME NEW c \in Clients, NEW n \in Names, Do(c, n) \/ Redirect(c, n)
      PROVE  [Exchange!Next]_<<busy, pause>>
  <2>1. \A b \in Clients : (OnWire(b)' <=> OnWire(b)) /\ (OnWire(b) => name'[b] = name[b])
    BY <1>5, <1>a DEF Do, Redirect, OnWire, TypeOK
  <2>2. pause' = pause
    BY <1>5 DEF Do, Redirect, hostVars
  <2> QED
    BY <1>b, <2>1, <2>2
<1>6. ASSUME NEW c \in Clients,
             \/ AcquireCanceled(c) \/ DelayCanceled(c) \/ ClientFails(c) \/ DoFails(c)
             \/ Response(c) \/ Stamp(c) \/ Unlock(c) \/ RedirectFails(c)
      PROVE  [Exchange!Next]_<<busy, pause>>
  <2> USE DEF AcquireCanceled, DelayCanceled, ClientFails, DoFails, Response,
              Stamp, Unlock, RedirectFails, clientVars, hostVars
  <2>1. \A b \in Clients : OnWire(b)' <=> OnWire(b)
    BY <1>6, <1>a DEF OnWire, Refused, TypeOK
  <2>2. UNCHANGED <<name, pause>>
    BY <1>6
  <2> QED
    BY <1>b, <2>1, <2>2
<1>7. CASE Cancel \/ UNCHANGED vars
  <2>1. UNCHANGED <<pc, name, pause>>
    BY <1>7 DEF Cancel, vars, clientVars, hostVars
  <2> QED
    BY <1>b, <2>1 DEF OnWire
<1> QED
  BY <1>1, <1>2, <1>3, <1>4, <1>5, <1>6, <1>7
  DEF Next, Step, GiveUp, Network, RoundTripFails, NoBody, CloseBody, OnWire

\* However its name is spelled and however many clients ask for it, a host
\* sees one exchange at a time and a pause of Interval between two
\* (feed_transport.go:158-180, doc.go:24-26).
THEOREM Pacing == Spec => PacesHosts
<1>1. Init => Exchange!Init
  BY DEF Init, Exchange!Init, OnWire
<1> QED
  BY Invariance, <1>1, StepRefines, PTL DEF Spec, PacesHosts, Exchange!Spec
=============================================================================
