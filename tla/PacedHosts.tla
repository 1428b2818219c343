----------------------------- MODULE PacedHosts -----------------------------
(***************************************************************************)
(* What a host is promised: one exchange at a time, and a pause of         *)
(* Interval ticks after each exchange before the next one starts.          *)
(***************************************************************************)
EXTENDS Naturals

CONSTANTS Hosts, Interval

VARIABLES busy,   \* busy[h]: an exchange with h is in progress
          pause   \* pause[h]: what is left of the pause since the last one

Init ==
    /\ busy = [h \in Hosts |-> FALSE]
    /\ pause = [h \in Hosts |-> 0]

Start(h) ==
    /\ ~busy[h] /\ pause[h] = 0
    /\ busy' = [busy EXCEPT ![h] = TRUE]
    /\ UNCHANGED pause

End(h) ==
    /\ busy[h]
    /\ busy' = [busy EXCEPT ![h] = FALSE]
    /\ pause' = [pause EXCEPT ![h] = Interval]

Tick ==
    /\ pause' = [h \in Hosts |-> IF pause[h] > 0 THEN pause[h] - 1 ELSE 0]
    /\ UNCHANGED busy

Next == Tick \/ \E h \in Hosts : Start(h) \/ End(h)

Spec == Init /\ [][Next]_<<busy, pause>>
=============================================================================
