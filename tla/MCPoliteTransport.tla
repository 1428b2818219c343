-------------------------- MODULE MCPoliteTransport --------------------------
(* Instances of PoliteTransport for TLC. *)
EXTENDS PoliteTransport

CONSTANTS a, aDot, b

\* aDot is another spelling of a; every other name is canonical.
MCCanonical == [n \in Names |-> IF n = aDot THEN a ELSE n]
=============================================================================
