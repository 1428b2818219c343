---------------------------- MODULE MCPacedFetch ----------------------------
(* Instances of PacedFetch for TLC. *)
EXTENDS PacedFetch

CONSTANTS a, aDot

\* aDot is another spelling of a.
MCCanonical == [n \in Names |-> a]
=============================================================================
