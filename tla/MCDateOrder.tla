----------------------------- MODULE MCDateOrder -----------------------------
(***************************************************************************)
(* DateOrder for model checking.                                           *)
(***************************************************************************)
EXTENDS DateOrder

MCTimes == 0..2
=============================================================================
