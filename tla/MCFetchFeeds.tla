---------------------------- MODULE MCFetchFeeds ----------------------------
(***************************************************************************)
(* FetchFeeds for model checking.                                          *)
(***************************************************************************)
EXTENDS FetchFeeds
=============================================================================
