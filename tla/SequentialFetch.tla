--------------------------- MODULE SequentialFetch ---------------------------
(***************************************************************************)
(* What a run of rssnip over several URLs promises its caller, with no     *)
(* concurrency in it: the feeds are loaded one after the other in input    *)
(* order, the items of each are written before the next is loaded, and the *)
(* first failure ends the run.  FetchFeeds, which loads up to              *)
(* MaxConcurrentFetches feeds at once, is shown to implement this.         *)
(***************************************************************************)
EXTENDS Naturals, Sequences

CONSTANTS NumURLs,   \* number of input URLs; they are 0 .. NumURLs-1
          MaxItems   \* bound on the number of items a feed holds

VARIABLES turn,      \* the feed being loaded or written
          loaded,    \* TRUE once that feed has been loaded
          size,      \* number of items of the loaded feed
          item,      \* how many of them have been written
          out,       \* everything written, as <<feed, item>> pairs
          ret,       \* outcome of the run, "none" while it is running
          ctxDone    \* the caller's context has been cancelled

vars == <<turn, loaded, size, item, out, ret, ctxDone>>

Init ==
    /\ turn = 0
    /\ loaded = FALSE
    /\ size = 0
    /\ item = 0
    /\ out = <<>>
    /\ ret = "none"
    /\ ctxDone = FALSE

Running == ret = "none" /\ turn < NumURLs

Load(n) ==
    /\ Running /\ ~loaded
    /\ loaded' = TRUE
    /\ size' = n
    /\ item' = 0
    /\ UNCHANGED <<turn, out, ret, ctxDone>>

LoadFails ==
    /\ Running /\ ~loaded
    /\ ret' = "fetch"
    /\ UNCHANGED <<turn, loaded, size, item, out, ctxDone>>

WriteItem ==
    /\ Running /\ loaded /\ item < size
    /\ out' = Append(out, <<turn, item>>)
    /\ item' = item + 1
    /\ UNCHANGED <<turn, loaded, size, ret, ctxDone>>

WriteFails ==
    /\ Running /\ loaded /\ item < size
    /\ ret' = "consume"
    /\ loaded' = FALSE
    /\ UNCHANGED <<turn, size, item, out, ctxDone>>

NextFeed ==
    /\ Running /\ loaded /\ item = size
    /\ turn' = turn + 1
    /\ loaded' = FALSE
    /\ size' = 0
    /\ item' = 0
    /\ UNCHANGED <<out, ret, ctxDone>>

\* A run reports a cancellation only when its caller cancelled it.
Canceled ==
    /\ Running /\ ctxDone
    /\ ret' = "canceled"
    /\ loaded' = FALSE
    /\ UNCHANGED <<turn, size, item, out, ctxDone>>

Finish ==
    /\ ret = "none" /\ turn = NumURLs
    /\ ret' = "nil"
    /\ UNCHANGED <<turn, loaded, size, item, out, ctxDone>>

Cancel ==
    /\ ~ctxDone
    /\ ctxDone' = TRUE
    /\ UNCHANGED <<turn, loaded, size, item, out, ret>>

Next ==
    \/ \E n \in 0..MaxItems : Load(n)
    \/ LoadFails
    \/ WriteItem
    \/ WriteFails
    \/ NextFeed
    \/ Canceled
    \/ Finish
    \/ Cancel

Spec == Init /\ [][Next]_vars
=============================================================================
