------------------------------ MODULE MCCommand ------------------------------
(* Command for model checking. *)
EXTENDS Command

MCTimes == 0..2
MCPageLimits == {0, 1}

Since(t) == [since |-> t]
Until(t) == [until |-> t]
OptionLists ==
    {<<>>, <<Since(1)>>, <<Until(1)>>, <<Since(1), Until(2)>>,
     <<Until(1), Since(2)>>, <<Since(2), Until(2), Since(1)>>,
     <<Since(1), [preferUpdated |-> TRUE]>>, <<[maxPages |-> 0]>>, <<[nilOption |-> TRUE]>>,
     <<[client |-> "nil"]>>, <<[client |-> "given"], [userAgent |-> "blank"]>>}
MCCalls ==
    [function : {"Fetch", "Parse"}, nil : BOOLEAN, options : OptionLists,
     url : {"valid", "userinfo", "invalid"}]
=============================================================================
