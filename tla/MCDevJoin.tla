------------------------------ MODULE MCDevJoin ------------------------------
(* A switch of two endpoints and a plug, which report the same cluster. *)
EXTENDS DevJoin

MCParts ==
    [sw |-> <<[ep |-> 1, type |-> "switch"], [ep |-> 2, type |-> "switch"]>>,
     plug |-> <<[ep |-> 1, type |-> "plug"]>>]
MCMode == [sw |-> "on_off", plug |-> "none"]
=============================================================================
