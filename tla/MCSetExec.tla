----------------------------- MODULE MCSetExec ------------------------------
(* Two callers and two sets, the first of which has the second as a member. *)
EXTENDS SetExec

MCMembers == [s \in 1..2 |-> IF s = 1 THEN {2} ELSE {}]
=============================================================================
