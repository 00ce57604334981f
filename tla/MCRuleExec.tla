----------------------------- MODULE MCRuleExec -----------------------------
(* A rule with two outputs for its condition and one for the opposite.     *)
EXTENDS RuleExec

MCNumOut == [b \in Lists |-> IF b = "T" THEN 2 ELSE 1]
=============================================================================
