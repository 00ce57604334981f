------------------------------ MODULE MCDevTable -----------------------------
(* Two types, at most three devices, two of a type; two of the first are there. *)
EXTENDS DevTable

MCMaxOf == [t \in Types |-> 2]
MCInstalled == {<<0, 1>>, <<0, 2>>}
=============================================================================
