------------------------------ MODULE MCAtPort ------------------------------
(* Two callers and three commands, to a module that answers when it likes. *)
EXTENDS AtPort
=============================================================================
