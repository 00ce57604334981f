---------------------------- MODULE MCCloudLink ------------------------------
(* Two writers, four fields, two messages of up to three fragments. *)
EXTENDS CloudLink
=============================================================================
