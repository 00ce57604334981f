---------------------------- MODULE MCUserTable ------------------------------
(* Four names for three users, of which two are in the cache. *)
EXTENDS UserTable

MCNames == 1..4
=============================================================================
