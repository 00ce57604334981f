------------------------------- MODULE UserSet -------------------------------
(***************************************************************************)
(* What the list of users promises to the API: a set of names of bounded   *)
(* size, and answers that are true of it.  An update that was cut short    *)
(* (torn) may cost one user and may have let the new one in; after a       *)
(* failed access to the file (stale) answers may be wrong until the next   *)
(* start.                                                                  *)
(***************************************************************************)
EXTENDS Integers, FiniteSets

CONSTANTS Names, UserMax

VARIABLES users, torn, stale, said

vars == <<users, torn, stale, said>>

Says(n, a) == said' = <<n, a>>

Init == users = {} /\ torn = FALSE /\ stale = FALSE /\ said = <<0, "none">>

Ask(n) ==
    /\ \E a \in {"yes", "no"} :
          /\ stale \/ (a = "yes" <=> n \in users)
          /\ Says(n, a)
    /\ UNCHANGED <<users, torn, stale>>

Admit(n) ==
    /\ n \notin users /\ Cardinality(users) < UserMax
    /\ users' = users \cup {n}
    /\ UNCHANGED <<torn, stale, said>>

Refuse(n) ==
    /\ torn \/ stale \/ n \in users \/ Cardinality(users) = UserMax
    /\ Says(n, "no")
    /\ UNCHANGED <<users, torn, stale>>

\* An interrupted update may have left a name twice in the list, of which a
\* removal takes one.
Expel(n) ==
    /\ n \in users
    /\ users' = users \ {n} \/ (torn /\ users' = users)
    /\ Says(n, "yes")
    /\ UNCHANGED <<torn, stale>>

Unknown(n) == n \notin users /\ Says(n, "no") /\ UNCHANGED <<users, torn, stale>>

Clear ==
    /\ users' = {} /\ torn' = FALSE /\ stale' = FALSE
    /\ Says(0, "yes")

\* The file could not be read or written; answered with an error, before or
\* after the update.
Fail ==
    /\ \E n \in Names : Says(n, "error")
    /\ \E lost \in SUBSET users, new \in SUBSET Names :
          /\ Cardinality(lost) <= 1 /\ Cardinality(new) <= 1
          /\ users' = (users \ lost) \cup new
    /\ torn' \in {torn, TRUE} /\ (users' # users => torn')
    /\ stale' \in {stale, TRUE}

Crash ==
    /\ said' = <<0, "none">> /\ stale' = FALSE
    /\ \E lost \in SUBSET users, new \in SUBSET Names :
          /\ Cardinality(lost) <= 1 /\ Cardinality(new) <= 1
          /\ users' = (users \ lost) \cup new
    /\ torn' \in {torn, TRUE} /\ (users' # users => torn')

Next ==
    \/ \E n \in Names : Ask(n) \/ Admit(n) \/ Refuse(n) \/ Expel(n) \/ Unknown(n)
    \/ Clear \/ Fail \/ Crash

Spec == Init /\ [][Next]_vars
=============================================================================
