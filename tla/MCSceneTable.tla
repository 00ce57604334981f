---------------------------- MODULE MCSceneTable ------------------------------
(* Two API tasks, an executor, two devices, a group of both or no group at  *)
(* the start, a scene.                                                      *)
EXTENDS SceneTable

CONSTANTS local, cloud, d1, d2

Symmetry == Permutations({local, cloud}) \cup Permutations({d1, d2})

\* Method and path choose one handler at most.
ASSUME OneHandler ==
    \A k \in DOMAIN Routes : \A r, q \in Routes[k] :
        r[1] = q[1] /\ r[2] = q[2] => r = q

\* Smaller groups come about by the first request.
FullOrNone == \A g \in Groups : group[g] = NoFile \/ Len(group[g].has) = MemberMax

MCInit == Init /\ FullOrNone
MCSpec == MCInit /\ [][Next]_vars
=============================================================================
