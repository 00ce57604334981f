--------------------------- MODULE MCRemoteReport ---------------------------
(* Three requests and two reports on rings of two records: the send ring   *)
(* can be full when an answer, a report or a change report arrives.        *)
EXTENDS RemoteReport
=============================================================================
