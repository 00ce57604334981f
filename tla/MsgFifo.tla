------------------------------- MODULE MsgFifo -------------------------------
(***************************************************************************)
(* What msg_ring_buf_wr and msg_ring_buf_rd promise their callers: "read   *)
(* the earliest message out of the ring buffer" (report.c:88).  A message  *)
(* that was accepted is returned once, whole up to the size of the         *)
(* reader's buffer, in the order of acceptance.                            *)
(***************************************************************************)
EXTENDS Integers, Sequences

CONSTANTS Msgs, RdBuf

VARIABLES queue, out

Init == queue = <<>> /\ out = <<>>

Cut(m) == SubSeq(m, 1, IF Len(m) <= RdBuf THEN Len(m) ELSE RdBuf)

Send == /\ \E m \in Msgs : queue' = Append(queue, m)
        /\ UNCHANGED out

Receive == /\ queue # <<>>
           /\ out' = Cut(Head(queue))
           /\ queue' = Tail(queue)

Next == Send \/ Receive

Spec == Init /\ [][Next]_<<queue, out>>
=============================================================================
