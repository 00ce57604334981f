------------------------------ MODULE ByteFifo ------------------------------
(***************************************************************************)
(* What ring_buffer.c promises one writer and one reader: a bounded queue  *)
(* of bytes.  A write appends bytes at once, a read takes a prefix.        *)
(***************************************************************************)
EXTENDS Integers, Sequences

CONSTANTS Byte, Capacity

VARIABLE bytes

Init == bytes = <<>>

\* asm_wr's publication: everything it copied becomes visible together.
Put ==
    /\ bytes' \in Seq(Byte)
    /\ Len(bytes') \in Len(bytes)..Capacity
    /\ \A i \in 1..Len(bytes) : bytes'[i] = bytes[i]

\* The end of a ring_buf_rd or ring_buf_drop.
Take ==
    /\ bytes' \in Seq(Byte)
    /\ Len(bytes') \in 0..Len(bytes)
    /\ \A i \in 1..Len(bytes') :
           bytes'[i] = bytes[i + (Len(bytes) - Len(bytes'))]

Next == Put \/ Take

Spec == Init /\ [][Next]_bytes
=============================================================================
