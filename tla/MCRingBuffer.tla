---------------------------- MODULE MCRingBuffer ----------------------------
(***************************************************************************)
(* One writer and one reader on a ring of eight cells.  The messages have  *)
(* one, two and three bytes: two records fit, the shorter ones fill the    *)
(* ring to its last usable cell, and a message of three bytes does not fit *)
(* the reader's buffer of two.                                             *)
(***************************************************************************)
EXTENDS RingBuffer

MCMsgs == {<<1>>, <<2, 3>>, <<4, 5, 6>>}
=============================================================================
