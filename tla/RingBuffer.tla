----------------------------- MODULE RingBuffer -----------------------------
(***************************************************************************)
(* The byte ring of ring_buffer/ring_buffer.c together with the message    *)
(* framing report/report.c puts on top of it (msg_ring_buf_wr,             *)
(* msg_ring_buf_rd): a 16-bit length followed by the body.  The same ring  *)
(* and framing carry the Zigbee events, the Zigbee command queue and both  *)
(* directions of the remote API.                                           *)
(*                                                                         *)
(* Writers and the reader share only pvHead, pvTail and the cells, without *)
(* a lock.  One action stands for the code between two accesses to those   *)
(* shared fields.  Within a stretch without stores the compiler (-Os)      *)
(* loads the other side's cursor once, so a stretch reads it once; the     *)
(* wrap branch of ring_buf_rd loads pvHead again after its memcpy.         *)
(*                                                                         *)
(* Pointers are offsets from pvStart: pvStart is 0 and pvEnd is Size - 1.  *)
(***************************************************************************)
EXTENDS Integers, Sequences

CONSTANTS
    Size,      \* ring_buf_size: number of cells
    Writers,   \* threads that call msg_ring_buf_wr on this ring
    Msgs,      \* the messages the threads may send, non-empty byte sequences
    RdBuf      \* tSize, the reader's buffer

Byte == 0..255

\* The comment at ring_buffer.c:48-52 demands two cells; the length of a
\* message travels as a uint16_t.
ASSUME SizeAssumption == Size \in Nat /\ Size >= 2
ASSUME RdBufAssumption == RdBuf \in Nat /\ RdBuf > 0
ASSUME MsgsAssumption ==
    \A m \in Msgs : m \in Seq(Byte) /\ Len(m) > 0 /\ Len(m) < 256 * 256

Cells == 0..(Size - 1)
HeaderLen == 2

VARIABLES
    head, tail, cell,      \* the shared ring: pvHead, pvTail, the bytes
    wpc, wmsg,             \* per writer: where it is, the message it sends
    whead, wtail,          \* per writer: asm_wr's private copy of the cursors
    rphase, rstep,         \* reader: which ring_buf_rd call, where inside it
    rneed, rtmp, rgot,     \* reader: bytes still wanted, pvTmp, bytes copied
    rlen, rmsg,            \* reader: announced length, body bytes so far
    queue, out             \* history: messages published and not yet returned;
                           \* what the last msg_ring_buf_rd returned

writerVars == <<wpc, wmsg, whead, wtail>>
readerVars == <<rphase, rstep, rneed, rtmp, rgot, rlen, rmsg>>
vars == <<head, tail, cell, writerVars, readerVars, queue, out>>

Least(a, b) == IF a <= b THEN a ELSE b

(***************************************************************************)
(* The cursor arithmetic.                                                  *)
(***************************************************************************)

\* The offset k cells after p, and how far c lies after p.
Advance(p, k) == IF p + k > Size - 1 THEN p + k - Size ELSE p + k
Distance(p, c) == IF c >= p THEN c - p ELSE c - p + Size

\* Cells from p to pvEnd.
ToEnd(p) == Size - p

\* ring_buf_data_len: bytes published and not yet consumed.
DataLen(h, t) == IF h >= t THEN h - t ELSE Size - (t - h)

\* Slip: the cell that always stays empty is counted as room.
RemainEveryCell(h, t) == IF h >= t THEN Size - (h - t) ELSE t - h

\* ring_buf_remain: bytes that may be written; one cell always stays empty.
Remain(h, t) == IF h >= t THEN (Size - 1) - (h - t) ELSE t - h - 1

\* ring_buf_if_empty.
IfEmpty(h, t) == h = t

\* ring_buf_wr: how many of n bytes it accepts.  With the tail at the start
\* the last cell is kept free, otherwise the write may wrap.
WrLen(h, t, n) ==
    IF h >= t
    THEN LET want == IF t = 0 /\ n >= ToEnd(h) THEN ToEnd(h) - 1 ELSE n
         IN  IF ToEnd(h) <= want
             THEN ToEnd(h) + Least(want - ToEnd(h), t - 1)
             ELSE want
    ELSE Least(n, t - h - 1)

\* ring_buf_wr: where it leaves the head.
WrHead(h, t, n) ==
    LET len == WrLen(h, t, n)
    IN  IF h >= t /\ ToEnd(h) <= len THEN len - ToEnd(h) ELSE h + len

\* ring_buf_wr: the two memcpy calls, the bytes of s into the cells from h on.
WrCells(c, h, t, s) ==
    [i \in Cells |-> LET k == Distance(h, i)
                     IN  IF k < WrLen(h, t, Len(s)) THEN s[k + 1] ELSE c[i]]

\* The bytes of the ring from position p on, n of them.
BytesAt(c, p, n) == [i \in 1..n |-> c[Advance(p, i - 1)]]

\* What a reader has not consumed yet, oldest byte first.
Contents == BytesAt(cell, tail, DataLen(head, tail))

\* msg_ring_buf_wr: the uint16_t in front of the body, low byte first.
Header(m) == <<Len(m) % 256, Len(m) \div 256>>
HeaderValue(s) == s[1] + 256 * s[2]

\* Slip: the length in front of the body needs room as well.
RecordSizeBodyOnly(m) == Len(m)

\* What a message takes up in the ring.
RecordSize(m) == HeaderLen + Len(m)

-----------------------------------------------------------------------------
Init ==
    /\ head = 0 /\ tail = 0
    /\ cell = [i \in Cells |-> 0]
    /\ wpc = [w \in Writers |-> "idle"]
    /\ wmsg = [w \in Writers |-> <<>>]
    /\ whead = [w \in Writers |-> 0]
    /\ wtail = [w \in Writers |-> 0]
    /\ rphase = "idle" /\ rstep = "first"
    /\ rneed = 0 /\ rtmp = 0 /\ rgot = <<>>
    /\ rlen = 0 /\ rmsg = <<>>
    /\ queue = <<>> /\ out = <<>>

(***************************************************************************)
(* A writer: msg_ring_buf_wr and ring_buf_asm_wr.                          *)
(***************************************************************************)

\* msg_ring_buf_wr: the message is taken on only if the ring has room for
\* the length and the body; otherwise the call returns -1.
WrCall(w, m) ==
    /\ wpc[w] = "idle"
    /\ Remain(head, tail) >= RecordSize(m)
    /\ wpc' = [wpc EXCEPT ![w] = "snapshot"]
    /\ wmsg' = [wmsg EXCEPT ![w] = m]
    /\ UNCHANGED <<head, tail, cell, whead, wtail, readerVars, queue, out>>

\* ring_buf_asm_wr: memcpy of the control block.
WrSnapshot(w) ==
    /\ wpc[w] = "snapshot"
    /\ whead' = [whead EXCEPT ![w] = head]
    /\ wtail' = [wtail EXCEPT ![w] = tail]
    /\ wpc' = [wpc EXCEPT ![w] = "header"]
    /\ UNCHANGED <<head, tail, cell, wmsg, readerVars, queue, out>>

\* Slip: each unit is written with ring_buf_wr on the shared control block.
WrUnitShared(w, s, next) ==
    /\ cell' = WrCells(cell, head, tail, s)
    /\ head' = WrHead(head, tail, Len(s))
    /\ whead' = [whead EXCEPT ![w] = head']
    /\ wpc' = [wpc EXCEPT ![w] = next]
    /\ UNCHANGED <<tail, wtail, wmsg, readerVars, queue, out>>

\* One round of asm_wr's loop: write one unit at the private head, refresh
\* the private tail, stop the loop when the unit was cut short.
WrUnit(w, s, next) ==
    LET len == WrLen(whead[w], wtail[w], Len(s)) IN
    /\ cell' = WrCells(cell, whead[w], wtail[w], s)
    /\ whead' = [whead EXCEPT ![w] = WrHead(whead[w], wtail[w], Len(s))]
    /\ wtail' = [wtail EXCEPT ![w] = tail]
    /\ wpc' = [wpc EXCEPT ![w] = IF len < Len(s) THEN "publish" ELSE next]
    /\ UNCHANGED <<head, tail, wmsg, readerVars, queue, out>>

WrHeader(w) == wpc[w] = "header" /\ WrUnit(w, Header(wmsg[w]), "body")
WrBody(w)   == wpc[w] = "body"   /\ WrUnit(w, wmsg[w], "publish")

\* Slip: the whole private control block is copied back.
WrPublishBlock(w) ==
    /\ wpc[w] = "publish"
    /\ head' = whead[w] /\ tail' = wtail[w]
    /\ queue' = Append(queue, wmsg[w])
    /\ wpc' = [wpc EXCEPT ![w] = "idle"]
    /\ UNCHANGED <<cell, wmsg, whead, wtail, readerVars, out>>

\* The one store that makes the record visible.  The caller has its positive
\* result: from here on the message counts as sent.
WrPublish(w) ==
    /\ wpc[w] = "publish"
    /\ head' = whead[w]
    /\ queue' = Append(queue, wmsg[w])
    /\ wpc' = [wpc EXCEPT ![w] = "idle"]
    /\ UNCHANGED <<tail, cell, wmsg, whead, wtail, readerVars, out>>

(***************************************************************************)
(* The reader: msg_ring_buf_rd calls ring_buf_rd for the length, again for *)
(* the body, and ring_buf_drop for what its buffer cannot hold.            *)
(***************************************************************************)

\* Its callers test ring_buf_if_empty first.
RdCall ==
    /\ rphase = "idle"
    /\ ~IfEmpty(head, tail)
    /\ rphase' = "header" /\ rstep' = "first"
    /\ rneed' = HeaderLen /\ rtmp' = tail /\ rgot' = <<>>
    /\ rlen' = 0 /\ rmsg' = <<>>
    /\ UNCHANGED <<head, tail, cell, writerVars, queue, out>>

\* ring_buf_rd, ring_buf_drop up to the wrap: load pvHead, copy the bytes up
\* to it or up to the end of the buffer.
RdFirst ==
    /\ rphase # "idle" /\ rstep = "first"
    /\ LET wraps == rtmp > head /\ ToEnd(rtmp) <= rneed
           n == IF wraps THEN ToEnd(rtmp)
                ELSE IF rtmp > head THEN rneed ELSE Least(head - rtmp, rneed)
       IN  /\ rgot' = BytesAt(cell, rtmp, n)
           /\ rtmp' = IF wraps THEN 0 ELSE rtmp + n
           /\ rneed' = IF wraps THEN rneed - ToEnd(rtmp) ELSE 0
           /\ rstep' = IF wraps THEN "wrapped" ELSE "store"
    /\ UNCHANGED <<head, tail, cell, writerVars, rphase, rlen, rmsg, queue, out>>

\* After the wrap pvHead is loaded again and limits the rest.
RdWrapped ==
    /\ rstep = "wrapped"
    /\ LET n == Least(head - rtmp, rneed)
       IN  /\ rgot' = rgot \o BytesAt(cell, rtmp, n)
           /\ rtmp' = rtmp + n
    /\ rneed' = 0
    /\ rstep' = "store"
    /\ UNCHANGED <<head, tail, cell, writerVars, rphase, rlen, rmsg, queue, out>>

\* The store of pvTail that ends a ring_buf_rd or ring_buf_drop call, and the
\* start of the next call of msg_ring_buf_rd or its return.
RdNextCall(phase, need) ==
    /\ rphase' = phase /\ rstep' = "first" /\ rneed' = need
    /\ rgot' = <<>>
    /\ UNCHANGED <<queue, out>>

RdReturn(m) ==
    /\ rphase' = "idle" /\ rstep' = "first" /\ rneed' = 0
    /\ rgot' = <<>>
    /\ out' = m
    /\ queue' = IF queue = <<>> THEN <<>> ELSE Tail(queue)

RdStore ==
    /\ rstep = "store"
    /\ tail' = rtmp
    /\ CASE rphase = "header" /\ Len(rgot) # HeaderLen ->
                RdReturn(<<>>) /\ UNCHANGED <<rlen, rmsg>>
         [] rphase = "header" /\ Len(rgot) = HeaderLen ->
                /\ RdNextCall("body", Least(HeaderValue(rgot), RdBuf))
                /\ rlen' = HeaderValue(rgot)
                /\ UNCHANGED rmsg
         [] rphase = "body" /\ rlen > RdBuf ->
                /\ RdNextCall("drop", rlen - RdBuf)
                /\ rmsg' = rgot
                /\ UNCHANGED rlen
         [] rphase = "body" /\ rlen <= RdBuf ->
                RdReturn(rgot) /\ rmsg' = rgot /\ UNCHANGED rlen
         [] OTHER -> RdReturn(rmsg) /\ UNCHANGED <<rlen, rmsg>>
    /\ UNCHANGED <<head, cell, rtmp, writerVars>>

Write(w) ==
    \/ \E m \in Msgs : WrCall(w, m)
    \/ WrSnapshot(w)
    \/ WrHeader(w)
    \/ WrBody(w)
    \/ WrPublish(w)

Read == RdCall \/ RdFirst \/ RdWrapped \/ RdStore

Next == Read \/ \E w \in Writers : Write(w)

Spec == Init /\ [][Next]_vars

-----------------------------------------------------------------------------
(***************************************************************************)
(* Properties.                                                             *)
(***************************************************************************)

\* Every cursor, shared or private, stays on a cell and every cell a byte
\* (the range ring_buffer.c's para_verify asks for).
TypeOK ==
    /\ head \in Cells /\ tail \in Cells
    /\ cell \in [Cells -> Byte]
    /\ wpc \in [Writers -> {"idle", "snapshot", "header", "body", "publish"}]
    /\ wmsg \in [Writers -> Msgs \cup {<<>>}]
    /\ \A w \in Writers : wpc[w] # "idle" => wmsg[w] \in Msgs
    /\ whead \in [Writers -> Cells] /\ wtail \in [Writers -> Cells]
    /\ rphase \in {"idle", "header", "body", "drop"}
    /\ rstep \in {"first", "wrapped", "store"}
    /\ rneed \in Nat /\ rtmp \in Cells /\ rlen \in Nat
    /\ rgot \in Seq(Byte) /\ rmsg \in Seq(Byte)
    /\ queue \in Seq(Msgs) /\ out \in Seq(Byte)

\* In ring order, b is met on the way from a to c.
Between(a, b, c) == Distance(a, b) + Distance(b, c) = Distance(a, c)

\* A writer's private tail is never ahead of the real one and its private
\* head never reaches past it: what it copies stays clear of every byte the
\* reader has not consumed, whatever the reader does meanwhile.
StaysClear(w) ==
    wpc[w] \in {"header", "body", "publish"} =>
        /\ Between(wtail[w], tail, head)
        /\ Between(wtail[w], head, whead[w])

\* The room found by the test at the start of msg_ring_buf_wr is still there
\* when the units are copied, so a record is never published half.
StillFits(w) ==
    LET room == HeaderLen + Len(wmsg[w]) IN
    /\ wpc[w] = "snapshot" => Remain(head, tail) >= room
    /\ wpc[w] = "header" =>
          whead[w] = head /\ Remain(head, wtail[w]) >= room
    /\ wpc[w] = "body" =>
          /\ Distance(head, whead[w]) = HeaderLen
          /\ Remain(whead[w], wtail[w]) >= Len(wmsg[w])
    /\ wpc[w] = "publish" => Distance(head, whead[w]) = room

\* A record in the making overwrites nothing unread and is published whole.
WriterSound == \A w \in Writers : StaysClear(w) /\ StillFits(w)

\* What the reader has copied is a prefix of the published bytes, although it
\* looks at pvHead at two different moments and the writer keeps writing.
ReaderSound ==
    /\ rphase = "idle" => rstep = "first" /\ rgot = <<>>
    /\ rphase # "idle" /\ rstep = "first" => rtmp = tail /\ rgot = <<>>
    /\ rstep = "wrapped" => tail > head /\ rtmp = 0
    /\ rphase # "idle" =>
          /\ rstep \in {"first", "store"} => Len(rgot) = Distance(tail, rtmp)
          /\ rstep = "wrapped" => Len(rgot) = Size - tail
          /\ Len(rgot) <= DataLen(head, tail)
          /\ \A i \in 1..Len(rgot) : rgot[i] = cell[Advance(tail, i - 1)]

\* The ring is a bounded queue of bytes between one writer and one reader.
Stream == INSTANCE ByteFifo WITH Capacity <- Size - 1, bytes <- Contents
ByteStream == Stream!Spec

\* msg_ring_buf_wr and msg_ring_buf_rd are a queue of messages: nothing
\* accepted is lost, duplicated, reordered or torn.
Messages == INSTANCE MsgFifo
MessageFifo == Messages!Spec

\* Neither side touches what is the other's: the writer stays clear of unread
\* bytes, the reader copies what is published, the cursors stay in the ring.
CursorsSound == TypeOK /\ WriterSound /\ ReaderSound
=============================================================================
