-------------------------- MODULE RingBufferProofs --------------------------
(***************************************************************************)
(* What RingBuffer's runs check on six cells, for every size of the ring   *)
(* and every set of messages: with one writer and one reader the cursors   *)
(* never leave the buffer, the writer never touches an unread byte, the    *)
(* reader never takes an unpublished one, a record is never cut short, and *)
(* the ring implements a bounded queue of bytes, and with the framing over *)
(* it a queue of messages.  After it the two rings of RemoteReport, taken  *)
(* as queues: no record is ever stranded in one.                           *)
(***************************************************************************)
EXTENDS RingBuffer, RemoteReport, FiniteSetTheorems, TLAPS

Inv == TypeOK /\ WriterSound /\ ReaderSound

-----------------------------------------------------------------------------
(* The cursor arithmetic. *)

\* ring_buf_data_len measures the way from the tail to the head, and with
\* ring_buf_remain it makes up all cells but the one kept empty.
LEMMA LengthsAddUp ==
    ASSUME NEW h \in Cells, NEW t \in Cells
    PROVE  /\ DataLen(h, t) = Distance(t, h)
           /\ DataLen(h, t) + Remain(h, t) = Size - 1
           /\ DataLen(h, t) \in 0..(Size - 1)
           /\ Remain(h, t) \in 0..(Size - 1)
BY SizeAssumption DEF DataLen, Remain, Distance, Cells

\* ring_buf_wr accepts what fits, no more and no less.
LEMMA WritesWhatFits ==
    ASSUME NEW h \in Cells, NEW t \in Cells, NEW n \in Nat
    PROVE  WrLen(h, t, n) = Least(n, Remain(h, t))
BY SizeAssumption DEF WrLen, Least, Remain, ToEnd, Cells

\* ring_buf_wr leaves the head that many cells further, inside the buffer.
LEMMA WriteAdvancesHead ==
    ASSUME NEW h \in Cells, NEW t \in Cells, NEW n \in Nat
    PROVE  /\ WrHead(h, t, n) \in Cells
           /\ Distance(h, WrHead(h, t, n)) = WrLen(h, t, n)
           /\ Between(t, h, WrHead(h, t, n))
BY SizeAssumption, WritesWhatFits
   DEF WrHead, WrLen, Least, Remain, ToEnd, Distance, Between, Cells

\* Going k cells on and coming back.
LEMMA AdvanceDistance ==
    ASSUME NEW p \in Cells
    PROVE  /\ \A k \in 0..(Size - 1) :
                 Advance(p, k) \in Cells /\ Distance(p, Advance(p, k)) = k
           /\ \A c \in Cells :
                 Distance(p, c) \in 0..(Size - 1) /\ Advance(p, Distance(p, c)) = c
BY SizeAssumption DEF Advance, Distance, Cells

\* The copies of ring_buf_wr touch only the accepted cells from the head on.
LEMMA WriteTouches ==
    ASSUME NEW c \in [Cells -> Byte], NEW h \in Cells, NEW t \in Cells,
           NEW s \in Seq(Byte)
    PROVE  /\ WrCells(c, h, t, s) \in [Cells -> Byte]
           /\ \A i \in Cells : Distance(h, i) >= WrLen(h, t, Len(s))
                                  => WrCells(c, h, t, s)[i] = c[i]
<1>1. Len(s) \in Nat /\ WrLen(h, t, Len(s)) = Least(Len(s), Remain(h, t))
  BY WritesWhatFits
<1>2. WrLen(h, t, Len(s)) <= Len(s) /\ WrLen(h, t, Len(s)) \in Int
  BY <1>1, LengthsAddUp DEF Least
<1>3. \A i \in Cells : Distance(h, i) \in 0..(Size - 1)
  BY AdvanceDistance
<1>4. ASSUME NEW i \in Cells PROVE WrCells(c, h, t, s)[i] \in Byte
  <2>1. CASE Distance(h, i) < WrLen(h, t, Len(s))
    <3>1. Distance(h, i) + 1 \in 1..Len(s)
      BY <2>1, <1>1, <1>2, <1>3
    <3>2. s[Distance(h, i) + 1] \in Byte
      BY <3>1
    <3> QED BY <2>1, <3>2 DEF WrCells
  <2>2. CASE ~(Distance(h, i) < WrLen(h, t, Len(s)))
    BY <2>2 DEF WrCells
  <2> QED BY <2>1, <2>2
<1>5. WrCells(c, h, t, s) \in [Cells -> Byte]
  BY <1>4 DEF WrCells
<1>6. \A i \in Cells : Distance(h, i) >= WrLen(h, t, Len(s))
                          => WrCells(c, h, t, s)[i] = c[i]
  BY <1>2, <1>3 DEF WrCells
<1> QED BY <1>5, <1>6

-----------------------------------------------------------------------------
(* The inductive invariant. *)

\* A 16-bit number splits into two bytes.
LEMMA ByteSplit ==
    ASSUME NEW n \in Nat, n < 256 * 256
    PROVE  n % 256 \in 0..255 /\ n \div 256 \in 0..255
OBVIOUS

\* A header is two bytes.
LEMMA HeaderBytes ==
    ASSUME NEW m \in Msgs
    PROVE  Header(m) \in Seq(Byte) /\ Len(Header(m)) = 2 /\ m \in Seq(Byte)
<1>1. m \in Seq(Byte) /\ Len(m) \in Nat /\ Len(m) < 256 * 256
  BY MsgsAssumption
<1>2. Len(m) % 256 \in Byte /\ Len(m) \div 256 \in Byte
  BY <1>1, ByteSplit DEF Byte
<1> QED BY <1>1, <1>2 DEF Header

\* A unit of n bytes written at the private head h against the private tail
\* t, seen from the shared cursors hd and tl, whose new private head is g.
LEMMA UnitArithmetic ==
    ASSUME NEW hd \in Cells, NEW tl \in Cells, NEW h \in Cells, NEW t \in Cells,
           NEW g \in Cells, NEW n \in Nat,
           Between(t, tl, hd), Between(t, hd, h), Between(t, h, g),
           Distance(h, g) = n, Remain(h, t) >= n
    PROVE  /\ Between(tl, tl, hd) /\ Between(tl, hd, g)
           /\ Distance(hd, g) = Distance(hd, h) + n
           /\ Remain(g, tl) >= Remain(h, t) - n
           /\ \A k \in 0..(Size - 1) :
                 k < DataLen(hd, tl) => Distance(h, Advance(tl, k)) >= n
<1>1. Between(tl, tl, hd)
  BY SizeAssumption DEF Between, Distance, Cells
<1>2. Between(tl, hd, g)
  BY SizeAssumption DEF Between, Distance, Cells
<1>3. Distance(hd, g) = Distance(hd, h) + n
  BY SizeAssumption DEF Between, Distance, Cells
<1>4. Remain(g, tl) >= Remain(h, t) - n
  BY SizeAssumption DEF Between, Distance, Remain, Cells
<1>5. \A k \in 0..(Size - 1) :
         k < DataLen(hd, tl) => Distance(h, Advance(tl, k)) >= n
  BY SizeAssumption DEF Between, Distance, Remain, DataLen, Advance, Cells
<1> QED BY <1>1, <1>2, <1>3, <1>4, <1>5

\* Bytes taken out of the ring are bytes.
LEMMA BytesAtType ==
    ASSUME NEW c \in [Cells -> Byte], NEW p \in Cells, NEW n \in 0..Size
    PROVE  /\ BytesAt(c, p, n) \in Seq(Byte)
           /\ Len(BytesAt(c, p, n)) = n
           /\ \A i \in 1..n : BytesAt(c, p, n)[i] = c[Advance(p, i - 1)]
<1>1. n \in Nat
  BY SizeAssumption
<1>2. \A i \in 1..n : Advance(p, i - 1) \in Cells
  BY SizeAssumption, AdvanceDistance
<1>3. \A i \in 1..n : c[Advance(p, i - 1)] \in Byte
  BY <1>2
<1> QED BY <1>1, <1>3 DEF BytesAt

\* Two copied stretches in a row.
LEMMA ConcatBytes ==
    ASSUME NEW s \in Seq(Byte), NEW t \in Seq(Byte)
    PROVE  s \o t \in Seq(Byte) /\ Len(s \o t) = Len(s) + Len(t)
OBVIOUS

\* The length in front of a body is a number.
LEMMA ByteElement ==
    ASSUME NEW s \in Seq(Byte), NEW i \in 1..Len(s)
    PROVE  s[i] \in Nat
<1>1. s[i] \in Byte
  OBVIOUS
<1>2. Byte \subseteq Nat
  BY DEF Byte
<1> QED BY <1>1, <1>2

LEMMA HeaderValueType ==
    ASSUME NEW s \in Seq(Byte), Len(s) = 2
    PROVE  HeaderValue(s) \in Nat
<1>1. 1 \in 1..Len(s) /\ 2 \in 1..Len(s)
  OBVIOUS
<1>2. s[1] \in Nat /\ s[2] \in Nat
  BY <1>1, ByteElement
<1> QED BY <1>2 DEF HeaderValue

LEMMA InitInv == Init => Inv
<1> SUFFICES ASSUME Init PROVE Inv
  OBVIOUS
<1>1. TypeOK
  BY SizeAssumption DEF Init, TypeOK, Cells, Byte
<1>2. WriterSound
  BY DEF Init, WriterSound, StaysClear, StillFits
<1>3. ReaderSound
  BY DEF Init, ReaderSound
<1> QED BY <1>1, <1>2, <1>3 DEF Inv

\* The room for a unit is there: it is not cut short.
LEMMA UnitFits ==
    ASSUME Inv, NEW w \in Writers,
           NEW s \in Seq(Byte),
           wpc[w] \in {"header", "body"},
           wpc[w] = "header" => s = Header(wmsg[w]),
           wpc[w] = "body" => s = wmsg[w]
    PROVE  /\ Remain(whead[w], wtail[w]) >= Len(s)
           /\ WrLen(whead[w], wtail[w], Len(s)) = Len(s)
           /\ Len(wmsg[w]) \in Nat /\ Len(Header(wmsg[w])) = 2
           /\ Remain(whead[w], wtail[w]) \in Int
<1> DEFINE h == whead[w]
           t == wtail[w]
           len == WrLen(h, t, Len(s))
<1>1. /\ h \in Cells /\ t \in Cells /\ Len(s) \in Nat
      /\ head \in Cells /\ tail \in Cells /\ cell \in [Cells -> Byte]
      /\ wmsg[w] \in Msgs
  BY DEF Inv, TypeOK
<1>2. /\ Between(t, tail, head) /\ Between(t, head, h)
      /\ wpc[w] = "header" => h = head /\ Remain(head, t) >= 2 + Len(wmsg[w])
      /\ wpc[w] = "body" => Distance(head, h) = 2 /\ Remain(h, t) >= Len(wmsg[w])
  BY DEF Inv, WriterSound, StaysClear, StillFits, HeaderLen
<1>3. /\ Len(wmsg[w]) \in Nat /\ Len(Header(wmsg[w])) = 2
      /\ Remain(h, t) \in Int
  <2>1. Len(wmsg[w]) \in Nat /\ Len(Header(wmsg[w])) = 2
    BY <1>1, HeaderBytes
  <2>2. Remain(h, t) \in Int
    BY <1>1, SizeAssumption DEF Remain, Cells
  <2> QED BY <2>1, <2>2
<1>4. Remain(h, t) >= Len(s) /\ len = Len(s)
  <2>1. Remain(h, t) >= Len(s)
    <3>1. CASE wpc[w] = "header"
      <4>1. Len(s) = 2 /\ h = head /\ Remain(h, t) >= 2 + Len(wmsg[w])
        BY <3>1, <1>2, <1>3
      <4> QED BY <4>1, <1>3
    <3>2. CASE wpc[w] = "body"
      BY <3>2, <1>2
    <3> QED BY <3>1, <3>2
  <2>2. len = Least(Len(s), Remain(h, t))
    BY <1>1, WritesWhatFits
  <2> QED BY <2>1, <2>2, <1>1, <1>3 DEF Least
<1> QED BY <1>3, <1>4

\* A unit copied by asm_wr stays clear of the unread bytes.
LEMMA WrUnitInv ==
    ASSUME Inv, NEW w \in Writers, Writers = {w},
           NEW s \in Seq(Byte), NEW next \in {"body", "publish"},
           wpc[w] \in {"header", "body"},
           wpc[w] = "header" => s = Header(wmsg[w]) /\ next = "body",
           wpc[w] = "body" => s = wmsg[w] /\ next = "publish",
           WrUnit(w, s, next)
    PROVE  Inv' /\ Contents' = Contents
<1> DEFINE h == whead[w]
           t == wtail[w]
           len == WrLen(h, t, Len(s))
<1>1. /\ h \in Cells /\ t \in Cells /\ Len(s) \in Nat
      /\ head \in Cells /\ tail \in Cells /\ cell \in [Cells -> Byte]
      /\ wmsg[w] \in Msgs
  BY DEF Inv, TypeOK
<1>2. /\ Between(t, tail, head) /\ Between(t, head, h)
      /\ wpc[w] = "header" => h = head /\ Remain(head, t) >= 2 + Len(wmsg[w])
      /\ wpc[w] = "body" => Distance(head, h) = 2 /\ Remain(h, t) >= Len(wmsg[w])
  BY DEF Inv, WriterSound, StaysClear, StillFits, HeaderLen
<1>3. Len(wmsg[w]) \in Nat /\ Len(Header(wmsg[w])) = 2 /\ Remain(h, t) \in Int
  BY UnitFits
<1>4. Remain(h, t) >= Len(s) /\ len = Len(s)
  BY UnitFits
<1> DEFINE g == WrHead(h, t, Len(s))
<1>5. g \in Cells /\ Distance(h, g) = Len(s) /\ Between(t, h, g)
  BY <1>1, <1>4, WriteAdvancesHead
<1>6. /\ Between(tail, tail, head) /\ Between(tail, head, g)
      /\ Distance(head, g) = Distance(head, h) + Len(s)
      /\ Remain(g, tail) >= Remain(h, t) - Len(s)
      /\ \A k \in 0..(Size - 1) :
            k < DataLen(head, tail) => Distance(h, Advance(tail, k)) >= Len(s)
  BY <1>1, <1>2, <1>4, <1>5, UnitArithmetic
<1>7. /\ cell' = WrCells(cell, h, t, s)
      /\ whead' = [whead EXCEPT ![w] = g]
      /\ wtail' = [wtail EXCEPT ![w] = tail]
      /\ wpc' = [wpc EXCEPT ![w] = next]
      /\ UNCHANGED <<head, tail, wmsg, readerVars, queue, out>>
  <2>1. ~(len < Len(s))
    BY <1>1, <1>4
  <2> QED BY <2>1 DEF WrUnit
<1>8. whead'[w] = g /\ wtail'[w] = tail /\ wpc'[w] = next
  BY <1>7 DEF Inv, TypeOK
<1>9. /\ cell' \in [Cells -> Byte]
      /\ \A i \in Cells : Distance(h, i) >= Len(s) => cell'[i] = cell[i]
  BY <1>1, <1>4, <1>7, WriteTouches
\* The unread bytes lie outside the accepted cells.
<1>10. \A k \in 0..(Size - 1) :
         k < DataLen(head, tail) => cell'[Advance(tail, k)] = cell[Advance(tail, k)]
  BY <1>1, <1>6, <1>9, AdvanceDistance
<1>11. TypeOK'
  BY <1>1, <1>5, <1>7, <1>9 DEF Inv, TypeOK, readerVars
<1>12. WriterSound'
  <2>1. StaysClear(w)'
    BY <1>6, <1>8, <1>7 DEF StaysClear, Between, Distance
  <2>2. CASE wpc[w] = "header"
    <3>1. next = "body" /\ Len(s) = 2 /\ h = head
      BY <2>2, <1>2, <1>3
    <3>2. Distance(head, g) = 2
      BY <3>1, <1>1, <1>5
    <3>3. Remain(g, tail) >= Len(wmsg[w])
      <4>1. Remain(h, t) >= 2 + Len(wmsg[w])
        BY <2>2, <1>2
      <4>2. Remain(g, tail) \in Int
        BY <1>1, <1>5, LengthsAddUp, SizeAssumption
      <4> QED BY <4>1, <4>2, <3>1, <1>3, <1>6
    <3> QED BY <2>1, <3>1, <3>2, <3>3, <1>7, <1>8
            DEF WriterSound, StillFits, HeaderLen, Distance, Remain
  <2>3. CASE wpc[w] = "body"
    <3>1. next = "publish" /\ Distance(head, g) = 2 + Len(wmsg[w])
      BY <2>3, <1>1, <1>2, <1>3, <1>6
    <3> QED BY <2>1, <3>1, <1>7, <1>8
            DEF WriterSound, StillFits, HeaderLen, Distance
  <2> QED BY <2>2, <2>3
<1>13. ReaderSound'
  <2>1. Len(rgot) \in Nat
    BY DEF Inv, TypeOK
  <2>2. rphase # "idle" =>
          \A i \in 1..Len(rgot) : cell'[Advance(tail, i - 1)] = cell[Advance(tail, i - 1)]
    <3> SUFFICES ASSUME rphase # "idle", NEW i \in 1..Len(rgot)
                 PROVE  cell'[Advance(tail, i - 1)] = cell[Advance(tail, i - 1)]
      OBVIOUS
    <3>1. Len(rgot) <= DataLen(head, tail) /\ DataLen(head, tail) \in 0..(Size - 1)
      BY <1>1, LengthsAddUp DEF Inv, ReaderSound
    <3>2. i - 1 \in 0..(Size - 1) /\ i - 1 < DataLen(head, tail)
      BY <3>1, <2>1, SizeAssumption
    <3> QED BY <3>2, <1>10
  <2> QED BY <1>7, <2>2 DEF Inv, ReaderSound, readerVars, DataLen, Distance, Advance
<1>14. Contents' = Contents
  <2>1. DataLen(head, tail) \in 0..(Size - 1)
    BY <1>1, LengthsAddUp
  <2>2. \A i \in 1..DataLen(head, tail) :
           cell'[Advance(tail, i - 1)] = cell[Advance(tail, i - 1)]
    BY <2>1, <1>10, SizeAssumption
  <2> QED BY <1>7, <2>2 DEF Contents, BytesAt, DataLen, Advance
<1> QED BY <1>11, <1>12, <1>13, <1>14 DEF Inv

\* The first and second step of a writer touch nothing shared.
LEMMA WrBeginInv ==
    ASSUME Inv, NEW w \in Writers, Writers = {w},
           (\E m \in Msgs : WrCall(w, m)) \/ WrSnapshot(w)
    PROVE  Inv' /\ Contents' = Contents
<1>1. /\ head \in Cells /\ tail \in Cells
      /\ wpc \in [Writers -> {"idle", "snapshot", "header", "body", "publish"}]
      /\ wmsg \in [Writers -> Msgs \cup {<<>>}]
      /\ whead \in [Writers -> Cells] /\ wtail \in [Writers -> Cells]
  BY DEF Inv, TypeOK
<1>2. CASE \E m \in Msgs : WrCall(w, m)
  <2>1. PICK m \in Msgs : WrCall(w, m)
    BY <1>2
  <2>2. TypeOK'
    BY <2>1, <1>1 DEF WrCall, Inv, TypeOK, readerVars
  <2>3. WriterSound'
    BY <2>1, <1>1 DEF WrCall, WriterSound, StaysClear, StillFits, RecordSize,
                      Remain
  <2>4. ReaderSound'
    BY <2>1 DEF WrCall, Inv, ReaderSound, readerVars, Distance, DataLen, Advance
  <2> QED BY <2>1, <2>2, <2>3, <2>4
          DEF WrCall, Inv, Contents, BytesAt, DataLen, Advance
<1>3. CASE WrSnapshot(w)
  <2>1. TypeOK'
    BY <1>3, <1>1 DEF WrSnapshot, Inv, TypeOK, readerVars
  <2>2. /\ wpc'[w] = "header" /\ whead'[w] = head /\ wtail'[w] = tail
        /\ UNCHANGED <<head, tail, wmsg>>
    BY <1>3, <1>1 DEF WrSnapshot
  <2>3. Remain(head, tail) >= HeaderLen + Len(wmsg[w])
    BY <1>3 DEF WrSnapshot, Inv, WriterSound, StillFits
  <2>4. Between(tail, tail, head) /\ Between(tail, head, head)
    BY <1>1, SizeAssumption DEF Between, Distance, Cells
  <2>5. WriterSound'
    BY <2>2, <2>3, <2>4
       DEF WriterSound, StaysClear, StillFits, Between, Distance, Remain
  <2>6. ReaderSound'
    BY <1>3 DEF WrSnapshot, Inv, ReaderSound, readerVars, Distance, DataLen,
                Advance
  <2> QED BY <1>3, <2>1, <2>5, <2>6
          DEF WrSnapshot, Inv, Contents, BytesAt, DataLen, Advance
<1> QED BY <1>2, <1>3

\* Publishing moves the head over the copied cells, away from the tail.
LEMMA PublishArithmetic ==
    ASSUME NEW hd \in Cells, NEW tl \in Cells, NEW g \in Cells, Between(tl, hd, g)
    PROVE  /\ DataLen(hd, tl) <= DataLen(g, tl)
           /\ tl > hd => tl > g
BY SizeAssumption DEF Between, Distance, DataLen, Cells

\* The unread bytes, then the copied ones, all between two visits of t.
LEMMA BetweenShrinks ==
    ASSUME NEW t \in Cells, NEW tl \in Cells, NEW hd \in Cells, NEW g \in Cells,
           Between(t, tl, hd), Between(t, hd, g)
    PROVE  Between(tl, hd, g)
BY SizeAssumption DEF Between, Distance, Cells

LEMMA WrPublishInv ==
    ASSUME Inv, NEW w \in Writers, Writers = {w}, WrPublish(w)
    PROVE  /\ Inv'
           /\ Len(Contents') \in Len(Contents)..(Size - 1)
           /\ Contents \in Seq(Byte) /\ Contents' \in Seq(Byte)
           /\ \A i \in 1..Len(Contents) : Contents'[i] = Contents[i]
<1>1. /\ head \in Cells /\ tail \in Cells /\ whead[w] \in Cells
      /\ wtail[w] \in Cells /\ cell \in [Cells -> Byte] /\ wmsg[w] \in Msgs
      /\ wpc \in [Writers -> {"idle", "snapshot", "header", "body", "publish"}]
  BY DEF Inv, TypeOK, WrPublish
<1>2. /\ head' = whead[w] /\ wpc'[w] = "idle"
      /\ UNCHANGED <<tail, cell, wmsg, whead, wtail, readerVars, out>>
  BY <1>1 DEF WrPublish
<1>3. Between(wtail[w], tail, head) /\ Between(wtail[w], head, whead[w])
  BY DEF WrPublish, Inv, WriterSound, StaysClear
<1>4. Between(tail, head, whead[w])
  BY <1>1, <1>3, BetweenShrinks
<1>5. /\ DataLen(head, tail) <= DataLen(head', tail)
      /\ tail > head => tail > head'
      /\ DataLen(head, tail) \in 0..(Size - 1)
      /\ DataLen(head', tail) \in 0..(Size - 1)
  BY <1>1, <1>2, <1>4, PublishArithmetic, LengthsAddUp
<1>6. TypeOK'
  BY <1>1, <1>2 DEF WrPublish, Inv, TypeOK, readerVars
<1>7. WriterSound'
  BY <1>2 DEF WriterSound, StaysClear, StillFits
<1>8. ReaderSound'
  <2>1. Len(rgot) \in Nat
    BY DEF Inv, TypeOK
  <2>2. rphase # "idle" => Len(rgot) <= DataLen(head', tail)
    BY <2>1, <1>5, SizeAssumption DEF Inv, ReaderSound
  <2>3. rstep = "wrapped" => tail > head' /\ rtmp = 0
    BY <1>5 DEF Inv, ReaderSound
  <2> QED BY <1>2, <2>2, <2>3
          DEF Inv, ReaderSound, readerVars, Distance, DataLen, Advance
<1>9. /\ Contents = BytesAt(cell, tail, DataLen(head, tail))
      /\ Contents' = BytesAt(cell, tail, DataLen(head', tail))
  BY <1>2 DEF Contents, DataLen, BytesAt, Advance
<1>10. /\ Contents \in Seq(Byte) /\ Contents' \in Seq(Byte)
       /\ Len(Contents) = DataLen(head, tail)
       /\ Len(Contents') = DataLen(head', tail)
       /\ \A i \in 1..DataLen(head, tail) : Contents'[i] = Contents[i]
  <2>1. DataLen(head, tail) \in 0..Size /\ DataLen(head', tail) \in 0..Size
    BY <1>5, SizeAssumption
  <2>2. /\ BytesAt(cell, tail, DataLen(head, tail)) \in Seq(Byte)
        /\ Len(BytesAt(cell, tail, DataLen(head, tail))) = DataLen(head, tail)
        /\ \A i \in 1..DataLen(head, tail) :
             BytesAt(cell, tail, DataLen(head, tail))[i] = cell[Advance(tail, i - 1)]
    BY <2>1, <1>1, BytesAtType
  <2>3. /\ BytesAt(cell, tail, DataLen(head', tail)) \in Seq(Byte)
        /\ Len(BytesAt(cell, tail, DataLen(head', tail))) = DataLen(head', tail)
        /\ \A i \in 1..DataLen(head', tail) :
             BytesAt(cell, tail, DataLen(head', tail))[i] = cell[Advance(tail, i - 1)]
    BY <2>1, <1>1, BytesAtType
  <2>4. \A i \in 1..DataLen(head, tail) : i \in 1..DataLen(head', tail)
    BY <1>5, SizeAssumption
  <2> QED BY <2>2, <2>3, <2>4, <1>9
<1> QED BY <1>5, <1>6, <1>7, <1>8, <1>10, SizeAssumption DEF Inv

\* Where ring_buf_rd stops when it looks at the head hd only once, and how far
\* that is.
LEMMA ReadArithmetic ==
    ASSUME NEW hd \in Cells, NEW tl \in Cells, NEW need \in Nat
    PROVE  /\ tl > hd /\ ToEnd(tl) <= need =>
                 /\ ToEnd(tl) \in 0..Size /\ need - ToEnd(tl) \in Nat
                 /\ ToEnd(tl) <= DataLen(hd, tl)
           /\ tl > hd /\ ~(ToEnd(tl) <= need) =>
                 /\ need \in 0..Size /\ tl + need \in Cells
                 /\ Distance(tl, tl + need) = need /\ need <= DataLen(hd, tl)
           /\ ~(tl > hd) =>
                 LET n == Least(hd - tl, need) IN
                 /\ n \in 0..Size /\ tl + n \in Cells
                 /\ Distance(tl, tl + n) = n /\ n <= DataLen(hd, tl)
BY SizeAssumption DEF ToEnd, Distance, DataLen, Least, Cells

\* The second half of a read that went over the end of the buffer.
LEMMA WrapArithmetic ==
    ASSUME NEW hd \in Cells, NEW tl \in Cells, NEW need \in Nat, tl > hd
    PROVE  LET n == Least(hd - 0, need) IN
           /\ n \in 0..Size /\ 0 + n \in Cells
           /\ Distance(tl, 0 + n) = Size - tl + n
           /\ Size - tl + n <= DataLen(hd, tl)
           /\ \A j \in 1..n : Advance(0, j - 1) = Advance(tl, (Size - tl) + j - 1)
BY SizeAssumption DEF Distance, DataLen, Least, Advance, Cells

\* Consuming r bytes, up to the cell p.
LEMMA ConsumeArithmetic ==
    ASSUME NEW hd \in Cells, NEW tl \in Cells, NEW p \in Cells, NEW r \in Nat,
           Distance(tl, p) = r, r <= DataLen(hd, tl)
    PROVE  /\ DataLen(hd, p) = DataLen(hd, tl) - r
           /\ Remain(hd, p) >= Remain(hd, tl)
           /\ \A t \in Cells : Between(t, tl, hd) => Between(t, p, hd)
           /\ \A i \in 1..DataLen(hd, p) : Advance(p, i - 1) = Advance(tl, (i + r) - 1)
<1>1. DataLen(hd, p) = DataLen(hd, tl) - r
  BY SizeAssumption DEF Distance, DataLen, Cells
<1>2. Remain(hd, p) >= Remain(hd, tl)
  BY SizeAssumption DEF Distance, DataLen, Remain, Cells
<1>3. \A t \in Cells : Between(t, tl, hd) => Between(t, p, hd)
  BY SizeAssumption DEF Distance, DataLen, Between, Cells
<1>4. \A i \in 1..DataLen(hd, p) : Advance(p, i - 1) = Advance(tl, (i + r) - 1)
  BY SizeAssumption DEF Distance, DataLen, Advance, Cells
<1> QED BY <1>1, <1>2, <1>3, <1>4

\* The reader's steps but the last store pvTail nowhere.
LEMMA RdCopyInv ==
    ASSUME Inv, RdCall \/ RdFirst \/ RdWrapped
    PROVE  Inv' /\ Contents' = Contents
<1>1. /\ head \in Cells /\ tail \in Cells /\ cell \in [Cells -> Byte]
      /\ rneed \in Nat /\ rtmp \in Cells /\ rgot \in Seq(Byte)
  BY DEF Inv, TypeOK
<1>2. UNCHANGED <<head, tail, cell, writerVars, queue, out>>
  BY DEF RdCall, RdFirst, RdWrapped
<1>3. WriterSound' /\ Contents' = Contents
  BY <1>2 DEF Inv, WriterSound, StaysClear, StillFits, writerVars, Contents,
              BytesAt, DataLen, Remain, Distance, Between, Advance
<1>4. CASE RdCall
  <2>1. TypeOK'
    BY <1>4, <1>1, <1>2 DEF RdCall, Inv, TypeOK, writerVars, HeaderLen
  <2>2. Distance(tail, tail) = 0 /\ DataLen(head, tail) >= 0
    BY <1>1, SizeAssumption DEF Distance, DataLen, Cells
  <2>3. /\ rphase' = "header" /\ rstep' = "first" /\ rtmp' = tail
        /\ rgot' = <<>> /\ tail' = tail /\ head' = head /\ cell' = cell
    BY <1>4 DEF RdCall
  <2>4. ReaderSound'
    BY <2>2, <2>3 DEF ReaderSound, Distance, DataLen
  <2> QED BY <1>3, <2>1, <2>4 DEF Inv
<1>5. CASE RdFirst
  <2>1. rphase # "idle" /\ rstep = "first" /\ rtmp = tail
    BY <1>5 DEF RdFirst, Inv, ReaderSound
  <2> DEFINE wraps == tail > head /\ ToEnd(tail) <= rneed
             n == IF wraps THEN ToEnd(tail)
                  ELSE IF tail > head THEN rneed ELSE Least(head - tail, rneed)
  <2>2. /\ rgot' = BytesAt(cell, tail, n)
        /\ rtmp' = IF wraps THEN 0 ELSE tail + n
        /\ rneed' = IF wraps THEN rneed - ToEnd(tail) ELSE 0
        /\ rstep' = IF wraps THEN "wrapped" ELSE "store"
        /\ UNCHANGED <<rphase, rlen, rmsg>>
    BY <1>5, <2>1 DEF RdFirst
  <2>3. /\ n \in 0..Size /\ n <= DataLen(head, tail)
        /\ wraps => n = Size - tail /\ rneed - ToEnd(tail) \in Nat
        /\ ~wraps => tail + n \in Cells /\ Distance(tail, tail + n) = n
    BY <1>1, ReadArithmetic DEF ToEnd
  <2>4. /\ rgot' \in Seq(Byte) /\ Len(rgot') = n
        /\ \A i \in 1..n : rgot'[i] = cell[Advance(tail, i - 1)]
    BY <1>1, <2>2, <2>3, BytesAtType
  <2>5. TypeOK'
    <3>1. rneed' \in Nat /\ rtmp' \in Cells /\ rstep' \in {"wrapped", "store"}
      BY <2>2, <2>3, SizeAssumption DEF Cells
    <3> QED BY <1>2, <2>2, <2>4, <3>1 DEF Inv, TypeOK, writerVars
  <2>6. ReaderSound'
    <3>1. CASE wraps
      BY <3>1, <1>2, <2>1, <2>2, <2>3, <2>4
         DEF ReaderSound, Distance, DataLen, Advance
    <3>2. CASE ~wraps
      BY <3>2, <1>2, <2>1, <2>2, <2>3, <2>4
         DEF ReaderSound, Distance, DataLen, Advance
    <3> QED BY <3>1, <3>2
  <2> QED BY <1>3, <2>5, <2>6 DEF Inv
<1>6. CASE RdWrapped
  <2>1. /\ rphase # "idle" /\ rstep = "wrapped" /\ rtmp = 0 /\ tail > head
        /\ Len(rgot) = Size - tail
        /\ \A i \in 1..Len(rgot) : rgot[i] = cell[Advance(tail, i - 1)]
    BY <1>6 DEF RdWrapped, Inv, ReaderSound
  <2> DEFINE n == Least(head - 0, rneed)
             more == BytesAt(cell, 0, n)
  <2>2. /\ rgot' = rgot \o more /\ rtmp' = 0 + n /\ rneed' = 0
        /\ rstep' = "store" /\ UNCHANGED <<rphase, rlen, rmsg>>
    BY <1>6, <2>1 DEF RdWrapped
  <2>3. /\ n \in 0..Size /\ 0 + n \in Cells
        /\ Distance(tail, 0 + n) = Size - tail + n
        /\ Size - tail + n <= DataLen(head, tail)
        /\ \A j \in 1..n : Advance(0, j - 1) = Advance(tail, (Size - tail) + j - 1)
    BY <1>1, <2>1, WrapArithmetic
  <2>4. /\ more \in Seq(Byte) /\ Len(more) = n
        /\ \A j \in 1..n : more[j] = cell[Advance(tail, (Size - tail) + j - 1)]
    <3>1. 0 \in Cells
      BY SizeAssumption DEF Cells
    <3> HIDE DEF n
    <3> QED BY <1>1, <2>3, <3>1, BytesAtType
  <2>5. /\ rgot' \in Seq(Byte) /\ Len(rgot') = Size - tail + n
        /\ \A i \in 1..Len(rgot') : rgot'[i] = cell[Advance(tail, i - 1)]
    <3> HIDE DEF n, more
    <3>1. rgot' \in Seq(Byte) /\ Len(rgot') = Size - tail + n
      <4>1. rgot \o more \in Seq(Byte) /\ Len(rgot \o more) = Len(rgot) + Len(more)
        BY <1>1, <2>4, ConcatBytes
      <4> QED BY <4>1, <2>1, <2>2, <2>4
    <3>2. ASSUME NEW i \in 1..Len(rgot')
          PROVE  rgot'[i] = cell[Advance(tail, i - 1)]
      <4>1. Size - tail \in Nat /\ n \in Nat /\ i \in 1..(Size - tail + n)
        BY <1>1, <2>3, <3>1, SizeAssumption DEF Cells
      <4>2. CASE i <= Size - tail
        BY <4>1, <4>2, <1>1, <2>1, <2>2, <2>4
      <4>3. CASE i > Size - tail
        <5>1. i - (Size - tail) \in 1..n
          BY <4>1, <4>3
        <5>2. rgot'[i] = more[i - (Size - tail)]
          BY <4>1, <4>3, <1>1, <2>1, <2>2, <2>4
        <5>3. (Size - tail) + (i - (Size - tail)) - 1 = i - 1
          BY <4>1
        <5> QED BY <5>1, <5>2, <5>3, <2>4
      <4> QED BY <4>1, <4>2, <4>3
    <3> QED BY <3>1, <3>2
  <2>6. TypeOK'
    BY <1>2, <2>2, <2>3, <2>5 DEF Inv, TypeOK, writerVars
  <2>7. ReaderSound'
    <3> HIDE DEF n
    <3> QED BY <1>2, <2>1, <2>2, <2>3, <2>5
            DEF ReaderSound, Distance, DataLen, Advance
  <2> QED BY <1>3, <2>6, <2>7 DEF Inv
<1> QED BY <1>4, <1>5, <1>6

\* The store of pvTail gives back exactly the bytes that were copied.
LEMMA RdStoreInv ==
    ASSUME Inv, RdStore
    PROVE  /\ Inv'
           /\ Contents \in Seq(Byte) /\ Contents' \in Seq(Byte)
           /\ Len(Contents') \in 0..Len(Contents)
           /\ Len(rgot) = Len(Contents) - Len(Contents')
           /\ \A i \in 1..Len(Contents') :
                 Contents'[i] = Contents[i + (Len(Contents) - Len(Contents'))]
<1>1. /\ head \in Cells /\ tail \in Cells /\ cell \in [Cells -> Byte]
      /\ rtmp \in Cells /\ rgot \in Seq(Byte) /\ rmsg \in Seq(Byte)
      /\ rlen \in Nat /\ queue \in Seq(Msgs) /\ Len(rgot) \in Nat
  BY DEF Inv, TypeOK
<1>2. /\ rphase # "idle" /\ rstep = "store" /\ tail' = rtmp
      /\ UNCHANGED <<head, cell, rtmp, writerVars>>
  BY DEF RdStore, Inv, ReaderSound
<1>3. Len(rgot) = Distance(tail, rtmp) /\ Len(rgot) <= DataLen(head, tail)
  BY <1>2 DEF Inv, ReaderSound
<1>4. /\ DataLen(head, rtmp) = DataLen(head, tail) - Len(rgot)
      /\ Remain(head, rtmp) >= Remain(head, tail)
      /\ \A t \in Cells : Between(t, tail, head) => Between(t, rtmp, head)
      /\ \A i \in 1..DataLen(head, rtmp) :
            Advance(rtmp, i - 1) = Advance(tail, (i + Len(rgot)) - 1)
  BY <1>1, <1>3, ConsumeArithmetic
<1>5. /\ DataLen(head, tail) \in 0..Size /\ DataLen(head, rtmp) \in 0..Size
      /\ Remain(head, tail) \in Int /\ Remain(head, rtmp) \in Int
  <2>1. /\ DataLen(head, tail) \in 0..(Size - 1)
        /\ DataLen(head, rtmp) \in 0..(Size - 1)
        /\ Remain(head, tail) \in 0..(Size - 1)
        /\ Remain(head, rtmp) \in 0..(Size - 1)
    BY <1>1, LengthsAddUp
  <2> QED BY <2>1, SizeAssumption
\* Whatever call comes next, it starts at the stored tail with nothing copied.
<1>6. /\ rphase' \in {"idle", "header", "body", "drop"} /\ rstep' = "first"
      /\ rgot' = <<>> /\ rneed' \in Nat /\ rlen' \in Nat /\ rmsg' \in Seq(Byte)
      /\ queue' \in Seq(Msgs) /\ out' \in Seq(Byte)
  <2>1. queue # <<>> => Tail(queue) \in Seq(Msgs)
    BY <1>1
  <2>2. CASE rphase = "header" /\ Len(rgot) # HeaderLen
    <3>1. RdReturn(<<>>) /\ UNCHANGED <<rlen, rmsg>>
      BY <2>2 DEF RdStore
    <3> QED BY <3>1, <2>1, <1>1 DEF RdReturn
  <2>3. CASE rphase = "header" /\ Len(rgot) = HeaderLen
    <3>1. HeaderValue(rgot) \in Nat
      BY <2>3, <1>1, HeaderValueType DEF HeaderLen
    <3>2. Least(HeaderValue(rgot), RdBuf) \in Nat
      BY <3>1, RdBufAssumption DEF Least
    <3>3. /\ RdNextCall("body", Least(HeaderValue(rgot), RdBuf))
          /\ rlen' = HeaderValue(rgot) /\ UNCHANGED rmsg
      BY <2>3 DEF RdStore
    <3> QED BY <3>1, <3>2, <3>3, <1>1, Inv DEF RdNextCall, Inv, TypeOK
  <2>4. CASE rphase = "body" /\ rlen > RdBuf
    <3>1. /\ RdNextCall("drop", rlen - RdBuf) /\ rmsg' = rgot /\ UNCHANGED rlen
      BY <2>4, <1>1, RdBufAssumption DEF RdStore
    <3>2. rlen - RdBuf \in Nat
      BY <2>4, <1>1, RdBufAssumption
    <3> QED BY <3>1, <3>2, <1>1, Inv DEF RdNextCall, Inv, TypeOK
  <2>5. CASE rphase = "body" /\ rlen <= RdBuf
    <3>1. RdReturn(rgot) /\ rmsg' = rgot /\ UNCHANGED rlen
      BY <2>5, <1>1, RdBufAssumption DEF RdStore
    <3> QED BY <3>1, <2>1, <1>1 DEF RdReturn
  <2>6. CASE rphase = "drop"
    <3>1. RdReturn(rmsg) /\ UNCHANGED <<rlen, rmsg>>
      BY <2>6 DEF RdStore
    <3> QED BY <3>1, <2>1, <1>1 DEF RdReturn
  <2> QED BY <2>2, <2>3, <2>4, <2>5, <2>6, <1>1, <1>2, RdBufAssumption
          DEF Inv, TypeOK
<1>7. TypeOK'
  BY <1>1, <1>2, <1>6 DEF Inv, TypeOK, writerVars
<1>8. WriterSound'
  <2> SUFFICES ASSUME NEW w \in Writers PROVE (StaysClear(w) /\ StillFits(w))'
    BY DEF WriterSound
  <2>1. wtail[w] \in Cells /\ StaysClear(w) /\ StillFits(w)
    BY DEF Inv, TypeOK, WriterSound
  <2>2. UNCHANGED <<wpc, wmsg, whead, wtail, head>>
    BY <1>2 DEF writerVars
  <2>3. StaysClear(w)'
    BY <1>2, <1>4, <2>1, <2>2 DEF StaysClear, Between, Distance
  <2>4. wpc[w] = "snapshot" => Remain(head, rtmp) >= HeaderLen + Len(wmsg[w])
    <3>1. wpc[w] = "snapshot" => wmsg[w] \in Msgs
      BY DEF Inv, TypeOK
    <3>2. wpc[w] = "snapshot" => Len(wmsg[w]) \in Nat
      BY <3>1, MsgsAssumption
    <3> QED BY <2>1, <3>2, <1>4, <1>5 DEF StillFits, HeaderLen
  <2>5. StillFits(w)'
    BY <1>2, <2>1, <2>2, <2>4 DEF StillFits, Remain, Distance
  <2> QED BY <2>3, <2>5
<1>9. ReaderSound'
  <2>1. Distance(rtmp, rtmp) = 0
    BY <1>1, SizeAssumption DEF Distance, Cells
  <2> QED BY <1>2, <1>5, <1>6, <2>1 DEF ReaderSound, Distance, DataLen
<1>10. /\ Contents = BytesAt(cell, tail, DataLen(head, tail))
       /\ Contents' = BytesAt(cell, rtmp, DataLen(head, rtmp))
  BY <1>2 DEF Contents, DataLen, BytesAt, Advance
<1>11. /\ Contents \in Seq(Byte) /\ Len(Contents) = DataLen(head, tail)
       /\ \A i \in 1..DataLen(head, tail) : Contents[i] = cell[Advance(tail, i - 1)]
  BY <1>1, <1>5, <1>10, BytesAtType
<1>12. /\ Contents' \in Seq(Byte) /\ Len(Contents') = DataLen(head, rtmp)
       /\ \A i \in 1..DataLen(head, rtmp) : Contents'[i] = cell[Advance(rtmp, i - 1)]
  BY <1>1, <1>5, <1>10, BytesAtType
<1>13. ASSUME NEW i \in 1..Len(Contents')
       PROVE  Contents'[i] = Contents[i + (Len(Contents) - Len(Contents'))]
  <2>1. i + Len(rgot) \in 1..DataLen(head, tail)
    BY <1>1, <1>4, <1>5, <1>12
  <2>2. Len(Contents) - Len(Contents') = Len(rgot)
    BY <1>1, <1>4, <1>5, <1>11, <1>12
  <2> QED BY <2>1, <2>2, <1>4, <1>11, <1>12
<1> QED BY <1>1, <1>4, <1>5, <1>7, <1>8, <1>9, <1>11, <1>12, <1>13 DEF Inv

\* A step of the system keeps the invariant and is, for the bytes in the ring,
\* a step of the byte queue or none.
LEMMA StepInv ==
    ASSUME Inv, [Next]_vars, NEW w \in Writers, Writers = {w}
    PROVE  Inv' /\ [Stream!Next]_Contents
<1>1. CASE UNCHANGED vars
  BY <1>1 DEF vars, writerVars, readerVars, Inv, TypeOK, WriterSound, StaysClear,
     StillFits, ReaderSound, Between, Distance, DataLen, Remain, Advance,
     Contents, BytesAt
<1>2. CASE (\E m \in Msgs : WrCall(w, m)) \/ WrSnapshot(w)
  BY <1>2, WrBeginInv
<1>3. CASE WrHeader(w)
  <2>1. wmsg[w] \in Msgs
    BY <1>3 DEF WrHeader, Inv, TypeOK
  <2> QED BY <1>3, <2>1, WrUnitInv, HeaderBytes DEF WrHeader
<1>4. CASE WrBody(w)
  <2>1. wmsg[w] \in Msgs
    BY <1>4 DEF WrBody, Inv, TypeOK
  <2> QED BY <1>4, <2>1, WrUnitInv, HeaderBytes DEF WrBody
<1>5. CASE WrPublish(w)
  <2>1. Stream!Put
    BY <1>5, WrPublishInv DEF Stream!Put
  <2> QED BY <1>5, <2>1, WrPublishInv DEF Stream!Next
<1>6. CASE RdCall \/ RdFirst \/ RdWrapped
  BY <1>6, RdCopyInv
<1>7. CASE RdStore
  <2>1. Stream!Take
    BY <1>7, RdStoreInv DEF Stream!Take
  <2> QED BY <1>7, <2>1, RdStoreInv DEF Stream!Next
<1> QED BY <1>1, <1>2, <1>3, <1>4, <1>5, <1>6, <1>7 DEF Next, Read, Write

-----------------------------------------------------------------------------
(* The theorems. *)

\* With a single writer, on a ring of any size and for any messages: cursors
\* and bytes stay in range, no unread byte is overwritten, no record is cut,
\* and every byte the reader copies was published.
THEOREM RingSafety ==
    ASSUME NEW w, Writers = {w}
    PROVE  Spec => []CursorsSound
<1>1. Init => Inv
  BY InitInv
<1>2. Inv /\ [Next]_vars => Inv'
  BY StepInv
<1>3. Inv => CursorsSound
  BY DEF Inv, CursorsSound
<1> QED BY <1>1, <1>2, <1>3, PTL DEF Spec

\* With a single writer the lock-free ring of ring_buffer.c implements a
\* bounded queue of bytes.
THEOREM RingImplementsByteFifo ==
    ASSUME NEW w, Writers = {w}
    PROVE  Spec => ByteStream
<1>1. Init => Inv /\ Stream!Init
  <2>1. Init => Contents = <<>>
    BY SizeAssumption DEF Init, Contents, BytesAt, DataLen
  <2> QED BY <2>1, InitInv DEF Stream!Init
<1>2. Inv /\ [Next]_vars => Inv' /\ [Stream!Next]_Contents
  BY StepInv
<1> QED BY <1>1, <1>2, PTL DEF Spec, ByteStream, Stream!Spec

-----------------------------------------------------------------------------
(* The messages.  Between the bytes in the ring and the messages that are  *)
(* not yet returned stands a function f with the offset of each message:   *)
(* negative for the first one when the reader has had a part of it.        *)

\* Byte j of a record.
RecByte(m, j) == IF j <= 2 THEN Header(m)[j] ELSE m[j - 2]

\* The record of m lies in the bytes b after offset u and up to v, but for what
\* of it is before the first byte.
RecordAt(b, m, u, v) ==
    /\ v = u + RecordSize(m) /\ v <= Len(b)
    /\ \A j \in 1..RecordSize(m) : u + j >= 1 => b[u + j] = RecByte(m, j)

\* The bytes b are the records of q one after the other, but for the first c bytes.
Framed(b, q, c, f) ==
    /\ f \in [1..(Len(q) + 1) -> Int] /\ f[1] + c = 0 /\ f[Len(q) + 1] = Len(b)
    /\ \A i \in 1..Len(q) : RecordAt(b, q[i], f[i], f[i + 1])

LEMMA MessageSize ==
    ASSUME NEW m \in Msgs
    PROVE  /\ m \in Seq(Byte) /\ Len(m) \in Nat /\ Len(m) > 0
           /\ RecordSize(m) = 2 + Len(m) /\ RecordSize(m) \in Nat
BY MsgsAssumption DEF RecordSize, HeaderLen

\* The same record when the first d bytes are gone.
LEMMA RecordShift ==
    ASSUME NEW b \in Seq(Byte), NEW x \in Seq(Byte), NEW d \in Nat, Len(x) = Len(b) - d,
           \A k \in 1..Len(x) : x[k] = b[k + d],
           NEW m \in Msgs, NEW u \in Int, NEW v \in Int, RecordAt(b, m, u, v)
    PROVE  RecordAt(x, m, u - d, v - d)
<1>1. PICK l, n, r : l = Len(b) /\ n = Len(x) /\ r = RecordSize(m)
  OBVIOUS
<1>2. l \in Nat /\ n \in Nat /\ n = l - d /\ r \in Nat
  BY <1>1, MessageSize
<1>3. v = u + r /\ v <= l
  BY <1>1 DEF RecordAt
<1>4. ASSUME NEW j \in 1..r, (u - d) + j >= 1  PROVE x[(u - d) + j] = RecByte(m, j)
  <2>1. PICK k : k = (u - d) + j
    OBVIOUS
  <2>2. k \in 1..n /\ k + d = u + j /\ u + j >= 1
    BY <1>2, <1>3, <1>4, <2>1
  <2>3. x[k] = b[k + d]
    BY <1>1, <2>2
  <2>4. b[u + j] = RecByte(m, j)
    BY <1>1, <2>2 DEF RecordAt
  <2> QED BY <2>1, <2>2, <2>3, <2>4
<1>5. v - d = (u - d) + r /\ v - d <= n
  BY <1>2, <1>3
<1> QED BY <1>1, <1>4, <1>5 DEF RecordAt

\* The same record when bytes follow.
LEMMA RecordKept ==
    ASSUME NEW b \in Seq(Byte), NEW x \in Seq(Byte), Len(x) >= Len(b),
           \A k \in 1..Len(b) : x[k] = b[k],
           NEW m \in Msgs, NEW u \in Int, NEW v \in Int, RecordAt(b, m, u, v)
    PROVE  RecordAt(x, m, u, v)
<1>1. PICK l, n, r : l = Len(b) /\ n = Len(x) /\ r = RecordSize(m)
  OBVIOUS
<1>2. l \in Nat /\ n \in Nat /\ n >= l /\ r \in Nat
  BY <1>1, MessageSize
<1>3. v = u + r /\ v <= l
  BY <1>1 DEF RecordAt
<1>4. ASSUME NEW j \in 1..r, u + j >= 1  PROVE x[u + j] = RecByte(m, j)
  <2>1. u + j \in 1..l
    BY <1>2, <1>3, <1>4
  <2>2. b[u + j] = RecByte(m, j)
    BY <1>1, <1>4 DEF RecordAt
  <2> QED BY <1>1, <2>1, <2>2
<1> QED BY <1>1, <1>2, <1>3, <1>4 DEF RecordAt

LEMMA FrameShift ==
    ASSUME NEW b \in Seq(Byte), NEW q \in Seq(Msgs), NEW c \in Int, NEW f, Framed(b, q, c, f),
           NEW d \in Nat, NEW x \in Seq(Byte), Len(x) = Len(b) - d,
           \A k \in 1..Len(x) : x[k] = b[k + d]
    PROVE  \E g : Framed(x, q, c + d, g)
<1>1. PICK n : n = Len(q)
  OBVIOUS
<1>2. /\ n \in Nat /\ f \in [1..(n + 1) -> Int] /\ f[1] + c = 0 /\ f[n + 1] = Len(b)
      /\ \A i \in 1..n : RecordAt(b, q[i], f[i], f[i + 1])
  BY <1>1 DEF Framed
<1>3. PICK g : g = [i \in 1..(n + 1) |-> f[i] - d]
  OBVIOUS
<1>4. g \in [1..(n + 1) -> Int] /\ \A i \in 1..(n + 1) : g[i] = f[i] - d /\ f[i] \in Int
  BY <1>2, <1>3
<1>5. 1 \in 1..(n + 1) /\ n + 1 \in 1..(n + 1)
  BY <1>2
<1>6. g[1] + (c + d) = 0
  <2>1. g[1] = f[1] - d /\ f[1] \in Int /\ f[1] + c = 0
    BY <1>2, <1>4, <1>5
  <2> QED BY <2>1
<1>7. g[n + 1] = Len(x)
  BY <1>2, <1>4, <1>5
<1>8. ASSUME NEW i \in 1..n  PROVE RecordAt(x, q[i], g[i], g[i + 1])
  <2>1. i \in 1..(n + 1) /\ i + 1 \in 1..(n + 1) /\ q[i] \in Msgs
    BY <1>1, <1>2
  <2>2. /\ f[i] \in Int /\ f[i + 1] \in Int /\ RecordAt(b, q[i], f[i], f[i + 1])
        /\ g[i] = f[i] - d /\ g[i + 1] = f[i + 1] - d
    BY <1>2, <1>4, <2>1
  <2>3. RecordAt(x, q[i], f[i] - d, f[i + 1] - d)
    BY <2>1, <2>2, RecordShift
  <2> QED BY <2>2, <2>3
<1> QED BY <1>1, <1>4, <1>6, <1>7, <1>8 DEF Framed

LEMMA FramePop ==
    ASSUME NEW b \in Seq(Byte), NEW q \in Seq(Msgs), NEW c \in Int, NEW f, Framed(b, q, c, f),
           q # <<>>, c = RecordSize(q[1])
    PROVE  \E g : Framed(b, Tail(q), 0, g)
<1>1. PICK n, z : n = Len(q) /\ z = Tail(q)
  OBVIOUS
<1>2. /\ n \in Nat /\ n > 0 /\ z \in Seq(Msgs) /\ Len(z) = n - 1
      /\ \A i \in 1..(n - 1) : z[i] = q[i + 1]
  BY <1>1
<1>3. /\ f \in [1..(n + 1) -> Int] /\ f[1] + c = 0 /\ f[n + 1] = Len(b)
      /\ \A i \in 1..n : RecordAt(b, q[i], f[i], f[i + 1])
  BY <1>1 DEF Framed
<1>4. PICK g : g = [i \in 1..n |-> f[i + 1]]
  OBVIOUS
<1>5. g \in [1..n -> Int] /\ \A i \in 1..n : g[i] = f[i + 1]
  BY <1>2, <1>3, <1>4
<1>6. g[1] + 0 = 0
  <2>1. 1 \in 1..n /\ 1 + 1 \in 1..(n + 1) /\ 1 \in 1..(n + 1)
    BY <1>2
  <2>2. f[1] \in Int /\ f[1 + 1] \in Int /\ f[1] + c = 0 /\ g[1] = f[1 + 1]
    BY <1>3, <1>5, <2>1
  <2>3. RecordAt(b, q[1], f[1], f[1 + 1])
    BY <1>3, <2>1
  <2>4. f[1 + 1] = f[1] + c
    BY <2>3 DEF RecordAt
  <2> QED BY <2>2, <2>4
<1>7. g[n] = Len(b)
  BY <1>2, <1>3, <1>5
<1>8. ASSUME NEW i \in 1..(n - 1)  PROVE RecordAt(b, z[i], g[i], g[i + 1])
  <2>1. i \in 1..n /\ i + 1 \in 1..n
    BY <1>2
  <2>2. g[i] = f[i + 1] /\ g[i + 1] = f[(i + 1) + 1] /\ z[i] = q[i + 1]
    BY <1>2, <1>5, <2>1
  <2>3. RecordAt(b, q[i + 1], f[i + 1], f[(i + 1) + 1])
    BY <1>3, <2>1
  <2> QED BY <2>2, <2>3
<1>9. (n - 1) + 1 = n
  BY <1>2
<1>10. Framed(b, z, 0, g)
  BY <1>2, <1>5, <1>6, <1>7, <1>8, <1>9 DEF Framed
<1> QED BY <1>1, <1>10

LEMMA FrameAppend ==
    ASSUME NEW b \in Seq(Byte), NEW q \in Seq(Msgs), NEW c \in Int, NEW f, Framed(b, q, c, f),
           NEW m \in Msgs, NEW x \in Seq(Byte), Len(x) = Len(b) + RecordSize(m),
           \A k \in 1..Len(b) : x[k] = b[k],
           \A j \in 1..RecordSize(m) : x[Len(b) + j] = RecByte(m, j)
    PROVE  \E g : Framed(x, Append(q, m), c, g)
<1>1. PICK n, l, z, r : n = Len(q) /\ l = Len(b) /\ z = Append(q, m) /\ r = RecordSize(m)
  OBVIOUS
<1>2. /\ n \in Nat /\ l \in Nat /\ r \in Nat /\ z \in Seq(Msgs) /\ Len(z) = n + 1
      /\ \A i \in 1..n : z[i] = q[i] /\ q[i] \in Msgs
      /\ z[n + 1] = m
  BY <1>1, MessageSize
<1>3. PICK g : g = [i \in 1..(n + 2) |-> IF i = n + 2 THEN l + r ELSE f[i]]
  OBVIOUS
<1>4. /\ f \in [1..(n + 1) -> Int] /\ f[1] + c = 0 /\ f[n + 1] = l
      /\ \A i \in 1..n : RecordAt(b, q[i], f[i], f[i + 1])
  BY <1>1 DEF Framed
<1>5. /\ g \in [1..((n + 1) + 1) -> Int] /\ \A i \in 1..(n + 1) : g[i] = f[i] /\ f[i] \in Int
      /\ g[(n + 1) + 1] = l + r
  BY <1>2, <1>3, <1>4
<1>6. 1 \in 1..(n + 1) /\ n + 1 \in 1..(n + 1)
  BY <1>2
<1>7. g[1] + c = 0 /\ g[n + 1] = l
  BY <1>4, <1>5, <1>6
<1>8. ASSUME NEW i \in 1..n  PROVE RecordAt(x, z[i], g[i], g[i + 1])
  <2>1. i \in 1..(n + 1) /\ i + 1 \in 1..(n + 1)
    BY <1>2
  <2>2. /\ f[i] \in Int /\ f[i + 1] \in Int /\ g[i] = f[i] /\ g[i + 1] = f[i + 1]
        /\ z[i] = q[i] /\ q[i] \in Msgs /\ RecordAt(b, q[i], f[i], f[i + 1])
    BY <1>2, <1>4, <1>5, <2>1
  <2>3. Len(x) >= Len(b)
    BY <1>1, <1>2
  <2>4. RecordAt(x, q[i], f[i], f[i + 1])
    BY <2>2, <2>3, RecordKept
  <2> QED BY <2>2, <2>4
<1>9. Len(x) = l + r
  BY <1>1
<1>10. RecordAt(x, z[n + 1], g[n + 1], g[(n + 1) + 1])
  <2>1. RecordAt(x, m, l, l + r)
    BY <1>1, <1>2, <1>9 DEF RecordAt
  <2> QED BY <1>2, <1>5, <1>7, <2>1
<1>11. ASSUME NEW i \in 1..(n + 1)  PROVE RecordAt(x, z[i], g[i], g[i + 1])
  <2>1. i \in 1..n \/ i = n + 1
    BY <1>2
  <2> QED BY <1>8, <1>10, <2>1
<1>12. Framed(x, z, c, g)
  BY <1>2, <1>5, <1>7, <1>9, <1>11 DEF Framed
<1> QED BY <1>1, <1>12

LEMMA FrameEmpty == Framed(<<>>, <<>>, 0, [i \in 1..1 |-> 0])
<1>1. Len(<<>>) = 0 /\ 0 + 1 = 1
  OBVIOUS
<1>2. PICK f : f = [i \in 1..1 |-> 0]
  OBVIOUS
<1>3. f \in [1..1 -> Int] /\ f[1] = 0 /\ f[1] + 0 = 0
  BY <1>2
<1>4. Framed(<<>>, <<>>, 0, f)
  BY <1>1, <1>3 DEF Framed
<1> QED BY <1>2, <1>4

\* The first record, of which the reader has had c bytes.
LEMMA FrameFirst ==
    ASSUME NEW b \in Seq(Byte), NEW q \in Seq(Msgs), NEW c \in Nat, NEW f, Framed(b, q, c, f),
           q # <<>>
    PROVE  /\ q[1] \in Msgs /\ q[1] = Head(q)
           /\ RecordSize(q[1]) - c <= Len(b)
           /\ \A k \in 1..(RecordSize(q[1]) - c) : b[k] = RecByte(q[1], c + k)
<1>1. Len(q) \in Nat /\ 1 \in 1..Len(q) /\ q[1] \in Msgs /\ q[1] = Head(q)
  OBVIOUS
<1>2. PICK r, u, v : r = RecordSize(q[1]) /\ u = f[1] /\ v = f[1 + 1]
  OBVIOUS
<1>3. r \in Nat /\ u \in Int /\ v \in Int /\ u + c = 0 /\ RecordAt(b, q[1], u, v)
  <2>1. 1 \in 1..(Len(q) + 1) /\ 1 + 1 \in 1..(Len(q) + 1)
    BY <1>1
  <2>2. f[1] \in Int /\ f[1 + 1] \in Int /\ f[1] + c = 0 /\ RecordAt(b, q[1], f[1], f[1 + 1])
    BY <1>1, <2>1 DEF Framed
  <2> QED BY <1>1, <1>2, <2>2, MessageSize
<1>4. v = u + r /\ v <= Len(b) /\ \A j \in 1..r : u + j >= 1 => b[u + j] = RecByte(q[1], j)
  BY <1>2, <1>3 DEF RecordAt
<1>5. ASSUME NEW k \in 1..(r - c)  PROVE b[k] = RecByte(q[1], c + k)
  <2>1. c + k \in 1..r /\ u + (c + k) = k /\ k >= 1
    BY <1>3
  <2>2. b[u + (c + k)] = RecByte(q[1], c + k)
    BY <1>4, <2>1
  <2> QED BY <2>1, <2>2
<1>6. r - c <= Len(b)
  BY <1>3, <1>4
<1> QED BY <1>1, <1>2, <1>5, <1>6

LEMMA FrameNone ==
    ASSUME NEW b \in Seq(Byte), NEW f, Framed(b, <<>>, 0, f)
    PROVE  Len(b) = 0
<1>1. Len(<<>>) = 0
  OBVIOUS
<1>2. f[1] + 0 = 0 /\ f[0 + 1] = Len(b) /\ f \in [1..(0 + 1) -> Int]
  BY <1>1 DEF Framed
<1>3. 1 \in 1..(0 + 1) /\ 0 + 1 = 1
  OBVIOUS
<1> QED BY <1>2, <1>3

\* What the reader has had of the first record, and what the current
\* ring_buf_rd or ring_buf_drop call has to get.
Taken == IF rphase = "body" THEN 2 ELSE IF rphase = "drop" THEN 2 + RdBuf ELSE 0
Want == IF rphase = "header" THEN 2
        ELSE IF rphase = "body" THEN Least(rlen, RdBuf) ELSE rlen - RdBuf

\* What a writer has copied so far is the start of the record.
WriterMsg(w) ==
    /\ wpc[w] = "body" =>
          \A j \in 1..2 : cell[Advance(head, j - 1)] = RecByte(wmsg[w], j)
    /\ wpc[w] = "publish" =>
          \A j \in 1..RecordSize(wmsg[w]) : cell[Advance(head, j - 1)] = RecByte(wmsg[w], j)

\* A call of the reader is for the first message of the queue.
ReaderMsg ==
    rphase # "idle" =>
        /\ queue # <<>>
        /\ Len(rgot) + rneed = Want
        /\ rstep = "store" => rneed = 0
        /\ rphase \in {"body", "drop"} => rlen = Len(queue[1])
        /\ rphase = "drop" => rlen > RdBuf /\ rmsg = SubSeq(queue[1], 1, RdBuf)

InFrame == \E f : Framed(Contents, queue, Taken, f)

MsgInv == InFrame /\ ReaderMsg /\ \A w \in Writers : WriterMsg(w)

LEMMA ContentsType ==
    ASSUME Inv
    PROVE  /\ Contents \in Seq(Byte) /\ Len(Contents) = DataLen(head, tail)
           /\ DataLen(head, tail) \in 0..(Size - 1)
           /\ \A i \in 1..DataLen(head, tail) : Contents[i] = cell[Advance(tail, i - 1)]
<1>1. head \in Cells /\ tail \in Cells /\ cell \in [Cells -> Byte]
  BY DEF Inv, TypeOK
<1>2. DataLen(head, tail) \in 0..(Size - 1)
  BY <1>1, LengthsAddUp
<1>3. DataLen(head, tail) \in 0..Size
  BY <1>2, SizeAssumption
<1> QED BY <1>1, <1>2, <1>3, BytesAtType DEF Contents

LEMMA TakenType == Taken \in Nat
BY RdBufAssumption DEF Taken

\* The first message is in the ring as far as the reader wants it.
LEMMA WantIsThere ==
    ASSUME Inv, MsgInv, rphase # "idle"
    PROVE  /\ queue[1] \in Msgs /\ queue[1] = Head(queue) /\ queue # <<>>
           /\ Want \in Nat /\ Want <= Len(Contents) /\ Taken \in Nat
           /\ Taken + Want <= RecordSize(queue[1])
           /\ \A k \in 1..Want : Contents[k] = RecByte(queue[1], Taken + k)
<1>1. PICK f : Framed(Contents, queue, Taken, f)
  BY DEF MsgInv, InFrame
<1>2. /\ queue \in Seq(Msgs) /\ queue # <<>> /\ rlen \in Nat
      /\ rphase \in {"header", "body", "drop"} /\ Contents \in Seq(Byte)
  BY ContentsType DEF Inv, TypeOK, MsgInv, ReaderMsg
<1>3. PICK m, r, c, l : m = queue[1] /\ r = RecordSize(queue[1]) /\ c = Taken /\ l = Len(Contents)
  OBVIOUS
<1>4. /\ m \in Msgs /\ m = Head(queue) /\ c \in Nat /\ l \in Nat
      /\ r - c <= l
      /\ \A k \in 1..(r - c) : Contents[k] = RecByte(m, c + k)
  BY <1>1, <1>2, <1>3, FrameFirst, TakenType
<1>5. r = 2 + Len(m) /\ Len(m) \in Nat
  BY <1>3, <1>4, MessageSize
<1>6. Want \in Nat /\ c + Want <= r
  <2>1. CASE rphase = "header"
    BY <2>1, <1>3, <1>5 DEF Want, Taken
  <2>2. CASE rphase = "body"
    <3>1. rlen = Len(m) /\ c = 2 /\ Want = Least(rlen, RdBuf)
      BY <2>2, <1>3 DEF MsgInv, ReaderMsg, Want, Taken
    <3> QED BY <3>1, <1>5, RdBufAssumption DEF Least
  <2>3. CASE rphase = "drop"
    <3>1. rlen = Len(m) /\ c = 2 + RdBuf /\ Want = rlen - RdBuf /\ rlen > RdBuf
      BY <2>3, <1>3 DEF MsgInv, ReaderMsg, Want, Taken
    <3> QED BY <3>1, <1>5, RdBufAssumption
  <2> QED BY <1>2, <2>1, <2>2, <2>3
<1>7. PICK a : a = Want
  OBVIOUS
<1>8. a <= l /\ \A k \in 1..a : k \in 1..(r - c)
  BY <1>4, <1>5, <1>6, <1>7
<1> QED BY <1>2, <1>3, <1>4, <1>6, <1>7, <1>8

\* What has been copied are the first bytes.
LEMMA GotIsThere ==
    ASSUME Inv, rphase # "idle"
    PROVE  /\ Len(rgot) \in Nat /\ Len(rgot) <= Len(Contents)
           /\ \A i \in 1..Len(rgot) : rgot[i] = Contents[i]
<1>1. /\ Len(rgot) \in Nat /\ Len(rgot) <= DataLen(head, tail)
      /\ \A i \in 1..Len(rgot) : rgot[i] = cell[Advance(tail, i - 1)]
  BY DEF Inv, TypeOK, ReaderSound
<1>2. \A i \in 1..Len(rgot) : i \in 1..DataLen(head, tail)
  BY <1>1, ContentsType
<1> QED BY <1>1, <1>2, ContentsType

LEMMA MsgInit == Init => MsgInv
<1> SUFFICES ASSUME Init PROVE MsgInv
  OBVIOUS
<1>1. Contents = <<>> /\ queue = <<>> /\ Taken = 0
  BY SizeAssumption DEF Init, Contents, BytesAt, DataLen, Taken
<1>2. InFrame
  BY <1>1, FrameEmpty DEF InFrame
<1>3. ReaderMsg /\ \A w \in Writers : WriterMsg(w)
  BY DEF Init, ReaderMsg, WriterMsg
<1> QED BY <1>2, <1>3 DEF MsgInv

\* Nothing that the frame or the reader goes by has changed.
LEMMA FrameStays ==
    ASSUME MsgInv, Contents' = Contents, UNCHANGED <<readerVars, queue>>
    PROVE  InFrame' /\ ReaderMsg'
<1>1. Taken' = Taken /\ Want' = Want
  BY DEF readerVars, Taken, Want
<1>2. InFrame'
  <2>1. PICK f : Framed(Contents, queue, Taken, f)
    BY DEF MsgInv, InFrame
  <2>2. Framed(Contents', queue', Taken', f)
    BY <1>1, <2>1
  <2> QED BY <2>2 DEF InFrame
<1>3. ReaderMsg'
  BY <1>1 DEF MsgInv, ReaderMsg, readerVars
<1> QED BY <1>2, <1>3

LEMMA WrBeginMsg ==
    ASSUME Inv, MsgInv, NEW w \in Writers, Writers = {w},
           (\E m \in Msgs : WrCall(w, m)) \/ WrSnapshot(w)
    PROVE  MsgInv' /\ UNCHANGED <<queue, out>>
<1>1. UNCHANGED <<readerVars, queue, out>> /\ wpc'[w] \in {"snapshot", "header"}
  <2>1. DOMAIN wpc = Writers
    BY DEF Inv, TypeOK
  <2>2. CASE \E m \in Msgs : WrCall(w, m)
    BY <2>1, <2>2 DEF WrCall
  <2>3. CASE WrSnapshot(w)
    BY <2>1, <2>3 DEF WrSnapshot
  <2> QED BY <2>2, <2>3
<1>2. InFrame' /\ ReaderMsg'
  BY <1>1, WrBeginInv, FrameStays
<1>3. WriterMsg(w)'
  BY <1>1 DEF WriterMsg
<1> QED BY <1>1, <1>2, <1>3 DEF MsgInv

\* Where the bytes of a record lie, seen from the head hd and from the private
\* head h after the two bytes of the length.
LEMMA RecordArithmetic ==
    ASSUME NEW hd \in Cells, NEW h \in Cells, NEW t \in Cells, NEW n \in Nat,
           Distance(hd, h) = 2, Between(t, hd, h), Remain(h, t) >= n
    PROVE  /\ \A k \in {0, 1} : Advance(hd, k) \in Cells /\ Distance(h, Advance(hd, k)) >= n
           /\ \A k \in 2..(n + 1) : Advance(hd, k) \in Cells /\ Distance(h, Advance(hd, k)) = k - 2
<1>1. ASSUME NEW k \in {0, 1}
      PROVE  Advance(hd, k) \in Cells /\ Distance(h, Advance(hd, k)) >= n
  BY SizeAssumption DEF Between, Distance, Remain, Advance, Cells
<1>2. ASSUME NEW k \in 2..(n + 1)
      PROVE  Advance(hd, k) \in Cells /\ Distance(h, Advance(hd, k)) = k - 2
  BY SizeAssumption DEF Between, Distance, Remain, Advance, Cells
<1> QED BY <1>1, <1>2

\* What ring_buf_wr copies when it takes all of s.
LEMMA WriteCopies ==
    ASSUME NEW c, NEW h \in Cells, NEW t \in Cells, NEW s \in Seq(Byte),
           WrLen(h, t, Len(s)) = Len(s), NEW i \in Cells
    PROVE  WrCells(c, h, t, s)[i]
             = IF Distance(h, i) < Len(s) THEN s[Distance(h, i) + 1] ELSE c[i]
BY DEF WrCells

\* The two units of a record end up one behind the other.
LEMMA WrUnitMsg ==
    ASSUME Inv, MsgInv, NEW w \in Writers, Writers = {w}, WrHeader(w) \/ WrBody(w)
    PROVE  MsgInv' /\ UNCHANGED <<queue, out>>
<1>1. PICK m, h, t, s, next :
        /\ m = wmsg[w] /\ h = whead[w] /\ t = wtail[w]
        /\ s = (IF wpc[w] = "header" THEN Header(wmsg[w]) ELSE wmsg[w])
        /\ next = (IF wpc[w] = "header" THEN "body" ELSE "publish")
  OBVIOUS
<1>2. /\ wpc[w] \in {"header", "body"} /\ WrUnit(w, s, next)
      /\ wpc[w] = "header" => s = Header(m) /\ next = "body"
      /\ wpc[w] = "body" => s = m /\ next = "publish"
  BY <1>1 DEF WrHeader, WrBody
<1>3. /\ m \in Msgs /\ h \in Cells /\ t \in Cells /\ head \in Cells /\ cell \in [Cells -> Byte]
      /\ DOMAIN wpc = Writers
  BY <1>1, <1>2 DEF Inv, TypeOK
<1>4. s \in Seq(Byte) /\ Len(s) \in Nat /\ Len(Header(m)) = 2
  BY <1>2, <1>3, HeaderBytes
<1>5. WrLen(h, t, Len(s)) = Len(s) /\ Remain(h, t) >= Len(s)
  BY <1>1, <1>2, <1>4, UnitFits
<1>6. /\ cell' = WrCells(cell, h, t, s) /\ wpc' = [wpc EXCEPT ![w] = next]
      /\ UNCHANGED <<head, tail, wmsg, readerVars, queue, out>>
  <2>1. whead[w] = h /\ wtail[w] = t /\ ~(Len(s) < Len(s))
    BY <1>1, <1>4
  <2>2. ~(WrLen(whead[w], wtail[w], Len(s)) < Len(s))
    BY <1>5, <2>1
  <2>3. cell' = WrCells(cell, whead[w], wtail[w], s)
    BY <1>2 DEF WrUnit
  <2>4. wpc' = [wpc EXCEPT ![w] = next]
    BY <1>2, <2>2 DEF WrUnit
  <2>5. UNCHANGED <<head, tail, wmsg, readerVars, queue, out>>
    BY <1>2 DEF WrUnit
  <2> QED BY <2>1, <2>3, <2>4, <2>5
<1>7. InFrame' /\ ReaderMsg'
  <2>1. Contents' = Contents
    BY <1>1, <1>2, <1>4, WrUnitInv
  <2> QED BY <2>1, <1>6, FrameStays
<1>8. WriterMsg(w)'
  <2>1. wpc'[w] = next /\ wmsg'[w] = m /\ head' = head
    BY <1>1, <1>3, <1>6
  <2>2. CASE wpc[w] = "header"
    <3>1. s = Header(m) /\ next = "body" /\ Len(s) = 2 /\ h = head
      BY <2>2, <1>1, <1>2, <1>4 DEF Inv, WriterSound, StillFits
    <3>2. ASSUME NEW j \in 1..2  PROVE cell'[Advance(head, j - 1)] = RecByte(m, j)
      <4>1. Remain(head, t) \in 0..(Size - 1) /\ Remain(head, t) >= 2
        BY <1>3, <1>5, <3>1, LengthsAddUp
      <4>2. j - 1 \in 0..(Size - 1)
        BY <4>1, SizeAssumption
      <4>3. Advance(head, j - 1) \in Cells /\ Distance(head, Advance(head, j - 1)) = j - 1
        BY <1>3, <4>2, AdvanceDistance
      <4>4. PICK i : i = Advance(head, j - 1)
        OBVIOUS
      <4>5. i \in Cells /\ Distance(h, i) = j - 1 /\ j - 1 < 2 /\ (j - 1) + 1 = j
        BY <3>1, <4>3, <4>4
      <4>6. WrCells(cell, h, t, s)[i]
              = IF Distance(h, i) < Len(s) THEN s[Distance(h, i) + 1] ELSE cell[i]
        BY <1>3, <1>4, <1>5, <4>5, WriteCopies
      <4>7. Distance(h, i) < Len(s) /\ Distance(h, i) + 1 = j
        BY <3>1, <4>5
      <4>8. cell'[i] = s[j]
        BY <1>6, <4>6, <4>7
      <4>9. RecByte(m, j) = Header(m)[j]
        BY DEF RecByte
      <4> QED BY <3>1, <4>4, <4>8, <4>9
    <3> QED BY <2>1, <3>1, <3>2 DEF WriterMsg
  <2>3. CASE wpc[w] = "body"
    <3>1. s = m /\ next = "publish" /\ Len(m) \in Nat /\ RecordSize(m) = 2 + Len(m)
      BY <2>3, <1>2, <1>3, MessageSize
    <3>2. Distance(head, h) = 2 /\ Between(t, head, h)
      BY <2>3, <1>1 DEF Inv, WriterSound, StillFits, StaysClear, HeaderLen
    <3>3. /\ \A k \in {0, 1} :
                Advance(head, k) \in Cells /\ Distance(h, Advance(head, k)) >= Len(m)
          /\ \A k \in 2..(Len(m) + 1) :
                Advance(head, k) \in Cells /\ Distance(h, Advance(head, k)) = k - 2
      BY <1>3, <1>5, <3>1, <3>2, RecordArithmetic
    <3>4. \A j \in 1..2 : cell[Advance(head, j - 1)] = RecByte(m, j)
      BY <2>3, <1>1 DEF MsgInv, WriterMsg
    <3>5. ASSUME NEW j \in 1..(2 + Len(m))
          PROVE  cell'[Advance(head, j - 1)] = RecByte(m, j)
      <4>1. CASE j <= 2
        <5>1. j \in 1..2 /\ j - 1 \in {0, 1}
          BY <4>1
        <5>2. /\ Advance(head, j - 1) \in Cells
              /\ Distance(h, Advance(head, j - 1)) >= Len(m)
          BY <5>1, <3>3
        <5>3. Distance(h, Advance(head, j - 1)) \in Int
          BY <1>3, <5>2, AdvanceDistance
        <5>4. ~(Distance(h, Advance(head, j - 1)) < Len(s))
          BY <3>1, <5>2, <5>3
        <5>5. cell'[Advance(head, j - 1)] = cell[Advance(head, j - 1)]
          BY <1>3, <1>4, <1>5, <1>6, <5>2, <5>4, WriteCopies
        <5> QED BY <5>1, <5>5, <3>4
      <4>2. CASE j > 2
        <5>1. j - 1 \in 2..(Len(m) + 1) /\ (j - 1) - 2 < Len(m) /\ ((j - 1) - 2) + 1 = j - 2
          BY <3>1, <4>2
        <5>2. Advance(head, j - 1) \in Cells /\ Distance(h, Advance(head, j - 1)) = (j - 1) - 2
          BY <5>1, <3>3
        <5>3. cell'[Advance(head, j - 1)] = s[((j - 1) - 2) + 1]
          BY <1>3, <1>4, <1>5, <1>6, <3>1, <5>1, <5>2, WriteCopies
        <5> QED BY <3>1, <4>2, <5>1, <5>3 DEF RecByte
      <4> QED BY <3>1, <4>1, <4>2
    <3> QED BY <2>1, <3>1, <3>5 DEF WriterMsg
  <2> QED BY <1>2, <2>2, <2>3
<1> QED BY <1>6, <1>7, <1>8 DEF MsgInv

\* What publishing adds to the unread bytes.
LEMMA PublishAdds ==
    ASSUME NEW hd \in Cells, NEW tl \in Cells, NEW g \in Cells, NEW r \in Nat,
           Between(tl, hd, g), Distance(hd, g) = r
    PROVE  /\ DataLen(g, tl) = DataLen(hd, tl) + r
           /\ \A j \in 1..r : Advance(tl, (DataLen(hd, tl) + j) - 1) = Advance(hd, j - 1)
<1>1. DataLen(g, tl) = DataLen(hd, tl) + r
  BY SizeAssumption DEF Between, Distance, DataLen, Cells
<1>2. ASSUME NEW j \in 1..r
      PROVE  Advance(tl, (DataLen(hd, tl) + j) - 1) = Advance(hd, j - 1)
  BY SizeAssumption DEF Between, Distance, DataLen, Advance, Cells
<1> QED BY <1>1, <1>2

\* Publishing a record is sending its message.
LEMMA WrPublishMsg ==
    ASSUME Inv, MsgInv, NEW w \in Writers, Writers = {w}, WrPublish(w)
    PROVE  MsgInv' /\ Messages!Send
<1>1. PICK m, g, r : m = wmsg[w] /\ g = whead[w] /\ r = RecordSize(wmsg[w])
  OBVIOUS
<1>2. /\ m \in Msgs /\ g \in Cells /\ head \in Cells /\ tail \in Cells /\ wtail[w] \in Cells
      /\ cell \in [Cells -> Byte] /\ DOMAIN wpc = Writers /\ queue \in Seq(Msgs)
  BY <1>1 DEF WrPublish, Inv, TypeOK
<1>3. /\ head' = g /\ queue' = Append(queue, m) /\ wpc'[w] = "idle"
      /\ UNCHANGED <<tail, cell, readerVars, out>>
  BY <1>1, <1>2 DEF WrPublish
<1>4. r \in Nat /\ r = RecordSize(m)
  BY <1>1, <1>2, MessageSize
<1>5. Between(tail, head, g) /\ Distance(head, g) = r
  <2>1. Between(wtail[w], tail, head) /\ Between(wtail[w], head, g) /\ Distance(head, g) = r
    BY <1>1 DEF WrPublish, Inv, WriterSound, StaysClear, StillFits, RecordSize
  <2> QED BY <2>1, <1>2, BetweenShrinks
<1>6. /\ DataLen(g, tail) = DataLen(head, tail) + r
      /\ \A j \in 1..r : Advance(tail, (DataLen(head, tail) + j) - 1) = Advance(head, j - 1)
  BY <1>2, <1>4, <1>5, PublishAdds
<1>7. PICK b, x : b = Contents /\ x = Contents'
  OBVIOUS
<1>8. /\ b \in Seq(Byte) /\ x \in Seq(Byte) /\ Len(b) = DataLen(head, tail)
      /\ \A k \in 1..Len(b) : x[k] = b[k]
  BY <1>7, WrPublishInv, ContentsType
<1>9. /\ Len(x) = DataLen(g, tail)
      /\ \A k \in 1..DataLen(g, tail) : x[k] = cell[Advance(tail, k - 1)]
  <2>1. DataLen(g, tail) \in 0..(Size - 1)
    BY <1>2, LengthsAddUp
  <2>2. DataLen(g, tail) \in 0..Size
    BY <2>1, SizeAssumption
  <2>3. x = BytesAt(cell, tail, DataLen(g, tail))
    BY <1>3, <1>7 DEF Contents, BytesAt, DataLen, Advance
  <2> QED BY <1>2, <2>2, <2>3, BytesAtType
<1>10. Len(b) \in Nat /\ Len(x) = Len(b) + RecordSize(m)
  BY <1>4, <1>6, <1>8, <1>9
<1>11. ASSUME NEW j \in 1..RecordSize(m)  PROVE x[Len(b) + j] = RecByte(m, j)
  <2>1. Len(b) + j \in 1..DataLen(g, tail)
    BY <1>4, <1>6, <1>8, <1>10
  <2>2. x[Len(b) + j] = cell[Advance(head, j - 1)]
    BY <1>4, <1>6, <1>8, <1>9, <2>1
  <2>3. cell[Advance(head, j - 1)] = RecByte(m, j)
    BY <1>1 DEF MsgInv, WriterMsg, WrPublish
  <2> QED BY <2>2, <2>3
<1>12. InFrame'
  <2>1. PICK f : Framed(b, queue, Taken, f)
    BY <1>7 DEF MsgInv, InFrame
  <2>2. PICK e : Framed(x, Append(queue, m), Taken, e)
    <3> HIDE DEF RecordSize
    <3>1. Taken \in Int
      BY TakenType
    <3> QED BY <2>1, <3>1, <1>2, <1>8, <1>10, <1>11, FrameAppend
  <2>3. Taken' = Taken
    BY <1>3 DEF Taken, readerVars
  <2>4. Framed(Contents', queue', Taken', e)
    BY <1>3, <1>7, <2>2, <2>3
  <2> QED BY <2>4 DEF InFrame
<1>13. ReaderMsg'
  <2>1. queue # <<>> => queue' # <<>> /\ queue'[1] = queue[1]
    BY <1>2, <1>3
  <2>2. Want' = Want
    BY <1>3 DEF Want, readerVars
  <2> QED BY <1>3, <2>1, <2>2 DEF MsgInv, ReaderMsg, readerVars
<1>14. WriterMsg(w)'
  BY <1>3 DEF WriterMsg
<1>15. Messages!Send
  BY <1>2, <1>3 DEF Messages!Send
<1> QED BY <1>12, <1>13, <1>14, <1>15 DEF MsgInv

\* A call of the reader begins with a message in the ring.
LEMMA RdCallMsg ==
    ASSUME Inv, MsgInv, RdCall
    PROVE  MsgInv' /\ UNCHANGED <<queue, out>>
<1>1. /\ rphase = "idle" /\ head # tail
      /\ rphase' = "header" /\ rstep' = "first" /\ rneed' = 2 /\ rgot' = <<>>
      /\ UNCHANGED <<head, tail, cell, writerVars, queue, out>>
  BY DEF RdCall, IfEmpty, HeaderLen
<1>2. Contents' = Contents
  BY RdCopyInv
<1>3. PICK f : Framed(Contents, queue, 0, f)
  BY <1>1 DEF MsgInv, InFrame, Taken
<1>4. queue # <<>>
  <2>1. head \in Cells /\ tail \in Cells
    BY DEF Inv, TypeOK
  <2>2. DataLen(head, tail) # 0
    BY <1>1, <2>1, SizeAssumption DEF DataLen, Cells
  <2>3. Len(Contents) # 0 /\ Contents \in Seq(Byte)
    BY <2>2, ContentsType
  <2> QED BY <1>3, <2>3, FrameNone
<1>5. InFrame'
  <2>1. Taken' = 0
    BY <1>1 DEF Taken
  <2>2. Framed(Contents', queue', Taken', f)
    BY <1>1, <1>2, <1>3, <2>1
  <2> QED BY <2>2 DEF InFrame
<1>6. ReaderMsg'
  <2>1. Want' = 2 /\ Len(rgot') = 0 /\ 0 + 2 = 2
    BY <1>1 DEF Want
  <2> QED BY <1>1, <1>4, <2>1 DEF ReaderMsg
<1>7. \A w \in Writers : WriterMsg(w)'
  BY <1>1 DEF MsgInv, WriterMsg, writerVars, Advance
<1> QED BY <1>1, <1>5, <1>6, <1>7 DEF MsgInv

\* A copy gets all that is wanted: never is a message only partly there.
LEMMA RdCopyMsg ==
    ASSUME Inv, MsgInv, RdFirst \/ RdWrapped
    PROVE  MsgInv' /\ UNCHANGED <<queue, out>>
<1>1. UNCHANGED <<head, tail, cell, writerVars, rphase, rlen, rmsg, queue, out>>
  BY DEF RdFirst, RdWrapped
<1>2. Contents' = Contents
  BY RdCopyInv
<1>3. /\ head \in Cells /\ tail \in Cells /\ cell \in [Cells -> Byte] /\ rneed \in Nat
      /\ rgot \in Seq(Byte) /\ Len(rgot) \in Nat
  BY DEF Inv, TypeOK
<1>4. rphase # "idle"
  BY DEF RdFirst, RdWrapped, Inv, ReaderSound
<1>5. PICK a : a = Want
  OBVIOUS
<1>6. a \in Nat /\ a <= DataLen(head, tail) /\ Len(rgot) + rneed = a
  BY <1>4, <1>5, WantIsThere, ContentsType DEF MsgInv, ReaderMsg
<1>7. Len(rgot') + rneed' = a /\ (rstep' = "store" => rneed' = 0)
  <2>1. CASE RdFirst
    <3>1. rstep = "first" /\ rtmp = tail /\ rgot = <<>>
      BY <2>1 DEF RdFirst, Inv, ReaderSound
    <3>2. rneed = a
      <4>1. Len(rgot) = 0
        BY <3>1
      <4> QED BY <4>1, <1>3, <1>6
    <3>3. CASE tail > head /\ ToEnd(tail) <= a
      <4>1. /\ rgot' = BytesAt(cell, tail, ToEnd(tail)) /\ rneed' = a - ToEnd(tail)
            /\ rstep' = "wrapped"
        BY <2>1, <3>1, <3>2, <3>3 DEF RdFirst
      <4>2. ToEnd(tail) \in 0..Size
        BY <1>3, SizeAssumption DEF ToEnd, Cells
      <4>3. Len(rgot') = ToEnd(tail)
        BY <1>3, <4>1, <4>2, BytesAtType
      <4> QED BY <1>6, <4>1, <4>2, <4>3, SizeAssumption
    <3>4. CASE tail > head /\ ~(ToEnd(tail) <= a)
      <4>1. rgot' = BytesAt(cell, tail, a) /\ rneed' = 0
        BY <2>1, <3>1, <3>2, <3>4 DEF RdFirst
      <4>2. a \in 0..Size
        BY <1>3, <1>6, <3>4, ReadArithmetic
      <4> QED BY <1>3, <1>6, <4>1, <4>2, BytesAtType
    <3>5. CASE ~(tail > head)
      <4>1. rgot' = BytesAt(cell, tail, Least(head - tail, a)) /\ rneed' = 0
        BY <2>1, <3>1, <3>2, <3>5 DEF RdFirst
      <4>2. Least(head - tail, a) = a /\ a \in 0..Size
        BY <1>3, <1>6, <3>5, SizeAssumption DEF DataLen, Least, Cells
      <4> QED BY <1>3, <1>6, <4>1, <4>2, BytesAtType
    <3> QED BY <3>3, <3>4, <3>5
  <2>2. CASE RdWrapped
    <3>1. rstep = "wrapped" /\ tail > head /\ rtmp = 0 /\ Len(rgot) = Size - tail
      BY <1>4, <2>2 DEF RdWrapped, Inv, ReaderSound
    <3>2. rgot' = rgot \o BytesAt(cell, 0, Least(head - 0, rneed)) /\ rneed' = 0
      BY <2>2, <3>1 DEF RdWrapped
    <3>3. Least(head - 0, rneed) = rneed /\ rneed \in 0..Size /\ 0 \in Cells
      BY <1>3, <1>6, <3>1, SizeAssumption DEF DataLen, Least, Cells
    <3>4. BytesAt(cell, 0, rneed) \in Seq(Byte) /\ Len(BytesAt(cell, 0, rneed)) = rneed
      BY <1>3, <3>3, BytesAtType
    <3>5. Len(rgot') = Len(rgot) + rneed
      BY <1>3, <3>2, <3>3, <3>4, ConcatBytes
    <3> QED BY <1>3, <1>6, <3>2, <3>5
  <2> QED BY <2>1, <2>2
<1>8. Taken' = Taken /\ Want' = Want
  BY <1>1 DEF Taken, Want
<1>9. InFrame'
  <2>1. PICK f : Framed(Contents, queue, Taken, f)
    BY DEF MsgInv, InFrame
  <2>2. Framed(Contents', queue', Taken', f)
    BY <1>1, <1>2, <1>8, <2>1
  <2> QED BY <2>2 DEF InFrame
<1>10. ReaderMsg'
  BY <1>1, <1>5, <1>7, <1>8 DEF MsgInv, ReaderMsg
<1>11. \A w \in Writers : WriterMsg(w)'
  BY <1>1 DEF MsgInv, WriterMsg, writerVars, Advance
<1> QED BY <1>1, <1>9, <1>10, <1>11 DEF MsgInv

\* The two bytes of a length are the length again.
LEMMA LengthRead ==
    ASSUME NEW m \in Msgs, NEW s \in Seq(Byte), Len(s) = 2,
           \A k \in 1..2 : s[k] = RecByte(m, k)
    PROVE  HeaderValue(s) = Len(m)
<1>1. PICK n : n = Len(m)
  OBVIOUS
<1>2. n \in Nat
  BY <1>1, MessageSize
<1>3. s[1] = n % 256 /\ s[2] = n \div 256
  <2>1. s[1] = Header(m)[1] /\ s[2] = Header(m)[2]
    BY DEF RecByte
  <2> QED BY <1>1, <2>1 DEF Header
<1>4. (n % 256) + 256 * (n \div 256) = n
  BY <1>2
<1> QED BY <1>1, <1>3, <1>4 DEF HeaderValue

\* The bytes after the length are the first bytes of the message.
LEMMA BodyRead ==
    ASSUME NEW m \in Msgs, NEW s \in Seq(Byte), Len(s) <= Len(m),
           \A k \in 1..Len(s) : s[k] = RecByte(m, 2 + k)
    PROVE  s = SubSeq(m, 1, Len(s))
<1>1. m \in Seq(Byte) /\ Len(m) \in Nat /\ Len(s) \in Nat
  BY MessageSize
<1>2. PICK n : n = Len(s)
  OBVIOUS
<1>3. ASSUME NEW k \in 1..n  PROVE s[k] = m[k]
  <2>1. ~(2 + k <= 2) /\ (2 + k) - 2 = k /\ s[k] = RecByte(m, 2 + k)
    BY <1>1, <1>2
  <2> QED BY <2>1 DEF RecByte
<1>4. /\ SubSeq(m, 1, n) \in Seq(Byte) /\ Len(SubSeq(m, 1, n)) = n
      /\ \A k \in 1..n : SubSeq(m, 1, n)[k] = m[k]
  BY <1>1, <1>2
<1> QED BY <1>1, <1>2, <1>3, <1>4

\* What the return of msg_ring_buf_rd does to the queue.
LEMMA ReturnReceives ==
    ASSUME Inv, NEW m, queue # <<>>, m = Messages!Cut(Head(queue)), RdReturn(m)
    PROVE  Messages!Receive /\ queue' = Tail(queue) /\ rphase' = "idle"
BY DEF RdReturn, Messages!Receive

\* A store that goes on with the same message.
LEMMA RdGoesOn ==
    ASSUME Inv, MsgInv, RdStore, queue' = queue, out' = out,
           Taken' = Taken + Len(rgot), ReaderMsg'
    PROVE  MsgInv'
<1>1. UNCHANGED <<head, cell, writerVars>>
  BY DEF RdStore
<1>2. PICK b, x, d : b = Contents /\ x = Contents' /\ d = Len(rgot)
  OBVIOUS
<1>3. /\ b \in Seq(Byte) /\ x \in Seq(Byte) /\ d \in Nat /\ Len(b) \in Nat /\ Len(x) \in Nat
      /\ d = Len(b) - Len(x) /\ \A k \in 1..Len(x) : x[k] = b[k + (Len(b) - Len(x))]
      /\ queue \in Seq(Msgs) /\ Taken \in Int
  BY <1>2, RdStoreInv, TakenType DEF Inv, TypeOK
<1>4. Len(x) = Len(b) - d /\ \A k \in 1..Len(x) : x[k] = b[k + d]
  BY <1>3
<1>5. PICK f : Framed(b, queue, Taken, f)
  BY <1>2 DEF MsgInv, InFrame
<1>6. PICK g : Framed(x, queue, Taken + d, g)
  BY <1>3, <1>4, <1>5, FrameShift
<1>7. Framed(Contents', queue', Taken', g)
  BY <1>2, <1>6
<1>8. InFrame'
  BY <1>7 DEF InFrame
<1>9. \A w \in Writers : WriterMsg(w)'
  BY <1>1 DEF MsgInv, WriterMsg, writerVars, Advance
<1> QED BY <1>8, <1>9 DEF MsgInv

\* A store that ends the message.
LEMMA RdEnds ==
    ASSUME Inv, MsgInv, RdStore, queue # <<>>, queue' = Tail(queue), rphase' = "idle",
           RecordSize(queue[1]) = Taken + Len(rgot)
    PROVE  MsgInv'
<1>1. UNCHANGED <<head, cell, writerVars>>
  BY DEF RdStore
<1>2. PICK b, x, d : b = Contents /\ x = Contents' /\ d = Len(rgot)
  OBVIOUS
<1>3. /\ b \in Seq(Byte) /\ x \in Seq(Byte) /\ d \in Nat /\ Len(b) \in Nat /\ Len(x) \in Nat
      /\ d = Len(b) - Len(x) /\ \A k \in 1..Len(x) : x[k] = b[k + (Len(b) - Len(x))]
      /\ queue \in Seq(Msgs) /\ Taken \in Int
  BY <1>2, RdStoreInv, TakenType DEF Inv, TypeOK
<1>4. Len(x) = Len(b) - d /\ \A k \in 1..Len(x) : x[k] = b[k + d]
  BY <1>3
<1>5. PICK f : Framed(b, queue, Taken, f)
  BY <1>2 DEF MsgInv, InFrame
<1>6. PICK g : Framed(x, queue, Taken + d, g)
  BY <1>3, <1>4, <1>5, FrameShift
<1>7. PICK e : Framed(x, Tail(queue), 0, e)
  <2>1. Taken + d \in Int /\ Taken + d = RecordSize(queue[1])
    BY <1>2, <1>3
  <2> QED BY <1>3, <1>6, <2>1, FramePop
<1>8. Framed(Contents', queue', Taken', e)
  <2>1. Taken' = 0
    BY DEF Taken
  <2> QED BY <1>2, <1>7, <2>1
<1>9. InFrame' /\ ReaderMsg'
  BY <1>8 DEF InFrame, ReaderMsg
<1>10. \A w \in Writers : WriterMsg(w)'
  BY <1>1 DEF MsgInv, WriterMsg, writerVars, Advance
<1> QED BY <1>9, <1>10 DEF MsgInv

\* The store that ends a ring_buf_rd or ring_buf_drop call: the next call goes
\* on with the message, or the message is returned.
LEMMA RdStoreMsg ==
    ASSUME Inv, MsgInv, RdStore
    PROVE  MsgInv' /\ (Messages!Receive \/ UNCHANGED <<queue, out>>)
<1>1. PICK m, r : m = queue[1] /\ r = Len(rgot)
  OBVIOUS
<1>2. /\ rphase \in {"header", "body", "drop"} /\ rphase # "idle" /\ rstep = "store"
      /\ rgot \in Seq(Byte) /\ rmsg \in Seq(Byte) /\ r \in Nat /\ rlen \in Nat
  BY <1>1 DEF RdStore, Inv, TypeOK, ReaderSound
<1>3. /\ queue # <<>> /\ r = Want
      /\ rphase \in {"body", "drop"} => rlen = Len(m)
      /\ rphase = "drop" => rlen > RdBuf /\ rmsg = SubSeq(m, 1, RdBuf)
  <2>1. r + rneed = Want /\ rneed = 0
    BY <1>1, <1>2 DEF MsgInv, ReaderMsg
  <2> QED BY <2>1, <1>1, <1>2 DEF MsgInv, ReaderMsg
<1>4. /\ m \in Msgs /\ m = Head(queue) /\ m \in Seq(Byte) /\ Len(m) \in Nat
      /\ RecordSize(m) = 2 + Len(m)
  BY <1>1, <1>2, WantIsThere, MessageSize
<1>5. \A k \in 1..r : rgot[k] = RecByte(m, Taken + k)
  BY <1>1, <1>2, <1>3, WantIsThere, GotIsThere
<1>6. CASE rphase = "header"
  <2>1. r = 2 /\ Taken = 0
    BY <1>3, <1>6 DEF Want, Taken
  <2>2. HeaderValue(rgot) = Len(m)
    <3>1. \A k \in 1..2 : rgot[k] = RecByte(m, k)
      BY <1>5, <2>1
    <3> QED BY <1>1, <1>2, <1>4, <2>1, <3>1, LengthRead
  <2>3. /\ RdNextCall("body", Least(HeaderValue(rgot), RdBuf))
        /\ rlen' = HeaderValue(rgot)
    BY <1>1, <1>6, <2>1 DEF RdStore, HeaderLen
  <2>4. /\ rphase' = "body" /\ rstep' = "first" /\ rneed' = Least(Len(m), RdBuf)
        /\ rgot' = <<>> /\ rlen' = Len(m) /\ UNCHANGED <<queue, out>>
    BY <2>2, <2>3 DEF RdNextCall
  <2>5. Taken' = Taken + Len(rgot)
    BY <1>1, <2>1, <2>4 DEF Taken
  <2>6. ReaderMsg'
    <3>1. Want' = Least(Len(m), RdBuf) /\ Least(Len(m), RdBuf) \in Nat
      BY <1>4, <2>4, RdBufAssumption DEF Want, Least
    <3>2. Len(rgot') + rneed' = Want'
      BY <2>4, <3>1
    <3> QED BY <1>1, <1>3, <2>4, <3>2 DEF ReaderMsg
  <2> QED BY <2>4, <2>5, <2>6, RdGoesOn
<1>7. CASE rphase = "body"
  <2>1. r = Least(rlen, RdBuf) /\ Taken = 2 /\ rlen = Len(m)
    BY <1>3, <1>7 DEF Want, Taken
  <2>2. rgot = SubSeq(m, 1, r)
    <3>1. \A k \in 1..r : rgot[k] = RecByte(m, 2 + k)
      BY <1>5, <2>1
    <3>2. r <= Len(m)
      BY <1>2, <2>1, RdBufAssumption DEF Least
    <3> QED BY <1>1, <1>2, <1>4, <3>1, <3>2, BodyRead
  <2>3. CASE rlen > RdBuf
    <3>1. r = RdBuf /\ rlen - RdBuf \in Nat
      BY <1>2, <2>1, <2>3, RdBufAssumption DEF Least
    <3>2. RdNextCall("drop", rlen - RdBuf) /\ rmsg' = rgot /\ rlen' = rlen
      BY <1>7, <2>3, <1>2, RdBufAssumption DEF RdStore
    <3>3. /\ rphase' = "drop" /\ rstep' = "first" /\ rneed' = rlen - RdBuf
          /\ rgot' = <<>> /\ UNCHANGED <<queue, out>>
      BY <3>2 DEF RdNextCall
    <3>4. Taken' = Taken + Len(rgot)
      BY <1>1, <2>1, <3>1, <3>3 DEF Taken
    <3>5. ReaderMsg'
      <4>1. Want' = rlen - RdBuf
        BY <3>2, <3>3 DEF Want
      <4>2. Len(rgot') + rneed' = Want'
        BY <3>1, <3>3, <4>1
      <4> QED BY <1>1, <1>3, <2>1, <2>2, <2>3, <3>1, <3>2, <3>3, <4>2 DEF ReaderMsg
    <3> QED BY <3>3, <3>4, <3>5, RdGoesOn
  <2>4. CASE ~(rlen > RdBuf)
    <3>1. r = Len(m) /\ Len(m) <= RdBuf
      BY <1>2, <2>1, <2>4, RdBufAssumption DEF Least
    <3>2. RdReturn(rgot)
      BY <1>7, <2>4, <1>2, RdBufAssumption DEF RdStore
    <3>3. rgot = Messages!Cut(Head(queue))
      BY <1>4, <2>2, <3>1 DEF Messages!Cut
    <3>4. Messages!Receive /\ queue' = Tail(queue) /\ rphase' = "idle"
      BY <1>3, <3>2, <3>3, ReturnReceives
    <3>5. RecordSize(queue[1]) = Taken + Len(rgot)
      BY <1>1, <1>4, <2>1, <3>1
    <3> QED BY <1>3, <3>4, <3>5, RdEnds
  <2> QED BY <2>3, <2>4
<1>8. CASE rphase = "drop"
  <2>1. r = rlen - RdBuf /\ Taken = 2 + RdBuf /\ rlen = Len(m) /\ rlen > RdBuf
    BY <1>3, <1>8 DEF Want, Taken
  <2>2. RdReturn(rmsg)
    BY <1>8 DEF RdStore
  <2>3. rmsg = Messages!Cut(Head(queue))
    <3>1. ~(Len(m) <= RdBuf)
      BY <1>4, <2>1, RdBufAssumption
    <3> QED BY <1>3, <1>4, <1>8, <3>1 DEF Messages!Cut
  <2>4. Messages!Receive /\ queue' = Tail(queue) /\ rphase' = "idle"
    BY <1>3, <2>2, <2>3, ReturnReceives
  <2>5. RecordSize(queue[1]) = Taken + Len(rgot)
    <3>1. PICK n : n = Len(m)
      OBVIOUS
    <3>2. n \in Nat /\ RecordSize(m) = 2 + n /\ r = n - RdBuf
      BY <1>4, <2>1, <3>1
    <3>3. 2 + n = (2 + RdBuf) + (n - RdBuf)
      BY <3>2, RdBufAssumption
    <3> QED BY <1>1, <2>1, <3>2, <3>3
  <2> QED BY <1>3, <2>4, <2>5, RdEnds
<1> QED BY <1>2, <1>6, <1>7, <1>8

\* A step of the system is, for the messages, a step of their queue or none.
LEMMA StepMsg ==
    ASSUME Inv, MsgInv, [Next]_vars, NEW w \in Writers, Writers = {w}
    PROVE  MsgInv' /\ [Messages!Next]_<<queue, out>>
<1>1. CASE UNCHANGED vars
  <2>1. UNCHANGED <<head, tail, cell, readerVars, queue, out, wpc, wmsg>>
    BY <1>1 DEF vars, writerVars
  <2>2. Contents' = Contents
    BY <2>1 DEF Contents, BytesAt, DataLen, Advance
  <2>3. InFrame' /\ ReaderMsg'
    BY <2>1, <2>2, FrameStays
  <2>4. WriterMsg(w)'
    BY <2>1 DEF MsgInv, WriterMsg, Advance
  <2> QED BY <2>1, <2>3, <2>4 DEF MsgInv
<1>2. CASE (\E m \in Msgs : WrCall(w, m)) \/ WrSnapshot(w)
  BY <1>2, WrBeginMsg
<1>3. CASE WrHeader(w) \/ WrBody(w)
  BY <1>3, WrUnitMsg
<1>4. CASE WrPublish(w)
  BY <1>4, WrPublishMsg DEF Messages!Next
<1>5. CASE RdCall
  BY <1>5, RdCallMsg
<1>6. CASE RdFirst \/ RdWrapped
  BY <1>6, RdCopyMsg
<1>7. CASE RdStore
  BY <1>7, RdStoreMsg DEF Messages!Next
<1> QED BY <1>1, <1>2, <1>3, <1>4, <1>5, <1>6, <1>7 DEF Next, Read, Write

\* With a single writer msg_ring_buf_wr and msg_ring_buf_rd implement a queue of
\* messages on the lock-free ring: what was accepted is returned once, whole up
\* to the size of the reader's buffer, in the order of acceptance.
THEOREM RingImplementsMsgFifo ==
    ASSUME NEW w, Writers = {w}
    PROVE  Spec => MessageFifo
<1>1. Init => Inv /\ MsgInv /\ Messages!Init
  BY InitInv, MsgInit DEF Init, Messages!Init
<1>2. Inv /\ MsgInv /\ [Next]_vars => Inv' /\ MsgInv' /\ [Messages!Next]_<<queue, out>>
  BY StepInv, StepMsg
<1> QED BY <1>1, <1>2, PTL DEF Spec, MessageFifo, Messages!Spec

-----------------------------------------------------------------------------
(* The two rings of remote_report.c, for any number of requests and        *)
(* reporting threads and any capacity.                                     *)
\* Except between waking up and looking at the recv ring, the messages in it
\* are matched by posts alone: the wake-up in progress has had its turn there,
\* and what arrives later brings a post of its own.
RecvMatched == pc # "recv" => Len(recv) <= sem + Unposted

\* NoStrandedRecord is not inductive by itself: with the send ring empty, the
\* end of a wake-up takes nothing and must not have been owed to a message.
RemoteInv == RemoteTypeOK /\ NoStrandedRecord /\ RecvMatched

Written(f, S) == {e \in S : f[e] = "written"}

\* Counting the writers that still have to post: one more when a record is
\* written, one less when it is posted, the same otherwise.
LEMMA WrittenCount ==
    ASSUME NEW S, IsFiniteSet(S), NEW f \in [S -> {"new", "written", "done"}],
           NEW e \in S
    PROVE  /\ Cardinality(Written(f, S)) \in Nat
           /\ f[e] = "new" =>
                /\ Cardinality(Written([f EXCEPT ![e] = "written"], S))
                     = Cardinality(Written(f, S)) + 1
                /\ Written([f EXCEPT ![e] = "done"], S) = Written(f, S)
           /\ f[e] = "written" =>
                Cardinality(Written([f EXCEPT ![e] = "done"], S))
                  = Cardinality(Written(f, S)) - 1
<1>1. IsFiniteSet(Written(f, S))
  BY FS_Subset DEF Written
<1>2. Cardinality(Written(f, S)) \in Nat
  BY <1>1, FS_CardinalityType
<1>3. ASSUME f[e] = "new"
      PROVE  /\ Cardinality(Written([f EXCEPT ![e] = "written"], S))
                  = Cardinality(Written(f, S)) + 1
             /\ Written([f EXCEPT ![e] = "done"], S) = Written(f, S)
  <2>1. Written([f EXCEPT ![e] = "written"], S) = Written(f, S) \cup {e}
    BY <1>3 DEF Written
  <2>2. e \notin Written(f, S)
    BY <1>3 DEF Written
  <2>3. Written([f EXCEPT ![e] = "done"], S) = Written(f, S)
    BY <1>3 DEF Written
  <2> QED BY <2>1, <2>2, <2>3, <1>1, FS_AddElement
<1>4. ASSUME f[e] = "written"
      PROVE  Cardinality(Written([f EXCEPT ![e] = "done"], S))
               = Cardinality(Written(f, S)) - 1
  <2>1. Written([f EXCEPT ![e] = "done"], S) = Written(f, S) \ {e}
    BY <1>4 DEF Written
  <2>2. e \in Written(f, S)
    BY <1>4 DEF Written
  <2> QED BY <2>1, <2>2, <1>1, FS_RemoveElement
<1> QED BY <1>2, <1>3, <1>4

\* The number of writers that still have to post, in either state.
LEMMA UnpostedType ==
    ASSUME RemoteTypeOK
    PROVE  /\ Unposted = Cardinality(Written(req, Requests))
                         + Cardinality(Written(rpt, Reports))
           /\ Cardinality(Written(req, Requests)) \in Nat
           /\ Cardinality(Written(rpt, Reports)) \in Nat
<1>1. IsFiniteSet(Written(req, Requests)) /\ IsFiniteSet(Written(rpt, Reports))
  BY FS_Subset, RequestsFinite, ReportsFinite DEF Written
<1> QED BY <1>1, FS_CardinalityType DEF Unposted, Written

LEMMA AcceptLen ==
    ASSUME NEW S, NEW s \in Seq(S), NEW m \in S
    PROVE  Append(s, m) \in Seq(S) /\ Len(Append(s, m)) = Len(s) + 1
OBVIOUS

LEMMA OneMoreEach ==
    ASSUME NEW a \in Nat, NEW b \in Nat, NEW o \in {0, 1},
           NEW s \in Nat, NEW u \in Nat, NEW h \in {0, 1},
           a + b + o <= s + u + h
    PROVE  a + 1 + b + o <= s + (u + 1) + h
OBVIOUS

LEMMA TakeLen ==
    ASSUME NEW S, NEW s \in Seq(S), s # <<>>
    PROVE  /\ Tail(s) \in Seq(S) /\ Len(Tail(s)) = Len(s) - 1
           /\ Head(s) \in S /\ Len(s) \in Nat /\ Len(s) > 0
OBVIOUS

LEMMA OutgoingTypes ==
    /\ \A r \in Requests : Answer(r) \in Outgoing /\ Change(r) \in Outgoing
    /\ \A x \in Reports : Report(x) \in Outgoing
BY DEF Answer, Change, Report, Outgoing

LEMMA RemoteInitInv == RemoteInit => RemoteInv
<1> SUFFICES ASSUME RemoteInit PROVE RemoteInv
  OBVIOUS
<1>1. RemoteTypeOK
  BY DEF RemoteInit, RemoteTypeOK
<1>2. Unposted \in Nat
  BY <1>1, UnpostedType
<1> QED BY <1>1, <1>2 DEF RemoteInit, RemoteInv, NoStrandedRecord, RecvMatched, Owed, InHand

\* A step of a writing thread: a record more in a ring is a writer more that
\* has to post, and a post moves it to the semaphore.
LEMMA WriterStep ==
    ASSUME RemoteInv,
           (\E r \in Requests : ReceiveWrite(r) \/ ReceivePost(r))
              \/ (\E x \in Reports : ReportWrite(x) \/ ReportPost(x))
    PROVE  RemoteInv'
<1>1. /\ recv \in Seq(Requests) /\ send \in Seq(Outgoing) /\ sem \in Nat
      /\ req \in [Requests -> {"new", "written", "done"}]
      /\ rpt \in [Reports -> {"new", "written", "done"}]
      /\ Len(recv) \in Nat /\ Len(send) \in Nat
  BY DEF RemoteInv, RemoteTypeOK
<1>2. Owed \in {0, 1} /\ InHand \in {0, 1}
  BY DEF Owed, InHand
<1>3. /\ Unposted = Cardinality(Written(req, Requests))
                    + Cardinality(Written(rpt, Reports))
      /\ Cardinality(Written(req, Requests)) \in Nat
      /\ Cardinality(Written(rpt, Reports)) \in Nat
  BY UnpostedType DEF RemoteInv
<1>4. /\ Unposted \in Nat
      /\ Len(recv) + Len(send) + Owed <= sem + Unposted + InHand
      /\ pc # "recv" => Len(recv) <= sem + Unposted
  BY <1>3 DEF RemoteInv, NoStrandedRecord, RecvMatched
<1>5. Unposted' = Cardinality(Written(req', Requests))
                  + Cardinality(Written(rpt', Reports))
  BY DEF Unposted, Written
<1>6. ASSUME NEW r \in Requests, ReceiveWrite(r) \/ ReceivePost(r)
      PROVE  RemoteInv'
  <2>1. UNCHANGED <<send, rpt, pc, cur>>
    BY <1>6 DEF ReceiveWrite, ReceivePost
  <2>2. CASE req[r] = "new" /\ Accepts(recv, r) /\ sem' = sem
             /\ req' = [req EXCEPT ![r] = "written"]
    <3>1. recv' \in Seq(Requests) /\ Len(recv') = Len(recv) + 1
      BY <2>2, <1>1, AcceptLen DEF Accepts
    <3>2. RemoteTypeOK'
      BY <2>1, <2>2, <3>1, <1>1 DEF RemoteInv, RemoteTypeOK
    <3>3. Unposted' = Unposted + 1
      <4>1. /\ Cardinality(Written(req', Requests))
                 = Cardinality(Written(req, Requests)) + 1
            /\ Written(rpt', Reports) = Written(rpt, Reports)
        BY <2>1, <2>2, <1>1, WrittenCount, RequestsFinite
      <4> QED BY <4>1, <1>3, <1>5
    <3>4. Len(recv) + 1 + Len(send) + Owed <= sem + (Unposted + 1) + InHand
      BY <1>1, <1>2, <1>4, OneMoreEach
    <3>5. Owed' = Owed /\ InHand' = InHand /\ send' = send /\ sem' = sem
      BY <2>1, <2>2 DEF Owed, InHand
    <3>6. NoStrandedRecord'
      BY <3>1, <3>3, <3>4, <3>5 DEF NoStrandedRecord
    <3>7. pc # "recv" => Len(recv) + 1 <= sem + (Unposted + 1)
      BY <1>1, <1>4
    <3>8. RecvMatched'
      BY <3>1, <3>3, <3>7, <2>1, <2>2 DEF RecvMatched
    <3> QED BY <3>2, <3>6, <3>8 DEF RemoteInv
  <2>3. CASE req[r] = "new" /\ Refuses(recv) /\ sem' = sem
             /\ req' = [req EXCEPT ![r] = "done"]
    <3>1. RemoteTypeOK'
      BY <2>1, <2>3, <1>1 DEF RemoteInv, RemoteTypeOK, Refuses
    <3>2. Unposted' = Unposted
      BY <2>1, <2>3, <1>1, WrittenCount, RequestsFinite DEF Unposted, Written
    <3> QED BY <3>1, <3>2, <2>1, <2>3
            DEF RemoteInv, NoStrandedRecord, RecvMatched, Owed, InHand, Refuses
  <2>4. CASE ReceivePost(r)
    <3>1. RemoteTypeOK'
      BY <2>1, <2>4, <1>1 DEF ReceivePost, RemoteInv, RemoteTypeOK
    <3>2. /\ Cardinality(Written(req', Requests))
               = Cardinality(Written(req, Requests)) - 1
          /\ Written(rpt', Reports) = Written(rpt, Reports)
      BY <2>1, <2>4, <1>1, WrittenCount, RequestsFinite DEF ReceivePost
    <3>3. Unposted' = Unposted - 1
      BY <3>2, <1>3, <1>5
    <3> QED BY <3>1, <3>3, <2>1, <2>4, <1>1, <1>2, <1>4
            DEF ReceivePost, RemoteInv, NoStrandedRecord, RecvMatched, Owed, InHand
  <2> QED BY <1>6, <2>2, <2>3, <2>4 DEF ReceiveWrite
<1>7. ASSUME NEW x \in Reports, ReportWrite(x) \/ ReportPost(x)
      PROVE  RemoteInv'
  <2>1. UNCHANGED <<recv, req, pc, cur>>
    BY <1>7 DEF ReportWrite, ReportPost
  <2>2. CASE rpt[x] = "new" /\ Accepts(send, Report(x)) /\ sem' = sem
             /\ rpt' = [rpt EXCEPT ![x] = "written"]
    <3>1. send' \in Seq(Outgoing) /\ Len(send') = Len(send) + 1
      BY <2>2, <1>1, AcceptLen, OutgoingTypes DEF Accepts
    <3>2. RemoteTypeOK'
      BY <2>1, <2>2, <3>1, <1>1 DEF RemoteInv, RemoteTypeOK
    <3>3. /\ Cardinality(Written(rpt', Reports))
               = Cardinality(Written(rpt, Reports)) + 1
          /\ Written(req', Requests) = Written(req, Requests)
      BY <2>1, <2>2, <1>1, WrittenCount, ReportsFinite
    <3>4. Unposted' = Unposted + 1
      BY <3>3, <1>3, <1>5
    <3>5. NoStrandedRecord'
      BY <3>1, <3>4, <2>1, <2>2, <1>1, <1>2, <1>4
         DEF NoStrandedRecord, Owed, InHand
    <3>6. RecvMatched'
      BY <3>1, <3>4, <2>1, <2>2, <1>1, <1>4 DEF RecvMatched
    <3> QED BY <3>2, <3>5, <3>6 DEF RemoteInv
  <2>3. CASE rpt[x] = "new" /\ Refuses(send) /\ sem' = sem
             /\ rpt' = [rpt EXCEPT ![x] = "done"]
    <3>1. RemoteTypeOK'
      BY <2>1, <2>3, <1>1 DEF RemoteInv, RemoteTypeOK, Refuses
    <3>2. Unposted' = Unposted
      BY <2>1, <2>3, <1>1, WrittenCount, ReportsFinite DEF Unposted, Written
    <3> QED BY <3>1, <3>2, <2>1, <2>3
            DEF RemoteInv, NoStrandedRecord, RecvMatched, Owed, InHand, Refuses
  <2>4. CASE ReportPost(x)
    <3>1. RemoteTypeOK'
      BY <2>1, <2>4, <1>1 DEF ReportPost, RemoteInv, RemoteTypeOK
    <3>2. /\ Cardinality(Written(rpt', Reports))
               = Cardinality(Written(rpt, Reports)) - 1
          /\ Written(req', Requests) = Written(req, Requests)
      BY <2>1, <2>4, <1>1, WrittenCount, ReportsFinite DEF ReportPost
    <3>3. Unposted' = Unposted - 1
      BY <3>2, <1>3, <1>5
    <3> QED BY <3>1, <3>3, <2>1, <2>4, <1>1, <1>2, <1>4
            DEF ReportPost, RemoteInv, NoStrandedRecord, RecvMatched, Owed, InHand
  <2> QED BY <1>7, <2>2, <2>3, <2>4 DEF ReportWrite
<1> QED BY <1>6, <1>7

\* A step of the deal task: it spends a post on the right to take one record,
\* and an answer takes the place of the request it answers.
LEMMA DealStep ==
    ASSUME RemoteInv, Deal
    PROVE  RemoteInv'
<1>1. /\ recv \in Seq(Requests) /\ send \in Seq(Outgoing) /\ sem \in Nat
      /\ Len(recv) \in Nat /\ Len(send) \in Nat
  BY DEF RemoteInv, RemoteTypeOK
<1>2. UNCHANGED <<req, rpt>>
  BY DEF Deal, DealWake, DealRecv, DealAnswer, DealChange, DealError, DealSend
<1>3. Unposted' = Unposted /\ Unposted \in Nat
  BY <1>2, UnpostedType DEF Unposted, RemoteInv
<1>4. /\ Len(recv) + Len(send) + Owed <= sem + Unposted + InHand
      /\ pc # "recv" => Len(recv) <= sem + Unposted
  BY DEF RemoteInv, NoStrandedRecord, RecvMatched
<1>5. CASE DealWake
  <2>1. RemoteTypeOK'
    BY <1>5, <1>1 DEF DealWake, RemoteInv, RemoteTypeOK
  <2> QED BY <1>5, <2>1, <1>1, <1>3, <1>4
          DEF DealWake, RemoteInv, NoStrandedRecord, RecvMatched, Owed, InHand
<1>6. CASE DealRecv
  <2>1. CASE recv = <<>>
    <3>1. RemoteTypeOK'
      BY <1>6, <2>1, <1>1 DEF DealRecv, RemoteInv, RemoteTypeOK
    <3> QED BY <1>6, <2>1, <3>1, <1>1, <1>3, <1>4
            DEF DealRecv, RemoteInv, NoStrandedRecord, RecvMatched, Owed, InHand
  <2>2. CASE recv # <<>>
    <3>1. /\ recv' \in Seq(Requests) /\ cur' \in Requests
          /\ Len(recv') = Len(recv) - 1
      BY <1>6, <2>2, <1>1, TakeLen DEF DealRecv
    <3>2. /\ pc = "recv" /\ pc' = "answer"
          /\ UNCHANGED <<send, sem>>
      BY <1>6, <2>2 DEF DealRecv
    <3>3. RemoteTypeOK'
      BY <1>2, <3>1, <3>2 DEF RemoteInv, RemoteTypeOK
    <3> QED BY <3>1, <3>2, <3>3, <1>1, <1>3, <1>4
            DEF RemoteInv, NoStrandedRecord, RecvMatched, Owed, InHand
  <2> QED BY <2>1, <2>2
<1>7. ASSUME NEW m \in Outgoing, send' = Append(send, m)
      PROVE  send' \in Seq(Outgoing) /\ Len(send') = Len(send) + 1
  BY <1>7, <1>1, AcceptLen
<1>8. CASE DealAnswer
  <2>1. UNCHANGED <<recv, sem, req, rpt, cur>> /\ cur \in Requests /\ pc = "answer"
    BY <1>8 DEF DealAnswer, RemoteInv, RemoteTypeOK
  <2>2. CASE UNCHANGED send /\ pc' \in {"send", "error", "refused"}
    BY <2>1, <2>2, <1>1, <1>3, <1>4
       DEF RemoteInv, RemoteTypeOK, NoStrandedRecord, RecvMatched, Owed, InHand
  <2>3. CASE send' = Append(send, Answer(cur)) /\ pc' = "change"
    <3>1. send' \in Seq(Outgoing) /\ Len(send') = Len(send) + 1
      BY <2>1, <2>3, <1>7, OutgoingTypes
    <3> QED BY <3>1, <2>1, <2>3, <1>1, <1>3, <1>4
            DEF RemoteInv, RemoteTypeOK, NoStrandedRecord, RecvMatched, Owed, InHand
  <2> QED BY <1>8, <2>2, <2>3 DEF DealAnswer, Accepts, Refuses
<1>9. CASE DealChange
  <2>1. /\ UNCHANGED <<recv, req, rpt, cur>> /\ cur \in Requests
        /\ \/ pc = "change" /\ pc' = "send"
           \/ pc = "refused" /\ pc' = "error"
    BY <1>9 DEF DealChange, RemoteInv, RemoteTypeOK
  <2>2. CASE UNCHANGED <<send, sem>>
    BY <2>1, <2>2, <1>1, <1>3, <1>4
       DEF RemoteInv, RemoteTypeOK, NoStrandedRecord, RecvMatched, Owed, InHand
  <2>3. CASE send' = Append(send, Change(cur)) /\ sem' = sem + 1
    <3>1. send' \in Seq(Outgoing) /\ Len(send') = Len(send) + 1
      BY <2>1, <2>3, <1>7, OutgoingTypes
    <3> QED BY <3>1, <2>1, <2>3, <1>1, <1>3, <1>4
            DEF RemoteInv, RemoteTypeOK, NoStrandedRecord, RecvMatched, Owed, InHand
  <2> QED BY <1>9, <2>2, <2>3 DEF DealChange, Accepts
<1>10. CASE DealError
  <2>1. /\ UNCHANGED <<recv, sem, req, rpt, cur>> /\ cur \in Requests
        /\ pc = "error" /\ pc' = "send"
    BY <1>10 DEF DealError, RemoteInv, RemoteTypeOK
  <2>2. CASE UNCHANGED send
    BY <2>1, <2>2, <1>1, <1>3, <1>4
       DEF RemoteInv, RemoteTypeOK, NoStrandedRecord, RecvMatched, Owed, InHand
  <2>3. CASE send' = Append(send, Answer(cur))
    <3>1. send' \in Seq(Outgoing) /\ Len(send') = Len(send) + 1
      BY <2>1, <2>3, <1>7, OutgoingTypes
    <3> QED BY <3>1, <2>1, <2>3, <1>1, <1>3, <1>4
            DEF RemoteInv, RemoteTypeOK, NoStrandedRecord, RecvMatched, Owed, InHand
  <2> QED BY <1>10, <2>2, <2>3 DEF DealError, Accepts, Refuses
<1>11. CASE DealSend
  <2>1. /\ send' \in Seq(Outgoing)
        /\ Len(send') = IF send = <<>> THEN 0 ELSE Len(send) - 1
        /\ send = <<>> => Len(send) = 0
    BY <1>11, <1>1, TakeLen DEF DealSend
  <2>2. RemoteTypeOK'
    BY <1>11, <2>1, <1>1 DEF DealSend, RemoteInv, RemoteTypeOK
  <2>3. /\ Len(recv) + Len(send) <= sem + Unposted + 1
        /\ Len(recv) <= sem + Unposted
    BY <1>11, <1>1, <1>3, <1>4 DEF DealSend, Owed, InHand
  <2>4. CASE send # <<>>
    BY <1>11, <2>1, <2>2, <2>3, <2>4, <1>1, <1>3
       DEF DealSend, RemoteInv, NoStrandedRecord, RecvMatched, Owed, InHand
  <2>5. CASE send = <<>>
    BY <1>11, <2>1, <2>2, <2>3, <2>5, <1>1, <1>3
       DEF DealSend, RemoteInv, NoStrandedRecord, RecvMatched, Owed, InHand
  <2> QED BY <2>4, <2>5
<1> QED BY <1>5, <1>6, <1>8, <1>9, <1>10, <1>11 DEF Deal

\* Whatever the interleaving of receivers, reporters and the deal task, a
\* record in a ring always has a wake-up to come.
THEOREM NoRecordStranded == RemoteSpec => []RingsSound
<1>1. RemoteInit => RemoteInv
  BY RemoteInitInv
<1>2. RemoteInv /\ [RemoteNext]_remoteVars => RemoteInv'
  <2> SUFFICES ASSUME RemoteInv, [RemoteNext]_remoteVars PROVE RemoteInv'
    OBVIOUS
  <2>1. CASE UNCHANGED remoteVars
    BY <2>1 DEF remoteVars, RemoteInv, RemoteTypeOK, NoStrandedRecord, RecvMatched, Owed,
                InHand, Unposted
  <2> QED BY <2>1, WriterStep, DealStep DEF RemoteNext
<1>3. RemoteInv => RingsSound
  BY DEF RemoteInv, RingsSound
<1> QED BY <1>1, <1>2, <1>3, PTL DEF RemoteSpec
=============================================================================
