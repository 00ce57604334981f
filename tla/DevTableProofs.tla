---------------------------- MODULE DevTableProofs ---------------------------
(***************************************************************************)
(* Theorems about DevTable, for every number of types, ids, threads,       *)
(* operations and crashes.                                                 *)
(*                                                                         *)
(* The locks: where a thread is, and for which operation, says which of    *)
(* the two locks it has (HasRom, HasRam); LockInv says that the operation  *)
(* is one that can be at that place, which is what each early return and   *)
(* each time-out relies on when it posts a lock or does not.               *)
(*                                                                         *)
(* The table: an operation of s_dev_data_add, _del or _swap_id is cut into *)
(* its writes, and what each place of it relies on (Found, Lacks) is kept  *)
(* by the locks alone.  A start merges a backup with files that may have   *)
(* changed: Merging is what holds when the types below t are done.         *)
(*                                                                         *)
(* The backup: SaveInv compares its blocks with the table the CRC is of.   *)
(* The addresses: Good says of an address in a file that it is the one in  *)
(* the record, or on its way there, or that the device is in suspect;      *)
(* SwapGood says it of files that have another name at the moment.         *)
(***************************************************************************)
EXTENDS DevTable, FiniteSetTheorems, FunctionTheorems, WellFoundedInduction, TLAPS

WithRom == {w \in Workers : HasRom(w)}
WithRam == {w \in Workers : HasRam(w)}

\* The operations that can be at a place.
RightPlace(w) ==
    /\ pc[w] = "rom" => Op(w) # "level"
    /\ pc[w] = "ram" => Op(w) # "rename"
    /\ pc[w] = "file" => RomOnly(w)
    /\ pc[w] = "record" => RamOnly(w)

RomHeld ==
    \/ rom = 1 /\ WithRom = {}
    \/ rom = 0 /\ \E w \in Workers : WithRom = {w}

RamHeld ==
    \/ ram = 1 /\ WithRam = {} /\ saver = "idle"
    \/ ram = 0 /\ WithRam = {} /\ saver = "blocks"
    \/ ram = 0 /\ saver = "idle" /\ \E w \in Workers : WithRam = {w}

\* Nothing runs while the program is off; only the backup while it starts.
Quiet == rom = 1 /\ \A w \in Workers : pc[w] = "idle"

LockInv ==
    /\ pc \in [Workers -> Places] /\ DOMAIN job = Workers
    /\ \A w \in Workers : RightPlace(w)
    /\ RomHeld /\ RamHeld
    /\ phase \in {"up", "down", "boot"}
    /\ phase = "down" => Quiet /\ ram = 1 /\ saver = "idle"
    /\ phase = "boot" => Quiet /\ ram = 0 /\ saver = "blocks"

-----------------------------------------------------------------------------

LEMMA LockInit == Init => LockInv
  BY DEF Init, LockInv, Places, RightPlace, RomHeld, RamHeld, WithRom, WithRam,
         HasRom, HasRam, Quiet

\* A thread goes from one place to another: it keeps a lock, takes one that is
\* free, or posts one that it has.
Keeps(w) == rom' = rom /\ HasRom(w)' = HasRom(w)
Takes(w) == rom > 0 /\ rom' = rom - 1 /\ HasRom(w)'
Posts(w) == rom' = rom + 1 /\ HasRom(w) /\ ~HasRom(w)'
KeepsRam(w) == ram' = ram /\ HasRam(w)' = HasRam(w)
TakesRam(w) == ram > 0 /\ ram' = ram - 1 /\ HasRam(w)'
PostsRam(w) == ram' = ram + 1 /\ HasRam(w) /\ ~HasRam(w)'

Moves(w, p) ==
    /\ phase = "up" /\ phase' = phase /\ saver' = saver
    /\ pc' = [pc EXCEPT ![w] = p]
    /\ DOMAIN job' = Workers /\ \A v \in Workers : v # w => job'[v] = job[v]
    /\ RightPlace(w)'
    /\ Keeps(w) \/ Takes(w) \/ Posts(w)
    /\ KeepsRam(w) \/ TakesRam(w) \/ PostsRam(w)

LEMMA Step ==
  ASSUME LockInv, NEW w \in Workers, NEW p \in Places, Moves(w, p)
  PROVE  LockInv'
  <1>0. /\ phase = "up" /\ phase' = phase /\ saver' = saver
        /\ pc' = [pc EXCEPT ![w] = p]
        /\ DOMAIN job' = Workers /\ \A v \in Workers : v # w => job'[v] = job[v]
        /\ RightPlace(w)'
        /\ Keeps(w) \/ Takes(w) \/ Posts(w)
        /\ KeepsRam(w) \/ TakesRam(w) \/ PostsRam(w)
    BY DEF Moves
  <1>1. pc' \in [Workers -> Places] /\ pc'[w] = p
    BY <1>0 DEF LockInv
  <1>2. \A v \in Workers : v # w => pc'[v] = pc[v]
    BY <1>0 DEF LockInv
  <1>3. \A v \in Workers : v # w => /\ HasRom(v)' = HasRom(v)
                                    /\ HasRam(v)' = HasRam(v)
    BY <1>0, <1>2 DEF HasRom, HasRam, RamOnly, Op
  <1>4. \A v \in Workers : RightPlace(v)'
    BY <1>0, <1>2 DEF LockInv, RightPlace, RomOnly, RamOnly, Op
  <1>5. /\ WithRom' = {v \in Workers : HasRom(v)'}
        /\ WithRam' = {v \in Workers : HasRam(v)'}
    BY DEF WithRom, WithRam
  <1>6. RomHeld'
    <2>0. RomHeld
      BY DEF LockInv
    <2>1. CASE Keeps(w)
      <3>1. WithRom' = WithRom
        BY <2>1, <1>3, <1>5 DEF Keeps, WithRom
      <3> QED
        BY <3>1, <2>0, <2>1 DEF Keeps, RomHeld
    <2>2. CASE Takes(w)
      <3>1. rom' = 0 /\ WithRom = {}
        BY <2>0, <2>2 DEF Takes, RomHeld
      <3>2. WithRom' = {w}
        BY <2>2, <3>1, <1>3, <1>5 DEF Takes, WithRom
      <3> QED
        BY <3>1, <3>2 DEF RomHeld
    <2>3. CASE Posts(w)
      <3>1. w \in WithRom
        BY <2>3 DEF Posts, WithRom
      <3>2. rom' = 1 /\ WithRom = {w}
        BY <2>0, <2>3, <3>1 DEF Posts, RomHeld
      <3>3. WithRom' = {}
        BY <2>3, <3>2, <1>3, <1>5 DEF Posts, WithRom
      <3> QED
        BY <3>2, <3>3 DEF RomHeld
    <2> QED
      BY <1>0, <2>1, <2>2, <2>3
  <1>7. RamHeld'
    <2>0. RamHeld
      BY DEF LockInv
    <2>1. CASE KeepsRam(w)
      <3>1. WithRam' = WithRam
        BY <2>1, <1>3, <1>5 DEF KeepsRam, WithRam
      <3> QED
        BY <1>0, <3>1, <2>0, <2>1 DEF KeepsRam, RamHeld
    <2>2. CASE TakesRam(w)
      <3>1. ram' = 0 /\ WithRam = {} /\ saver = "idle"
        BY <1>0, <2>0, <2>2 DEF TakesRam, RamHeld
      <3>2. WithRam' = {w}
        BY <2>2, <3>1, <1>3, <1>5 DEF TakesRam, WithRam
      <3> QED
        BY <1>0, <3>1, <3>2 DEF RamHeld
    <2>3. CASE PostsRam(w)
      <3>1. w \in WithRam
        BY <2>3 DEF PostsRam, WithRam
      <3>2. ram' = 1 /\ WithRam = {w} /\ saver = "idle"
        BY <1>0, <2>0, <2>3, <3>1 DEF PostsRam, RamHeld
      <3>3. WithRam' = {}
        BY <2>3, <3>2, <1>3, <1>5 DEF PostsRam, WithRam
      <3> QED
        BY <1>0, <3>2, <3>3 DEF RamHeld
    <2> QED
      BY <1>0, <2>1, <2>2, <2>3
  <1> QED
    BY <1>0, <1>1, <1>4, <1>6, <1>7 DEF LockInv

\* The steps of one thread.
Work(w) ==
    \/ \E j \in Jobs(w) : Start(w, j)
    \/ TakeRom(w) \/ TakeRam(w) \/ GiveUpRom(w) \/ GiveUpRam(w) \/ Leave(w)
    \/ WriteFile(w) \/ WriteRecord(w)
    \/ Create(w) \/ FillFile(w) \/ AddRecord(w)
    \/ DelFile(w) \/ DelRecord(w) \/ DelAllFile(w) \/ DelAllRecords(w)
    \/ SwapAway(w) \/ SwapOver(w) \/ SwapBack(w) \/ SwapRecords(w)

LEMMA WorkLock ==
  ASSUME LockInv, NEW w \in Workers, Work(w)
  PROVE  LockInv'
  <1>0. /\ pc \in [Workers -> Places] /\ pc[w] \in Places /\ RightPlace(w)
        /\ DOMAIN job = Workers
    BY DEF LockInv
  <1>1. ASSUME NEW j \in Jobs(w), Start(w, j)  PROVE LockInv'
    <2>1. \E p \in {"ram", "rom"} : Moves(w, p)
      <3>1. CASE j.op = "level"
        <4>1. pc' = [pc EXCEPT ![w] = "ram"] /\ pc'[w] = "ram"
          BY <1>0, <1>1, <3>1 DEF Start, Goto
        <4>2. Moves(w, "ram")
          BY <1>0, <1>1, <3>1, <4>1
          DEF Start, At, Goto, Op, RomOnly, RamOnly, Places, RightPlace,
                 HasRom, HasRam, Moves, Keeps, Takes, Posts, KeepsRam, TakesRam, PostsRam,
                 saves, history, disk
        <4> QED
          BY <4>2
      <3>2. CASE j.op # "level"
        <4>1. pc' = [pc EXCEPT ![w] = "rom"] /\ pc'[w] = "rom"
          BY <1>0, <1>1, <3>2 DEF Start, Goto
        <4>2. Moves(w, "rom")
          BY <1>0, <1>1, <3>2, <4>1
          DEF Start, At, Goto, Op, RomOnly, RamOnly, Places, RightPlace,
                 HasRom, HasRam, Moves, Keeps, Takes, Posts, KeepsRam, TakesRam, PostsRam,
                 saves, history, disk
        <4> QED
          BY <4>2
      <3> QED
        BY <3>1, <3>2
    <2> QED
      BY <2>1, Step DEF Places
  <1>2. CASE TakeRom(w)
    <2>1. \E p \in {"file", "ram"} : Moves(w, p)
      <3>1. CASE RomOnly(w)
        <4>1. pc' = [pc EXCEPT ![w] = "file"] /\ pc'[w] = "file"
          BY <1>0, <1>2, <3>1 DEF TakeRom, Goto
        <4>2. Moves(w, "file")
          BY <1>0, <1>2, <3>1, <4>1
          DEF TakeRom, At, Goto, Op, RomOnly, RamOnly, Places, RightPlace,
                 HasRom, HasRam, Moves, Keeps, Takes, Posts, KeepsRam, TakesRam, PostsRam,
                 saves, history, disk
        <4> QED
          BY <4>2
      <3>2. CASE ~RomOnly(w)
        <4>1. pc' = [pc EXCEPT ![w] = "ram"] /\ pc'[w] = "ram"
          BY <1>0, <1>2, <3>2 DEF TakeRom, Goto
        <4>2. Moves(w, "ram")
          BY <1>0, <1>2, <3>2, <4>1
          DEF TakeRom, At, Goto, Op, RomOnly, RamOnly, Places, RightPlace,
                 HasRom, HasRam, Moves, Keeps, Takes, Posts, KeepsRam, TakesRam, PostsRam,
                 saves, history, disk
        <4> QED
          BY <4>2
      <3> QED
        BY <3>1, <3>2
    <2> QED
      BY <2>1, Step DEF Places
  <1>3. CASE TakeRam(w)
    <2>1. \E p \in {"record", "both"} : Moves(w, p)
      BY <1>0, <1>3
      DEF TakeRam, At, Goto, Op, RomOnly, RamOnly, Places, RightPlace,
             HasRom, HasRam, Moves, Keeps, Takes, Posts, KeepsRam, TakesRam, PostsRam,
             saves, history, disk
    <2> QED
      BY <2>1, Step DEF Places
  <1>4. CASE GiveUpRom(w)
    <2>1. \E p \in {"idle"} : Moves(w, p)
      BY <1>0, <1>4
      DEF GiveUpRom, At, Goto, Op, RomOnly, RamOnly, Places, RightPlace,
             HasRom, HasRam, Moves, Keeps, Takes, Posts, KeepsRam, TakesRam, PostsRam,
             saves, history, disk
    <2> QED
      BY <2>1, Step DEF Places
  <1>5. CASE GiveUpRam(w)
    <2>1. \E p \in {"idle"} : Moves(w, p)
      BY <1>0, <1>5
      DEF GiveUpRam, At, Goto, Op, RomOnly, RamOnly, Places, RightPlace,
             HasRom, HasRam, Moves, Keeps, Takes, Posts, KeepsRam, TakesRam, PostsRam,
             saves, history, disk
    <2> QED
      BY <2>1, Step DEF Places
  <1>6. CASE Leave(w)
    <2>1. \E p \in {"idle"} : Moves(w, p)
      BY <1>0, <1>6
      DEF Leave, At, Goto, Op, RomOnly, RamOnly, Places, RightPlace,
             HasRom, HasRam, Moves, Keeps, Takes, Posts, KeepsRam, TakesRam, PostsRam,
             saves, history, disk
    <2> QED
      BY <2>1, Step DEF Places
  <1>7. CASE WriteFile(w)
    <2>1. \E p \in {"ram", "idle"} : Moves(w, p)
      <3>1. /\ At(w, "file") /\ rom' = rom + 1
            /\ phase' = phase /\ ram' = ram /\ job' = job /\ saver' = saver
        BY <1>7 DEF WriteFile, saves
      <3>2. \/ pc' = [pc EXCEPT ![w] = "idle"]
            \/ pc' = [pc EXCEPT ![w] = "ram"] /\ Op(w) = "readdress"
        BY <1>7 DEF WriteFile, Goto
      <3>3. CASE pc' = [pc EXCEPT ![w] = "idle"]
        <4>1. Moves(w, "idle")
          BY <1>0, <3>1, <3>3
          DEF At, Goto, Op, RomOnly, RamOnly, Places, RightPlace,
                 HasRom, HasRam, Moves, Keeps, Takes, Posts, KeepsRam, TakesRam, PostsRam,
                 saves, history, disk
        <4> QED
          BY <4>1
      <3>4. CASE pc' = [pc EXCEPT ![w] = "ram"] /\ Op(w) = "readdress"
        <4>1. Moves(w, "ram")
          BY <1>0, <3>1, <3>4
          DEF At, Goto, Op, RomOnly, RamOnly, Places, RightPlace,
                 HasRom, HasRam, Moves, Keeps, Takes, Posts, KeepsRam, TakesRam, PostsRam,
                 saves, history, disk
        <4> QED
          BY <4>1
      <3> QED
        BY <3>2, <3>3, <3>4
    <2> QED
      BY <2>1, Step DEF Places
  <1>8. CASE WriteRecord(w)
    <2>1. \E p \in {"idle"} : Moves(w, p)
      BY <1>0, <1>8
      DEF WriteRecord, At, Goto, Op, RomOnly, RamOnly, Places, RightPlace,
             HasRom, HasRam, Moves, Keeps, Takes, Posts, KeepsRam, TakesRam, PostsRam,
             saves, history, disk
    <2> QED
      BY <2>1, Step DEF Places
  <1>9. CASE Create(w)
    <2>1. \E p \in {"leave", "fill"} : Moves(w, p)
      BY <1>0, <1>9
      DEF Create, At, Goto, Op, RomOnly, RamOnly, Places, RightPlace,
             HasRom, HasRam, Moves, Keeps, Takes, Posts, KeepsRam, TakesRam, PostsRam,
             saves, history, disk
    <2> QED
      BY <2>1, Step DEF Places
  <1>10. CASE FillFile(w)
    <2>1. \E p \in {"insert"} : Moves(w, p)
      BY <1>0, <1>10
      DEF FillFile, At, Goto, Op, RomOnly, RamOnly, Places, RightPlace,
             HasRom, HasRam, Moves, Keeps, Takes, Posts, KeepsRam, TakesRam, PostsRam,
             saves, history, disk
    <2> QED
      BY <2>1, Step DEF Places
  <1>11. CASE AddRecord(w)
    <2>1. \E p \in {"leave"} : Moves(w, p)
      BY <1>0, <1>11
      DEF AddRecord, At, Goto, Op, RomOnly, RamOnly, Places, RightPlace,
             HasRom, HasRam, Moves, Keeps, Takes, Posts, KeepsRam, TakesRam, PostsRam,
             saves, history, disk
    <2> QED
      BY <2>1, Step DEF Places
  <1>12. CASE DelFile(w)
    <2>1. \E p \in {"unlist", "leave"} : Moves(w, p)
      BY <1>0, <1>12
      DEF DelFile, At, Goto, Op, RomOnly, RamOnly, Places, RightPlace,
             HasRom, HasRam, Moves, Keeps, Takes, Posts, KeepsRam, TakesRam, PostsRam,
             saves, history, disk
    <2> QED
      BY <2>1, Step DEF Places
  <1>13. CASE DelRecord(w)
    <2>1. \E p \in {"leave"} : Moves(w, p)
      BY <1>0, <1>13
      DEF DelRecord, At, Goto, Op, RomOnly, RamOnly, Places, RightPlace,
             HasRom, HasRam, Moves, Keeps, Takes, Posts, KeepsRam, TakesRam, PostsRam,
             saves, history, disk
    <2> QED
      BY <2>1, Step DEF Places
  <1>14. CASE DelAllFile(w)
    <2>1. \E p \in {"both", "leave"} : Moves(w, p)
      <3>1. CASE pc' = pc
        <4>1. pc' = [pc EXCEPT ![w] = "both"]
          BY <1>0, <1>14, <3>1 DEF DelAllFile, At
        <4> QED
          BY <1>0, <1>14, <3>1, <4>1 
          DEF DelAllFile, At, Goto, Op, RomOnly, RamOnly, Places, RightPlace,
             HasRom, HasRam, Moves, Keeps, Takes, Posts, KeepsRam, TakesRam, PostsRam,
             saves, history, disk
      <3>2. CASE pc' = [pc EXCEPT ![w] = "leave"]
        BY <1>0, <1>14, <3>2
        DEF DelAllFile, At, Goto, Op, RomOnly, RamOnly, Places, RightPlace,
             HasRom, HasRam, Moves, Keeps, Takes, Posts, KeepsRam, TakesRam, PostsRam,
             saves, history, disk
      <3> QED
        BY <1>14, <3>1, <3>2 DEF DelAllFile, Goto
    <2> QED
      BY <2>1, Step DEF Places
  <1>15. CASE DelAllRecords(w)
    <2>1. \E p \in {"leave"} : Moves(w, p)
      BY <1>0, <1>15
      DEF DelAllRecords, At, Goto, Op, RomOnly, RamOnly, Places, RightPlace,
             HasRom, HasRam, Moves, Keeps, Takes, Posts, KeepsRam, TakesRam, PostsRam,
             saves, history, disk
    <2> QED
      BY <2>1, Step DEF Places
  <1>16. CASE SwapAway(w)
    <2>1. \E p \in {"swap2", "leave"} : Moves(w, p)
      BY <1>0, <1>16
      DEF SwapAway, At, Goto, Op, RomOnly, RamOnly, Places, RightPlace,
             HasRom, HasRam, Moves, Keeps, Takes, Posts, KeepsRam, TakesRam, PostsRam,
             saves, history, disk
    <2> QED
      BY <2>1, Step DEF Places
  <1>17. CASE SwapOver(w)
    <2>1. \E p \in {"swap3", "leave"} : Moves(w, p)
      BY <1>0, <1>17
      DEF SwapOver, At, Goto, Op, RomOnly, RamOnly, Places, RightPlace,
             HasRom, HasRam, Moves, Keeps, Takes, Posts, KeepsRam, TakesRam, PostsRam,
             saves, history, disk
    <2> QED
      BY <2>1, Step DEF Places
  <1>18. CASE SwapBack(w)
    <2>1. \E p \in {"swap4"} : Moves(w, p)
      BY <1>0, <1>18
      DEF SwapBack, At, Goto, Op, RomOnly, RamOnly, Places, RightPlace,
             HasRom, HasRam, Moves, Keeps, Takes, Posts, KeepsRam, TakesRam, PostsRam,
             saves, history, disk
    <2> QED
      BY <2>1, Step DEF Places
  <1>19. CASE SwapRecords(w)
    <2>1. \E p \in {"leave"} : Moves(w, p)
      BY <1>0, <1>19
      DEF SwapRecords, At, Goto, Op, RomOnly, RamOnly, Places, RightPlace,
             HasRom, HasRam, Moves, Keeps, Takes, Posts, KeepsRam, TakesRam, PostsRam,
             saves, history, disk
    <2> QED
      BY <2>1, Step DEF Places
  <1> QED
    BY <1>1, <1>2, <1>3, <1>4, <1>5, <1>6, <1>7, <1>8, <1>9, <1>10, <1>11, <1>12, <1>13, <1>14, <1>15, <1>16, <1>17, <1>18, <1>19 DEF Work

LEMMA NextLock == LockInv /\ [Next]_vars => LockInv'
  <1> SUFFICES ASSUME LockInv, [Next]_vars  PROVE LockInv'
    OBVIOUS
  <1>1. ASSUME NEW w \in Workers, Work(w)  PROVE LockInv'
    BY <1>1, WorkLock
  <1>2. ASSUME pc' = pc, job' = job, rom' = rom
        PROVE  /\ WithRom' = WithRom /\ WithRam' = WithRam
               /\ RomHeld' /\ \A w \in Workers : RightPlace(w)'
               /\ Quiet' = Quiet
    BY <1>2 DEF WithRom, WithRam, HasRom, HasRam, RomHeld, RightPlace, RomOnly, RamOnly, Op,
                LockInv, Quiet
  <1>3. CASE SyncStart
    <2>1. pc' = pc /\ job' = job /\ rom' = rom /\ phase' = phase
      BY <1>3 DEF SyncStart
    <2>2. RamHeld'
      BY <1>2, <1>3, <2>1 DEF SyncStart, RamHeld, LockInv
    <2> QED
      BY <1>2, <1>3, <2>1, <2>2 DEF SyncStart, LockInv
  <1>4. CASE SaveBlock
    <2>1. pc' = pc /\ job' = job /\ rom' = rom
      BY <1>4 DEF SaveBlock
    <2> QED
      BY <1>2, <1>4, <2>1 DEF SaveBlock, RamHeld, LockInv
  <1>5. CASE SaveCrc
    <2>1. pc' = pc /\ job' = job /\ rom' = rom
      BY <1>5 DEF SaveCrc
    <2> QED
      BY <1>2, <1>5, <2>1 DEF SaveCrc, RamHeld, LockInv
  <1>6. CASE Crash
    <2>1. /\ pc' = [w \in Workers |-> "idle"] /\ DOMAIN job' = Workers
          /\ ram' = 1 /\ rom' = 1 /\ phase' = "down" /\ saver' = "idle"
      BY <1>6 DEF Crash
    <2>2. WithRom' = {} /\ WithRam' = {} /\ Quiet'
      BY <2>1 DEF WithRom, WithRam, HasRom, HasRam, Quiet
    <2>3. \A w \in Workers : RightPlace(w)'
      BY <2>1 DEF RightPlace
    <2> QED
      BY <2>1, <2>2, <2>3 DEF LockInv, RomHeld, RamHeld, Places
  <1>7. CASE Boot
    <2>1. pc' = pc /\ job' = job /\ rom' = rom
      BY <1>7 DEF Boot
    <2>2. Quiet /\ WithRam = {}
      BY <1>7 DEF Boot, LockInv, Quiet, WithRam, HasRam
    <2> QED
      BY <1>2, <1>7, <2>1, <2>2 DEF Boot, LockInv, RamHeld
  <1>8. CASE UNCHANGED vars
    BY <1>2, <1>8 DEF vars, saves, disk, history, LockInv, RamHeld
  <1> QED
    BY <1>1, <1>3, <1>4, <1>5, <1>6, <1>7, <1>8 DEF Next, Work

LEMMA LockSafe == LockInv => LocksReturn
  <1> SUFFICES ASSUME LockInv  PROVE LocksReturn
    OBVIOUS
  <1>1. /\ WithRom = {w \in Workers : HasRom(w)}
        /\ WithRam = {w \in Workers : HasRam(w)}
    BY DEF WithRom, WithRam
  <1>2. Cardinality({}) = 0 /\ \A w \in Workers : Cardinality({w}) = 1
    BY FS_EmptySet, FS_Singleton
  <1>3. rom + Cardinality(WithRom) = 1
    BY <1>2 DEF LockInv, RomHeld
  <1>4. ram + Cardinality(WithRam) + (IF saver = "idle" THEN 0 ELSE 1) = 1
    BY <1>2 DEF LockInv, RamHeld
  <1> QED
    BY <1>1, <1>3, <1>4 DEF LocksReturn

\* A lock is free or with one thread, whatever operation times out or returns
\* early where, and for any number of threads.
THEOREM LocksReturnHolds == Spec => []LocksReturn
  <1>1. Init => LockInv
    BY LockInit
  <1>2. LockInv /\ [Next]_vars => LockInv'
    BY NextLock
  <1>3. LockInv => LocksReturn
    BY LockSafe
  <1> QED
    BY <1>1, <1>2, <1>3, PTL DEF Spec

-----------------------------------------------------------------------------
(* Counted loops: a function defined from index to index has a value, and
   what holds at first and is handed on holds of every index. *)

LEMMA HasLeast ==
  ASSUME NEW S, S \subseteq Nat, S # {}, NEW R, IsWellFoundedOn(R, Nat),
         \A i, j \in Nat : j < i => <<j, i>> \in R
  PROVE  \E i \in S : \A j \in S : i <= j
  <1>1. PICK i \in S : \A j \in S : ~ (<<j, i>> \in R)
    BY WFMin
  <1>2. ASSUME NEW j \in S  PROVE i <= j
    <2>1. ~(j < i) /\ i \in Nat /\ j \in Nat
      BY <1>1
    <2> QED
      BY <2>1
  <1> QED
    BY <1>2

LEMMA Least ==
  ASSUME NEW S, S \subseteq Nat, S # {}
  PROVE  \E i \in S : \A j \in S : i <= j
  <1>1. IsWellFoundedOn(OpToRel(<, Nat), Nat)
    BY NatLessThanWellFounded
  <1>2. \A i, j \in Nat : j < i => <<j, i>> \in OpToRel(<, Nat)
    BY DEF OpToRel
  <1> QED
    BY <1>1, <1>2, HasLeast

LEMMA Handed ==
  ASSUME NEW N \in Nat, NEW S, 0 \in S, \A n \in 1..N : n - 1 \in S => n \in S
  PROVE  \A n \in 0..N : n \in S
  <1> SUFFICES ASSUME NEW b \in 0..N, b \notin S  PROVE FALSE
    OBVIOUS
  <1> DEFINE Bad == {n \in 0..N : n \notin S}
  <1>1. Bad \subseteq Nat /\ Bad # {}
    OBVIOUS
  <1>2. PICK i \in Bad : \A j \in Bad : i <= j
    BY <1>1, Least
  <1>3. i # 0 /\ i \in 1..N /\ i - 1 \in 0..N
    BY <1>2
  <1>4. i - 1 \notin Bad
    BY <1>2, <1>3
  <1> QED
    BY <1>2, <1>3, <1>4

\* x at first, afterwards what step[n] makes of the value before.
Counts(N, x, step, f) == f[0] = x /\ \A n \in 1..N : f[n] = step[n][f[n - 1]]
Counted(N, x, step, f) == [n \in 0..N |-> IF n = 0 THEN x ELSE step[n][f[n - 1]]]

LEMMA CountedSame ==
  ASSUME NEW N \in Nat, NEW A, NEW x, NEW step, NEW f
  PROVE  /\ f \in [0..N -> A] /\ Counts(N, x, step, f) => f = Counted(N, x, step, f)
         /\ f = Counted(N, x, step, f) => Counts(N, x, step, f)
  <1>1. ASSUME f \in [0..N -> A], Counts(N, x, step, f)
        PROVE  f = Counted(N, x, step, f)
    <2> DEFINE g == Counted(N, x, step, f)
    <2>1. \A n \in 0..N : g[n] = IF n = 0 THEN x ELSE step[n][f[n - 1]]
      BY DEF Counted
    <2>2. DOMAIN g = 0..N /\ g = [n \in 0..N |-> g[n]]
      BY DEF Counted
    <2> HIDE DEF g
    <2>3. \A n \in 0..N : f[n] = g[n]
      BY <1>1, <2>1 DEF Counts
    <2>4. f = g
      BY <1>1, <2>2, <2>3
    <2> QED
      BY <2>4 DEF g
  <1>2. ASSUME f = Counted(N, x, step, f)  PROVE Counts(N, x, step, f)
    <2> DEFINE g == Counted(N, x, step, f)
    <2>1. \A n \in 0..N : g[n] = IF n = 0 THEN x ELSE step[n][f[n - 1]]
      BY DEF Counted
    <2> HIDE DEF g
    <2>2. f = g
      BY <1>2 DEF g
    <2>3. \A n \in 1..N : n \in 0..N /\ n # 0
      OBVIOUS
    <2>4. 0 \in 0..N
      OBVIOUS
    <2> QED
      BY <2>1, <2>2, <2>3, <2>4 DEF Counts
  <1> QED
    BY <1>1, <1>2

LEMMA CountedEnds ==
  ASSUME NEW N \in Nat, NEW A, NEW x \in A, NEW step \in [1..N -> [A -> A]]
  PROVE  \E f \in [0..N -> A] : Counts(N, x, step, f)
  <1> DEFINE S == {m \in 0..N : \E f \in [0..m -> A] : Counts(m, x, step, f)}
  <1>1. 0 \in S
    <2>1. [n \in 0..0 |-> x] \in [0..0 -> A] /\ Counts(0, x, step, [n \in 0..0 |-> x])
      BY DEF Counts
    <2> QED
      BY <2>1
  <1>2. ASSUME NEW m \in 1..N, m - 1 \in S  PROVE m \in S
    <2>1. PICK f \in [0..(m - 1) -> A] : Counts(m - 1, x, step, f)
      BY <1>2
    <2> DEFINE g == [n \in 0..m |-> IF n = m THEN step[m][f[m - 1]] ELSE f[n]]
    <2>2. g \in [0..m -> A]
      OBVIOUS
    <2>3. \A n \in 0..m : g[n] = IF n = m THEN step[m][f[m - 1]] ELSE f[n]
      OBVIOUS
    <2> HIDE DEF g
    <2>4. \A n \in 1..(m - 1) : f[n] = step[n][f[n - 1]]
      BY <2>1 DEF Counts
    <2>5. ASSUME NEW n \in 1..m  PROVE g[n] = step[n][g[n - 1]]
      <3>1. n \in 0..m /\ n - 1 \in 0..m /\ n - 1 # m
        OBVIOUS
      <3>2. g[n - 1] = f[n - 1]
        BY <2>3, <3>1
      <3>3. CASE n = m
        BY <2>3, <3>1, <3>2, <3>3
      <3>4. CASE n # m
        BY <2>3, <2>4, <3>1, <3>2, <3>4
      <3> QED
        BY <3>3, <3>4
    <2>6. g[0] = x
      BY <2>1, <2>3 DEF Counts
    <2>7. Counts(m, x, step, g)
      BY <2>5, <2>6 DEF Counts
    <2> QED
      BY <2>2, <2>7
  <1> HIDE DEF S
  <1>3. \A m \in 1..N : m - 1 \in S => m \in S
    BY <1>2
  <1>4. \A m \in 0..N : m \in S
    BY <1>1, <1>3, Handed
  <1>5. N \in S
    BY <1>4
  <1> QED
    BY <1>5 DEF S

\* With a set for each index, the value at an index is in the set of the index.
LEMMA CountedKeeps ==
  ASSUME NEW N \in Nat, NEW A, NEW x, NEW step, NEW f \in [0..N -> A],
         Counts(N, x, step, f),
         NEW Inv, x \in Inv[0],
         \A n \in 1..N : \A a \in A : a \in Inv[n - 1] => step[n][a] \in Inv[n]
  PROVE  \A n \in 0..N : f[n] \in Inv[n]
  <1> DEFINE S == {n \in 0..N : f[n] \in Inv[n]}
  <1>1. 0 \in S
    BY DEF Counts
  <1>2. ASSUME NEW n \in 1..N, n - 1 \in S  PROVE n \in S
    <2>1. n - 1 \in 0..N /\ n \in 0..N /\ f[n - 1] \in A /\ f[n - 1] \in Inv[n - 1]
      BY <1>2
    <2>2. f[n] = step[n][f[n - 1]]
      BY DEF Counts
    <2>3. step[n][f[n - 1]] \in Inv[n]
      BY <2>1
    <2> QED
      BY <2>1, <2>2, <2>3
  <1> HIDE DEF S
  <1>3. \A n \in 0..N : n \in S
    BY <1>1, <1>2, Handed
  <1> QED
    BY <1>3 DEF S

-----------------------------------------------------------------------------
(* The binary search. *)

\* A table whose type indices are in order and lie among its records.
Formed(tab) ==
    /\ tab \in Tables
    /\ tab.first[0] = 0 /\ tab.first[NumTypes] = tab.total /\ tab.total <= 2 * MaxDevs
    /\ \A s, t \in 0..NumTypes : s <= t => tab.first[s] <= tab.first[t]

\* Its records are those of devices, in ascending order, and the indices are right.
Exact(tab) ==
    /\ Formed(tab)
    /\ \A k \in 0..(tab.total - 1) : tab.recs[k].dev \in Devs
    /\ \A k, m \in 0..(tab.total - 1) : k < m => Before(tab.recs[k].dev, tab.recs[m].dev)
    /\ \A t \in 0..NumTypes, k \in 0..(tab.total - 1) :
           k < tab.first[t] <=> tab.recs[k].dev[1] < t

LEMMA Sizes ==
  /\ NumTypes \in Nat /\ NumTypes > 0 /\ MaxDevs \in Nat /\ MaxDevs > 0
  /\ Types = 0..(NumTypes - 1) /\ Ids = 1..MaxDevs /\ Slots = 0..(2 * MaxDevs)
  /\ \A d \in Devs : d = <<d[1], d[2]>> /\ d[1] \in Types /\ d[2] \in Ids
  /\ \A t \in Types : t \in Nat /\ t \in 0..NumTypes /\ t + 1 \in 0..NumTypes
  /\ 0 \in 0..NumTypes /\ NumTypes \in 0..NumTypes
  BY SizeAssumption DEF Types, Ids, Slots, Devs

\* The section of a type lies in the table.
LEMMA Sections ==
  ASSUME NEW tab, Formed(tab), NEW t \in Types
  PROVE  /\ tab.first[t] \in Nat /\ tab.first[t + 1] \in Nat /\ tab.total \in Nat
         /\ tab.first[t] <= tab.first[t + 1] /\ tab.first[t + 1] <= tab.total
         /\ tab.total <= 2 * MaxDevs
  <1>1. tab.first \in [0..NumTypes -> Nat] /\ tab.total \in Nat
    BY DEF Formed, Tables
  <1>2. /\ t \in 0..NumTypes /\ t + 1 \in 0..NumTypes /\ t \in Nat
        /\ NumTypes \in 0..NumTypes /\ t + 1 <= NumTypes
    BY Sizes
  <1>3. tab.first[t] <= tab.first[t + 1] /\ tab.first[t + 1] <= tab.first[NumTypes]
    BY <1>2 DEF Formed
  <1> QED
    BY <1>1, <1>2, <1>3 DEF Formed

\* The devices are in a strict order.
LEMMA BeforeOrder ==
  /\ \A d \in Devs : ~Before(d, d)
  /\ \A d, e \in Devs : d = e \/ Before(d, e) \/ Before(e, d)
  /\ \A d, e \in Devs : ~(Before(d, e) /\ Before(e, d))
  /\ \A d, e, f \in Devs : Before(d, e) /\ Before(e, f) => Before(d, f)
  <1>1. \A d \in Devs : d = <<d[1], d[2]>> /\ d[1] \in Int /\ d[2] \in Int
    BY Sizes
  <1> QED
    BY <1>1 DEF Before

LEMMA ListedIs ==
  ASSUME NEW tab, NEW d
  PROVE  d \in Listed(tab) <=> \E k \in 0..(tab.total - 1) : tab.recs[k].dev = d
  BY DEF Listed, Records

Windows ==
    [lo : 0..(2 * MaxDevs), hi : 0..(2 * MaxDevs), last : 0..(2 * MaxDevs),
     at : {-1} \cup 0..(2 * MaxDevs)]
Whole(tab, d) == [lo |-> tab.first[d[1]], hi |-> tab.first[d[1] + 1],
                  last |-> tab.first[d[1] + 1], at |-> -1]
Halves(tab, d) == [n \in 1..(MaxDevs + 1) |-> [w \in Windows |-> Half(tab, d, w)]]

\* What one look at the record m of the window w makes of the window.
Looked(tab, d, w, m, v) ==
    \/ (w.at # -1 \/ m = w.last) /\ v = w
    \/ /\ w.at = -1 /\ m # w.last /\ tab.recs[m].dev = d
       /\ v.lo = w.lo /\ v.hi = w.hi /\ v.last = w.last /\ v.at = m
    \/ /\ w.at = -1 /\ m # w.last /\ tab.recs[m].dev # d /\ Before(tab.recs[m].dev, d)
       /\ v.lo = m /\ v.hi = w.hi /\ v.last = m /\ v.at = -1
    \/ /\ w.at = -1 /\ m # w.last /\ tab.recs[m].dev # d /\ ~Before(tab.recs[m].dev, d)
       /\ v.lo = w.lo /\ v.hi = m /\ v.last = m /\ v.at = -1

LEMMA HalfIs ==
  ASSUME NEW tab, NEW d, NEW w \in Windows
  PROVE  \E m \in 0..(2 * MaxDevs) :
             /\ m = (w.lo + w.hi) \div 2
             /\ Half(tab, d, w) \in Windows
             /\ Looked(tab, d, w, m, Half(tab, d, w))
  <1>0. PICK m : m = (w.lo + w.hi) \div 2
    OBVIOUS
  <1>1. m \in 0..(2 * MaxDevs)
    BY <1>0, Sizes DEF Windows
  <1> DEFINE e == tab.recs[m].dev
             v == Half(tab, d, w)
  <1> SUFFICES v \in Windows /\ Looked(tab, d, w, m, v)
    BY <1>0, <1>1
  <1>2. CASE w.at # -1 \/ m = w.last
    <2>1. v = w
      BY <1>0, <1>2 DEF Half
    <2> QED
      BY <1>2, <2>1 DEF Looked
  <1>3. CASE w.at = -1 /\ m # w.last /\ e = d
    <2>1. v = [w EXCEPT !.at = m]
      BY <1>0, <1>3 DEF Half
    <2> HIDE DEF v
    <2>2. v \in Windows /\ v.lo = w.lo /\ v.hi = w.hi /\ v.last = w.last /\ v.at = m
      BY <1>1, <2>1 DEF Windows
    <2> QED
      BY <1>3, <2>2 DEF Looked
  <1>4. CASE w.at = -1 /\ m # w.last /\ e # d /\ Before(e, d)
    <2>1. v = [w EXCEPT !.lo = m, !.last = m]
      BY <1>0, <1>4 DEF Half
    <2> HIDE DEF v
    <2>2. v \in Windows /\ v.lo = m /\ v.hi = w.hi /\ v.last = m /\ v.at = -1
      BY <1>1, <1>4, <2>1 DEF Windows
    <2> QED
      BY <1>4, <2>2 DEF Looked
  <1>5. CASE w.at = -1 /\ m # w.last /\ e # d /\ ~Before(e, d)
    <2>1. v = [w EXCEPT !.hi = m, !.last = m]
      BY <1>0, <1>5 DEF Half
    <2> HIDE DEF v
    <2>2. v \in Windows /\ v.lo = w.lo /\ v.hi = m /\ v.last = m /\ v.at = -1
      BY <1>1, <1>5, <2>1 DEF Windows
    <2> QED
      BY <1>5, <2>2 DEF Looked
  <1> QED
    BY <1>2, <1>3, <1>4, <1>5

LEMMA HalfType ==
  ASSUME NEW tab, NEW d, NEW w \in Windows
  PROVE  Half(tab, d, w) \in Windows
  BY HalfIs

LEMMA SearchIs ==
  ASSUME NEW tab, Formed(tab), NEW d \in Devs
  PROVE  \E f \in [0..(MaxDevs + 1) -> Windows] :
             /\ Counts(MaxDevs + 1, Whole(tab, d), Halves(tab, d), f)
             /\ Search(tab, d) = f[MaxDevs + 1].at
  <1> DEFINE N == MaxDevs + 1
             Body(g) == [n \in 0..N |-> IF n = 0 THEN Whole(tab, d) ELSE Half(tab, d, g[n - 1])]
  <1>1. N \in Nat /\ N - 1 \in Nat /\ N \in 0..N
    BY Sizes
  <1>2. Whole(tab, d) \in Windows
    BY Sizes DEF Whole, Windows, Formed, Tables
  <1>3. Halves(tab, d) \in [1..N -> [Windows -> Windows]]
    BY HalfType DEF Halves
  <1> HIDE DEF N
  <1>4. \E f \in [0..N -> Windows] : Counts(N, Whole(tab, d), Halves(tab, d), f)
    BY <1>1, <1>2, <1>3, CountedEnds
  <1>5. ASSUME NEW f \in [0..N -> Windows], Counts(N, Whole(tab, d), Halves(tab, d), f)
        PROVE  f = Body(f)
    <2>1. \A n \in 0..N : Body(f)[n] = IF n = 0 THEN Whole(tab, d) ELSE Half(tab, d, f[n - 1])
      OBVIOUS
    <2>2. \A n \in 1..N : Halves(tab, d)[n][f[n - 1]] = Half(tab, d, f[n - 1])
      BY <1>1 DEF Halves, N
    <2>3. \A n \in 0..N : f[n] = Body(f)[n]
      <3> HIDE DEF Body
      <3> QED
        BY <1>5, <2>1, <2>2 DEF Counts
    <2>4. DOMAIN Body(f) = 0..N /\ Body(f) = [n \in 0..N |-> Body(f)[n]]
      OBVIOUS
    <2> HIDE DEF Body
    <2> QED
      BY <2>3, <2>4
  <1>6. ASSUME NEW f, f = Body(f)
        PROVE  f \in [0..N -> Windows] /\ Counts(N, Whole(tab, d), Halves(tab, d), f)
    <2>1. \A n \in 0..N : Body(f)[n] = IF n = 0 THEN Whole(tab, d) ELSE Half(tab, d, f[n - 1])
      OBVIOUS
    <2>2. DOMAIN Body(f) = 0..N /\ Body(f) = [n \in 0..N |-> Body(f)[n]]
      OBVIOUS
    <2> DEFINE S == {n \in 0..N : f[n] \in Windows}
    <2> HIDE DEF Body
    <2>3. 0 \in S
      BY <1>1, <1>2, <1>6, <2>1
    <2>4. \A n \in 1..N : n - 1 \in S => n \in S
      BY <1>1, <1>6, <2>1, HalfType
    <2> HIDE DEF S
    <2>5. \A n \in 0..N : n \in S
      BY <1>1, <2>3, <2>4, Handed
    <2>6. \A n \in 0..N : f[n] \in Windows
      BY <2>5 DEF S
    <2>7. f \in [0..N -> Windows]
      BY <1>6, <2>2, <2>6
    <2>8. \A n \in 1..N : Halves(tab, d)[n][f[n - 1]] = Half(tab, d, f[n - 1])
      BY <1>1, <2>6 DEF Halves, N
    <2> QED
      BY <1>1, <1>6, <2>1, <2>7, <2>8 DEF Counts
  <1>7. PICK f : f = CHOOSE g : g = Body(g)
    OBVIOUS
  <1>8. f = Body(f)
    <2> HIDE DEF Body
    <2> QED
      BY <1>4, <1>5, <1>7
  <1>9. Search(tab, d) = f[N].at
    BY <1>7 DEF Search, N, Whole
  <1> QED
    BY <1>6, <1>8, <1>9 DEF N

\* What is found is in the section of its type.
LEMMA SearchFinds ==
  ASSUME NEW tab, Formed(tab), NEW d \in Devs, Search(tab, d) # -1
  PROVE  /\ Search(tab, d) \in tab.first[d[1]]..(tab.first[d[1] + 1] - 1)
         /\ tab.recs[Search(tab, d)].dev = d
  <1>0. PICK from, end, N : from = tab.first[d[1]] /\ end = tab.first[d[1] + 1]
                            /\ N = MaxDevs + 1
    OBVIOUS
  <1> DEFINE I == {w \in Windows : /\ from <= w.lo /\ w.lo <= w.hi /\ w.hi <= end
                                   /\ w.lo < w.hi \/ w.last = w.lo
                                   /\ w.at # -1 => /\ w.at \in from..(end - 1)
                                                   /\ tab.recs[w.at].dev = d}
             Inv == [n \in 0..N |-> I]
  <1>1. /\ from \in Nat /\ end \in Nat /\ from <= end /\ end <= 2 * MaxDevs
        /\ N \in Nat /\ N \in 0..N
    <2>1. d[1] \in Types /\ MaxDevs \in Nat
      BY Sizes
    <2>2. /\ from \in Nat /\ end \in Nat /\ from <= end /\ end <= tab.total
          /\ tab.total \in Nat /\ tab.total <= 2 * MaxDevs
      BY <1>0, <2>1, Sections
    <2> QED
      BY <1>0, <2>1, <2>2
  <1>2. PICK f \in [0..N -> Windows] : /\ Counts(N, Whole(tab, d), Halves(tab, d), f)
                                       /\ Search(tab, d) = f[N].at
    BY <1>0, SearchIs
  <1>3. Whole(tab, d) \in I
    <2>1. Whole(tab, d) = [lo |-> from, hi |-> end, last |-> end, at |-> -1]
      BY <1>0 DEF Whole
    <2>2. Whole(tab, d) \in Windows
      BY <1>1, <2>1, Sizes DEF Windows
    <2> QED
      BY <1>1, <2>1, <2>2
  <1>4. ASSUME NEW w \in Windows, w \in I  PROVE Half(tab, d, w) \in I
    <2> DEFINE v == Half(tab, d, w)
    <2>1. PICK m \in 0..(2 * MaxDevs) :
              m = (w.lo + w.hi) \div 2 /\ v \in Windows /\ Looked(tab, d, w, m, v)
      BY HalfIs
    <2> HIDE DEF v
    <2>2. /\ w.lo \in Nat /\ w.hi \in Nat /\ from <= w.lo /\ w.lo <= w.hi /\ w.hi <= end
          /\ w.lo < w.hi \/ w.last = w.lo
          /\ w.at # -1 => /\ w.at \in from..(end - 1)
                          /\ tab.recs[w.at].dev = d
          /\ w.last \in Nat
      BY <1>4, Sizes DEF Windows
    <2>3. m \in Nat /\ w.lo <= m /\ m <= w.hi /\ (w.lo < w.hi => m < w.hi)
      BY <2>1, <2>2
    <2>4. /\ from <= v.lo /\ v.lo <= v.hi /\ v.hi <= end
          /\ v.lo < v.hi \/ v.last = v.lo
          /\ v.at # -1 => /\ v.at \in from..(end - 1)
                          /\ tab.recs[v.at].dev = d
      <3>1. CASE v = w
        BY <2>2, <3>1
      <3>2. CASE v # w
        <4>1. w.at = -1 /\ m # w.last
          BY <2>1, <3>2 DEF Looked
        <4>2. w.lo < w.hi /\ m < w.hi
          BY <2>2, <2>3, <4>1
        <4>3. \/ v.lo = w.lo /\ v.hi = w.hi /\ v.last = w.last /\ v.at = m /\ tab.recs[m].dev = d
              \/ v.lo = m /\ v.hi = w.hi /\ v.last = m /\ v.at = -1
              \/ v.lo = w.lo /\ v.hi = m /\ v.last = m /\ v.at = -1
          BY <2>1, <3>2 DEF Looked
        <4>4. CASE v.lo = w.lo /\ v.hi = w.hi /\ v.at = m /\ tab.recs[m].dev = d
          <5>1. m \in from..(end - 1)
            BY <1>1, <2>2, <2>3, <4>2
          <5> QED
            BY <2>2, <4>2, <4>4, <5>1
        <4>5. CASE v.lo = m /\ v.hi = w.hi /\ v.last = m /\ v.at = -1
          BY <1>1, <2>2, <2>3, <4>2, <4>5
        <4>6. CASE v.lo = w.lo /\ v.hi = m /\ v.last = m /\ v.at = -1
          BY <1>1, <2>2, <2>3, <4>2, <4>6
        <4> QED
          BY <4>3, <4>4, <4>5, <4>6
      <3> QED
        BY <3>1, <3>2
    <2> QED
      BY <2>1, <2>4 DEF v
  <1> HIDE DEF I
  <1>5. \A n \in 1..N : \A w \in Windows : w \in Inv[n - 1] => Halves(tab, d)[n][w] \in Inv[n]
    BY <1>0, <1>1, <1>4 DEF Halves
  <1>6. Whole(tab, d) \in Inv[0]
    BY <1>1, <1>3
  <1> HIDE DEF Inv
  <1>7. f[N] \in Inv[N]
    BY <1>1, <1>2, <1>5, <1>6, CountedKeeps
  <1> QED
    BY <1>0, <1>1, <1>2, <1>7 DEF Inv, I

\* In an exact table every device that is listed is found.
LEMMA SearchComplete ==
  ASSUME NEW tab, Exact(tab), tab.total <= MaxDevs, NEW d \in Devs, d \in Listed(tab)
  PROVE  Search(tab, d) # -1
  <1> SUFFICES ASSUME Search(tab, d) = -1  PROVE FALSE
    OBVIOUS
  <1>0. PICK from, end, N, total :
            /\ from = tab.first[d[1]] /\ end = tab.first[d[1] + 1]
            /\ N = MaxDevs + 1 /\ total = tab.total
    OBVIOUS
  <1>1. /\ from \in Nat /\ end \in Nat /\ from <= end /\ end <= total /\ total <= MaxDevs
        /\ N \in Nat /\ N \in 0..N /\ total \in Nat /\ Formed(tab) /\ MaxDevs \in Nat
    <2>1. d[1] \in Types /\ MaxDevs \in Nat /\ Formed(tab)
      BY Sizes DEF Exact
    <2>2. from \in Nat /\ end \in Nat /\ from <= end /\ end <= total /\ total \in Nat
      BY <1>0, <2>1, Sections
    <2> QED
      BY <1>0, <2>1, <2>2
  <1>2. PICK k \in 0..(total - 1) : tab.recs[k].dev = d
    BY <1>0, ListedIs
  <1>3. from <= k /\ k < end /\ k \in Nat
    <2>1. d[1] \in 0..NumTypes /\ d[1] + 1 \in 0..NumTypes /\ d[1] \in Nat
      BY Sizes
    <2>2. ~(k < from) /\ k < end
      BY <1>0, <1>2, <2>1 DEF Exact
    <2> QED
      BY <1>1, <1>2, <2>2
  <1> DEFINE I(n) == {w \in Windows :
                         \/ w.at # -1
                         \/ /\ w.lo <= k /\ k < w.hi /\ w.hi <= end
                            /\ w.last = w.hi \/ (w.last = w.lo /\ w.lo < k)
                            /\ w.hi - w.lo <= MaxDevs - n}
             Inv == [n \in 0..N |-> I(n)]
  <1>4. PICK f \in [0..N -> Windows] : /\ Counts(N, Whole(tab, d), Halves(tab, d), f)
                                       /\ Search(tab, d) = f[N].at
    BY <1>0, <1>1, SearchIs
  <1>5. Whole(tab, d) \in I(0)
    <2>1. Whole(tab, d) = [lo |-> from, hi |-> end, last |-> end, at |-> -1]
      BY <1>0 DEF Whole
    <2>2. from \in 0..(2 * MaxDevs) /\ end \in 0..(2 * MaxDevs)
      BY <1>1
    <2>3. Whole(tab, d) \in Windows
      BY <2>1, <2>2 DEF Windows
    <2> QED
      BY <1>1, <1>3, <2>1, <2>3
  <1>6. ASSUME NEW n \in 1..N, NEW w \in Windows, w \in I(n - 1)
        PROVE  Half(tab, d, w) \in I(n)
    <2> DEFINE v == Half(tab, d, w)
    <2>1. PICK m \in 0..(2 * MaxDevs) :
              m = (w.lo + w.hi) \div 2 /\ v \in Windows /\ Looked(tab, d, w, m, v)
      BY HalfIs
    <2> HIDE DEF v
    <2>2. CASE w.at # -1
      <3>1. v.at # -1
        BY <2>1, <2>2 DEF Looked
      <3> QED
        BY <2>1, <3>1 DEF v
    <2>3. CASE w.at = -1
      <3>1. /\ w.lo \in Nat /\ w.hi \in Nat /\ w.lo <= k /\ k < w.hi /\ w.hi <= end
            /\ w.last = w.hi \/ (w.last = w.lo /\ w.lo < k)
            /\ w.hi - w.lo <= MaxDevs - (n - 1)
        BY <1>6, <2>3 DEF Windows
      <3>2. m \in Nat /\ w.lo <= m /\ m < w.hi /\ m # w.last /\ (m = w.lo => k = m)
        <4>1. PICK lo, hi : lo = w.lo /\ hi = w.hi
          OBVIOUS
        <4>2. m = (lo + hi) \div 2 /\ lo \in Nat /\ hi \in Nat /\ lo <= k /\ k < hi
          BY <2>1, <3>1, <4>1
        <4>3. m \in Nat /\ lo <= m /\ m < hi /\ (m = lo => k = m)
          BY <1>3, <4>2
        <4>4. w.last = hi \/ (w.last = lo /\ lo < k)
          BY <3>1, <4>1
        <4>5. m # w.last
          BY <1>3, <4>2, <4>3, <4>4
        <4> QED
          BY <4>1, <4>3, <4>5
      <3>3. m \in 0..(total - 1) /\ tab.recs[m].dev \in Devs
        <4>1. m \in 0..(total - 1)
          <5>1. PICK hi : hi = w.hi
            OBVIOUS
          <5>2. m \in Nat /\ m < hi /\ hi \in Nat /\ hi <= end
            BY <3>1, <3>2, <5>1
          <5> QED
            BY <1>1, <5>2
        <4> QED
          BY <1>0, <4>1 DEF Exact
      <3>4. tab.recs[m].dev # d => (Before(tab.recs[m].dev, d) => m < k)
        <4>1. ASSUME tab.recs[m].dev # d, Before(tab.recs[m].dev, d)  PROVE m # k /\ ~(k < m)
          BY <1>0, <1>2, <3>3, <4>1, BeforeOrder DEF Exact
        <4> QED
          BY <1>3, <3>2, <4>1
      <3>5. tab.recs[m].dev # d => (~Before(tab.recs[m].dev, d) => k < m)
        <4>1. ASSUME tab.recs[m].dev # d, ~Before(tab.recs[m].dev, d)  PROVE m # k /\ ~(m < k)
          BY <1>0, <1>2, <3>3, <4>1, BeforeOrder DEF Exact
        <4> QED
          BY <1>3, <3>2, <4>1
      <3>6. \/ v.at # -1
            \/ /\ v.lo <= k /\ k < v.hi /\ v.hi <= end
               /\ v.last = v.hi \/ (v.last = v.lo /\ v.lo < k)
               /\ v.hi - v.lo <= MaxDevs - n
        <4>1. CASE tab.recs[m].dev = d
          BY <2>1, <2>3, <3>2, <4>1 DEF Looked
        <4>2. CASE tab.recs[m].dev # d /\ Before(tab.recs[m].dev, d)
          <5>1. v.lo = m /\ v.hi = w.hi /\ v.last = m
            BY <2>1, <2>3, <3>2, <4>2 DEF Looked
          <5>2. m < k
            BY <3>4, <4>2
          <5>3. PICK lo, hi : lo = w.lo /\ hi = w.hi
            OBVIOUS
          <5>4. lo \in Nat /\ hi \in Nat /\ lo <= m /\ hi - lo <= MaxDevs - (n - 1)
                /\ (m = lo => k = m)
            BY <3>1, <3>2, <5>3
          <5>5. hi - m <= MaxDevs - n
            BY <1>1, <1>3, <3>2, <5>2, <5>4
          <5> QED
            BY <3>1, <5>1, <5>2, <5>3, <5>5
        <4>3. CASE tab.recs[m].dev # d /\ ~Before(tab.recs[m].dev, d)
          <5>1. v.lo = w.lo /\ v.hi = m /\ v.last = m
            BY <2>1, <2>3, <3>2, <4>3 DEF Looked
          <5>2. k < m
            BY <3>5, <4>3
          <5>3. PICK lo, hi : lo = w.lo /\ hi = w.hi
            OBVIOUS
          <5>4. lo \in Nat /\ hi \in Nat /\ m < hi /\ hi - lo <= MaxDevs - (n - 1)
            BY <3>1, <3>2, <5>3
          <5>5. m - lo <= MaxDevs - n
            BY <1>1, <3>2, <5>4
          <5>6. m <= end
            BY <1>1, <3>1, <3>2, <5>3, <5>4
          <5> QED
            BY <3>1, <5>1, <5>2, <5>3, <5>5, <5>6
        <4> QED
          BY <4>1, <4>2, <4>3
      <3> QED
        BY <2>1, <3>6 DEF v
    <2> QED
      BY <2>2, <2>3
  <1> HIDE DEF I
  <1>7. \A n \in 1..N : \A w \in Windows : w \in Inv[n - 1] => Halves(tab, d)[n][w] \in Inv[n]
    BY <1>0, <1>1, <1>6 DEF Halves
  <1>8. Whole(tab, d) \in Inv[0]
    BY <1>1, <1>5
  <1> HIDE DEF Inv
  <1>9. f[N] \in Inv[N]
    BY <1>1, <1>4, <1>7, <1>8, CountedKeeps
  <1>10. f[N] \in I(MaxDevs + 1) /\ f[N].at = -1
    BY <1>0, <1>1, <1>4, <1>9 DEF Inv
  <1> QED
    BY <1>10, <1>3, Sizes DEF I, Windows

-----------------------------------------------------------------------------
(* A record more, a record less. *)

RecordOf == [dev : Devs \cup {<<0, 0>>}, addr : Addrs \cup {NoAddr}, level : Levels]

LEMMA TableParts ==
  ASSUME NEW tab, tab \in Tables
  PROVE  /\ tab.first \in [0..NumTypes -> Nat] /\ tab.total \in Nat
         /\ tab.recs \in [Slots -> RecordOf]
  BY DEF Tables, RecordOf

\* In an exact table the records of a type are those of its section.
LEMMA InSection ==
  ASSUME NEW tab, Exact(tab), NEW t \in Types, NEW k \in 0..(tab.total - 1)
  PROVE  /\ tab.recs[k].dev \in Devs
         /\ k < tab.first[t] <=> tab.recs[k].dev[1] < t
         /\ tab.first[t + 1] <= k <=> t < tab.recs[k].dev[1]
         /\ (tab.first[t] <= k /\ k < tab.first[t + 1]) <=> tab.recs[k].dev[1] = t
  <1>1. tab.recs[k].dev \in Devs
    BY DEF Exact
  <1>2. /\ k < tab.first[t] <=> tab.recs[k].dev[1] < t
        /\ k < tab.first[t + 1] <=> tab.recs[k].dev[1] < t + 1
    BY Sizes DEF Exact
  <1>3. tab.recs[k].dev[1] \in Nat /\ t \in Nat /\ tab.first[t] \in Nat /\ tab.first[t + 1] \in Nat
    BY <1>1, Sizes, Sections DEF Exact
  <1> QED
    BY <1>1, <1>2, <1>3

LEMMA PasteIs ==
  ASSUME NEW tab, Formed(tab), tab.total < 2 * MaxDevs,
         NEW at \in 0..tab.total, NEW r \in RecordOf, r.dev[1] \in Types,
         NEW p, p = Paste(tab, at, r)
  PROVE  /\ Formed(p) /\ p.total = tab.total + 1
         /\ \A s \in 0..NumTypes :
                p.first[s] = tab.first[s] + (IF s > r.dev[1] THEN 1 ELSE 0)
         /\ \A k \in 0..tab.total :
                p.recs[k] = IF k < at THEN tab.recs[k] ELSE IF k = at THEN r ELSE tab.recs[k - 1]
  <1> DEFINE t0 == r.dev[1]
             k0 == IF at < tab.total THEN at ELSE tab.total
             F == [t \in 0..NumTypes |-> tab.first[t] + (IF t > t0 THEN 1 ELSE 0)]
             R == [k \in Slots |-> IF k = k0 THEN r
                                   ELSE IF k0 < k /\ k <= tab.total THEN tab.recs[k - 1]
                                   ELSE tab.recs[k]]
  <1>1. /\ tab.first \in [0..NumTypes -> Nat] /\ tab.total \in Nat
        /\ tab.recs \in [Slots -> RecordOf] /\ Slots = 0..(2 * MaxDevs) /\ MaxDevs \in Nat
    BY TableParts, Sizes DEF Formed
  <1>2. p.first = F /\ p.total = tab.total + 1 /\ p.recs = R
        /\ p = [first |-> F, total |-> tab.total + 1, recs |-> R]
    BY DEF Paste
  <1>3. k0 = at
    BY <1>1
  <1>4. \A k \in Slots : R[k] = IF k < at \/ k > tab.total THEN tab.recs[k]
                                ELSE IF k = at THEN r ELSE tab.recs[k - 1]
    <2> TAKE k \in Slots
    <2>1. R[k] = IF k = k0 THEN r
                 ELSE IF k0 < k /\ k <= tab.total THEN tab.recs[k - 1]
                 ELSE tab.recs[k]
      OBVIOUS
    <2> HIDE DEF R
    <2> QED
      BY <1>1, <1>3, <2>1
  <1>5. R \in [Slots -> RecordOf]
    <2>1. ASSUME NEW k \in Slots  PROVE R[k] \in RecordOf
      <3>1. k > at => k - 1 \in Slots
        BY <1>1
      <3> HIDE DEF R
      <3> QED
        BY <1>1, <1>4, <3>1
    <2>2. R = [k \in Slots |-> R[k]]
      OBVIOUS
    <2> HIDE DEF R
    <2> QED
      BY <2>1, <2>2
  <1>6. F \in [0..NumTypes -> Nat]
    <2>1. \A s \in 0..NumTypes : tab.first[s] + (IF s > t0 THEN 1 ELSE 0) \in Nat
      <3> TAKE s \in 0..NumTypes
      <3>1. tab.first[s] \in Nat
        BY <1>1
      <3> QED
        BY <3>1
    <2> QED
      BY <2>1
  <1>7. \A s \in 0..NumTypes : F[s] = tab.first[s] + (IF s > t0 THEN 1 ELSE 0)
    OBVIOUS
  <1> HIDE DEF F, R
  <1>8. p \in Tables
    BY <1>1, <1>2, <1>5, <1>6 DEF Tables, RecordOf
  <1>9. t0 \in Nat /\ t0 < NumTypes /\ NumTypes \in Nat
        /\ 0 \in 0..NumTypes /\ NumTypes \in 0..NumTypes
    BY Sizes
  <1>10. F[0] = 0 /\ F[NumTypes] = tab.total + 1
    <2>1. tab.first[0] = 0 /\ tab.first[NumTypes] = tab.total
      BY DEF Formed
    <2>2. ~(0 > t0) /\ NumTypes > t0
      BY <1>9
    <2>3. /\ F[0] = tab.first[0] + (IF 0 > t0 THEN 1 ELSE 0)
          /\ F[NumTypes] = tab.first[NumTypes] + (IF NumTypes > t0 THEN 1 ELSE 0)
      BY <1>7, <1>9
    <2>4. F[0] = 0 + 0 /\ F[NumTypes] = tab.total + 1
      <3> HIDE DEF t0
      <3> QED
        BY <2>1, <2>2, <2>3
    <2> QED
      BY <2>4
  <1>11. ASSUME NEW s \in 0..NumTypes, NEW t \in 0..NumTypes, s <= t  PROVE F[s] <= F[t]
    <2>1. tab.first[s] <= tab.first[t] /\ tab.first[s] \in Nat /\ tab.first[t] \in Nat
      BY <1>1, <1>11 DEF Formed
    <2>2. PICK i, j : i = tab.first[s] /\ j = tab.first[t]
      OBVIOUS
    <2>3. F[s] = i + (IF s > t0 THEN 1 ELSE 0) /\ F[t] = j + (IF t > t0 THEN 1 ELSE 0)
      BY <1>7, <2>2
    <2>4. s \in Nat /\ t \in Nat /\ i \in Nat /\ j \in Nat /\ i <= j
      BY <2>1, <2>2
    <2> HIDE DEF t0
    <2> QED
      BY <1>9, <1>11, <2>3, <2>4
  <1>12. Formed(p)
    BY <1>1, <1>2, <1>8, <1>10, <1>11 DEF Formed
  <1>13. ASSUME NEW k \in 0..tab.total
         PROVE  R[k] = IF k < at THEN tab.recs[k] ELSE IF k = at THEN r ELSE tab.recs[k - 1]
    <2>1. k \in Slots /\ ~(k > tab.total)
      BY <1>1
    <2> QED
      BY <1>4, <2>1
  <1> QED
    BY <1>2, <1>7, <1>12, <1>13

\* The place a record of the device d may be inserted at.
Fits(tab, d, at) ==
    /\ at \in tab.first[d[1]]..tab.first[d[1] + 1]
    /\ \A k \in tab.first[d[1]]..(at - 1) : tab.recs[k].dev[2] < d[2]
    /\ \A k \in at..(tab.first[d[1] + 1] - 1) : d[2] < tab.recs[k].dev[2]

LEMMA FitsBetween ==
  ASSUME NEW tab, Exact(tab), NEW d \in Devs, NEW at, Fits(tab, d, at),
         NEW k \in 0..(tab.total - 1)
  PROVE  /\ k < at => Before(tab.recs[k].dev, d)
         /\ k >= at => Before(d, tab.recs[k].dev)
  <1>1. d[1] \in Types
    BY Sizes
  <1>2. PICK from, end : from = tab.first[d[1]] /\ end = tab.first[d[1] + 1]
    OBVIOUS
  <1>3. /\ from \in Nat /\ end \in Nat /\ k \in Nat /\ at \in from..end
    BY <1>1, <1>2, Sections DEF Exact, Fits
  <1> DEFINE e == tab.recs[k].dev
  <1>4. /\ e \in Devs
        /\ k < from <=> e[1] < d[1]
        /\ end <= k <=> d[1] < e[1]
        /\ (from <= k /\ k < end) <=> e[1] = d[1]
    BY <1>1, <1>2, InSection
  <1> HIDE DEF e
  <1>5. CASE k < from
    BY <1>3, <1>4, <1>5 DEF Before, e
  <1>6. CASE end <= k
    BY <1>3, <1>4, <1>6 DEF Before, e
  <1>7. CASE from <= k /\ k < end
    <2>1. e[1] = d[1]
      BY <1>4, <1>7
    <2>2. /\ k < at => e[2] < d[2]
          /\ k >= at => d[2] < e[2]
      BY <1>2, <1>3, <1>7 DEF Fits, e
    <2> QED
      BY <2>1, <2>2 DEF Before, e
  <1> QED
    BY <1>3, <1>5, <1>6, <1>7

LEMMA PasteExact ==
  ASSUME NEW tab, Exact(tab), tab.total < 2 * MaxDevs, NEW r \in Record,
         NEW at, Fits(tab, r.dev, at), NEW p, p = Paste(tab, at, r)
  PROVE  /\ Exact(p) /\ p.total = tab.total + 1
         /\ \A s \in 0..NumTypes :
                p.first[s] = tab.first[s] + (IF s > r.dev[1] THEN 1 ELSE 0)
         /\ Records(p) = Records(tab) \cup {r}
         /\ Listed(p) = Listed(tab) \cup {r.dev}
  <1>1. r \in RecordOf /\ r.dev \in Devs /\ r.dev[1] \in Types
    BY Sizes DEF Record, RecordOf
  <1>2. PICK n, t : n = tab.total /\ t = r.dev[1]
    OBVIOUS
  <1>3. Formed(tab) /\ n \in Nat /\ t \in Types /\ t \in Nat
    BY <1>1, <1>2, TableParts, Sizes DEF Exact, Formed
  <1>4. /\ tab.first[t] \in Nat /\ tab.first[t + 1] \in Nat
        /\ tab.first[t] <= at /\ at <= tab.first[t + 1] /\ tab.first[t + 1] <= n
        /\ at \in 0..n /\ at \in Nat
    BY <1>2, <1>3, Sections DEF Fits
  <1>5. /\ Formed(p) /\ p.total = n + 1
        /\ \A s \in 0..NumTypes : p.first[s] = tab.first[s] + (IF s > t THEN 1 ELSE 0)
        /\ \A k \in 0..n : p.recs[k] = IF k < at THEN tab.recs[k]
                                       ELSE IF k = at THEN r ELSE tab.recs[k - 1]
    BY <1>1, <1>2, <1>3, <1>4, PasteIs
  <1>6. \A k \in 0..n : /\ k < at => k \in 0..(n - 1) /\ p.recs[k] = tab.recs[k]
                        /\ k = at => p.recs[k] = r
                        /\ k > at => k - 1 \in 0..(n - 1) /\ k - 1 >= at
                                     /\ p.recs[k] = tab.recs[k - 1]
    BY <1>3, <1>4, <1>5
  <1>7. \A k \in 0..n : p.recs[k].dev \in Devs
    BY <1>1, <1>2, <1>3, <1>4, <1>6 DEF Exact
  <1>8. ASSUME NEW k \in 0..n, NEW m \in 0..n, k < m
        PROVE  Before(p.recs[k].dev, p.recs[m].dev)
    <2>1. CASE m < at
      BY <1>2, <1>3, <1>4, <1>6, <1>8, <2>1 DEF Exact
    <2>2. CASE m = at
      BY <1>1, <1>2, <1>3, <1>4, <1>6, <1>8, <2>2, FitsBetween
    <2>3. CASE k = at
      BY <1>1, <1>2, <1>3, <1>4, <1>6, <1>8, <2>3, FitsBetween
    <2>4. CASE k < at /\ m > at
      <3>1. k \in 0..(n - 1) /\ m - 1 \in 0..(n - 1) /\ k < m - 1
        BY <1>3, <1>4, <2>4
      <3> QED
        BY <1>2, <1>6, <2>4, <3>1 DEF Exact
    <2>5. CASE k > at
      <3>1. k - 1 \in 0..(n - 1) /\ m - 1 \in 0..(n - 1) /\ k - 1 < m - 1 /\ m > at
        BY <1>3, <1>4, <1>8, <2>5
      <3> QED
        BY <1>2, <1>6, <2>5, <3>1 DEF Exact
    <2> QED
      BY <1>3, <1>4, <1>8, <2>1, <2>2, <2>3, <2>4, <2>5
  <1>9. ASSUME NEW s \in 0..NumTypes, NEW k \in 0..n
        PROVE  k < p.first[s] <=> p.recs[k].dev[1] < s
    <2>1. PICK fs, ft, fu : fs = tab.first[s] /\ ft = tab.first[t] /\ fu = tab.first[t + 1]
      OBVIOUS
    <2>2. /\ fs \in Nat /\ ft \in Nat /\ fu \in Nat /\ ft <= at /\ at <= fu
          /\ s <= t => fs <= ft
          /\ s > t => fu <= fs
      <3>1. t \in 0..NumTypes /\ t + 1 \in 0..NumTypes /\ s \in Nat
        BY <1>3, Sizes
      <3>2. fs \in Nat
        BY <1>3, <2>1, TableParts DEF Formed
      <3>3. s <= t => fs <= ft
        BY <1>3, <2>1, <3>1 DEF Formed
      <3>4. t + 1 <= s => fu <= fs
        BY <1>3, <2>1, <3>1 DEF Formed
      <3> QED
        BY <1>3, <1>4, <2>1, <3>1, <3>2, <3>3, <3>4
    <2>3. p.first[s] = fs + (IF s > t THEN 1 ELSE 0)
      BY <1>5, <2>1
    <2>4. \A i \in 0..(n - 1) : i < fs <=> tab.recs[i].dev[1] < s
      BY <1>2, <2>1 DEF Exact
    <2>5. CASE k < at
      BY <1>3, <1>4, <1>6, <2>2, <2>3, <2>4, <2>5
    <2>6. CASE k = at
      BY <1>2, <1>3, <1>4, <1>6, <2>2, <2>3, <2>6
    <2>7. CASE k > at
      <3>1. k - 1 \in 0..(n - 1) /\ k - 1 >= at /\ p.recs[k] = tab.recs[k - 1]
        BY <1>6, <2>7
      <3>2. k - 1 < fs <=> p.recs[k].dev[1] < s
        BY <2>4, <3>1
      <3> QED
        BY <1>3, <1>4, <2>2, <2>3, <2>7, <3>2
    <2> QED
      BY <1>4, <2>5, <2>6, <2>7
  <1>10. Exact(p)
    BY <1>3, <1>5, <1>7, <1>8, <1>9 DEF Exact
  <1>11. Records(p) = Records(tab) \cup {r}
    <2>1. Records(p) = {p.recs[k] : k \in 0..n}
      BY <1>3, <1>5 DEF Records
    <2>2. ASSUME NEW k \in 0..(n - 1)  PROVE tab.recs[k] \in Records(p)
      <3>1. CASE k < at
        <4>1. k \in 0..n
          BY <1>3
        <4> QED
          BY <1>6, <2>1, <3>1, <4>1
      <3>2. CASE k >= at
        <4>1. k + 1 \in 0..n /\ k + 1 > at /\ (k + 1) - 1 = k
          BY <1>3, <1>4, <3>2
        <4> QED
          BY <1>6, <2>1, <4>1
      <3> QED
        BY <1>4, <3>1, <3>2
    <2>3. r \in Records(p)
      BY <1>4, <1>6, <2>1
    <2>4. \A k \in 0..n : p.recs[k] \in Records(tab) \cup {r}
      BY <1>2, <1>4, <1>6 DEF Records
    <2>5. Records(tab) = {tab.recs[k] : k \in 0..(n - 1)}
      BY <1>2 DEF Records
    <2>6. Records(p) \subseteq Records(tab) \cup {r}
      BY <2>1, <2>4
    <2>7. Records(tab) \subseteq Records(p)
      BY <2>2, <2>5
    <2> QED
      BY <2>3, <2>6, <2>7
  <1> QED
    BY <1>2, <1>5, <1>10, <1>11 DEF Listed

LEMMA CutIs ==
  ASSUME NEW tab, Formed(tab), NEW t \in Types,
         NEW at \in tab.first[t]..(tab.first[t + 1] - 1), NEW c, c = Cut(tab, t, at)
  PROVE  /\ Formed(c) /\ c.total = tab.total - 1
         /\ \A s \in 0..NumTypes : c.first[s] = tab.first[s] - (IF s > t THEN 1 ELSE 0)
         /\ \A k \in 0..(tab.total - 2) :
                c.recs[k] = IF k < at THEN tab.recs[k] ELSE tab.recs[k + 1]
  <1> DEFINE F == [s \in 0..NumTypes |-> tab.first[s] - (IF s > t THEN 1 ELSE 0)]
             R == [k \in Slots |-> IF at <= k /\ k < tab.total - 1 /\ k + 1 \in Slots
                                   THEN tab.recs[k + 1] ELSE tab.recs[k]]
  <1>1. /\ tab.first \in [0..NumTypes -> Nat] /\ tab.total \in Nat
        /\ tab.recs \in [Slots -> RecordOf] /\ Slots = 0..(2 * MaxDevs) /\ MaxDevs \in Nat
    BY TableParts, Sizes DEF Formed
  <1>2. c.first = F /\ c.total = tab.total - 1 /\ c.recs = R
        /\ c = [first |-> F, total |-> tab.total - 1, recs |-> R]
    BY DEF Cut
  <1>3. /\ tab.first[t] \in Nat /\ tab.first[t + 1] \in Nat
        /\ at \in Nat /\ tab.first[t] <= at /\ at < tab.first[t + 1]
        /\ tab.first[t + 1] <= tab.total /\ tab.total <= 2 * MaxDevs
    BY Sections
  <1>4. R \in [Slots -> RecordOf]
    <2>1. \A k \in Slots : (IF at <= k /\ k < tab.total - 1 /\ k + 1 \in Slots
                            THEN tab.recs[k + 1] ELSE tab.recs[k]) \in RecordOf
      BY <1>1
    <2> QED
      BY <2>1
  <1>5. t \in Nat /\ t < NumTypes /\ NumTypes \in Nat /\ t + 1 \in 0..NumTypes
        /\ 0 \in 0..NumTypes /\ NumTypes \in 0..NumTypes
    BY Sizes
  <1>6. \A s \in 0..NumTypes : F[s] = tab.first[s] - (IF s > t THEN 1 ELSE 0)
    OBVIOUS
  <1>7. \A s \in 0..NumTypes : /\ tab.first[s] \in Nat
                               /\ s > t => tab.first[t + 1] <= tab.first[s]
    <2> TAKE s \in 0..NumTypes
    <2>1. s > t => t + 1 <= s
      BY <1>5
    <2> QED
      BY <1>1, <1>5, <2>1 DEF Formed
  <1>8. F \in [0..NumTypes -> Nat]
    <2>1. \A s \in 0..NumTypes : tab.first[s] - (IF s > t THEN 1 ELSE 0) \in Nat
      <3> TAKE s \in 0..NumTypes
      <3>1. tab.first[s] \in Nat /\ (s > t => tab.first[t + 1] <= tab.first[s])
        BY <1>7
      <3> QED
        BY <1>3, <3>1
    <2> QED
      BY <2>1
  <1>9. \A k \in 0..(tab.total - 2) : R[k] = IF k < at THEN tab.recs[k] ELSE tab.recs[k + 1]
    <2> TAKE k \in 0..(tab.total - 2)
    <2>1. k \in Slots /\ k + 1 \in Slots /\ k < tab.total - 1
      BY <1>1, <1>3
    <2>2. R[k] = IF at <= k /\ k < tab.total - 1 /\ k + 1 \in Slots
                 THEN tab.recs[k + 1] ELSE tab.recs[k]
      BY <2>1
    <2> HIDE DEF R
    <2> QED
      BY <1>3, <2>1, <2>2
  <1> HIDE DEF F, R
  <1>10. tab.total - 1 \in Nat
    BY <1>1, <1>3
  <1>11. c \in Tables
    BY <1>2, <1>4, <1>8, <1>10 DEF Tables, RecordOf
  <1>12. F[0] = 0 /\ F[NumTypes] = tab.total - 1
    <2>1. tab.first[0] = 0 /\ tab.first[NumTypes] = tab.total
      BY DEF Formed
    <2>2. /\ F[0] = tab.first[0] - (IF 0 > t THEN 1 ELSE 0)
          /\ F[NumTypes] = tab.first[NumTypes] - (IF NumTypes > t THEN 1 ELSE 0)
      BY <1>5, <1>6
    <2>3. ~(0 > t) /\ NumTypes > t
      BY <1>5
    <2>4. F[0] = 0 - 0 /\ F[NumTypes] = tab.total - 1
      BY <2>1, <2>2, <2>3
    <2> QED
      BY <2>4
  <1>13. ASSUME NEW s \in 0..NumTypes, NEW u \in 0..NumTypes, s <= u  PROVE F[s] <= F[u]
    <2>1. tab.first[s] <= tab.first[u] /\ tab.first[s] \in Nat /\ tab.first[u] \in Nat
      BY <1>1, <1>13 DEF Formed
    <2>2. s <= t /\ u > t => tab.first[s] < tab.first[u]
      <3>1. s <= t => tab.first[s] <= tab.first[t]
        BY <1>5, Sizes DEF Formed
      <3> QED
        BY <1>3, <1>7, <2>1, <3>1
    <2>3. /\ F[s] = tab.first[s] - (IF s > t THEN 1 ELSE 0)
          /\ F[u] = tab.first[u] - (IF u > t THEN 1 ELSE 0)
      BY <1>6
    <2> QED
      BY <1>5, <1>13, <2>1, <2>2, <2>3
  <1>14. Formed(c)
    BY <1>1, <1>2, <1>3, <1>11, <1>12, <1>13 DEF Formed
  <1> QED
    BY <1>2, <1>6, <1>9, <1>14

LEMMA CutExact ==
  ASSUME NEW tab, Exact(tab), NEW t \in Types,
         NEW at \in tab.first[t]..(tab.first[t + 1] - 1), NEW c, c = Cut(tab, t, at)
  PROVE  /\ Exact(c) /\ c.total = tab.total - 1
         /\ \A s \in 0..NumTypes : c.first[s] = tab.first[s] - (IF s > t THEN 1 ELSE 0)
         /\ \A k \in 0..(tab.total - 2) :
                c.recs[k] = IF k < at THEN tab.recs[k] ELSE tab.recs[k + 1]
         /\ Records(c) = Records(tab) \ {tab.recs[at]}
         /\ Listed(c) = Listed(tab) \ {tab.recs[at].dev}
  <1>1. PICK n : n = tab.total
    OBVIOUS
  <1>2. Formed(tab) /\ n \in Nat /\ t \in Nat
    BY <1>1, TableParts, Sizes DEF Exact, Formed
  <1>3. /\ tab.first[t] \in Nat /\ tab.first[t + 1] \in Nat
        /\ at \in Nat /\ tab.first[t] <= at /\ at < tab.first[t + 1]
        /\ tab.first[t + 1] <= n /\ at \in 0..(n - 1)
    BY <1>1, <1>2, Sections
  <1>4. /\ Formed(c) /\ c.total = n - 1
        /\ \A s \in 0..NumTypes : c.first[s] = tab.first[s] - (IF s > t THEN 1 ELSE 0)
        /\ \A k \in 0..(n - 2) :
               c.recs[k] = IF k < at THEN tab.recs[k] ELSE tab.recs[k + 1]
    BY <1>1, <1>2, CutIs
  <1>5. \A k \in 0..(n - 2) : /\ k < at => k \in 0..(n - 1) /\ c.recs[k] = tab.recs[k]
                              /\ k >= at => k + 1 \in 0..(n - 1) /\ k + 1 > at
                                            /\ c.recs[k] = tab.recs[k + 1]
    BY <1>2, <1>3, <1>4
  <1>6. \A k \in 0..(n - 2) : c.recs[k].dev \in Devs
    BY <1>1, <1>2, <1>3, <1>5 DEF Exact
  <1>7. ASSUME NEW k \in 0..(n - 2), NEW m \in 0..(n - 2), k < m
        PROVE  Before(c.recs[k].dev, c.recs[m].dev)
    <2>1. CASE m < at
      <3>1. k < at /\ k \in 0..(n - 1) /\ m \in 0..(n - 1)
        BY <1>2, <1>3, <1>7, <2>1
      <3> QED
        BY <1>1, <1>5, <1>7, <2>1, <3>1 DEF Exact
    <2>2. CASE k < at /\ m >= at
      <3>1. k \in 0..(n - 1) /\ m + 1 \in 0..(n - 1) /\ k < m + 1
        BY <1>2, <1>3, <1>7, <2>2
      <3> QED
        BY <1>1, <1>5, <2>2, <3>1 DEF Exact
    <2>3. CASE k >= at
      <3>1. k + 1 \in 0..(n - 1) /\ m + 1 \in 0..(n - 1) /\ k + 1 < m + 1 /\ m >= at
        BY <1>2, <1>3, <1>7, <2>3
      <3> QED
        BY <1>1, <1>5, <2>3, <3>1 DEF Exact
    <2> QED
      BY <1>3, <2>1, <2>2, <2>3
  <1>8. ASSUME NEW s \in 0..NumTypes, NEW k \in 0..(n - 2)
        PROVE  k < c.first[s] <=> c.recs[k].dev[1] < s
    <2>1. PICK fs, ft, fu : fs = tab.first[s] /\ ft = tab.first[t] /\ fu = tab.first[t + 1]
      OBVIOUS
    <2>2. /\ fs \in Nat /\ ft \in Nat /\ fu \in Nat /\ ft <= at /\ at < fu
          /\ s <= t => fs <= ft
          /\ s > t => fu <= fs
      <3>1. t \in 0..NumTypes /\ t + 1 \in 0..NumTypes /\ s \in Nat
        BY Sizes
      <3>2. fs \in Nat
        BY <1>2, <2>1, TableParts DEF Formed
      <3>3. s <= t => fs <= ft
        BY <1>2, <2>1, <3>1 DEF Formed
      <3>4. t + 1 <= s => fu <= fs
        BY <1>2, <2>1, <3>1 DEF Formed
      <3> QED
        BY <1>2, <1>3, <2>1, <3>1, <3>2, <3>3, <3>4
    <2>3. c.first[s] = fs - (IF s > t THEN 1 ELSE 0)
      BY <1>4, <2>1
    <2>4. \A i \in 0..(n - 1) : i < fs <=> tab.recs[i].dev[1] < s
      BY <1>1, <2>1 DEF Exact
    <2>5. CASE k < at
      <3>1. k < fs <=> c.recs[k].dev[1] < s
        BY <1>5, <2>4, <2>5
      <3> QED
        BY <1>2, <1>3, <2>2, <2>3, <2>5, <3>1
    <2>6. CASE k >= at
      <3>1. k + 1 < fs <=> c.recs[k].dev[1] < s
        BY <1>5, <2>4, <2>6
      <3> QED
        BY <1>2, <1>3, <2>2, <2>3, <2>6, <3>1
    <2> QED
      BY <1>3, <2>5, <2>6
  <1>9. Exact(c)
    <2>1. 0..(c.total - 1) = 0..(n - 2)
      BY <1>2, <1>4
    <2> QED
      BY <1>4, <1>6, <1>7, <1>8, <2>1 DEF Exact
  <1>10. \A k \in 0..(n - 1) : k # at => tab.recs[k].dev # tab.recs[at].dev
    <2> TAKE k \in 0..(n - 1)
    <2>1. k < at \/ k = at \/ at < k
      BY <1>3
    <2> QED
      BY <1>1, <1>3, <2>1, BeforeOrder DEF Exact
  <1>11. Records(c) = {c.recs[k] : k \in 0..(n - 2)} /\ Records(tab) = {tab.recs[k] : k \in 0..(n - 1)}
    BY <1>1, <1>2, <1>4 DEF Records
  <1>12. \A k \in 0..(n - 2) : /\ c.recs[k] \in Records(tab)
                               /\ c.recs[k].dev # tab.recs[at].dev
    <2> TAKE k \in 0..(n - 2)
    <2>1. CASE k < at
      <3>1. k \in 0..(n - 1) /\ k # at /\ c.recs[k] = tab.recs[k]
        BY <1>3, <1>5, <2>1
      <3> QED
        BY <1>10, <1>11, <3>1
    <2>2. CASE k >= at
      <3>1. k + 1 \in 0..(n - 1) /\ k + 1 # at /\ c.recs[k] = tab.recs[k + 1]
        BY <1>3, <1>5, <2>2
      <3> QED
        BY <1>10, <1>11, <3>1
    <2> QED
      BY <1>3, <2>1, <2>2
  <1>13. \A k \in 0..(n - 1) : k # at => tab.recs[k] \in Records(c)
    <2> TAKE k \in 0..(n - 1)
    <2>1. CASE k < at
      <3>1. k \in 0..(n - 2)
        BY <1>2, <1>3, <2>1
      <3> QED
        BY <1>5, <1>11, <2>1, <3>1
    <2>2. CASE k > at
      <3>1. k - 1 \in 0..(n - 2) /\ k - 1 >= at /\ (k - 1) + 1 = k
        BY <1>2, <1>3, <2>2
      <3> QED
        BY <1>5, <1>11, <3>1
    <2> QED
      BY <1>3, <2>1, <2>2
  <1>14. \A r \in Records(c) : r \in Records(tab) /\ r.dev # tab.recs[at].dev
    BY <1>11, <1>12
  <1>15. \A r \in Records(tab) : r = tab.recs[at] \/ r \in Records(c)
    BY <1>11, <1>13
  <1>16. Records(c) = Records(tab) \ {tab.recs[at]}
    BY <1>14, <1>15
  <1>17. Listed(c) = Listed(tab) \ {tab.recs[at].dev}
    BY <1>14, <1>15 DEF Listed
  <1> QED
    BY <1>1, <1>4, <1>9, <1>16, <1>17

\* The number given to a new device is free, and its place in the table right.
LEMMA FreeIndexIs ==
  ASSUME NEW tab, Formed(tab), NEW t \in Types, NEW at, at = FreeIndex(tab, t)
  PROVE  /\ at \in tab.first[t]..tab.first[t + 1]
         /\ at < tab.first[t + 1] => at - tab.first[t] + 1 < tab.recs[at].dev[2]
         /\ \A m \in tab.first[t]..(at - 1) :
                m - tab.first[t] + 1 >= tab.recs[m].dev[2]
  <1>1. PICK from, end : from = tab.first[t] /\ end = tab.first[t + 1]
    OBVIOUS
  <1>2. from \in Nat /\ end \in Nat /\ from <= end
    BY <1>1, Sections
  <1> DEFINE S == {k \in from..end : k < end => k - from + 1 < tab.recs[k].dev[2]}
  <1>3. end \in S /\ S \subseteq Nat
    BY <1>2
  <1>4. PICK k \in S : \A m \in S : k <= m
    BY <1>3, Least
  <1>5. /\ k \in from..end
        /\ k < end => k - from + 1 < tab.recs[k].dev[2]
        /\ \A m \in from..(k - 1) : m - from + 1 >= tab.recs[m].dev[2]
    <2>1. k \in from..end /\ (k < end => k - from + 1 < tab.recs[k].dev[2])
      BY <1>4
    <2>2. ASSUME NEW m \in from..(k - 1)  PROVE m - from + 1 >= tab.recs[m].dev[2]
      <3>1. m \in from..end /\ m < k /\ m < end /\ m \in Nat
        BY <1>2, <2>1
      <3>2. m \notin S
        BY <1>2, <1>4, <2>1, <3>1
      <3>3. ~(m - from + 1 < tab.recs[m].dev[2])
        BY <3>1, <3>2
      <3>4. tab.recs[m].dev[2] \in Int
        <4>1. m \in Slots /\ tab.recs \in [Slots -> RecordOf]
          <5>1. end <= tab.total /\ tab.total \in Nat /\ tab.total <= 2 * MaxDevs
            BY <1>1, Sections, TableParts DEF Formed
          <5>2. PICK n \in Nat : n = tab.total
            BY <5>1
          <5>3. m \in 0..(2 * MaxDevs)
            <6>1. n <= 2 * MaxDevs /\ m \in Nat /\ m < n
              BY <1>2, <3>1, <5>1, <5>2
            <6> QED
              BY <6>1, SizeAssumption
          <5> QED
            BY <5>3, TableParts DEF Formed, Slots
        <4>2. tab.recs[m].dev \in Devs \cup {<<0, 0>>}
          BY <4>1 DEF RecordOf
        <4> QED
          BY <4>2, Sizes
      <3> QED
        BY <1>2, <3>1, <3>3, <3>4
    <2> QED
      BY <2>1, <2>2
  <1> QED
    BY <1>1, <1>5 DEF FreeIndex

-----------------------------------------------------------------------------
(* The loops of dev_data_init.  What is shown of them has the form: if the
   value before the loop is in A[0], and each turn takes the values in
   A[n - 1] to values in A[n], the loop ends with one in A[N]. *)

LEMMA RunEnds ==
  ASSUME NEW N \in Nat, NEW A, NEW x, x \in A[0], NEW step,
         \A n \in 1..N : \A a \in A[n - 1] : step[n][a] \in A[n]
  PROVE  \E f \in [0..N -> UNION {A[n] : n \in 0..N}] :
             Counts(N, x, step, f) /\ \A n \in 0..N : f[n] \in A[n]
  <1> DEFINE B == UNION {A[n] : n \in 0..N}
             next == [n \in 1..N |-> [a \in B |-> IF a \in A[n - 1] THEN step[n][a] ELSE x]]
             Inv == [n \in 0..N |-> A[n]]
  <1>1. \A n \in 0..N : A[n] \subseteq B
    OBVIOUS
  <1>2. x \in B
    BY <1>1
  <1>3. \A n \in 1..N : n - 1 \in 0..N /\ n \in 0..N
    OBVIOUS
  <1> HIDE DEF B
  <1>4. next \in [1..N -> [B -> B]]
    <2>1. ASSUME NEW n \in 1..N, NEW a \in B
          PROVE  (IF a \in A[n - 1] THEN step[n][a] ELSE x) \in B
      BY <1>1, <1>2, <1>3
    <2> QED
      BY <2>1
  <1>5. \A n \in 1..N : \A a \in B : a \in A[n - 1] => next[n][a] = step[n][a]
    OBVIOUS
  <1> HIDE DEF next
  <1>6. PICK f \in [0..N -> B] : Counts(N, x, next, f)
    BY <1>2, <1>4, CountedEnds
  <1>7. \A n \in 1..N : \A a \in B : a \in Inv[n - 1] => next[n][a] \in Inv[n]
    BY <1>3, <1>5
  <1>8. x \in Inv[0] /\ \A n \in 0..N : Inv[n] = A[n]
    OBVIOUS
  <1> HIDE DEF Inv
  <1>9. \A n \in 0..N : f[n] \in A[n]
    <2>1. x \in Inv[0]
      BY <1>8
    <2>2. \A n \in 0..N : f[n] \in Inv[n]
      BY <1>6, <1>7, <2>1, CountedKeeps
    <2> QED
      BY <1>8, <2>2
  <1>10. Counts(N, x, step, f)
    <2>1. f[0] = x
      BY <1>6 DEF Counts
    <2>2. ASSUME NEW n \in 1..N  PROVE f[n] = step[n][f[n - 1]]
      <3>1. f[n] = next[n][f[n - 1]]
        BY <1>6 DEF Counts
      <3>2. f[n - 1] \in A[n - 1] /\ f[n - 1] \in B
        BY <1>1, <1>3, <1>9
      <3> QED
        BY <1>5, <3>1, <3>2
    <2> QED
      BY <2>1, <2>2 DEF Counts
  <1> QED
    BY <1>9, <1>10 DEF B

LEMMA PruneRuns ==
  ASSUME NEW tab, NEW t, NEW ids, NEW A,
         tab.first[t + 1] - tab.first[t] \in Nat \ {0},
         [tab |-> tab, j |-> 0] \in A[0],
         \A n \in 1..(tab.first[t + 1] - tab.first[t]) :
             \A a \in A[n - 1] : PruneOne(t, ids, a) \in A[n]
  PROVE  Prune(tab, t, ids) \in A[tab.first[t + 1] - tab.first[t]]
  <1> DEFINE N == tab.first[t + 1] - tab.first[t]
             x == [tab |-> tab, j |-> 0]
             Body(g) == [n \in 0..N |-> IF n = 0 THEN x ELSE PruneOne(t, ids, g[n - 1])]
             B == UNION {A[n] : n \in 0..N}
             step == [n \in 1..N |-> [a \in B |-> PruneOne(t, ids, a)]]
  <1>1. Prune(tab, t, ids) = (CHOOSE g : g = Body(g))[N]
    <2>1. N > 0
      OBVIOUS
    <2> QED
      BY <2>1 DEF Prune
  <1>2. /\ N \in Nat /\ N \in 0..N /\ x \in A[0]
        /\ \A n \in 1..N : \A a \in A[n - 1] : PruneOne(t, ids, a) \in A[n]
    OBVIOUS
  <1> HIDE DEF N, x
  <1>3. \A n \in 1..N : n - 1 \in 0..N /\ n \in 0..N /\ n # 0
    BY <1>2
  <1>4. \A n \in 1..N : \A a \in A[n - 1] : step[n][a] = PruneOne(t, ids, a)
    BY <1>3
  <1> HIDE DEF step
  <1>5. PICK f \in [0..N -> B] : Counts(N, x, step, f) /\ \A n \in 0..N : f[n] \in A[n]
    <2>1. \A n \in 1..N : \A a \in A[n - 1] : step[n][a] \in A[n]
      BY <1>2, <1>4
    <2> QED
      BY <1>2, <2>1, RunEnds
  <1>6. f = Body(f)
    <2>1. \A n \in 0..N : Body(f)[n] = IF n = 0 THEN x ELSE PruneOne(t, ids, f[n - 1])
      OBVIOUS
    <2>2. DOMAIN Body(f) = 0..N /\ Body(f) = [n \in 0..N |-> Body(f)[n]]
      OBVIOUS
    <2>3. \A n \in 1..N : f[n] = PruneOne(t, ids, f[n - 1])
      BY <1>3, <1>4, <1>5 DEF Counts
    <2>4. f[0] = x /\ DOMAIN f = 0..N /\ f = [n \in 0..N |-> f[n]]
      BY <1>5 DEF Counts
    <2> HIDE DEF Body
    <2>5. ASSUME NEW n \in 0..N  PROVE f[n] = Body(f)[n]
      <3>1. CASE n = 0
        BY <2>1, <2>4, <3>1
      <3>2. CASE n # 0
        <4>1. n \in 1..N
          BY <1>2, <3>2
        <4> QED
          BY <2>1, <2>3, <3>2, <4>1
      <3> QED
        BY <3>1, <3>2
    <2> QED
      BY <2>2, <2>4, <2>5
  <1>7. PICK h : h = CHOOSE g : g = Body(g)
    OBVIOUS
  <1>8. h = Body(h)
    <2> HIDE DEF Body
    <2> QED
      BY <1>6, <1>7
  <1>9. \A n \in 0..N : h[n] = IF n = 0 THEN x ELSE PruneOne(t, ids, h[n - 1])
    <2>1. \A n \in 0..N : Body(h)[n] = IF n = 0 THEN x ELSE PruneOne(t, ids, h[n - 1])
      OBVIOUS
    <2> HIDE DEF Body
    <2> QED
      BY <1>8, <2>1
  <1> DEFINE S == {n \in 0..N : h[n] \in A[n]}
  <1>10. 0 \in S
    BY <1>2, <1>9
  <1>11. \A n \in 1..N : n - 1 \in S => n \in S
    BY <1>2, <1>3, <1>9
  <1> HIDE DEF S
  <1>12. N \in S
    BY <1>2, <1>10, <1>11, Handed
  <1> QED
    BY <1>1, <1>7, <1>12 DEF S, N

LEMMA FillRuns ==
  ASSUME NEW acc, NEW t, NEW ids, NEW rubbish, NEW A, acc \in A[0],
         \A id \in Ids \cap ids : \A a \in A[id - 1] : FillOne(t, rubbish, a, id) \in A[id],
         \A id \in Ids \ ids : \A a \in A[id - 1] : a \in A[id]
  PROVE  Fill(acc, t, ids, rubbish) \in A[MaxDevs]
  <1> DEFINE N == MaxDevs
             Turn(n, a) == IF n \in ids THEN FillOne(t, rubbish, a, n) ELSE a
             Body(g) == [id \in 0..MaxDevs |-> IF id = 0 THEN acc
                             ELSE IF id \in ids THEN FillOne(t, rubbish, g[id - 1], id)
                             ELSE g[id - 1]]
             B == UNION {A[n] : n \in 0..N}
             step == [n \in 1..N |-> [a \in B |-> Turn(n, a)]]
  <1>1. Fill(acc, t, ids, rubbish) = (CHOOSE g : g = Body(g))[N]
    BY DEF Fill
  <1>2. /\ N \in Nat /\ N \in 0..N /\ acc \in A[0]
        /\ \A n \in 1..N : \A a \in A[n - 1] : Turn(n, a) \in A[n]
    BY Sizes
  <1>0. \A g : Body(g) = [n \in 0..N |-> IF n = 0 THEN acc ELSE Turn(n, g[n - 1])]
    OBVIOUS
  <1> HIDE DEF Turn, N
  <1>3. \A n \in 1..N : n - 1 \in 0..N /\ n \in 0..N /\ n # 0
    BY <1>2
  <1>4. \A n \in 1..N : \A a \in A[n - 1] : step[n][a] = Turn(n, a)
    BY <1>3
  <1> HIDE DEF step
  <1>5. PICK f \in [0..N -> B] : Counts(N, acc, step, f) /\ \A n \in 0..N : f[n] \in A[n]
    <2>1. \A n \in 1..N : \A a \in A[n - 1] : step[n][a] \in A[n]
      BY <1>2, <1>4
    <2> QED
      BY <1>2, <2>1, RunEnds
  <1> HIDE DEF Body
  <1>6. f = Body(f)
    <2> DEFINE R == [n \in 0..N |-> IF n = 0 THEN acc ELSE Turn(n, f[n - 1])]
    <2>1. \A n \in 0..N : R[n] = IF n = 0 THEN acc ELSE Turn(n, f[n - 1])
      OBVIOUS
    <2>2. R = [n \in 0..N |-> R[n]]
      OBVIOUS
    <2>3. \A n \in 1..N : f[n] = Turn(n, f[n - 1])
      BY <1>3, <1>4, <1>5 DEF Counts
    <2>4. f[0] = acc /\ f = [n \in 0..N |-> f[n]]
      BY <1>5 DEF Counts
    <2>5. Body(f) = R
      BY <1>0
    <2> HIDE DEF R
    <2>6. ASSUME NEW n \in 0..N  PROVE f[n] = R[n]
      <3>1. CASE n = 0
        BY <2>1, <2>4, <3>1
      <3>2. CASE n # 0
        <4>1. n \in 1..N
          BY <1>2, <3>2
        <4> QED
          BY <2>1, <2>3, <3>2, <4>1
      <3> QED
        BY <3>1, <3>2
    <2> QED
      BY <2>2, <2>4, <2>5, <2>6
  <1>7. PICK h : h = CHOOSE g : g = Body(g)
    OBVIOUS
  <1>8. h = Body(h)
    BY <1>6, <1>7
  <1>9. \A n \in 0..N : h[n] = IF n = 0 THEN acc ELSE Turn(n, h[n - 1])
    BY <1>0, <1>8
  <1> DEFINE S == {n \in 0..N : h[n] \in A[n]}
  <1>10. 0 \in S
    BY <1>2, <1>9
  <1>11. \A n \in 1..N : n - 1 \in S => n \in S
    <2> SUFFICES ASSUME NEW n \in 1..N, n - 1 \in S  PROVE h[n] \in A[n]
      BY <1>3
    <2>1. h[n] = Turn(n, h[n - 1])
      BY <1>3, <1>9
    <2>2. h[n - 1] \in A[n - 1]
      OBVIOUS
    <2>3. Turn(n, h[n - 1]) \in A[n]
      BY <1>2, <2>2
    <2> QED
      BY <2>1, <2>3
  <1> HIDE DEF S
  <1>12. N \in S
    BY <1>2, <1>10, <1>11, Handed
  <1> QED
    BY <1>1, <1>7, <1>12 DEF S, N

Begun == [tab |-> Checkout, n |-> 0, ok |-> TRUE]

LEMMA RestoredRuns ==
  ASSUME NEW rubbish, NEW A, Begun \in A[0],
         \A t \in Types : \A a \in A[t] : OneType(a, t, rubbish) \in A[t + 1]
  PROVE  \E all \in A[NumTypes] :
             Restored(rubbish) = [all EXCEPT !.tab.first[NumTypes] = all.n, !.tab.total = all.n]
  <1> DEFINE N == NumTypes
             Body(g) == [n \in 0..N |-> IF n = 0 THEN [tab |-> Checkout, n |-> 0, ok |-> TRUE]
                                        ELSE OneType(g[n - 1], n - 1, rubbish)]
             B == UNION {A[n] : n \in 0..N}
             step == [n \in 1..N |-> [a \in B |-> OneType(a, n - 1, rubbish)]]
             all == (CHOOSE g : g = Body(g))[NumTypes]
  <1>1. Restored(rubbish) = [all EXCEPT !.tab.first[NumTypes] = all.n, !.tab.total = all.n]
    BY DEF Restored
  <1>2. N \in Nat /\ N \in 0..N
    BY Sizes
  <1>0. \A g : Body(g) = [n \in 0..N |-> IF n = 0 THEN Begun
                                         ELSE OneType(g[n - 1], n - 1, rubbish)]
    BY DEF Begun
  <1>3. \A n \in 1..N : n - 1 \in 0..N /\ n \in 0..N /\ n # 0 /\ n - 1 \in Types /\ (n - 1) + 1 = n
    BY <1>2, Sizes
  <1>4. \A n \in 1..N : \A a \in A[n - 1] : OneType(a, n - 1, rubbish) \in A[n]
    BY <1>3
  <1>5. \A n \in 1..N : \A a \in A[n - 1] : step[n][a] = OneType(a, n - 1, rubbish)
    BY <1>3
  <1> HIDE DEF step, Body
  <1>6. PICK f \in [0..N -> B] : Counts(N, Begun, step, f) /\ \A n \in 0..N : f[n] \in A[n]
    <2>1. \A n \in 1..N : \A a \in A[n - 1] : step[n][a] \in A[n]
      BY <1>4, <1>5
    <2> QED
      BY <1>2, <2>1, RunEnds
  <1>7. f = Body(f)
    <2> DEFINE R == [n \in 0..N |-> IF n = 0 THEN Begun ELSE OneType(f[n - 1], n - 1, rubbish)]
    <2>1. \A n \in 0..N : R[n] = IF n = 0 THEN Begun ELSE OneType(f[n - 1], n - 1, rubbish)
      OBVIOUS
    <2>2. R = [n \in 0..N |-> R[n]]
      OBVIOUS
    <2>3. \A n \in 1..N : f[n] = OneType(f[n - 1], n - 1, rubbish)
      BY <1>3, <1>5, <1>6 DEF Counts
    <2>4. f[0] = Begun /\ f = [n \in 0..N |-> f[n]]
      BY <1>6 DEF Counts
    <2>5. Body(f) = R
      BY <1>0
    <2> HIDE DEF R
    <2>6. ASSUME NEW n \in 0..N  PROVE f[n] = R[n]
      <3>1. CASE n = 0
        BY <2>1, <2>4, <3>1
      <3>2. CASE n # 0
        <4>1. n \in 1..N
          BY <1>2, <3>2
        <4> QED
          BY <2>1, <2>3, <3>2, <4>1
      <3> QED
        BY <3>1, <3>2
    <2> QED
      BY <2>2, <2>4, <2>5, <2>6
  <1>8. PICK h : h = CHOOSE g : g = Body(g)
    OBVIOUS
  <1>9. h = Body(h)
    BY <1>7, <1>8
  <1>10. \A n \in 0..N : h[n] = IF n = 0 THEN Begun ELSE OneType(h[n - 1], n - 1, rubbish)
    BY <1>0, <1>9
  <1> DEFINE S == {n \in 0..N : h[n] \in A[n]}
  <1>11. 0 \in S
    BY <1>2, <1>10
  <1>12. \A n \in 1..N : n - 1 \in S => n \in S
    BY <1>3, <1>4, <1>10
  <1> HIDE DEF S
  <1>13. N \in S
    BY <1>2, <1>11, <1>12, Handed
  <1>14. all \in A[NumTypes]
    BY <1>8, <1>13 DEF S
  <1> QED
    BY <1>1, <1>14


-----------------------------------------------------------------------------
(* Counting devices. *)

Below(S, n) == {d \in S : d[1] < n}
FilesBelow(n) == Cardinality(Below(DOMAIN files, n)) + Cardinality(Below(DOMAIN tmp, n))

\* The index of a type is the number of devices of the types before.
LEMMA FirstCounts ==
  ASSUME NEW tab, Exact(tab), NEW t \in 0..NumTypes
  PROVE  /\ IsFiniteSet(Below(Listed(tab), t))
         /\ Cardinality(Below(Listed(tab), t)) = tab.first[t]
  <1>0. PICK n, total : n = tab.first[t] /\ total = tab.total
    OBVIOUS
  <1> DEFINE D == Below(Listed(tab), t)
             f == [k \in 0..(n - 1) |-> tab.recs[k].dev]
  <1>1. n \in Nat /\ total \in Nat /\ n <= total
    <2>1. Formed(tab) /\ NumTypes \in 0..NumTypes /\ t <= NumTypes
      BY Sizes DEF Exact
    <2>2. n \in Nat /\ total \in Nat
      BY <1>0, <2>1, TableParts DEF Formed
    <2>3. tab.first[t] <= tab.first[NumTypes] /\ tab.first[NumTypes] = tab.total
      BY <2>1 DEF Formed
    <2> QED
      BY <1>0, <2>2, <2>3
  <1>2. \A k \in 0..(n - 1) : k \in 0..(total - 1) /\ k < n
    BY <1>1
  <1>3. \A k \in 0..(total - 1) : /\ tab.recs[k].dev \in Devs
                                  /\ tab.recs[k].dev \in Listed(tab)
                                  /\ k < n <=> tab.recs[k].dev[1] < t
    BY <1>0, ListedIs DEF Exact
  <1>4. \A k \in 0..(n - 1) : tab.recs[k].dev \in D
    BY <1>2, <1>3 DEF Below
  <1>5. \A k, m \in 0..(n - 1) : tab.recs[k].dev = tab.recs[m].dev => k = m
    <2> SUFFICES ASSUME NEW k \in 0..(n - 1), NEW m \in 0..(n - 1), k < m
                 PROVE  tab.recs[k].dev # tab.recs[m].dev
      BY <1>1
    <2>1. Before(tab.recs[k].dev, tab.recs[m].dev)
      BY <1>0, <1>2 DEF Exact
    <2> QED
      BY <1>2, <1>3, <2>1, BeforeOrder
  <1>6. \A d \in D : \E k \in 0..(n - 1) : tab.recs[k].dev = d
    <2> TAKE d \in D
    <2>1. PICK k \in 0..(total - 1) : tab.recs[k].dev = d
      BY <1>0, ListedIs DEF Below
    <2>2. k < n
      BY <1>3, <2>1 DEF Below
    <2> QED
      BY <1>1, <2>1, <2>2
  <1>7. f \in Bijection(0..(n - 1), D)
    <2> HIDE DEF D
    <2>1. f \in [0..(n - 1) -> D] /\ \A k \in 0..(n - 1) : f[k] = tab.recs[k].dev
      BY <1>4
    <2> HIDE DEF f
    <2>2. f \in Injection(0..(n - 1), D)
      BY <1>5, <2>1, Fun_IsInj
    <2>3. f \in Surjection(0..(n - 1), D)
      BY <1>6, <2>1, Fun_IsSurj
    <2> QED
      BY <2>2, <2>3 DEF Bijection
  <1>8. IsFiniteSet(0..(n - 1)) /\ Cardinality(0..(n - 1)) = n
    BY <1>1, FS_Interval
  <1> HIDE DEF f, D
  <1>9. ExistsBijection(0..(n - 1), D)
    BY <1>7 DEF ExistsBijection
  <1> QED
    BY <1>0, <1>8, <1>9, FS_Bijection DEF D

LEMMA ListedCount ==
  ASSUME NEW tab, Exact(tab)
  PROVE  /\ Listed(tab) \subseteq Devs /\ IsFiniteSet(Listed(tab))
         /\ Cardinality(Listed(tab)) = tab.total
  <1>1. Listed(tab) \subseteq Devs
    BY ListedIs DEF Exact
  <1>2. Below(Listed(tab), NumTypes) = Listed(tab)
    <2>1. \A d \in Devs : d[1] < NumTypes
      BY Sizes
    <2> QED
      BY <1>1, <2>1 DEF Below
  <1> QED
    BY <1>1, <1>2, FirstCounts, Sizes DEF Exact, Formed

LEMMA DevsFinite == IsFiniteSet(Devs)
  <1>1. IsFiniteSet(Types) /\ IsFiniteSet(Ids)
    <2>1. 0 \in Int /\ NumTypes - 1 \in Int /\ 1 \in Int /\ MaxDevs \in Int
      BY Sizes
    <2> QED
      BY <2>1, FS_Interval DEF Types, Ids
  <1> QED
    BY <1>1, FS_Product DEF Devs

LEMMA BelowCounts ==
  ASSUME NEW S, S \subseteq Devs
  PROVE  /\ IsFiniteSet(S)
         /\ \A n : /\ IsFiniteSet(Below(S, n)) /\ Cardinality(Below(S, n)) \in Nat
                   /\ Below(S, n) \subseteq S
         /\ Below(S, 0) = {} /\ Below(S, NumTypes) = S
         /\ \A s, u \in 0..NumTypes :
                s <= u => Cardinality(Below(S, s)) <= Cardinality(Below(S, u))
         /\ \A t \in Types :
                Cardinality(Below(S, t + 1)) = Cardinality(Below(S, t)) + Cardinality(OfType(S, t))
  <1>1. IsFiniteSet(S)
    BY DevsFinite, FS_Subset
  <1>2. \A n : Below(S, n) \subseteq S
    BY DEF Below
  <1>3. \A n : IsFiniteSet(Below(S, n)) /\ Cardinality(Below(S, n)) \in Nat
    BY <1>1, <1>2, FS_Subset, FS_CardinalityType
  <1>4. \A d \in S : d[1] \in Nat /\ d[1] < NumTypes
    BY Sizes
  <1>5. Below(S, 0) = {} /\ Below(S, NumTypes) = S
    BY <1>4 DEF Below
  <1>6. ASSUME NEW s \in 0..NumTypes, NEW u \in 0..NumTypes, s <= u
        PROVE  Cardinality(Below(S, s)) <= Cardinality(Below(S, u))
    <2>1. Below(S, s) \subseteq Below(S, u)
      BY <1>4, <1>6, Sizes DEF Below
    <2> QED
      BY <1>3, <2>1, FS_Subset
  <1>7. ASSUME NEW t \in Types
        PROVE  Cardinality(Below(S, t + 1)) = Cardinality(Below(S, t)) + Cardinality(OfType(S, t))
    <2>1. t \in Nat
      BY Sizes
    <2>2. /\ Below(S, t + 1) = Below(S, t) \cup OfType(S, t)
          /\ Below(S, t) \cap OfType(S, t) = {}
      BY <1>4, <2>1 DEF Below, OfType
    <2>3. IsFiniteSet(OfType(S, t)) /\ Cardinality(OfType(S, t)) \in Nat
      <3>1. OfType(S, t) \subseteq S
        BY DEF OfType
      <3> QED
        BY <1>1, <3>1, FS_Subset, FS_CardinalityType
    <2>4. Cardinality(Below(S, t) \cup OfType(S, t)) =
              Cardinality(Below(S, t)) + Cardinality(OfType(S, t))
                  - Cardinality(Below(S, t) \cap OfType(S, t))
      BY <1>3, <2>3, FS_Union
    <2>5. Cardinality(Below(S, t) \cap OfType(S, t)) = 0
      BY <2>2, FS_EmptySet
    <2>6. PICK i, j : i = Cardinality(Below(S, t)) /\ j = Cardinality(OfType(S, t))
      OBVIOUS
    <2>7. i \in Nat /\ j \in Nat
      BY <1>3, <2>3, <2>6
    <2>8. Cardinality(Below(S, t + 1)) = i + j - 0
      BY <2>2, <2>4, <2>5, <2>6
    <2> QED
      BY <2>6, <2>7, <2>8
  <1> QED
    BY <1>1, <1>2, <1>3, <1>5, <1>6, <1>7

\* How many files there are, of all kinds.
DiskOK == DOMAIN files \subseteq Devs /\ DOMAIN tmp \subseteq Devs

LEMMA FilesCount ==
  ASSUME DiskOK
  PROVE  /\ FilesBelow(0) = 0
         /\ FilesBelow(NumTypes) = Cardinality(DOMAIN files) + Cardinality(DOMAIN tmp)
         /\ \A s \in 0..NumTypes : FilesBelow(s) \in Nat
         /\ \A s, u \in 0..NumTypes : s <= u => FilesBelow(s) <= FilesBelow(u)
         /\ \A t \in Types : FilesBelow(t + 1) = FilesBelow(t) + Count(t)
  <1>0. PICK F, G : F = DOMAIN files /\ G = DOMAIN tmp
    OBVIOUS
  <1>1. F \subseteq Devs /\ G \subseteq Devs
    BY <1>0 DEF DiskOK
  <1>2. \A n : FilesBelow(n) = Cardinality(Below(F, n)) + Cardinality(Below(G, n))
    BY <1>0 DEF FilesBelow
  <1>3. \A n : Cardinality(Below(F, n)) \in Nat /\ Cardinality(Below(G, n)) \in Nat
    BY <1>1, BelowCounts
  <1>4. FilesBelow(0) = 0 /\ FilesBelow(NumTypes) = Cardinality(F) + Cardinality(G)
    BY <1>1, <1>2, BelowCounts, FS_EmptySet
  <1>5. ASSUME NEW s \in 0..NumTypes, NEW u \in 0..NumTypes, s <= u
        PROVE  FilesBelow(s) <= FilesBelow(u)
    <2>1. /\ Cardinality(Below(F, s)) <= Cardinality(Below(F, u))
          /\ Cardinality(Below(G, s)) <= Cardinality(Below(G, u))
      BY <1>1, <1>5, BelowCounts
    <2> QED
      BY <1>2, <1>3, <2>1
  <1>6. ASSUME NEW t \in Types  PROVE FilesBelow(t + 1) = FilesBelow(t) + Count(t)
    <2>1. /\ Cardinality(Below(F, t + 1)) = Cardinality(Below(F, t)) + Cardinality(OfType(F, t))
          /\ Cardinality(Below(G, t + 1)) = Cardinality(Below(G, t)) + Cardinality(OfType(G, t))
      BY <1>1, BelowCounts
    <2>2. OfType(F, t) \subseteq Devs /\ OfType(G, t) \subseteq Devs
      BY <1>1 DEF OfType
    <2>3. Cardinality(OfType(F, t)) \in Nat /\ Cardinality(OfType(G, t)) \in Nat
      BY <2>2, BelowCounts, FS_CardinalityType
    <2>4. Count(t) = Cardinality(OfType(F, t)) + Cardinality(OfType(G, t))
      BY <1>0 DEF Count
    <2> QED
      BY <1>2, <1>3, <2>1, <2>3, <2>4
  <1> QED
    BY <1>0, <1>2, <1>3, <1>4, <1>5, <1>6

-----------------------------------------------------------------------------
(* dev_data_init after a swap was torn: the records may be in any order, but
   the indices are right. *)

Shifted(tab, new, t, c) ==
    /\ new \in Tables /\ new.total = tab.total + c
    /\ \A s \in 0..NumTypes : /\ s > t => new.first[s] = tab.first[s] + c
                              /\ s <= t => new.first[s] = tab.first[s]

LEMMA ShiftedNot ==
  ASSUME NEW tab \in Tables, NEW t \in Types  PROVE Shifted(tab, tab, t, 0)
  <1>1. tab.total \in Nat /\ \A s \in 0..NumTypes : tab.first[s] \in Nat
    BY TableParts
  <1> QED
    BY <1>1 DEF Shifted

LEMMA ShiftedTwice ==
  ASSUME NEW x \in Tables, NEW y, NEW z, NEW t \in Types, NEW c \in Int, NEW e \in Int,
         Shifted(x, y, t, c), Shifted(y, z, t, e)
  PROVE  Shifted(x, z, t, c + e)
  <1>1. x.total \in Nat /\ \A s \in 0..NumTypes : x.first[s] \in Nat
    BY TableParts
  <1>2. z \in Tables /\ z.total = x.total + (c + e)
    BY <1>1 DEF Shifted
  <1>3. ASSUME NEW s \in 0..NumTypes
        PROVE  /\ s > t => z.first[s] = x.first[s] + (c + e)
               /\ s <= t => z.first[s] = x.first[s]
    <2>1. PICK p, q, r : p = x.first[s] /\ q = y.first[s] /\ r = z.first[s]
      OBVIOUS
    <2>2. /\ p \in Nat
          /\ s > t => q = p + c /\ r = q + e
          /\ s <= t => q = p /\ r = q
      BY <1>1, <2>1 DEF Shifted
    <2> QED
      BY <2>1, <2>2
  <1> QED
    BY <1>2, <1>3 DEF Shifted

LEMMA CutTyped ==
  ASSUME NEW tab \in Tables, NEW t \in Types, NEW at \in Nat, tab.total > 0,
         \A s \in 0..NumTypes : s > t => tab.first[s] > 0
  PROVE  Shifted(tab, Cut(tab, t, at), t, -1)
  <1> DEFINE F == [s \in 0..NumTypes |-> tab.first[s] - (IF s > t THEN 1 ELSE 0)]
             R == [k \in Slots |-> IF at <= k /\ k < tab.total - 1 /\ k + 1 \in Slots
                                   THEN tab.recs[k + 1] ELSE tab.recs[k]]
             c == Cut(tab, t, at)
  <1>1. /\ tab.first \in [0..NumTypes -> Nat] /\ tab.total \in Nat
        /\ tab.recs \in [Slots -> RecordOf]
    BY TableParts
  <1>2. c = [first |-> F, total |-> tab.total - 1, recs |-> R]
    BY DEF Cut
  <1>3. R \in [Slots -> RecordOf]
    <2>1. \A k \in Slots : (IF at <= k /\ k < tab.total - 1 /\ k + 1 \in Slots
                            THEN tab.recs[k + 1] ELSE tab.recs[k]) \in RecordOf
      BY <1>1
    <2> QED
      BY <2>1
  <1>4. \A s \in 0..NumTypes : F[s] = tab.first[s] - (IF s > t THEN 1 ELSE 0)
    OBVIOUS
  <1>5. F = [s \in 0..NumTypes |-> F[s]]
    OBVIOUS
  <1> HIDE DEF F, R, c
  <1>6. \A s \in 0..NumTypes : /\ F[s] \in Nat
                               /\ s > t => F[s] = tab.first[s] + (-1)
                               /\ s <= t => F[s] = tab.first[s]
    <2> TAKE s \in 0..NumTypes
    <2>1. PICK p : p = tab.first[s]
      OBVIOUS
    <2>2. p \in Nat /\ s \in Nat /\ t \in Nat /\ (s > t => p > 0)
      BY <1>1, <2>1, Sizes
    <2>3. F[s] = p - (IF s > t THEN 1 ELSE 0)
      BY <1>4, <2>1
    <2>4. CASE s > t
      BY <2>1, <2>2, <2>3, <2>4
    <2>5. CASE s <= t
      BY <2>1, <2>2, <2>3, <2>5
    <2> QED
      BY <2>2, <2>4, <2>5
  <1>7. F \in [0..NumTypes -> Nat]
    BY <1>5, <1>6
  <1>8. tab.total - 1 \in Nat /\ tab.total - 1 = tab.total + (-1)
    BY <1>1
  <1>9. c \in Tables
    BY <1>2, <1>3, <1>7, <1>8 DEF Tables, RecordOf
  <1>10. c.first = F /\ c.total = tab.total + (-1)
    BY <1>2, <1>8
  <1>11. Shifted(tab, c, t, -1)
    BY <1>6, <1>9, <1>10 DEF Shifted
  <1> QED
    BY <1>11 DEF c

LEMMA PasteTyped ==
  ASSUME NEW tab \in Tables, NEW r \in RecordOf, r.dev[1] \in Types, NEW at \in Nat
  PROVE  Shifted(tab, Paste(tab, at, r), r.dev[1], 1)
  <1> DEFINE t0 == r.dev[1]
             k0 == IF at < tab.total THEN at ELSE tab.total
             F == [t \in 0..NumTypes |-> tab.first[t] + (IF t > t0 THEN 1 ELSE 0)]
             R == [k \in Slots |-> IF k = k0 THEN r
                                   ELSE IF k0 < k /\ k <= tab.total THEN tab.recs[k - 1]
                                   ELSE tab.recs[k]]
             p == Paste(tab, at, r)
  <1>1. /\ tab.first \in [0..NumTypes -> Nat] /\ tab.total \in Nat
        /\ tab.recs \in [Slots -> RecordOf] /\ Slots = 0..(2 * MaxDevs) /\ MaxDevs \in Nat
    BY TableParts, Sizes
  <1>2. p = [first |-> F, total |-> tab.total + 1, recs |-> R]
    BY DEF Paste
  <1>3. k0 \in Nat
    BY <1>1
  <1>4. R \in [Slots -> RecordOf]
    <2> HIDE DEF k0
    <2>1. \A k \in Slots : k0 < k => k - 1 \in Slots
      BY <1>1, <1>3
    <2>2. \A k \in Slots : (IF k = k0 THEN r
                            ELSE IF k0 < k /\ k <= tab.total THEN tab.recs[k - 1]
                            ELSE tab.recs[k]) \in RecordOf
      BY <1>1, <2>1
    <2> QED
      BY <2>2
  <1>5. \A s \in 0..NumTypes : F[s] = tab.first[s] + (IF s > t0 THEN 1 ELSE 0)
    OBVIOUS
  <1>6. F = [s \in 0..NumTypes |-> F[s]]
    OBVIOUS
  <1>7. t0 \in Nat
    BY Sizes
  <1> HIDE DEF F, R, p, t0
  <1>8. \A s \in 0..NumTypes : /\ F[s] \in Nat
                               /\ s > t0 => F[s] = tab.first[s] + 1
                               /\ s <= t0 => F[s] = tab.first[s]
    <2> TAKE s \in 0..NumTypes
    <2>1. PICK q : q = tab.first[s]
      OBVIOUS
    <2>2. q \in Nat /\ s \in Nat
      BY <1>1, <2>1, Sizes
    <2>3. F[s] = q + (IF s > t0 THEN 1 ELSE 0)
      BY <1>5, <2>1
    <2>4. CASE s > t0
      <3>1. ~(s <= t0) /\ F[s] = q + 1
        BY <1>7, <2>2, <2>3, <2>4
      <3> QED
        BY <2>1, <2>2, <3>1
    <2>5. CASE s <= t0
      <3>1. ~(s > t0) /\ F[s] = q
        BY <1>7, <2>2, <2>3, <2>5
      <3> QED
        BY <2>1, <2>2, <3>1
    <2> QED
      BY <1>7, <2>2, <2>4, <2>5
  <1>9. F \in [0..NumTypes -> Nat]
    BY <1>6, <1>8
  <1>10. tab.total + 1 \in Nat
    BY <1>1
  <1>11. p \in Tables
    BY <1>2, <1>4, <1>9, <1>10 DEF Tables, RecordOf
  <1>12. p.first = F /\ p.total = tab.total + 1
    BY <1>2
  <1>13. Shifted(tab, p, t0, 1)
    BY <1>8, <1>11, <1>12 DEF Shifted
  <1> QED
    BY <1>13 DEF p, t0


FilesOK == DiskOK /\ \A d \in DOMAIN files : files[d].addr \in Addrs \cup {NoAddr}

LEMMA PruneLoose ==
  ASSUME NEW tab \in Tables, NEW t \in Types, NEW ids, tab.total = tab.first[NumTypes],
         \A s \in 0..NumTypes : s > t => tab.first[t + 1] <= tab.first[s]
  PROVE  \E a \in [tab : Tables, j : Int] :
             Prune(tab, t, ids) = a /\ \E c \in Int : Shifted(tab, a.tab, t, c)
  <1> DEFINE old == tab.first[t + 1] - tab.first[t]
             A(n) == {a \in [tab : Tables, j : 0..n] : Shifted(tab, a.tab, t, a.j - n)}
             As == [n \in 0..old |-> A(n)]
  <1>0. /\ t \in Nat /\ t \in 0..NumTypes /\ t + 1 \in 0..NumTypes /\ NumTypes \in 0..NumTypes
        /\ NumTypes > t /\ NumTypes \in Nat
    BY Sizes
  <1>1. PICK from, end : from = tab.first[t] /\ end = tab.first[t + 1]
    OBVIOUS
  <1>2. /\ from \in Nat /\ end \in Nat /\ old = end - from /\ old \in Int
        /\ tab.total \in Nat
        /\ \A s \in 0..NumTypes : tab.first[s] \in Nat
    BY <1>0, <1>1, TableParts
  <1>3. CASE ~(old > 0)
    <2>1. Prune(tab, t, ids) = [tab |-> tab, j |-> old]
      BY <1>3 DEF Prune
    <2>2. [tab |-> tab, j |-> old] \in [tab : Tables, j : Int]
      BY <1>2
    <2> HIDE DEF old
    <2>3. Shifted(tab, [tab |-> tab, j |-> old].tab, t, 0)
      BY ShiftedNot
    <2> QED
      BY <2>1, <2>2, <2>3
  <1>4. CASE old > 0
    <2>0. old \in Nat \ {0} /\ 0 \in 0..old
      BY <1>2, <1>4
    <2>1. [tab |-> tab, j |-> 0] \in As[0]
      <3>1. Shifted(tab, tab, t, 0)
        BY ShiftedNot
      <3> QED
        BY <2>0, <3>1
    <2>2. ASSUME NEW n \in 1..old, NEW a \in As[n - 1]  PROVE PruneOne(t, ids, a) \in As[n]
      <3>0. n - 1 \in 0..old /\ n \in 0..old /\ n \in Nat /\ n <= end - from /\ n > 0
        BY <1>2, <2>0
      <3>1. a \in A(n - 1)
        BY <3>0
      <3>2. PICK c, j : c = a.tab /\ j = a.j
        OBVIOUS
      <3>3. /\ a = [tab |-> c, j |-> j] /\ c \in Tables /\ j \in Nat /\ j <= n - 1
            /\ Shifted(tab, c, t, j - (n - 1))
        BY <3>0, <3>1, <3>2
      <3>4. c.total > 0 /\ \A s \in 0..NumTypes : s > t => c.first[s] > 0
        <4>1. ASSUME NEW s \in 0..NumTypes, s > t  PROVE c.first[s] > 0
          <5>1. PICK v : v = tab.first[s]
            OBVIOUS
          <5>2. v \in Nat /\ end <= v
            BY <1>1, <1>2, <4>1, <5>1
          <5>3. c.first[s] = v + (j - (n - 1))
            BY <3>3, <4>1, <5>1 DEF Shifted
          <5> QED
            BY <1>2, <3>0, <3>3, <5>2, <5>3
        <4>2. c.total = tab.first[NumTypes] + (j - (n - 1))
          BY <3>3 DEF Shifted
        <4>3. c.first[NumTypes] = tab.first[NumTypes] + (j - (n - 1))
          BY <1>0, <3>3 DEF Shifted
        <4> QED
          BY <1>0, <4>1, <4>2, <4>3
      <3>5. PICK at : at = c.first[t] + j
        OBVIOUS
      <3>6. at \in Nat
        <4>1. c.first[t] \in Nat
          BY <1>0, <3>3, TableParts
        <4> QED
          BY <3>3, <3>5, <4>1
      <3>7. j \in 0..n /\ j + 1 \in 0..n /\ (j + 1) - n = j - (n - 1)
            /\ (j - (n - 1)) + (-1) = j - n /\ j - (n - 1) \in Int
        BY <3>0, <3>3
      <3>8. \/ PruneOne(t, ids, a) = [tab |-> c, j |-> j + 1]
            \/ PruneOne(t, ids, a) = [tab |-> Cut(c, t, at), j |-> j]
        BY <3>2, <3>3, <3>5 DEF PruneOne
      <3>9. [tab |-> c, j |-> j + 1] \in A(n)
        <4>1. Shifted(tab, c, t, (j + 1) - n)
          BY <3>3, <3>7
        <4> QED
          BY <3>3, <3>7, <4>1
      <3>10. [tab |-> Cut(c, t, at), j |-> j] \in A(n)
        <4>1. Shifted(c, Cut(c, t, at), t, -1)
          BY <3>3, <3>4, <3>6, CutTyped
        <4>2. Shifted(tab, Cut(c, t, at), t, (j - (n - 1)) + (-1))
          BY <3>3, <3>7, <4>1, ShiftedTwice
        <4>3. Shifted(tab, Cut(c, t, at), t, j - n) /\ Cut(c, t, at) \in Tables
          BY <3>7, <4>1, <4>2 DEF Shifted
        <4> QED
          BY <3>7, <4>3
      <3> HIDE DEF A
      <3> QED
        BY <3>0, <3>8, <3>9, <3>10
    <2> HIDE DEF As
    <2>3. Prune(tab, t, ids) \in As[old]
      BY <2>0, <2>1, <2>2, PruneRuns
    <2>4. PICK a \in A(old) : Prune(tab, t, ids) = a
      BY <2>0, <2>3 DEF As
    <2>5. /\ a \in [tab : Tables, j : 0..old] /\ a.j - old \in Int
          /\ Shifted(tab, a.tab, t, a.j - old)
      BY <2>0, <2>4
    <2>6. a \in [tab : Tables, j : Int]
      BY <2>0, <2>5
    <2> QED
      BY <2>4, <2>5, <2>6
  <1> QED
    BY <1>3, <1>4

Accs == [tab : Tables, j : Int, ok : BOOLEAN]

LEMMA FreshIs ==
  ASSUME FilesOK, NEW d \in DOMAIN files, NEW rubbish \in Addrs \cup {NoAddr}
  PROVE  /\ Fresh(d, rubbish) \in Record /\ Fresh(d, rubbish) \in RecordOf
         /\ Fresh(d, rubbish).dev = d /\ Fresh(d, rubbish).level = 1
         /\ Fresh(d, rubbish).addr = files[d].addr \/ files[d].addr = NoAddr
  <1>1. d \in Devs /\ files[d].addr \in Addrs \cup {NoAddr}
    BY DEF FilesOK, DiskOK
  <1> QED
    BY <1>1 DEF Fresh, Record, RecordOf, Levels

\* One turn of the loop that adds what is missing.
FillAt(tab, j, t, id, at) ==
    LET from == tab.first[t]
        ge == {k \in from..(from + j - 1) : tab.recs[k].dev[2] >= id}
    IN  \/ ge # {} /\ at \in ge /\ \A m \in ge : at <= m
        \/ ge = {} /\ j > 0 /\ at = from + j
        \/ ge = {} /\ ~(j > 0) /\ at = from

\* The turn finds the place at in a, and makes b of a.
Turned(a, t, id, rubbish, at, b) ==
    LET from == a.tab.first[t]
        there == at \in from..(from + a.j - 1) /\ a.tab.recs[at].dev[2] = id
        f == <<t, id>>
    IN  /\ FillAt(a.tab, a.j, t, id, at)
        /\ \/ there /\ b = a
           \/ /\ ~there /\ f \in DOMAIN files
              /\ b = [tab |-> Paste(a.tab, at, Fresh(f, rubbish)), j |-> a.j + 1, ok |-> a.ok]
           \/ f \notin DOMAIN files /\ b = [tab |-> a.tab, j |-> a.j, ok |-> FALSE]

LEMMA FillTurn ==
  ASSUME NEW a \in Accs, NEW t \in Types, NEW id \in Ids, NEW rubbish
  PROVE  \E at \in Nat : Turned(a, t, id, rubbish, at, FillOne(t, rubbish, a, id))
  <1>1. PICK tab, j : tab = a.tab /\ j = a.j
    OBVIOUS
  <1>2. PICK from : from = tab.first[t]
    OBVIOUS
  <1>3. tab \in Tables /\ j \in Int /\ from \in Nat /\ a = [tab |-> tab, j |-> j, ok |-> a.ok]
    BY <1>1, <1>2, TableParts, Sizes DEF Accs
  <1> DEFINE ge == {k \in from..(from + j - 1) : tab.recs[k].dev[2] >= id}
             at == IF ge # {} THEN CHOOSE k \in ge : \A m \in ge : k <= m
                   ELSE IF j > 0 THEN from + j ELSE from
             f == <<t, id>>
  <1>4. ge \subseteq Nat
    BY <1>3
  <1>5. ge # {} => at \in ge /\ \A m \in ge : at <= m
    <2> SUFFICES ASSUME ge # {}
                 PROVE  at \in ge /\ \A m \in ge : at <= m
      OBVIOUS
    <2>1. \E k \in ge : \A m \in ge : k <= m
      BY <1>4, Least
    <2> HIDE DEF ge
    <2> QED
      BY <2>1
  <1>6. at \in Nat
    <2>1. CASE ge # {}
      BY <1>4, <1>5, <2>1
    <2>2. CASE ge = {}
      BY <1>3, <2>2
    <2> QED
      BY <2>1, <2>2
  <1>7. FillAt(tab, j, t, id, at)
    <2>1. CASE ge # {}
      BY <1>2, <1>5, <2>1 DEF FillAt
    <2>2. CASE ge = {}
      BY <1>2, <2>2 DEF FillAt
    <2> QED
      BY <2>1, <2>2
  <1>8. FillOne(t, rubbish, a, id) =
            IF ge # {} /\ tab.recs[at].dev[2] = id THEN a
            ELSE IF f \in DOMAIN files
                 THEN [a EXCEPT !.tab = Paste(@, at, Fresh(f, rubbish)), !.j = @ + 1]
                 ELSE [a EXCEPT !.ok = FALSE]
    BY <1>1, <1>2 DEF FillOne
  <1>9. (at \in from..(from + j - 1) /\ tab.recs[at].dev[2] = id) <=>
            (ge # {} /\ tab.recs[at].dev[2] = id)
    <2>1. ASSUME NEW k \in from..(from + j - 1), tab.recs[k].dev[2] = id  PROVE ge # {}
      <3>1. tab.recs[k].dev[2] >= id
        BY <2>1, Sizes
      <3>2. k \in ge
        BY <3>1
      <3> QED
        BY <3>2
    <2>2. ASSUME ge # {}  PROVE at \in from..(from + j - 1)
      BY <1>5, <2>2
    <2> HIDE DEF at, ge
    <2> QED
      BY <2>1, <2>2
  <1> HIDE DEF at, ge
  <1>10. CASE ge # {} /\ tab.recs[at].dev[2] = id
    <2>1. FillOne(t, rubbish, a, id) = a
      BY <1>8, <1>10
    <2> QED
      BY <1>1, <1>2, <1>6, <1>7, <1>9, <1>10, <2>1 DEF Turned
  <1>11. CASE ~(ge # {} /\ tab.recs[at].dev[2] = id) /\ f \in DOMAIN files
    <2>1. FillOne(t, rubbish, a, id) =
              [a EXCEPT !.tab = Paste(@, at, Fresh(f, rubbish)), !.j = @ + 1]
      BY <1>8, <1>11
    <2>2. FillOne(t, rubbish, a, id) =
              [tab |-> Paste(tab, at, Fresh(f, rubbish)), j |-> j + 1, ok |-> a.ok]
      BY <1>1, <1>3, <2>1
    <2> QED
      BY <1>1, <1>2, <1>6, <1>7, <1>9, <1>11, <2>2 DEF Turned
  <1>12. CASE ~(ge # {} /\ tab.recs[at].dev[2] = id) /\ f \notin DOMAIN files
    <2>1. FillOne(t, rubbish, a, id) = [a EXCEPT !.ok = FALSE]
      BY <1>8, <1>12
    <2>2. FillOne(t, rubbish, a, id) = [tab |-> tab, j |-> j, ok |-> FALSE]
      BY <1>1, <1>3, <2>1
    <2> QED
      BY <1>1, <1>6, <1>7, <1>12, <2>2 DEF Turned
  <1> QED
    BY <1>10, <1>11, <1>12

LEMMA FillLoose ==
  ASSUME FilesOK, NEW acc \in Accs, NEW t \in Types, NEW ids,
         NEW rubbish \in Addrs \cup {NoAddr}
  PROVE  \E b \in Accs : /\ Fill(acc, t, ids, rubbish) = b
                         /\ \E c \in Int : Shifted(acc.tab, b.tab, t, c)
  <1> DEFINE A == {a \in Accs : \E c \in Int : Shifted(acc.tab, a.tab, t, c)}
             As == [n \in 0..MaxDevs |-> A]
  <1>1. acc.tab \in Tables
    BY DEF Accs
  <1>2. acc \in A
    BY <1>1, ShiftedNot
  <1>3. ASSUME NEW id \in Ids, NEW a \in A  PROVE FillOne(t, rubbish, a, id) \in A
    <2>0. PICK at \in Nat : Turned(a, t, id, rubbish, at, FillOne(t, rubbish, a, id))
      BY FillTurn
    <2>1. \/ FillOne(t, rubbish, a, id) = a
          \/ /\ <<t, id>> \in DOMAIN files
             /\ FillOne(t, rubbish, a, id) =
                    [tab |-> Paste(a.tab, at, Fresh(<<t, id>>, rubbish)),
                     j |-> a.j + 1, ok |-> a.ok]
          \/ FillOne(t, rubbish, a, id) = [tab |-> a.tab, j |-> a.j, ok |-> FALSE]
      BY <2>0 DEF Turned
    <2>2. PICK c \in Int : Shifted(acc.tab, a.tab, t, c)
      OBVIOUS
    <2>3. a.tab \in Tables /\ a.j \in Int /\ a.ok \in BOOLEAN
      BY DEF Accs
    <2>4. CASE FillOne(t, rubbish, a, id) = a
      BY <2>4
    <2>5. ASSUME <<t, id>> \in DOMAIN files
          PROVE  [tab |-> Paste(a.tab, at, Fresh(<<t, id>>, rubbish)), j |-> a.j + 1, ok |-> a.ok] \in A
      <3>1. PICK r : r = Fresh(<<t, id>>, rubbish)
        OBVIOUS
      <3>2. r \in RecordOf /\ r.dev[1] = t
        BY <2>5, <3>1, FreshIs
      <3>3. PICK p : p = Paste(a.tab, at, r)
        OBVIOUS
      <3>4. Shifted(a.tab, p, t, 1)
        BY <2>3, <3>2, <3>3, PasteTyped
      <3>5. Shifted(acc.tab, p, t, c + 1) /\ c + 1 \in Int
        BY <1>1, <2>2, <3>4, ShiftedTwice
      <3>6. [tab |-> p, j |-> a.j + 1, ok |-> a.ok] \in Accs
        BY <2>3, <3>4 DEF Accs, Shifted
      <3>7. [tab |-> p, j |-> a.j + 1, ok |-> a.ok].tab = p
        OBVIOUS
      <3> QED
        BY <3>1, <3>3, <3>5, <3>6, <3>7
    <2>6. [tab |-> a.tab, j |-> a.j, ok |-> FALSE] \in A
      BY <2>2, <2>3 DEF Accs
    <2> HIDE DEF A
    <2> QED
      BY <2>1, <2>4, <2>5, <2>6
  <1> HIDE DEF A
  <1>4. /\ \A id \in Ids \cap ids : \A a \in As[id - 1] : FillOne(t, rubbish, a, id) \in As[id]
        /\ \A id \in Ids \ ids : \A a \in As[id - 1] : a \in As[id]
    BY <1>3, Sizes
  <1>5. acc \in As[0] /\ As[MaxDevs] = A
    BY <1>2, Sizes
  <1> HIDE DEF As
  <1>6. Fill(acc, t, ids, rubbish) \in A
    <2>1. acc \in As[0]
      BY <1>5
    <2>2. Fill(acc, t, ids, rubbish) \in As[MaxDevs]
      BY <1>4, <2>1, FillRuns
    <2> QED
      BY <1>5, <2>2
  <1> QED
    BY <1>6 DEF A


\* The table while the types from n on are still to do.
Partly(n, tab) ==
    /\ tab \in Tables /\ tab.total = tab.first[NumTypes]
    /\ \A s \in 0..NumTypes : s < n => tab.first[s] = FilesBelow(s)
    /\ \A s, u \in 0..NumTypes : n <= s /\ s <= u => tab.first[s] <= tab.first[u]

Rounds == [tab : Tables, n : Nat, ok : BOOLEAN]

\* x is the table with another index for type t.
FirstSet(tab, t, v, x) ==
    /\ x \in Tables /\ x.total = tab.total /\ x.recs = tab.recs
    /\ x.first = [tab.first EXCEPT ![t] = v]
    /\ \A s \in 0..NumTypes : x.first[s] = IF s = t THEN v ELSE tab.first[s]

LEMMA SetFirst ==
  ASSUME NEW tab \in Tables, NEW t \in 0..NumTypes, NEW v \in Nat, NEW x,
         x = [tab EXCEPT !.first[t] = v]
  PROVE  FirstSet(tab, t, v, x)
  <1>1. /\ tab.first \in [0..NumTypes -> Nat] /\ tab.total \in Nat
        /\ tab.recs \in [Slots -> RecordOf]
        /\ tab = [first |-> tab.first, total |-> tab.total, recs |-> tab.recs]
    BY TableParts DEF Tables
  <1>2. /\ x.first = [tab.first EXCEPT ![t] = v] /\ x.total = tab.total /\ x.recs = tab.recs
        /\ x = [first |-> [tab.first EXCEPT ![t] = v], total |-> tab.total, recs |-> tab.recs]
    BY <1>1
  <1>3. [tab.first EXCEPT ![t] = v] \in [0..NumTypes -> Nat]
    BY <1>1
  <1> QED
    BY <1>1, <1>2, <1>3 DEF Tables, RecordOf, FirstSet

LEMMA OneTypeLoose ==
  ASSUME FilesOK, NEW t \in Types, NEW rubbish \in Addrs \cup {NoAddr}, NEW a \in Rounds,
         Partly(t, a.tab), a.n = FilesBelow(t)
  PROVE  LET b == OneType(a, t, rubbish)
         IN  b \in Rounds /\ Partly(t + 1, b.tab) /\ b.n = FilesBelow(t + 1)
  <1>0. /\ t \in Nat /\ t \in 0..NumTypes /\ t + 1 \in 0..NumTypes /\ NumTypes \in 0..NumTypes
        /\ NumTypes > t /\ NumTypes \in Nat
    BY Sizes
  <1>1. /\ a.tab \in Tables /\ a.n \in Nat /\ a.ok \in BOOLEAN
    BY DEF Rounds
  <1>2. PICK x : x = [a.tab EXCEPT !.first[t] = a.n]
    OBVIOUS
  <1>3. /\ x \in Tables /\ x.total = a.tab.total
        /\ \A s \in 0..NumTypes : x.first[s] = IF s = t THEN a.n ELSE a.tab.first[s]
    <2>1. FirstSet(a.tab, t, a.n, x)
      BY <1>0, <1>1, <1>2, SetFirst
    <2> QED
      BY <2>1 DEF FirstSet
  <1>4. x.total = x.first[NumTypes]
    <2>1. x.first[NumTypes] = a.tab.first[NumTypes]
      BY <1>0, <1>3
    <2> QED
      BY <1>3, <2>1 DEF Partly
  <1>5. \A s, u \in 0..NumTypes : s > t /\ s <= u => x.first[s] <= x.first[u]
    <2> TAKE s, u \in 0..NumTypes
    <2> SUFFICES ASSUME s > t, s <= u  PROVE x.first[s] <= x.first[u]
      OBVIOUS
    <2>1. s # t /\ u # t /\ t <= s
      BY <1>0
    <2>2. x.first[s] = a.tab.first[s] /\ x.first[u] = a.tab.first[u]
      BY <1>3, <2>1
    <2> QED
      BY <2>1, <2>2 DEF Partly
  <1>6. \A s \in 0..NumTypes : s > t => x.first[t + 1] <= x.first[s]
    BY <1>0, <1>5
  <1>7. PICK p \in [tab : Tables, j : Int], c \in Int :
            Prune(x, t, Scan(t)) = p /\ Shifted(x, p.tab, t, c)
    BY <1>3, <1>4, <1>6, PruneLoose
  <1>8. PICK acc : acc = [tab |-> p.tab, j |-> p.j, ok |-> a.ok]
    OBVIOUS
  <1>9. acc \in Accs /\ acc.tab = p.tab
    BY <1>1, <1>8 DEF Accs
  <1>10. PICK b \in Accs, e \in Int :
             Fill(acc, t, Scan(t), rubbish) = b /\ Shifted(acc.tab, b.tab, t, e)
    BY <1>9, FillLoose
  <1>11. OneType(a, t, rubbish) = [tab |-> b.tab, n |-> a.n + Count(t), ok |-> b.ok]
    BY <1>2, <1>7, <1>8, <1>10 DEF OneType
  <1>12. Shifted(x, b.tab, t, c + e) /\ c + e \in Int
    BY <1>3, <1>7, <1>9, <1>10, ShiftedTwice
  <1>13. a.n + Count(t) = FilesBelow(t + 1) /\ FilesBelow(t + 1) \in Nat
    BY <1>0, FilesCount DEF FilesOK
  <1>14. OneType(a, t, rubbish) \in Rounds
    BY <1>11, <1>13 DEF Accs, Rounds
  <1> DEFINE tab == b.tab
  <1>15. PICK h : h = c + e
    OBVIOUS
  <1>16. /\ tab \in Tables /\ tab.total = x.total + h /\ h \in Int
         /\ \A s \in 0..NumTypes : s > t => tab.first[s] = x.first[s] + h
         /\ \A s \in 0..NumTypes : s <= t => tab.first[s] = x.first[s]
    BY <1>12, <1>15 DEF Shifted
  <1> HIDE DEF tab
  <1>17. tab.total = tab.first[NumTypes]
    BY <1>0, <1>4, <1>16
  <1>18. ASSUME NEW s \in 0..NumTypes, s < t + 1  PROVE tab.first[s] = FilesBelow(s)
    <2>1. s <= t
      BY <1>0, <1>18
    <2>2. tab.first[s] = IF s = t THEN a.n ELSE a.tab.first[s]
      BY <1>3, <1>16, <2>1
    <2>3. s # t => a.tab.first[s] = FilesBelow(s)
      BY <1>0, <2>1 DEF Partly
    <2> QED
      BY <2>2, <2>3
  <1>19. ASSUME NEW s \in 0..NumTypes, NEW u \in 0..NumTypes, t + 1 <= s, s <= u
         PROVE  tab.first[s] <= tab.first[u]
    <2>1. s > t /\ u > t
      BY <1>0, <1>19
    <2>2. PICK i, j : i = x.first[s] /\ j = x.first[u]
      OBVIOUS
    <2>3. i <= j /\ tab.first[s] = i + h /\ tab.first[u] = j + h
      BY <1>5, <1>16, <1>19, <2>1, <2>2
    <2>4. i \in Nat /\ j \in Nat
      BY <1>3, <2>2, TableParts
    <2> QED
      BY <1>16, <2>3, <2>4
  <1>20. Partly(t + 1, tab)
    BY <1>16, <1>17, <1>18, <1>19 DEF Partly
  <1> QED
    BY <1>11, <1>13, <1>14, <1>20 DEF tab

\* The table is formed whatever files there are.
LEMMA RestoredFormed ==
  ASSUME FilesOK, NEW rubbish \in Addrs \cup {NoAddr}, Formed(Checkout),
         Cardinality(DOMAIN files) + Cardinality(DOMAIN tmp) <= MaxDevs
  PROVE  /\ Formed(Restored(rubbish).tab)
         /\ Restored(rubbish).tab.total <= MaxDevs
  <1> DEFINE A == [t \in 0..NumTypes |->
                      {a \in Rounds : Partly(t, a.tab) /\ a.n = FilesBelow(t)}]
  <1>0. 0 \in 0..NumTypes /\ NumTypes \in 0..NumTypes /\ NumTypes \in Nat
    BY Sizes
  <1>1. /\ FilesBelow(0) = 0 /\ FilesBelow(NumTypes) <= MaxDevs
        /\ \A s \in 0..NumTypes : FilesBelow(s) \in Nat
        /\ \A s, u \in 0..NumTypes : s <= u => FilesBelow(s) <= FilesBelow(u)
    BY FilesCount DEF FilesOK
  <1>2. Begun \in A[0]
    <2>1. Checkout \in Tables /\ Checkout.total = Checkout.first[NumTypes]
      BY DEF Formed
    <2>2. Partly(0, Checkout)
      <3>1. \A s \in 0..NumTypes : ~(s < 0)
        BY <1>0
      <3> QED
        BY <2>1, <3>1 DEF Partly, Formed
    <2> QED
      BY <1>0, <1>1, <2>1, <2>2 DEF Begun, Rounds
  <1>3. \A t \in Types : \A a \in A[t] : OneType(a, t, rubbish) \in A[t + 1]
    BY OneTypeLoose, Sizes
  <1>4. \A a \in A[NumTypes] : /\ a \in Rounds /\ Partly(NumTypes, a.tab)
                               /\ a.n = FilesBelow(NumTypes)
    BY <1>0
  <1> HIDE DEF A
  <1>5. PICK all \in A[NumTypes] :
            Restored(rubbish) = [all EXCEPT !.tab.first[NumTypes] = all.n, !.tab.total = all.n]
    BY <1>2, <1>3, RestoredRuns
  <1>6. PICK tab, n : tab = all.tab /\ n = all.n
    OBVIOUS
  <1>7. /\ all = [tab |-> tab, n |-> n, ok |-> all.ok] /\ tab \in Tables /\ n \in Nat
        /\ Partly(NumTypes, tab) /\ n = FilesBelow(NumTypes)
    BY <1>4, <1>6 DEF Rounds
  <1>8. PICK new : new = Restored(rubbish).tab
    OBVIOUS
  <1>9. new = [tab EXCEPT !.first[NumTypes] = n, !.total = n]
    BY <1>5, <1>6, <1>7, <1>8
  <1>10. PICK x : x = [tab EXCEPT !.first[NumTypes] = n]
    OBVIOUS
  <1>11. /\ x \in Tables /\ x.total = tab.total
         /\ \A s \in 0..NumTypes : x.first[s] = IF s = NumTypes THEN n ELSE tab.first[s]
    <2>1. FirstSet(tab, NumTypes, n, x)
      BY <1>0, <1>7, <1>10, SetFirst
    <2> QED
      BY <2>1 DEF FirstSet
  <1>12. new = [x EXCEPT !.total = n]
    BY <1>7, <1>9, <1>10 DEF Tables
  <1>13. new \in Tables /\ new.total = n /\ new.first = x.first
    BY <1>7, <1>11, <1>12 DEF Tables
  <1>14. \A s \in 0..NumTypes : new.first[s] = FilesBelow(s)
    <2> TAKE s \in 0..NumTypes
    <2>1. s # NumTypes => s < NumTypes
      BY <1>0
    <2> QED
      BY <1>7, <1>11, <1>13, <2>1 DEF Partly
  <1>15. n <= MaxDevs /\ n <= 2 * MaxDevs
    BY <1>1, <1>7, Sizes
  <1>16. Formed(new)
    BY <1>0, <1>1, <1>7, <1>13, <1>14, <1>15 DEF Formed
  <1> QED
    BY <1>8, <1>13, <1>15, <1>16


-----------------------------------------------------------------------------
(* dev_data_init after any other stop: the table is exact all the time. *)

\* The table c is the table tab without its record at a place.
Without(tab, t, at, c) ==
    /\ Exact(c) /\ c.total = tab.total - 1
    /\ \A s \in 0..NumTypes : /\ s > t => c.first[s] = tab.first[s] - 1
                              /\ s <= t => c.first[s] = tab.first[s]
    /\ \A k \in 0..(at - 1) : c.recs[k] = tab.recs[k]
    /\ Records(c) = Records(tab) \ {tab.recs[at]}
    /\ Listed(c) = Listed(tab) \ {tab.recs[at].dev}

LEMMA CutOut ==
  ASSUME NEW tab, Exact(tab), NEW t \in Types,
         NEW at \in tab.first[t]..(tab.first[t + 1] - 1)
  PROVE  Without(tab, t, at, Cut(tab, t, at))
  <1>1. PICK c : c = Cut(tab, t, at)
    OBVIOUS
  <1>2. Formed(tab)
    BY DEF Exact
  <1>3. /\ Exact(c) /\ c.total = tab.total - 1
        /\ \A s \in 0..NumTypes : c.first[s] = tab.first[s] - (IF s > t THEN 1 ELSE 0)
        /\ Records(c) = Records(tab) \ {tab.recs[at]}
        /\ Listed(c) = Listed(tab) \ {tab.recs[at].dev}
    BY <1>1, CutExact
  <1>4. \A k \in 0..(tab.total - 2) :
            c.recs[k] = IF k < at THEN tab.recs[k] ELSE tab.recs[k + 1]
    BY <1>1, <1>2, CutIs
  <1>5. at \in Nat /\ tab.total \in Nat /\ at < tab.total
    BY <1>2, Sections
  <1>6. ASSUME NEW k \in 0..(at - 1)  PROVE c.recs[k] = tab.recs[k]
    <2>1. k \in 0..(tab.total - 2) /\ k < at
      BY <1>5
    <2> QED
      BY <1>4, <2>1
  <1>7. ASSUME NEW s \in 0..NumTypes
        PROVE  /\ s > t => c.first[s] = tab.first[s] - 1
               /\ s <= t => c.first[s] = tab.first[s]
    <2>1. PICK v : v = tab.first[s]
      OBVIOUS
    <2>2. v \in Nat /\ s \in Nat /\ t \in Nat
      BY <1>2, <2>1, TableParts, Sizes DEF Formed
    <2>3. c.first[s] = v - (IF s > t THEN 1 ELSE 0)
      BY <1>3, <2>1
    <2>4. s > t => c.first[s] = v - 1
      BY <2>3
    <2>5. s <= t => c.first[s] = v
      BY <2>2, <2>3
    <2> QED
      BY <2>1, <2>4, <2>5
  <1> QED
    BY <1>1, <1>3, <1>6, <1>7 DEF Without

\* After n turns of which a.j kept a record.
PruneInv(tab, t, ids, n, a) ==
    /\ Exact(a.tab)
    /\ a.tab.first[t] = tab.first[t]
    /\ a.tab.first[t + 1] = tab.first[t + 1] - (n - a.j)
    /\ \A k \in tab.first[t]..(tab.first[t] + a.j - 1) : a.tab.recs[k].dev[2] \in ids
    /\ Records(a.tab) \subseteq Records(tab) /\ Listed(a.tab) \subseteq Listed(tab)
    /\ \A d \in Listed(tab) : (d[1] = t => d[2] \in ids) => d \in Listed(a.tab)

LEMMA PruneStep ==
  ASSUME NEW tab, Exact(tab), NEW t \in Types, NEW ids,
         NEW n \in 1..(tab.first[t + 1] - tab.first[t]),
         NEW a \in [tab : Tables, j : 0..(n - 1)], PruneInv(tab, t, ids, n - 1, a)
  PROVE  /\ PruneOne(t, ids, a) \in [tab : Tables, j : 0..n]
         /\ PruneInv(tab, t, ids, n, PruneOne(t, ids, a))
  <1>0. PICK from, end, c, j : /\ from = tab.first[t] /\ end = tab.first[t + 1]
                               /\ c = a.tab /\ j = a.j
    OBVIOUS
  <1>1. /\ from \in Nat /\ end \in Nat /\ n \in Nat /\ n > 0 /\ n <= end - from
        /\ c \in Tables /\ j \in Nat /\ j <= n - 1 /\ a = [tab |-> c, j |-> j]
        /\ t \in Nat /\ t \in 0..NumTypes /\ t + 1 \in 0..NumTypes
    <2>1. Formed(tab)
      BY DEF Exact
    <2>2. from \in Nat /\ end \in Nat
      BY <1>0, <2>1, Sections
    <2>3. n \in Nat /\ n > 0 /\ n <= end - from
      BY <1>0, <2>2
    <2> QED
      BY <1>0, <2>2, <2>3, Sizes
  <1>2. /\ Exact(c) /\ c.first[t] = from /\ c.first[t + 1] = end - ((n - 1) - j)
        /\ \A k \in from..(from + j - 1) : c.recs[k].dev[2] \in ids
        /\ Records(c) \subseteq Records(tab) /\ Listed(c) \subseteq Listed(tab)
        /\ \A d \in Listed(tab) : (d[1] = t => d[2] \in ids) => d \in Listed(c)
    BY <1>0 DEF PruneInv
  <1>3. PICK at : at = from + j
    OBVIOUS
  <1>4. at \in Nat /\ at \in from..((end - ((n - 1) - j)) - 1) /\ at = c.first[t] + j
    BY <1>1, <1>2, <1>3
  <1>5. at \in c.first[t]..(c.first[t + 1] - 1)
    BY <1>2, <1>4
  <1>6. at \in 0..(c.total - 1) /\ c.recs[at].dev[1] = t
    <2>1. c.first[t + 1] <= c.total /\ c.total \in Nat
      BY <1>2, Sections DEF Exact
    <2>2. at < c.first[t + 1] /\ c.first[t] <= at /\ c.first[t + 1] \in Nat
      BY <1>1, <1>2, <1>4
    <2>3. at \in 0..(c.total - 1)
      BY <1>4, <2>1, <2>2
    <2> QED
      BY <1>2, <2>2, <2>3, InSection
  <1>7. CASE c.recs[at].dev[2] \in ids
    <2>1. PruneOne(t, ids, a) = [tab |-> c, j |-> j + 1]
      BY <1>1, <1>4, <1>6, <1>7 DEF PruneOne
    <2>2. PICK b : b = [tab |-> c, j |-> j + 1]
      OBVIOUS
    <2>3. b.tab = c /\ b.j = j + 1 /\ b \in [tab : Tables, j : 0..n]
      BY <1>1, <2>2
    <2>4. end - ((n - 1) - j) = end - (n - (j + 1))
      BY <1>1
    <2>5. \A k \in from..(from + (j + 1) - 1) : c.recs[k].dev[2] \in ids
      <3> TAKE k \in from..(from + (j + 1) - 1)
      <3>1. k = at \/ k \in from..(from + j - 1)
        BY <1>1, <1>3
      <3> QED
        BY <1>2, <1>7, <3>1
    <2>6. PruneInv(tab, t, ids, n, b)
      BY <1>0, <1>2, <2>3, <2>4, <2>5 DEF PruneInv
    <2> QED
      BY <2>1, <2>2, <2>3, <2>6
  <1>8. CASE c.recs[at].dev[2] \notin ids
    <2>1. PICK e : e = Cut(c, t, at)
      OBVIOUS
    <2>2. PruneOne(t, ids, a) = [tab |-> e, j |-> j]
      BY <1>1, <1>4, <1>8, <2>1 DEF PruneOne
    <2>3. Without(c, t, at, e)
      BY <1>2, <1>5, <2>1, CutOut
    <2>4. PICK b : b = [tab |-> e, j |-> j]
      OBVIOUS
    <2>5. e \in Tables
      BY <2>3 DEF Without, Exact, Formed
    <2>6. b.tab = e /\ b.j = j /\ b \in [tab : Tables, j : 0..n]
      BY <1>1, <2>4, <2>5
    <2>7. e.first[t] = from /\ e.first[t + 1] = end - (n - j)
      <3>1. e.first[t] = c.first[t]
        BY <1>1, <2>3 DEF Without
      <3>2. e.first[t + 1] = c.first[t + 1] - 1
        BY <1>1, <2>3 DEF Without
      <3> QED
        BY <1>1, <1>2, <3>1, <3>2
    <2>8. \A k \in from..(from + j - 1) : e.recs[k].dev[2] \in ids
      <3> TAKE k \in from..(from + j - 1)
      <3>1. k \in 0..(at - 1)
        BY <1>1, <1>3
      <3>2. e.recs[k] = c.recs[k]
        BY <2>3, <3>1 DEF Without
      <3> QED
        BY <1>2, <3>2
    <2>9. /\ Exact(e) /\ Records(e) \subseteq Records(tab) /\ Listed(e) \subseteq Listed(tab)
          /\ Listed(e) = Listed(c) \ {c.recs[at].dev}
      BY <1>2, <2>3 DEF Without
    <2>10. \A d \in Listed(tab) : (d[1] = t => d[2] \in ids) => d \in Listed(e)
      BY <1>2, <1>6, <1>8, <2>9
    <2>11. PruneInv(tab, t, ids, n, b)
      BY <1>0, <2>6, <2>7, <2>8, <2>9, <2>10 DEF PruneInv
    <2> QED
      BY <2>2, <2>4, <2>6, <2>11
  <1> QED
    BY <1>7, <1>8

\* What is left of the table: of type t the records whose id is in the list.
Pruned(tab, t, ids, a) ==
    /\ Exact(a.tab) /\ a.j = a.tab.first[t + 1] - a.tab.first[t]
    /\ Records(a.tab) \subseteq Records(tab)
    /\ Listed(a.tab) = {d \in Listed(tab) : d[1] = t => d[2] \in ids}

LEMMA PruneExact ==
  ASSUME NEW tab, Exact(tab), NEW t \in Types, NEW ids
  PROVE  \E a \in [tab : Tables, j : Nat] :
             Prune(tab, t, ids) = a /\ Pruned(tab, t, ids, a)
  <1> DEFINE old == tab.first[t + 1] - tab.first[t]
             As == [n \in 0..old |-> {a \in [tab : Tables, j : 0..n] :
                                          PruneInv(tab, t, ids, n, a)}]
  <1>0. PICK from, end : from = tab.first[t] /\ end = tab.first[t + 1]
    OBVIOUS
  <1>1. /\ from \in Nat /\ end \in Nat /\ from <= end /\ tab \in Tables
        /\ tab.total \in Nat /\ end <= tab.total
    BY <1>0, Sections DEF Exact, Formed
  <1>2. /\ \A k \in 0..(tab.total - 1) :
               (from <= k /\ k < end) <=> tab.recs[k].dev[1] = t
    BY <1>0, InSection
  <1>3. PruneInv(tab, t, ids, 0, [tab |-> tab, j |-> 0])
    <2>1. PICK b : b = [tab |-> tab, j |-> 0]
      OBVIOUS
    <2>2. b.tab = tab /\ b.j = 0
      BY <2>1
    <2>3. end = end - (0 - 0) /\ \A k \in from..(from + 0 - 1) : FALSE
      BY <1>1
    <2>4. PruneInv(tab, t, ids, 0, b)
      BY <1>0, <2>2, <2>3 DEF PruneInv
    <2> QED
      BY <2>1, <2>4
  <1>4. ASSUME NEW a \in [tab : Tables, j : Nat], a.j <= old, PruneInv(tab, t, ids, old, a)
        PROVE  Pruned(tab, t, ids, a)
    <2>1. PICK c, j : c = a.tab /\ j = a.j
      OBVIOUS
    <2>2. /\ Exact(c) /\ c.first[t] = from /\ c.first[t + 1] = end - (old - j)
          /\ \A k \in from..(from + j - 1) : c.recs[k].dev[2] \in ids
          /\ Records(c) \subseteq Records(tab) /\ Listed(c) \subseteq Listed(tab)
          /\ \A d \in Listed(tab) : (d[1] = t => d[2] \in ids) => d \in Listed(c)
      BY <1>0, <1>4, <2>1 DEF PruneInv
    <2>3. j \in Nat /\ c.first[t + 1] = from + j
      BY <1>0, <1>1, <2>1, <2>2
    <2>4. ASSUME NEW d \in Listed(c), d[1] = t  PROVE d[2] \in ids
      <3>1. PICK k \in 0..(c.total - 1) : c.recs[k].dev = d
        BY ListedIs
      <3>2. c.first[t] <= k /\ k < c.first[t + 1]
        BY <2>2, <2>4, <3>1, InSection
      <3>3. k \in from..(from + j - 1)
        BY <1>1, <2>2, <2>3, <3>1, <3>2
      <3> QED
        BY <2>2, <3>1, <3>3
    <2>5. Listed(c) = {d \in Listed(tab) : d[1] = t => d[2] \in ids}
      BY <2>2, <2>4
    <2>6. j = c.first[t + 1] - c.first[t]
      BY <1>1, <2>2, <2>3
    <2> QED
      BY <2>1, <2>2, <2>5, <2>6 DEF Pruned
  <1>5. old = end - from
    BY <1>0
  <1>6. CASE ~(old > 0)
    <2>1. old = 0
      BY <1>1, <1>5, <1>6
    <2>2. Prune(tab, t, ids) = [tab |-> tab, j |-> old]
      BY <1>6 DEF Prune
    <2>3. PICK b : b = [tab |-> tab, j |-> 0]
      OBVIOUS
    <2> HIDE DEF old
    <2>4. b \in [tab : Tables, j : Nat] /\ b.j <= old /\ Prune(tab, t, ids) = b
      BY <1>1, <2>1, <2>2, <2>3
    <2>5. PruneInv(tab, t, ids, old, b)
      BY <1>3, <2>1, <2>3
    <2> QED
      BY <1>4, <2>4, <2>5
  <1>7. CASE old > 0
    <2>1. old \in Nat \ {0} /\ 0 \in 0..old /\ old \in 0..old
      BY <1>1, <1>5, <1>7
    <2>2. [tab |-> tab, j |-> 0] \in As[0]
      BY <1>1, <1>3, <2>1
    <2>3. ASSUME NEW n \in 1..old, NEW a \in As[n - 1]  PROVE PruneOne(t, ids, a) \in As[n]
      <3>1. n - 1 \in 0..old /\ n \in 0..old
        BY <2>1
      <3>2. a \in [tab : Tables, j : 0..(n - 1)] /\ PruneInv(tab, t, ids, n - 1, a)
        BY <3>1
      <3>3. /\ PruneOne(t, ids, a) \in [tab : Tables, j : 0..n]
            /\ PruneInv(tab, t, ids, n, PruneOne(t, ids, a))
        BY <3>2, PruneStep
      <3> QED
        BY <3>1, <3>3
    <2>4. \A a \in As[old] : /\ a \in [tab : Tables, j : Nat] /\ a.j <= old
                             /\ PruneInv(tab, t, ids, old, a)
      BY <2>1
    <2> HIDE DEF As
    <2>5. Prune(tab, t, ids) \in As[old]
      BY <2>1, <2>2, <2>3, PruneRuns
    <2> QED
      BY <1>4, <2>4, <2>5
  <1> QED
    BY <1>6, <1>7


\* The table p is the table tab with the record r.
With(tab, r, p) ==
    /\ Exact(p) /\ p.total = tab.total + 1
    /\ \A s \in 0..NumTypes : /\ s > r.dev[1] => p.first[s] = tab.first[s] + 1
                              /\ s <= r.dev[1] => p.first[s] = tab.first[s]
    /\ Records(p) = Records(tab) \cup {r}
    /\ Listed(p) = Listed(tab) \cup {r.dev}

LEMMA PasteIn ==
  ASSUME NEW tab, Exact(tab), tab.total < 2 * MaxDevs, NEW r \in Record,
         NEW at, Fits(tab, r.dev, at)
  PROVE  With(tab, r, Paste(tab, at, r))
  <1>1. PICK p, t : p = Paste(tab, at, r) /\ t = r.dev[1]
    OBVIOUS
  <1>2. /\ Exact(p) /\ p.total = tab.total + 1
        /\ \A s \in 0..NumTypes :
               p.first[s] = tab.first[s] + (IF s > r.dev[1] THEN 1 ELSE 0)
        /\ Records(p) = Records(tab) \cup {r}
        /\ Listed(p) = Listed(tab) \cup {r.dev}
    BY <1>1, PasteExact
  <1>3. ASSUME NEW s \in 0..NumTypes
        PROVE  /\ s > t => p.first[s] = tab.first[s] + 1
               /\ s <= t => p.first[s] = tab.first[s]
    <2>1. PICK v : v = tab.first[s]
      OBVIOUS
    <2>2. v \in Nat /\ s \in Nat /\ t \in Nat
      <3>1. r.dev \in Devs
        BY DEF Record
      <3> QED
        BY <1>1, <2>1, <3>1, TableParts, Sizes DEF Exact, Formed
    <2>3. p.first[s] = v + (IF s > t THEN 1 ELSE 0)
      BY <1>1, <1>2, <2>1
    <2>4. s > t => p.first[s] = v + 1
      BY <2>3
    <2>5. s <= t => p.first[s] = v
      BY <2>2, <2>3
    <2> QED
      BY <2>1, <2>4, <2>5
  <1> QED
    BY <1>1, <1>2, <1>3 DEF With

\* A device that fits in is not listed, and there is room for it.
LEMMA FitsNew ==
  ASSUME NEW tab, Exact(tab), NEW d \in Devs, NEW at, Fits(tab, d, at)
  PROVE  d \notin Listed(tab)
  <1> SUFFICES ASSUME NEW k \in 0..(tab.total - 1), tab.recs[k].dev = d  PROVE FALSE
    BY ListedIs
  <1>1. /\ k < at => Before(d, d)
        /\ k >= at => Before(d, d)
    BY FitsBetween
  <1>2. at \in Int
    BY Sections, Sizes DEF Fits, Exact
  <1> QED
    BY <1>1, <1>2, BeforeOrder

LEMMA RoomLeft ==
  ASSUME NEW tab, Exact(tab), NEW U, IsFiniteSet(U), Listed(tab) \subseteq U,
         NEW d \in U, d \notin Listed(tab)
  PROVE  tab.total < Cardinality(U)
  <1>1. IsFiniteSet(Listed(tab)) /\ Cardinality(Listed(tab)) = tab.total
    BY ListedCount
  <1>2. Cardinality(Listed(tab) \cup {d}) = tab.total + 1
    BY <1>1, FS_AddElement
  <1>3. Listed(tab) \cup {d} \subseteq U
    OBVIOUS
  <1>4. Cardinality(Listed(tab) \cup {d}) <= Cardinality(U) /\ Cardinality(U) \in Nat
    BY <1>3, FS_Subset, FS_CardinalityType
  <1>5. tab.total \in Nat
    BY TableParts DEF Exact, Formed
  <1> QED
    BY <1>2, <1>4, <1>5

\* The place the loop finds is the right one.
LEMMA FillFits ==
  ASSUME NEW tab, Exact(tab), NEW t \in Types, NEW id \in Ids, NEW at \in Nat,
         FillAt(tab, tab.first[t + 1] - tab.first[t], t, id, at),
         ~(at \in tab.first[t]..(tab.first[t + 1] - 1) /\ tab.recs[at].dev[2] = id)
  PROVE  Fits(tab, <<t, id>>, at)
  <1>0. PICK from, end : from = tab.first[t] /\ end = tab.first[t + 1]
    OBVIOUS
  <1>1. /\ from \in Nat /\ end \in Nat /\ from <= end /\ tab.total \in Nat /\ end <= tab.total
        /\ id \in Nat /\ from + (end - from) = end
    BY <1>0, Sections, Sizes DEF Exact
  <1>2. \A k \in from..(end - 1) : /\ k \in 0..(tab.total - 1)
                                   /\ tab.recs[k].dev \in Devs
                                   /\ tab.recs[k].dev[1] = t
                                   /\ tab.recs[k].dev[2] \in Nat
    <2> TAKE k \in from..(end - 1)
    <2>1. k \in 0..(tab.total - 1) /\ from <= k /\ k < end
      BY <1>1
    <2>2. tab.recs[k].dev \in Devs /\ tab.recs[k].dev[1] = t
      BY <1>0, <2>1, InSection
    <2> QED
      BY <2>1, <2>2, Sizes
  <1> DEFINE ge == {k \in from..(end - 1) : tab.recs[k].dev[2] >= id}
  <1>3. \/ ge # {} /\ at \in ge /\ \A m \in ge : at <= m
        \/ ge = {} /\ at = end
    <2>1. \/ ge # {} /\ at \in ge /\ \A m \in ge : at <= m
          \/ ge = {} /\ end - from > 0 /\ at = from + (end - from)
          \/ ge = {} /\ ~(end - from > 0) /\ at = from
      BY <1>0, <1>1 DEF FillAt
    <2> HIDE DEF ge
    <2> QED
      BY <1>1, <2>1
  <1>4. at \in from..end
    BY <1>1, <1>3
  <1>5. ASSUME NEW k \in from..(at - 1)  PROVE tab.recs[k].dev[2] < id
    <2>1. k \in from..(end - 1) /\ k < at
      BY <1>1, <1>4
    <2>2. k \notin ge
      BY <1>3, <2>1
    <2> QED
      BY <1>1, <1>2, <2>1, <2>2
  <1>6. ASSUME NEW k \in at..(end - 1)  PROVE id < tab.recs[k].dev[2]
    <2>1. at \in from..(end - 1) /\ k \in from..(end - 1) /\ at \in ge
      BY <1>1, <1>3, <1>4
    <2>2. id < tab.recs[at].dev[2]
      BY <1>0, <1>1, <1>2, <2>1
    <2>3. at = k \/ at < k
      BY <1>4, <2>1
    <2>4. at < k => Before(tab.recs[at].dev, tab.recs[k].dev)
      BY <1>2, <2>1 DEF Exact
    <2>5. at < k => tab.recs[at].dev[2] < tab.recs[k].dev[2]
      BY <1>2, <2>1, <2>4, Sizes DEF Before
    <2>6. tab.recs[at].dev[2] \in Nat /\ tab.recs[k].dev[2] \in Nat
      BY <1>2, <2>1
    <2> QED
      BY <1>1, <2>2, <2>3, <2>5, <2>6
  <1> QED
    BY <1>0, <1>4, <1>5, <1>6 DEF Fits

UpTo(ids, n) == {i \in ids : i <= n}
Added(rubbish) == {r \in Record : r.dev \in DOMAIN files /\ r = Fresh(r.dev, rubbish)}

FillInv(tab, t, ids, rubbish, n, a) ==
    /\ Exact(a.tab) /\ a.ok = TRUE /\ a.j = a.tab.first[t + 1] - a.tab.first[t]
    /\ Listed(a.tab) = Listed(tab) \cup {<<t, i>> : i \in UpTo(ids, n)}
    /\ Records(a.tab) \subseteq Records(tab) \cup Added(rubbish)

LEMMA FillStep ==
  ASSUME FilesOK, NEW rubbish \in Addrs \cup {NoAddr}, NEW tab, NEW t \in Types, NEW ids,
         ids \subseteq Ids, \A i \in ids : <<t, i>> \in DOMAIN files,
         NEW U, IsFiniteSet(U), Cardinality(U) <= 2 * MaxDevs,
         Listed(tab) \subseteq U, DOMAIN files \subseteq U,
         NEW id \in ids, NEW a \in Accs, FillInv(tab, t, ids, rubbish, id - 1, a)
  PROVE  /\ FillOne(t, rubbish, a, id) \in Accs
         /\ FillInv(tab, t, ids, rubbish, id, FillOne(t, rubbish, a, id))
  <1>0. PICK c, j, d : c = a.tab /\ j = a.j /\ d = <<t, id>>
    OBVIOUS
  <1>1. /\ id \in Ids /\ id \in Nat /\ d \in Devs /\ d \in DOMAIN files /\ d[1] = t /\ d[2] = id
        /\ c \in Tables /\ j \in Int /\ a = [tab |-> c, j |-> j, ok |-> TRUE]
    BY <1>0, Sizes DEF Devs, Accs, FillInv
  <1>2. /\ Exact(c) /\ j = c.first[t + 1] - c.first[t]
        /\ Listed(c) = Listed(tab) \cup {<<t, i>> : i \in UpTo(ids, id - 1)}
        /\ Records(c) \subseteq Records(tab) \cup Added(rubbish)
    BY <1>0 DEF FillInv
  <1>3. {<<t, i>> : i \in UpTo(ids, id)} = {<<t, i>> : i \in UpTo(ids, id - 1)} \cup {d}
    <2>1. \A i \in ids : i <= id <=> (i <= id - 1 \/ i = id)
      BY <1>1, Sizes
    <2>2. UpTo(ids, id) = UpTo(ids, id - 1) \cup {id}
      BY <1>1, <2>1 DEF UpTo
    <2> QED
      BY <1>0, <2>2
  <1>4. PICK from, end : from = c.first[t] /\ end = c.first[t + 1]
    OBVIOUS
  <1>5. /\ from \in Nat /\ end \in Nat /\ from + j = end /\ c.total \in Nat /\ end <= c.total
    BY <1>2, <1>4, Sections DEF Exact
  <1>6. PICK at \in Nat :
            /\ FillAt(c, j, t, id, at)
            /\ \/ /\ at \in from..(end - 1)
                  /\ c.recs[at].dev[2] = id /\ FillOne(t, rubbish, a, id) = a
               \/ /\ ~(at \in from..(end - 1) /\ c.recs[at].dev[2] = id)
                  /\ FillOne(t, rubbish, a, id) =
                         [tab |-> Paste(c, at, Fresh(d, rubbish)), j |-> j + 1, ok |-> TRUE]
    <2>1. c.first[t] + j - 1 = end - 1 /\ c.first[t] = from
      <3>1. from + j - 1 = end - 1
        BY <1>1, <1>5
      <3> QED
        BY <1>4, <3>1
    <2>2. a.tab = c /\ a.j = j /\ a.ok = TRUE
      BY <1>1
    <2>3. PICK b : b = FillOne(t, rubbish, a, id)
      OBVIOUS
    <2>4. PICK at \in Nat : Turned(a, t, id, rubbish, at, b)
      BY <1>1, <2>3, FillTurn
    <2>5. /\ FillAt(c, j, t, id, at)
          /\ \/ at \in from..(end - 1) /\ c.recs[at].dev[2] = id /\ b = a
             \/ /\ ~(at \in from..(end - 1) /\ c.recs[at].dev[2] = id)
                /\ b = [tab |-> Paste(c, at, Fresh(d, rubbish)), j |-> j + 1, ok |-> TRUE]
      BY <1>0, <1>1, <2>1, <2>2, <2>4 DEF Turned
    <2> QED
      BY <2>3, <2>5
  <1>7. CASE at \in from..(end - 1) /\ c.recs[at].dev[2] = id /\ FillOne(t, rubbish, a, id) = a
    <2>1. at \in 0..(c.total - 1) /\ from <= at /\ at < end
      BY <1>5, <1>7
    <2>2. c.recs[at].dev \in Devs /\ c.recs[at].dev[1] = t
      BY <1>2, <1>4, <2>1, InSection
    <2>3. c.recs[at].dev = d
      BY <1>1, <1>7, <2>2, Sizes
    <2>4. d \in Listed(c)
      BY <2>1, <2>3, ListedIs
    <2>5. Listed(c) = Listed(tab) \cup {<<t, i>> : i \in UpTo(ids, id)}
      BY <1>2, <1>3, <2>4
    <2>6. FillInv(tab, t, ids, rubbish, id, a)
      BY <1>0, <1>1, <1>2, <2>5 DEF FillInv
    <2> QED
      BY <1>7, <2>6
  <1>8. CASE /\ ~(at \in from..(end - 1) /\ c.recs[at].dev[2] = id)
             /\ FillOne(t, rubbish, a, id) =
                    [tab |-> Paste(c, at, Fresh(d, rubbish)), j |-> j + 1, ok |-> TRUE]
    <2>1. Fits(c, d, at)
      BY <1>0, <1>1, <1>2, <1>4, <1>6, <1>8, FillFits
    <2>2. d \notin Listed(c)
      BY <1>1, <1>2, <2>1, FitsNew
    <2>3. c.total < 2 * MaxDevs
      <3>1. Listed(c) \subseteq U /\ d \in U
        <4>1. \A i \in UpTo(ids, id - 1) : <<t, i>> \in U
          BY DEF UpTo
        <4> QED
          BY <1>1, <1>2, <4>1
      <3>2. c.total < Cardinality(U)
        BY <1>2, <2>2, <3>1, RoomLeft
      <3>3. Cardinality(U) \in Nat
        BY FS_CardinalityType
      <3> QED
        BY <1>5, <3>2, <3>3, Sizes
    <2>4. PICK r, p : r = Fresh(d, rubbish) /\ p = Paste(c, at, r)
      OBVIOUS
    <2>5. r \in Record /\ r.dev = d /\ r \in Added(rubbish)
      BY <1>1, <2>4, FreshIs DEF Added
    <2>6. With(c, r, p)
      BY <1>2, <2>1, <2>3, <2>4, <2>5, PasteIn
    <2>7. /\ Exact(p) /\ p \in Tables /\ Records(p) = Records(c) \cup {r}
          /\ Listed(p) = Listed(c) \cup {d}
      BY <2>5, <2>6 DEF With, Exact, Formed
    <2>8. j + 1 = p.first[t + 1] - p.first[t] /\ j + 1 \in Int
      <3>1. t \in 0..NumTypes /\ t + 1 \in 0..NumTypes /\ t \in Nat
        BY Sizes
      <3>2. p.first[t] = from
        BY <1>1, <1>4, <2>5, <2>6, <3>1 DEF With
      <3>3. p.first[t + 1] = end + 1
        BY <1>1, <1>4, <2>5, <2>6, <3>1 DEF With
      <3> QED
        BY <1>5, <3>2, <3>3, <1>1
    <2>9. PICK b : b = [tab |-> p, j |-> j + 1, ok |-> TRUE]
      OBVIOUS
    <2>10. b \in Accs /\ b.tab = p /\ b.j = j + 1 /\ b.ok = TRUE
      BY <2>7, <2>8, <2>9 DEF Accs
    <2>11. Listed(p) = Listed(tab) \cup {<<t, i>> : i \in UpTo(ids, id)}
      BY <1>2, <1>3, <2>7
    <2>12. Records(p) \subseteq Records(tab) \cup Added(rubbish)
      BY <1>2, <2>5, <2>7
    <2>13. FillInv(tab, t, ids, rubbish, id, b)
      BY <2>7, <2>8, <2>10, <2>11, <2>12 DEF FillInv
    <2> QED
      BY <1>8, <2>4, <2>9, <2>10, <2>13
  <1> QED
    BY <1>6, <1>7, <1>8

Filled(acc, t, ids, rubbish, b) ==
    /\ Exact(b.tab) /\ b.ok = TRUE
    /\ Listed(b.tab) = Listed(acc.tab) \cup {<<t, i>> : i \in ids}
    /\ Records(b.tab) \subseteq Records(acc.tab) \cup Added(rubbish)

LEMMA FillExact ==
  ASSUME FilesOK, NEW rubbish \in Addrs \cup {NoAddr}, NEW acc \in Accs, NEW t \in Types,
         NEW ids, ids \subseteq Ids, \A i \in ids : <<t, i>> \in DOMAIN files,
         Exact(acc.tab), acc.ok = TRUE, acc.j = acc.tab.first[t + 1] - acc.tab.first[t],
         NEW U, IsFiniteSet(U), Cardinality(U) <= 2 * MaxDevs,
         Listed(acc.tab) \subseteq U, DOMAIN files \subseteq U
  PROVE  \E b \in Accs : Fill(acc, t, ids, rubbish) = b /\ Filled(acc, t, ids, rubbish, b)
  <1>1. PICK tab : tab = acc.tab
    OBVIOUS
  <1> DEFINE As == [n \in 0..MaxDevs |->
                       {a \in Accs : FillInv(tab, t, ids, rubbish, n, a)}]
  <1>2. /\ 0 \in 0..MaxDevs /\ MaxDevs \in 0..MaxDevs
        /\ \A id \in Ids : id \in 0..MaxDevs /\ id - 1 \in 0..MaxDevs /\ id \in Nat
    BY Sizes
  <1>3. UpTo(ids, 0) = {} /\ UpTo(ids, MaxDevs) = ids
    BY Sizes DEF UpTo
  <1>4. FillInv(tab, t, ids, rubbish, 0, acc)
    <2>1. {<<t, i>> : i \in UpTo(ids, 0)} = {}
      BY <1>3
    <2> QED
      BY <1>1, <2>1 DEF FillInv
  <1>5. ASSUME NEW id \in Ids \cap ids, NEW a \in As[id - 1]
        PROVE  FillOne(t, rubbish, a, id) \in As[id]
    <2>1. a \in Accs /\ FillInv(tab, t, ids, rubbish, id - 1, a) /\ id \in ids
      BY <1>2
    <2>2. /\ FillOne(t, rubbish, a, id) \in Accs
          /\ FillInv(tab, t, ids, rubbish, id, FillOne(t, rubbish, a, id))
      BY <1>1, <2>1, FillStep
    <2> QED
      BY <1>2, <2>2
  <1>6. ASSUME NEW id \in Ids \ ids, NEW a \in As[id - 1]  PROVE a \in As[id]
    <2>1. a \in Accs /\ FillInv(tab, t, ids, rubbish, id - 1, a)
      BY <1>2
    <2>2. UpTo(ids, id) = UpTo(ids, id - 1)
      <3>1. \A i \in ids : i <= id <=> i <= id - 1
        BY <1>2, Sizes
      <3> QED
        BY <3>1 DEF UpTo
    <2>3. FillInv(tab, t, ids, rubbish, id, a)
      BY <2>1, <2>2 DEF FillInv
    <2> QED
      BY <1>2, <2>1, <2>3
  <1>7. \A a \in As[MaxDevs] : a \in Accs /\ FillInv(tab, t, ids, rubbish, MaxDevs, a)
    BY <1>2
  <1>8. acc \in As[0]
    BY <1>2, <1>4
  <1> HIDE DEF As
  <1>9. Fill(acc, t, ids, rubbish) \in As[MaxDevs]
    BY <1>5, <1>6, <1>8, FillRuns
  <1>10. PICK b \in Accs : /\ Fill(acc, t, ids, rubbish) = b
                           /\ FillInv(tab, t, ids, rubbish, MaxDevs, b)
    BY <1>7, <1>9
  <1> QED
    BY <1>1, <1>3, <1>10 DEF FillInv, Filled


\* dev_data_init while no file's name ends in "~": the types before t are done.
Merging(rubbish, t, a) ==
    /\ Exact(a.tab) /\ a.ok = TRUE /\ a.n = FilesBelow(t)
    /\ Below(Listed(a.tab), t) = Below(DOMAIN files, t)
    /\ Listed(a.tab) \subseteq Listed(Checkout) \cup DOMAIN files
    /\ Records(a.tab) \subseteq Records(Checkout) \cup Added(rubbish)

LEMMA FilesOnly ==
  ASSUME DiskOK, DOMAIN tmp = {}, NEW t \in 0..NumTypes
  PROVE  /\ FilesBelow(t) = Cardinality(Below(DOMAIN files, t)) /\ FilesBelow(t) \in Nat
         /\ \A s \in Types : /\ Scan(s) \subseteq Ids
                             /\ \A i \in Scan(s) : <<s, i>> \in DOMAIN files
                             /\ \A d \in DOMAIN files : d[1] = s => d[2] \in Scan(s)
  <1>1. Below(DOMAIN tmp, t) = {}
    BY DEF Below
  <1>2. Cardinality(Below(DOMAIN tmp, t)) = 0
    BY <1>1, FS_EmptySet
  <1>3. Cardinality(Below(DOMAIN files, t)) \in Nat
    BY BelowCounts DEF DiskOK
  <1>4. FilesBelow(t) = Cardinality(Below(DOMAIN files, t)) + 0
    BY <1>2 DEF FilesBelow
  <1>5. ASSUME NEW s \in Types
        PROVE  /\ Scan(s) \subseteq Ids
               /\ \A i \in Scan(s) : <<s, i>> \in DOMAIN files
               /\ \A d \in DOMAIN files : d[1] = s => d[2] \in Scan(s)
    <2>1. Scan(s) = {d[2] : d \in OfType(DOMAIN files, s)}
      BY DEF Scan
    <2>2. \A d \in OfType(DOMAIN files, s) : /\ d \in DOMAIN files /\ d[2] \in Ids
                                             /\ d = <<s, d[2]>>
      BY Sizes DEF OfType, DiskOK
    <2>3. \A i \in Scan(s) : i \in Ids /\ <<s, i>> \in DOMAIN files
      BY <2>1, <2>2
    <2>4. \A d \in DOMAIN files : d[1] = s => d[2] \in Scan(s)
      BY <2>1 DEF OfType
    <2> QED
      BY <2>3, <2>4
  <1> QED
    BY <1>3, <1>4, <1>5

LEMMA OneTypeExact ==
  ASSUME FilesOK, DOMAIN tmp = {}, Exact(Checkout), Checkout.total <= MaxDevs,
         Cardinality(DOMAIN files) <= MaxDevs, NEW t \in Types,
         NEW rubbish \in Addrs \cup {NoAddr}, NEW a \in Rounds, Merging(rubbish, t, a)
  PROVE  /\ OneType(a, t, rubbish) \in Rounds
         /\ Merging(rubbish, t + 1, OneType(a, t, rubbish))
  <1>0. PICK tab, n, ids : tab = a.tab /\ n = a.n /\ ids = Scan(t)
    OBVIOUS
  <1>1. /\ t \in Nat /\ t \in 0..NumTypes /\ t + 1 \in 0..NumTypes
        /\ tab \in Tables /\ n \in Nat /\ DiskOK
    BY <1>0, Sizes DEF Rounds, FilesOK
  <1>2. /\ Exact(tab) /\ a.ok = TRUE /\ n = FilesBelow(t)
        /\ Below(Listed(tab), t) = Below(DOMAIN files, t)
        /\ Listed(tab) \subseteq Listed(Checkout) \cup DOMAIN files
        /\ Records(tab) \subseteq Records(Checkout) \cup Added(rubbish)
    BY <1>0 DEF Merging
  <1>3. n = tab.first[t]
    <2>1. Cardinality(Below(Listed(tab), t)) = tab.first[t]
      BY <1>1, <1>2, FirstCounts
    <2>2. FilesBelow(t) = Cardinality(Below(DOMAIN files, t))
      BY <1>1, FilesOnly
    <2> QED
      BY <1>2, <2>1, <2>2
  <1>4. [tab EXCEPT !.first[t] = n] = tab
    <2>1. tab = [first |-> tab.first, total |-> tab.total, recs |-> tab.recs]
      BY <1>1 DEF Tables
    <2>2. tab.first \in [0..NumTypes -> Nat]
      BY <1>1, TableParts
    <2>3. [tab.first EXCEPT ![t] = n] = tab.first
      BY <1>1, <1>3, <2>2
    <2>4. [tab EXCEPT !.first[t] = n] =
              [first |-> [tab.first EXCEPT ![t] = n], total |-> tab.total, recs |-> tab.recs]
      BY <2>1
    <2> QED
      BY <2>1, <2>3, <2>4
  <1>5. /\ ids \subseteq Ids /\ \A i \in ids : <<t, i>> \in DOMAIN files
        /\ \A d \in DOMAIN files : d[1] = t => d[2] \in ids
    BY <1>0, <1>1, FilesOnly
  <1>6. PICK p \in [tab : Tables, j : Nat] : Prune(tab, t, ids) = p /\ Pruned(tab, t, ids, p)
    BY <1>2, PruneExact
  <1>7. PICK acc : acc = [tab |-> p.tab, j |-> p.j, ok |-> TRUE]
    OBVIOUS
  <1>8. /\ acc \in Accs /\ acc.tab = p.tab /\ acc.ok = TRUE /\ Exact(acc.tab)
        /\ acc.j = acc.tab.first[t + 1] - acc.tab.first[t]
        /\ Records(acc.tab) \subseteq Records(tab)
        /\ Listed(acc.tab) = {d \in Listed(tab) : d[1] = t => d[2] \in ids}
    BY <1>6, <1>7 DEF Accs, Pruned
  <1>9. PICK U : U = Listed(Checkout) \cup DOMAIN files
    OBVIOUS
  <1>10. /\ IsFiniteSet(U) /\ Cardinality(U) <= 2 * MaxDevs
         /\ Listed(acc.tab) \subseteq U /\ DOMAIN files \subseteq U
    <2>1. /\ IsFiniteSet(Listed(Checkout)) /\ Cardinality(Listed(Checkout)) <= MaxDevs
      BY ListedCount
    <2>2. IsFiniteSet(DOMAIN files)
      BY <1>1, BelowCounts DEF DiskOK
    <2>3. PICK i, j, m : /\ i = Cardinality(Listed(Checkout)) /\ j = Cardinality(DOMAIN files)
                         /\ m = Cardinality(Listed(Checkout) \cap DOMAIN files)
      OBVIOUS
    <2>4. IsFiniteSet(U) /\ Cardinality(U) = i + j - m
      BY <1>9, <2>1, <2>2, <2>3, FS_Union
    <2>5. IsFiniteSet(Listed(Checkout) \cap DOMAIN files)
      BY <2>2, FS_Intersection
    <2>6. i \in Nat /\ j \in Nat /\ m \in Nat
      BY <2>1, <2>2, <2>3, <2>5, FS_CardinalityType
    <2>7. i <= MaxDevs /\ j <= MaxDevs /\ MaxDevs \in Nat
      BY <2>1, <2>3, Sizes
    <2>8. i + j - m <= 2 * MaxDevs
      BY <2>6, <2>7
    <2>9. Listed(acc.tab) \subseteq U /\ DOMAIN files \subseteq U
      BY <1>2, <1>8, <1>9
    <2> QED
      BY <2>4, <2>8, <2>9
  <1>11a. PICK b \in Accs :
             Fill(acc, t, ids, rubbish) = b /\ Filled(acc, t, ids, rubbish, b)
    <2>1. /\ acc \in Accs /\ acc.ok = TRUE /\ Exact(acc.tab)
          /\ acc.j = acc.tab.first[t + 1] - acc.tab.first[t]
      BY <1>8
    <2> QED
      BY <1>5, <1>10, <2>1, FillExact
  <1>11. /\ Fill(acc, t, ids, rubbish) = b
         /\ Exact(b.tab) /\ b.ok = TRUE
         /\ Listed(b.tab) = Listed(acc.tab) \cup {<<t, i>> : i \in ids}
         /\ Records(b.tab) \subseteq Records(acc.tab) \cup Added(rubbish)
    BY <1>11a DEF Filled
  <1>12. PICK r : r = [tab |-> b.tab, n |-> n + Count(t), ok |-> TRUE]
    OBVIOUS
  <1>13. OneType(a, t, rubbish) = r
    <2>1. Prune([tab EXCEPT !.first[t] = n], t, ids) = p
      BY <1>4, <1>6
    <2>2. Fill([tab |-> p.tab, j |-> p.j, ok |-> a.ok], t, ids, rubbish) = b
      BY <1>2, <1>7, <1>11
    <2>3. OneType(a, t, rubbish) = [tab |-> b.tab, n |-> n + Count(t), ok |-> b.ok]
      BY <1>0, <2>1, <2>2 DEF OneType
    <2> QED
      BY <1>11, <1>12, <2>3
  <1>14. r.n = FilesBelow(t + 1) /\ r.n \in Nat /\ r.tab = b.tab /\ r.ok = TRUE
    <2>1. FilesBelow(t + 1) = n + Count(t) /\ FilesBelow(t + 1) \in Nat
      BY <1>1, <1>2, FilesCount
    <2> QED
      BY <1>12, <2>1
  <1>15. r \in Rounds
    <2>1. b.tab \in Tables
      BY DEF Accs
    <2>2. r = [tab |-> b.tab, n |-> r.n, ok |-> TRUE]
      BY <1>12, <1>14
    <2> QED
      BY <1>14, <2>1, <2>2 DEF Rounds
  <1>16. Below(Listed(b.tab), t + 1) = Below(DOMAIN files, t + 1)
    <2>1. Listed(b.tab) \subseteq Devs /\ DOMAIN files \subseteq Devs
      BY <1>1, <1>11, ListedCount DEF DiskOK
    <2>2. ASSUME NEW d \in Devs, d[1] < t + 1
          PROVE  d \in Listed(b.tab) <=> d \in DOMAIN files
      <3>1. d[1] \in Nat /\ d = <<d[1], d[2]>> /\ (d[1] < t \/ d[1] = t)
        BY <1>1, <2>2, Sizes
      <3>2. CASE d[1] < t
        <4>1. d[1] # t
          BY <1>1, <3>1, <3>2
        <4>2. d \notin {<<t, i>> : i \in ids}
          BY <4>1
        <4>3. d \in Listed(b.tab) <=> d \in Listed(tab)
          BY <1>8, <1>11, <4>1, <4>2
        <4>4. d \in Listed(tab) <=> d \in Below(Listed(tab), t)
          BY <3>2 DEF Below
        <4>5. d \in DOMAIN files <=> d \in Below(DOMAIN files, t)
          BY <3>2 DEF Below
        <4> QED
          BY <1>2, <4>3, <4>4, <4>5
      <3>3. CASE d[1] = t
        <4>1. d \in Listed(b.tab) <=> d[2] \in ids
          BY <1>8, <1>11, <3>1, <3>3
        <4>2. d \in DOMAIN files <=> d[2] \in ids
          BY <1>5, <3>1, <3>3
        <4> QED
          BY <4>1, <4>2
      <3> QED
        BY <3>1, <3>2, <3>3
    <2> QED
      BY <2>1, <2>2 DEF Below
  <1>17. Listed(b.tab) \subseteq Listed(Checkout) \cup DOMAIN files
    BY <1>2, <1>5, <1>8, <1>11
  <1>18. Records(b.tab) \subseteq Records(Checkout) \cup Added(rubbish)
    BY <1>2, <1>8, <1>11
  <1>19. Merging(rubbish, t + 1, r)
    BY <1>11, <1>14, <1>16, <1>17, <1>18 DEF Merging
  <1> QED
    BY <1>13, <1>15, <1>19

\* What dev_data_init makes of backup and files.
Merge(rubbish, all) ==
    /\ all.ok = TRUE /\ Exact(all.tab) /\ all.tab.total <= MaxDevs
    /\ Listed(all.tab) = DOMAIN files
    /\ Records(all.tab) \subseteq Records(Checkout) \cup Added(rubbish)

LEMMA RestoredExact ==
  ASSUME FilesOK, DOMAIN tmp = {}, Exact(Checkout), Checkout.total <= MaxDevs,
         Cardinality(DOMAIN files) <= MaxDevs, NEW rubbish \in Addrs \cup {NoAddr}
  PROVE  Merge(rubbish, Restored(rubbish))
  <1> DEFINE A == [t \in 0..NumTypes |-> {a \in Rounds : Merging(rubbish, t, a)}]
  <1>0. 0 \in 0..NumTypes /\ NumTypes \in 0..NumTypes /\ NumTypes \in Nat /\ DiskOK
    BY Sizes DEF FilesOK
  <1>1. Begun \in A[0]
    <2>1. Begun.tab = Checkout /\ Begun.n = 0 /\ Begun.ok = TRUE
      BY DEF Begun
    <2>2. Checkout \in Tables /\ Listed(Checkout) \subseteq Devs
      BY ListedCount DEF Exact, Formed
    <2>3. Below(Listed(Checkout), 0) = {} /\ Below(DOMAIN files, 0) = {}
      BY <1>0, <2>2, BelowCounts DEF DiskOK
    <2>4. FilesBelow(0) = 0
      BY <1>0, FilesCount
    <2>5. Merging(rubbish, 0, Begun)
      BY <2>1, <2>3, <2>4 DEF Merging
    <2>6. Begun \in Rounds
      BY <2>2 DEF Begun, Rounds
    <2> QED
      BY <1>0, <2>5, <2>6
  <1>2. ASSUME NEW t \in Types, NEW a \in A[t]  PROVE OneType(a, t, rubbish) \in A[t + 1]
    <2>1. t \in 0..NumTypes /\ t + 1 \in 0..NumTypes
      BY Sizes
    <2>2. a \in Rounds /\ Merging(rubbish, t, a)
      BY <2>1
    <2>3. /\ OneType(a, t, rubbish) \in Rounds
          /\ Merging(rubbish, t + 1, OneType(a, t, rubbish))
      BY <2>2, OneTypeExact
    <2> QED
      BY <2>1, <2>3
  <1>3. \A a \in A[NumTypes] : a \in Rounds /\ Merging(rubbish, NumTypes, a)
    BY <1>0
  <1> HIDE DEF A
  <1>4. PICK all \in A[NumTypes] :
            Restored(rubbish) = [all EXCEPT !.tab.first[NumTypes] = all.n, !.tab.total = all.n]
    BY <1>1, <1>2, RestoredRuns
  <1>5. PICK tab, n : tab = all.tab /\ n = all.n
    OBVIOUS
  <1>6. /\ all = [tab |-> tab, n |-> n, ok |-> TRUE] /\ tab \in Tables /\ n \in Nat
        /\ Exact(tab) /\ n = FilesBelow(NumTypes)
        /\ Below(Listed(tab), NumTypes) = Below(DOMAIN files, NumTypes)
        /\ Records(tab) \subseteq Records(Checkout) \cup Added(rubbish)
    BY <1>3, <1>5 DEF Rounds, Merging
  <1>7. Listed(tab) = DOMAIN files
    <2>1. Listed(tab) \subseteq Devs
      BY <1>6, ListedCount
    <2>2. /\ Below(Listed(tab), NumTypes) = Listed(tab)
          /\ Below(DOMAIN files, NumTypes) = DOMAIN files
      BY <1>0, <2>1, BelowCounts DEF DiskOK
    <2> QED
      BY <1>6, <2>2
  <1>8. n = tab.total /\ n = tab.first[NumTypes] /\ n <= MaxDevs
    <2>1. Cardinality(Listed(tab)) = tab.total /\ tab.first[NumTypes] = tab.total
      BY <1>6, ListedCount DEF Exact, Formed
    <2>2. FilesBelow(NumTypes) = Cardinality(Below(DOMAIN files, NumTypes))
      BY <1>0, FilesOnly
    <2>3. Below(DOMAIN files, NumTypes) = DOMAIN files
      BY <1>0, BelowCounts DEF DiskOK
    <2> QED
      BY <1>6, <1>7, <2>1, <2>2, <2>3
  <1>9. [tab EXCEPT !.first[NumTypes] = n, !.total = n] = tab
    <2>1. tab = [first |-> tab.first, total |-> tab.total, recs |-> tab.recs]
      BY <1>6 DEF Tables
    <2>2. tab.first \in [0..NumTypes -> Nat]
      BY <1>6, TableParts
    <2>3. [tab.first EXCEPT ![NumTypes] = n] = tab.first
      BY <1>0, <1>8, <2>2
    <2>4. PICK x : x = [tab EXCEPT !.first[NumTypes] = n]
      OBVIOUS
    <2>5. x = [first |-> [tab.first EXCEPT ![NumTypes] = n], total |-> tab.total,
               recs |-> tab.recs]
      BY <2>1, <2>4
    <2>6. [tab EXCEPT !.first[NumTypes] = n, !.total = n] = [x EXCEPT !.total = n]
      BY <1>6, <2>4 DEF Tables
    <2>7. x = tab
      BY <2>1, <2>3, <2>5
    <2>8. [tab EXCEPT !.total = n] = tab
      BY <1>8, <2>1
    <2> QED
      BY <2>6, <2>7, <2>8
  <1>10. Restored(rubbish).tab = [tab EXCEPT !.first[NumTypes] = n, !.total = n]
    BY <1>4, <1>5, <1>6
  <1>11. Restored(rubbish).ok = TRUE
    BY <1>4, <1>6
  <1>12. Restored(rubbish).tab = tab
    BY <1>9, <1>10
  <1> QED
    BY <1>6, <1>7, <1>8, <1>11, <1>12 DEF Merge

\* The id and the place a new device gets.
LEMMA FreeFits ==
  ASSUME NEW tab, Exact(tab), NEW t \in Types, NEW at, at = FreeIndex(tab, t),
         tab.first[t + 1] - tab.first[t] < MaxDevs
  PROVE  /\ at \in tab.first[t]..tab.first[t + 1] /\ at \in 0..tab.total
         /\ <<t, at - tab.first[t] + 1>> \in Devs
         /\ Fits(tab, <<t, at - tab.first[t] + 1>>, at)
         /\ <<t, at - tab.first[t] + 1>> \notin Listed(tab)
  <1>0. PICK from, end : from = tab.first[t] /\ end = tab.first[t + 1]
    OBVIOUS
  <1>1. /\ from \in Nat /\ end \in Nat /\ from <= end /\ end <= tab.total /\ tab.total \in Nat
        /\ end - from < MaxDevs /\ Formed(tab)
    BY <1>0, Sections DEF Exact
  <1>2. /\ at \in from..end
        /\ at < end => at - from + 1 < tab.recs[at].dev[2]
        /\ \A m \in from..(at - 1) : m - from + 1 >= tab.recs[m].dev[2]
    BY <1>0, <1>1, FreeIndexIs
  <1>3. \A k \in from..(end - 1) : /\ k \in 0..(tab.total - 1)
                                   /\ tab.recs[k].dev \in Devs
                                   /\ tab.recs[k].dev[1] = t
                                   /\ tab.recs[k].dev[2] \in Nat
    <2> TAKE k \in from..(end - 1)
    <2>1. k \in 0..(tab.total - 1) /\ from <= k /\ k < end
      BY <1>1
    <2>2. tab.recs[k].dev \in Devs /\ tab.recs[k].dev[1] = t
      BY <1>0, <2>1, InSection
    <2> QED
      BY <2>1, <2>2, Sizes
  <1>4. PICK id, d : id = at - from + 1 /\ d = <<t, id>>
    OBVIOUS
  <1>5. id \in Ids /\ d \in Devs /\ d[1] = t /\ d[2] = id /\ id \in Nat /\ at \in Nat
    <2>1. id \in 1..MaxDevs
      BY <1>1, <1>2, <1>4, Sizes
    <2> QED
      BY <1>1, <1>2, <1>4, <2>1 DEF Devs, Ids
  <1>6. ASSUME NEW k \in from..(at - 1)  PROVE tab.recs[k].dev[2] < id
    <2>1. PICK v : v = tab.recs[k].dev[2]
      OBVIOUS
    <2>2. k \in from..(end - 1)
      BY <1>1, <1>2
    <2>3. v \in Nat /\ k - from + 1 >= v /\ k < at /\ k \in Int
      BY <1>1, <1>2, <1>3, <1>5, <2>1, <2>2
    <2>4. v < at - from + 1
      BY <1>1, <1>5, <2>3
    <2> QED
      BY <1>4, <2>1, <2>4
  <1>7. ASSUME NEW k \in at..(end - 1)  PROVE id < tab.recs[k].dev[2]
    <2>1. /\ k \in from..(end - 1) /\ at \in from..(end - 1) /\ at <= k /\ at < end
          /\ k \in Nat
      BY <1>1, <1>2, <1>5
    <2>2. id < tab.recs[at].dev[2]
      BY <1>2, <1>4, <2>1
    <2>3. at = k \/ at < k
      BY <1>5, <2>1
    <2>4. at < k => Before(tab.recs[at].dev, tab.recs[k].dev)
      BY <1>3, <2>1 DEF Exact
    <2>5. at < k => tab.recs[at].dev[2] < tab.recs[k].dev[2]
      BY <1>3, <2>1, <2>4, Sizes DEF Before
    <2>6. tab.recs[at].dev[2] \in Nat /\ tab.recs[k].dev[2] \in Nat
      BY <1>3, <2>1
    <2> QED
      BY <1>5, <2>2, <2>3, <2>5, <2>6
  <1>8. Fits(tab, d, at)
    BY <1>0, <1>2, <1>5, <1>6, <1>7 DEF Fits
  <1>9. d \notin Listed(tab)
    BY <1>5, <1>8, FitsNew
  <1>10. at \in 0..tab.total
    BY <1>1, <1>2
  <1> QED
    BY <1>0, <1>2, <1>4, <1>5, <1>8, <1>9, <1>10


-----------------------------------------------------------------------------
(* The state: types, tables, and what has a file. *)

\* What a thread can be asked for.
Asked(j) ==
    \/ j.op = "add" /\ j.type \in Types /\ j.addr \in Addrs
    \/ j.op = "readdress" /\ j.dev \in Devs /\ j.addr \in Addrs
    \/ j.op \in {"rename", "level", "del"} /\ j.dev \in Devs
    \/ j.op = "swap" /\ j.dev \in Devs /\ j.with \in Devs /\ j.dev # j.with
    \/ j.op = "delall" /\ j.k \in Nat

JobOK(w) ==
    /\ pc[w] \in {"rom", "ram", "file", "record", "both"} => Asked(job[w])
    /\ pc[w] \in {"rom", "ram"} /\ Op(w) = "delall" => job[w].k = 0
    /\ pc[w] \in {"fill", "insert"} => job[w].dev \in Devs /\ job[w].addr \in Addrs
    /\ pc[w] = "unlist" => job[w].dev \in Devs
    /\ pc[w] \in {"swap2", "swap3", "swap4"} =>
           job[w].dev \in Devs /\ job[w].with \in Devs /\ job[w].dev # job[w].with
    /\ pc[w] \in {"swap2", "swap3"} => job[w].dev \in DOMAIN tmp
    /\ pc[w] = "insert" => job[w].dev \in DOMAIN files

File == [addr : Addrs \cup {NoAddr}, whole : BOOLEAN]
FilesTyped(f) == DOMAIN f \subseteq Devs /\ \A d \in DOMAIN f : f[d] \in File

DiskInv ==
    /\ FilesTyped(files) /\ FilesTyped(tmp)
    /\ \A w \in Workers : JobOK(w)
    /\ block \in Nat /\ dirty \in BOOLEAN
    /\ ops \in 0..MaxOps /\ crashes \in 0..MaxCrashes
    /\ moved \subseteq Devs /\ suspect \subseteq Devs

\* A table can be searched, after a torn swap perhaps without success.
Sound(tab) == Formed(tab) /\ tab.total <= MaxDevs /\ (~torn => Exact(tab))

\* What the thread with both locks has found holds until it uses it.
Found(w) ==
    /\ pc[w] \in {"fill", "insert"} =>
           /\ job[w].at \in 0..table.total
           /\ table.total < MaxDevs
           /\ ~torn => Fits(table, job[w].dev, job[w].at)
    /\ pc[w] \in {"unlist", "swap2", "swap3", "swap4"} => Search(table, job[w].dev) # -1
    /\ pc[w] \in {"swap2", "swap3", "swap4"} => Search(table, job[w].with) # -1

TablesInv == Sound(table) /\ Sound(backup.crc) /\ \A w \in Workers : Found(w)

\* The thread has removed the file of a device that has a record.
Lacks(w, d) ==
    \/ pc[w] = "unlist" /\ d = job[w].dev
    \/ pc[w] = "both" /\ Op(w) = "delall" /\ \E i \in 0..(job[w].k - 1) : table.recs[i].dev = d
    \/ pc[w] = "swap2" /\ d = job[w].dev
    \/ pc[w] = "swap3" /\ d = job[w].with

BackedInv ==
    ~torn =>
        /\ \A d \in DOMAIN tmp : \E w \in Workers : pc[w] \in {"swap2", "swap3"} /\ job[w].dev = d
        /\ \A d \in Listed(table) : d \in DOMAIN files \/ \E w \in Workers : Lacks(w, d)
        /\ \A d \in DOMAIN files : \A w \in Workers : ~Lacks(w, d)
        /\ phase # "down" => \A d \in DOMAIN files : files[d].whole =>
               d \in Listed(table) \/ \E w \in Workers : pc[w] = "insert" /\ job[w].dev = d


-----------------------------------------------------------------------------

LEMMA Alone ==
  ASSUME LockInv, NEW w \in Workers, NEW v \in Workers, v # w
  PROVE  /\ HasRom(w) => ~HasRom(v)
         /\ HasRam(w) => ~HasRam(v)
  <1>1. HasRom(w) => w \in WithRom
    BY DEF WithRom
  <1>2. HasRom(v) => v \in WithRom
    BY DEF WithRom
  <1>3. HasRam(w) => w \in WithRam
    BY DEF WithRam
  <1>4. HasRam(v) => v \in WithRam
    BY DEF WithRam
  <1>5. \/ WithRom = {} \/ \E u \in Workers : WithRom = {u}
    BY DEF LockInv, RomHeld
  <1>6. \/ WithRam = {} \/ \E u \in Workers : WithRam = {u}
    BY DEF LockInv, RamHeld
  <1> QED
    BY <1>1, <1>2, <1>3, <1>4, <1>5, <1>6

\* What a step of one thread leaves alone.
Frame(w) ==
    /\ \A v \in Workers : v # w => pc'[v] = pc[v] /\ job'[v] = job[v]
    /\ phase = "up" /\ phase' = "up" /\ torn' = torn /\ backup.crc' = backup.crc
    /\ block' = block /\ dirty' = dirty /\ crashes' = crashes
    /\ table' = table \/ HasRam(w)
    /\ (files' = files /\ tmp' = tmp) \/ HasRom(w)

LEMMA WorkFrame ==
  ASSUME LockInv, NEW w \in Workers, Work(w)
  PROVE  Frame(w)
  <1>0. pc \in [Workers -> Places] /\ DOMAIN job = Workers
    BY DEF LockInv
  <1>1. ASSUME NEW j \in Jobs(w), Start(w, j)  PROVE Frame(w)
    BY <1>0, <1>1 DEF Start, At, Goto, Frame, saves, disk
  <1>2. CASE TakeRom(w)
    BY <1>0, <1>2 DEF TakeRom, At, Goto, Frame, saves, history, disk, HasRom, HasRam, Places
  <1>3. CASE TakeRam(w)
    BY <1>0, <1>3 DEF TakeRam, At, Goto, Frame, saves, history, disk, HasRom, HasRam, Places
  <1>4. CASE GiveUpRom(w)
    BY <1>0, <1>4 DEF GiveUpRom, At, Goto, Frame, saves, history, disk, HasRom, HasRam, Places
  <1>5. CASE GiveUpRam(w)
    BY <1>0, <1>5 DEF GiveUpRam, At, Goto, Frame, saves, history, disk, HasRom, HasRam, Places
  <1>6. CASE Leave(w)
    BY <1>0, <1>6 DEF Leave, At, Goto, Frame, saves, history, disk, HasRom, HasRam, Places
  <1>7. CASE WriteFile(w)
    BY <1>0, <1>7 DEF WriteFile, At, Goto, Frame, saves, history, disk, HasRom, HasRam, Places
  <1>8. CASE WriteRecord(w)
    BY <1>0, <1>8 DEF WriteRecord, At, Goto, Frame, saves, history, disk, HasRom, HasRam, Places
  <1>9. CASE Create(w)
    BY <1>0, <1>9 DEF Create, At, Goto, Frame, saves, history, disk, HasRom, HasRam, Places
  <1>10. CASE FillFile(w)
    BY <1>0, <1>10 DEF FillFile, At, Goto, Frame, saves, history, disk, HasRom, HasRam, Places
  <1>11. CASE AddRecord(w)
    BY <1>0, <1>11 DEF AddRecord, At, Goto, Frame, saves, history, disk, HasRom, HasRam, Places
  <1>12. CASE DelFile(w)
    BY <1>0, <1>12 DEF DelFile, At, Goto, Frame, saves, history, disk, HasRom, HasRam, Places
  <1>13. CASE DelRecord(w)
    BY <1>0, <1>13 DEF DelRecord, At, Goto, Frame, saves, history, disk, HasRom, HasRam, Places
  <1>14. CASE DelAllFile(w)
    BY <1>0, <1>14 DEF DelAllFile, At, Goto, Frame, saves, history, disk, HasRom, HasRam, Places
  <1>15. CASE DelAllRecords(w)
    BY <1>0, <1>15 DEF DelAllRecords, At, Goto, Frame, saves, history, disk, HasRom, HasRam, Places
  <1>16. CASE SwapAway(w)
    BY <1>0, <1>16 DEF SwapAway, At, Goto, Frame, saves, history, disk, HasRom, HasRam, Places
  <1>17. CASE SwapOver(w)
    BY <1>0, <1>17 DEF SwapOver, At, Goto, Frame, saves, history, disk, HasRom, HasRam, Places
  <1>18. CASE SwapBack(w)
    BY <1>0, <1>18 DEF SwapBack, At, Goto, Frame, saves, history, disk, HasRom, HasRam, Places
  <1>19. CASE SwapRecords(w)
    BY <1>0, <1>19 DEF SwapRecords, At, Goto, Frame, saves, history, disk, HasRom, HasRam, Places
  <1> QED
    BY <1>1, <1>2, <1>3, <1>4, <1>5, <1>6, <1>7, <1>8, <1>9, <1>10, <1>11, <1>12, <1>13, <1>14, <1>15, <1>16, <1>17, <1>18, <1>19 DEF Work

-----------------------------------------------------------------------------
(* Types. *)

LEMMA JobsAsked ==
  ASSUME NEW w \in Workers, NEW j \in Jobs(w)
  PROVE  Asked(j) /\ (j.op = "delall" => j.k = 0)
  <1>1. CASE w = Events
    <2>1. \/ j \in [op : {"add"}, type : Types, addr : Addrs]
          \/ j \in [op : {"readdress"}, dev : Listed(table) \cap Devs, addr : Addrs]
      BY <1>1 DEF Jobs
    <2> QED
      BY <2>1 DEF Asked
  <1>2. CASE w # Events
    <2>1. \/ j \in [op : {"rename", "level", "del"}, dev : Devs]
          \/ j \in [op : {"swap"}, dev : Devs, with : Devs] /\ j.dev # j.with
          \/ j \in [op : {"delall"}, k : {0}]
      BY <1>2 DEF Jobs
    <2> QED
      BY <2>1 DEF Asked
  <1> QED
    BY <1>1, <1>2

LEMMA DiskStep ==
  ASSUME LockInv, DiskInv, NEW w \in Workers, Frame(w),
         JobOK(w)', FilesTyped(files'), FilesTyped(tmp'),
         ops' \in 0..MaxOps, moved' \subseteq Devs, suspect' \subseteq Devs
  PROVE  DiskInv'
  <1>1. ASSUME NEW v \in Workers, v # w  PROVE JobOK(v)'
    <2>1. pc'[v] = pc[v] /\ job'[v] = job[v]
      BY <1>1 DEF Frame
    <2>2. JobOK(v)
      BY DEF DiskInv
    <2>3. pc[v] \in {"swap2", "swap3", "insert"} => tmp' = tmp /\ files' = files
      <3>1. pc[v] \in {"swap2", "swap3", "insert"} => HasRom(v)
        BY DEF HasRom, Places
      <3> QED
        BY <1>1, <3>1, Alone DEF Frame
    <2> QED
      BY <2>1, <2>2, <2>3 DEF JobOK, Op
  <1>2. FilesTyped(files)' /\ FilesTyped(tmp)'
    BY DEF FilesTyped
  <1> QED
    BY <1>1, <1>2 DEF DiskInv, Frame

LEMMA FilesPut ==
  ASSUME NEW f, FilesTyped(f), NEW d \in Devs, NEW v \in File
  PROVE  /\ FilesTyped(Put(f, d, v)) /\ DOMAIN Put(f, d, v) = DOMAIN f \cup {d}
         /\ Put(f, d, v)[d] = v
         /\ \A e \in DOMAIN f : e # d => Put(f, d, v)[e] = f[e]
  BY DEF FilesTyped, Put

LEMMA FilesDrop ==
  ASSUME NEW f, FilesTyped(f), NEW d
  PROVE  /\ FilesTyped(Drop(f, d)) /\ DOMAIN Drop(f, d) = DOMAIN f \ {d}
         /\ \A e \in DOMAIN f : e # d => Drop(f, d)[e] = f[e]
  BY DEF FilesTyped, Drop


\* What s_dev_data_add does if there is room.
Created(w, d, at) ==
    /\ d \in Devs /\ at \in 0..table.total /\ table.total < MaxDevs
    /\ Exact(table) => Fits(table, d, at) /\ d \notin Listed(table)
    /\ files' = IF d \in DOMAIN files THEN files ELSE Put(files, d, Empty)
    /\ job' = [job EXCEPT ![w] = [op |-> "add", addr |-> job[w].addr, dev |-> d, at |-> at]]
    /\ pc' = [pc EXCEPT ![w] = "fill"]

LEMMA CreateIs ==
  ASSUME TablesInv, NEW w \in Workers, JobOK(w), Create(w)
  PROVE  \/ pc' = [pc EXCEPT ![w] = "leave"] /\ files' = files /\ job' = job
         \/ \E d, at : Created(w, d, at)
  <1>1. job[w].type \in Types /\ job[w].addr \in Addrs
    BY DEF Create, At, JobOK, Asked, Op
  <1>2. PICK t, at, n : /\ t = job[w].type /\ at = FreeIndex(table, t)
                        /\ n = table.first[t + 1] - table.first[t]
    OBVIOUS
  <1>3. PICK d : d = <<t, at - table.first[t] + 1>>
    OBVIOUS
  <1>4. CASE table.total >= MaxDevs \/ n >= MaxOf[t]
    BY <1>2, <1>4 DEF Create, Goto
  <1>5. CASE ~(table.total >= MaxDevs \/ n >= MaxOf[t])
    <2>1. Formed(table) /\ t \in Types /\ MaxOf[t] \in 0..MaxDevs
      BY <1>1, <1>2, SizeAssumption DEF TablesInv, Sound
    <2>2. PICK from, end, total : /\ from = table.first[t] /\ end = table.first[t + 1]
                                  /\ total = table.total
      OBVIOUS
    <2>3. from \in Nat /\ end \in Nat /\ from <= end /\ end <= total /\ total \in Nat
      BY <2>1, <2>2, Sections
    <2>4. n = end - from /\ n < MaxDevs /\ total < MaxDevs
      <3>1. n = end - from /\ MaxDevs \in Nat
        BY <1>2, <2>2, Sizes
      <3>2. PICK m : m = MaxOf[t]
        OBVIOUS
      <3>3. m \in 0..MaxDevs /\ ~(n >= m) /\ ~(total >= MaxDevs)
        BY <1>5, <2>1, <2>2, <3>2
      <3> QED
        BY <2>3, <3>1, <3>3
    <2>5. at \in from..end
      BY <1>2, <2>1, <2>2, FreeIndexIs
    <2>6. at \in 0..total /\ at - from + 1 \in Ids
      BY <2>3, <2>4, <2>5, Sizes
    <2>7. d \in Devs
      BY <1>3, <2>1, <2>2, <2>6 DEF Devs
    <2>8. Exact(table) => Fits(table, d, at) /\ d \notin Listed(table)
      <3> SUFFICES ASSUME Exact(table)  PROVE Fits(table, d, at) /\ d \notin Listed(table)
        OBVIOUS
      <3>1. table.first[t + 1] - table.first[t] < MaxDevs
        BY <2>2, <2>4
      <3> QED
        BY <1>2, <1>3, <2>1, <3>1, FreeFits
    <2>9. /\ files' = IF d \in DOMAIN files THEN files ELSE Put(files, d, Empty)
          /\ job' = [job EXCEPT ![w] = [op |-> "add", addr |-> job[w].addr,
                                        dev |-> d, at |-> at]]
          /\ pc' = [pc EXCEPT ![w] = "fill"]
      BY <1>2, <1>3, <1>5 DEF Create, Goto
    <2>10. Created(w, d, at)
      BY <2>2, <2>4, <2>6, <2>7, <2>8, <2>9 DEF Created
    <2> QED
      BY <2>10
  <1> QED
    BY <1>4, <1>5

LEMMA WorkDisk ==
  ASSUME LockInv, DiskInv, TablesInv, NEW w \in Workers, Work(w)
  PROVE  DiskInv'
  <1> USE DEF Places
  <1>0. /\ pc \in [Workers -> Places] /\ DOMAIN job = Workers /\ Frame(w) /\ RightPlace(w)
        /\ JobOK(w) /\ FilesTyped(files) /\ FilesTyped(tmp)
        /\ ops \in 0..MaxOps /\ moved \subseteq Devs /\ suspect \subseteq Devs
    BY WorkFrame DEF LockInv, DiskInv
  <1>a. FilesTyped(files) /\ FilesTyped(tmp)
    BY <1>0
  <1>1. ASSUME NEW j \in Jobs(w), Start(w, j)  PROVE DiskInv'
    <2>1. Asked(j) /\ (j.op = "delall" => j.k = 0)
      BY JobsAsked
    <2>2. job'[w] = j /\ pc'[w] \in {"rom", "ram"}
      BY <1>0, <1>1 DEF Start, Goto
    <2>3. JobOK(w)'
      BY <2>1, <2>2 DEF JobOK, Op
    <2>4. ops' \in 0..MaxOps
      BY <1>0, <1>1, BoundAssumption DEF Start
    <2> QED
      BY <1>0, <1>1, <2>3, <2>4, DiskStep DEF Start, disk
  <1>2. ASSUME files' = files, tmp' = tmp, moved' = moved, ops' = ops, suspect' \subseteq Devs,
               job' = job, pc'[w] \in {"idle", "leave"}
        PROVE  DiskInv'
    <2>1. JobOK(w)'
      BY <1>2 DEF JobOK
    <2> QED
      BY <1>0, <1>2, <2>1, DiskStep
  <1>3. CASE TakeRom(w)
    <2>1. pc'[w] \in {"file", "ram"} /\ job' = job /\ Asked(job[w])
             /\ (Op(w) = "delall" => job[w].k = 0)
      BY <1>0, <1>3 DEF TakeRom, At, Goto, JobOK
    <2>2. JobOK(w)'
      BY <2>1 DEF JobOK, Op
    <2> QED
      BY <1>0, <1>3, <2>2, DiskStep DEF TakeRom, disk, history
  <1>4. CASE TakeRam(w)
    <2>1. pc'[w] \in {"record", "both"} /\ job' = job /\ Asked(job[w])
      BY <1>0, <1>4 DEF TakeRam, At, Goto, JobOK
    <2>2. JobOK(w)'
      BY <2>1 DEF JobOK, Op
    <2> QED
      BY <1>0, <1>4, <2>2, DiskStep DEF TakeRam, disk, history
  <1>5. CASE GiveUpRom(w)
    BY <1>0, <1>2, <1>5 DEF GiveUpRom, Goto, disk, history
  <1>6. CASE GiveUpRam(w)
    <2>1. Asked(job[w])
      BY <1>0, <1>6 DEF GiveUpRam, At, JobOK
    <2>2. Op(w) = "readdress" => job[w].dev \in Devs
      BY <2>1 DEF Asked, Op
    <2>3. suspect' \subseteq Devs
      BY <1>0, <1>6, <2>2 DEF GiveUpRam
    <2> QED
      BY <1>0, <1>2, <1>6, <2>3 DEF GiveUpRam, Goto, disk
  <1>7. CASE Leave(w)
    BY <1>0, <1>2, <1>7 DEF Leave, Goto, disk, history
  <1>8. CASE WriteFile(w)
    <2>1. /\ Asked(job[w]) /\ RomOnly(w) /\ job' = job
      BY <1>0, <1>8 DEF WriteFile, At, JobOK, RightPlace
    <2>2. /\ job[w].dev \in Devs
          /\ Op(w) = "readdress" => job[w].addr \in Addrs
      BY <2>1 DEF Asked, RomOnly, Op
    <2>3. pc'[w] = "idle" \/ (pc'[w] = "ram" /\ Op(w) = "readdress")
      BY <1>0, <1>8 DEF WriteFile, Goto
    <2>4. JobOK(w)'
      BY <2>1, <2>3 DEF JobOK, Op
    <2> DEFINE old == IF job[w].dev \in DOMAIN files THEN files[job[w].dev] ELSE Empty
               new == IF Op(w) = "readdress" THEN [old EXCEPT !.addr = job[w].addr] ELSE old
    <2>5. old \in File
      BY <1>0 DEF FilesTyped, File, Empty
    <2>6. new \in File
      <3> HIDE DEF old
      <3> QED
        BY <2>2, <2>5 DEF File
    <2>7. files' = Put(files, job[w].dev, new) \/ files' = files
      BY <1>8 DEF WriteFile
    <2> HIDE DEF old, new
    <2>8. FilesTyped(files')
      <3>1. FilesTyped(Put(files, job[w].dev, new))
        BY <1>a, <2>2, <2>6, FilesPut
      <3> QED
        BY <1>a, <2>7, <3>1
    <2>9. moved' \subseteq Devs
      BY <1>0, <1>8, <2>2 DEF WriteFile
    <2> QED
      BY <1>0, <1>8, <2>4, <2>8, <2>9, DiskStep DEF WriteFile
  <1>9. CASE WriteRecord(w)
    BY <1>0, <1>2, <1>9 DEF WriteRecord, Goto, disk
  <1>10. CASE Create(w)
    <2>1. job[w].addr \in Addrs
      BY <1>0, <1>10 DEF Create, At, JobOK, Asked, Op
    <2>2. CASE pc' = [pc EXCEPT ![w] = "leave"] /\ files' = files /\ job' = job
      BY <1>0, <1>2, <1>10, <2>2 DEF Create, history
    <2>3. ASSUME NEW d, NEW at, Created(w, d, at)  PROVE DiskInv'
      <3>1. Empty \in File
        BY DEF Empty, File
      <3>2. FilesTyped(files')
        BY <1>0, <2>3, <3>1, FilesPut DEF Created
      <3>3. pc'[w] = "fill" /\ job'[w].addr \in Addrs /\ job'[w].dev \in Devs
        BY <1>0, <2>1, <2>3 DEF Created
      <3>4. JobOK(w)'
        BY <3>3 DEF JobOK
      <3> QED
        BY <1>0, <1>10, <3>2, <3>4, DiskStep DEF Create, history
    <2> QED
      BY <1>0, <1>10, <2>2, <2>3, CreateIs
  <1>11. CASE FillFile(w)
    <2>1. job[w].dev \in Devs /\ job[w].addr \in Addrs
      BY <1>0, <1>11 DEF FillFile, At, JobOK
    <2>2. [addr |-> job[w].addr, whole |-> TRUE] \in File
      BY <2>1 DEF File
    <2>6. PICK d, v : d = job[w].dev /\ v = [addr |-> job[w].addr, whole |-> TRUE]
      OBVIOUS
    <2>7. FilesTyped(Put(files, d, v)) /\ DOMAIN Put(files, d, v) = DOMAIN files \cup {d}
      BY <1>a, <2>1, <2>2, <2>6, FilesPut
    <2>8. files' = Put(files, d, v)
      BY <1>11, <2>6 DEF FillFile
    <2>3. FilesTyped(files') /\ d \in DOMAIN files'
      BY <2>7, <2>8
    <2>4. JobOK(w)'
      BY <1>0, <1>11, <2>1, <2>3, <2>6 DEF FillFile, Goto, JobOK
    <2>5. moved' \subseteq Devs
      BY <1>0, <1>11, <2>1 DEF FillFile
    <2> QED
      BY <1>0, <1>11, <2>3, <2>4, <2>5, DiskStep DEF FillFile
  <1>12. CASE AddRecord(w)
    BY <1>0, <1>2, <1>12 DEF AddRecord, Goto, disk
  <1>13. CASE DelFile(w)
    <2>1. job[w].dev \in Devs /\ job' = job /\ pc'[w] \in {"unlist", "leave"}
      BY <1>0, <1>13 DEF DelFile, At, Goto, JobOK, Asked, Op
    <2>4. files' = Drop(files, job[w].dev) \/ files' = files
      BY <1>13 DEF DelFile
    <2>2. FilesTyped(files')
      <3>1. FilesTyped(Drop(files, job[w].dev))
        BY <1>a, FilesDrop
      <3> QED
        BY <1>a, <2>4, <3>1
    <2>3. JobOK(w)'
      BY <2>1 DEF JobOK
    <2> QED
      BY <1>0, <1>13, <2>2, <2>3, DiskStep DEF DelFile, history
  <1>14. CASE DelRecord(w)
    BY <1>0, <1>2, <1>14 DEF DelRecord, Goto, disk, history
  <1>15. CASE DelAllFile(w)
    <2>1. Op(w) = "delall" /\ job[w].k \in Nat /\ job[w].op = "delall" /\ pc[w] = "both"
      BY <1>0, <1>15 DEF DelAllFile, At, JobOK, Asked, Op
    <2>5. (\E d : files' = Drop(files, d)) \/ files' = files
      BY <1>15 DEF DelAllFile
    <2>2. FilesTyped(files')
      BY <1>a, <2>5, FilesDrop
    <2>3. CASE pc' = pc /\ job' = [job EXCEPT ![w].k = @ + 1]
      <3>1. pc'[w] = "both" /\ job'[w].op = "delall" /\ job'[w].k \in Nat
        BY <1>0, <2>1, <2>3
      <3>2. JobOK(w)'
        BY <3>1 DEF JobOK, Asked
      <3> QED
        BY <1>0, <1>15, <2>2, <3>2, DiskStep DEF DelAllFile, history
    <2>4. CASE pc' = [pc EXCEPT ![w] = "leave"] /\ files' = files /\ job' = job
      BY <1>0, <1>2, <1>15, <2>4 DEF DelAllFile, history
    <2> QED
      BY <1>15, <2>3, <2>4 DEF DelAllFile, Goto
  <1>16. CASE DelAllRecords(w)
    BY <1>0, <1>2, <1>16 DEF DelAllRecords, Goto
  <1>17. CASE SwapAway(w)
    <2>1. /\ job[w].dev \in Devs /\ job[w].with \in Devs /\ job[w].dev # job[w].with
          /\ job' = job
      BY <1>0, <1>17 DEF SwapAway, At, JobOK, Asked, Op
    <2>2. CASE pc' = [pc EXCEPT ![w] = "leave"] /\ files' = files /\ tmp' = tmp
      BY <1>0, <1>2, <1>17, <2>1, <2>2 DEF SwapAway, history
    <2>3. CASE /\ job[w].dev \in DOMAIN files
               /\ tmp' = Put(tmp, job[w].dev, files[job[w].dev])
               /\ files' = Drop(files, job[w].dev) /\ pc' = [pc EXCEPT ![w] = "swap2"]
      <3>1. files[job[w].dev] \in File
        BY <1>0, <2>3 DEF FilesTyped
      <3>2. FilesTyped(tmp') /\ job[w].dev \in DOMAIN tmp'
        <4>1. PICK v, d : v = files[job[w].dev] /\ d = job[w].dev
          OBVIOUS
        <4>2. v \in File /\ d \in Devs
          BY <2>1, <3>1, <4>1
        <4>3. FilesTyped(Put(tmp, d, v)) /\ DOMAIN Put(tmp, d, v) = DOMAIN tmp \cup {d}
          BY <1>a, <4>2, FilesPut
        <4> QED
          BY <2>3, <4>1, <4>3
      <3>3. FilesTyped(files')
        BY <1>0, <2>3, FilesDrop
      <3>4. JobOK(w)'
        BY <1>0, <2>1, <2>3, <3>2 DEF JobOK
      <3> QED
        BY <1>0, <1>17, <3>2, <3>3, <3>4, DiskStep DEF SwapAway, history
    <2> QED
      BY <1>17, <2>2, <2>3 DEF SwapAway, Goto
  <1>18. CASE SwapOver(w)
    <2>1. /\ job[w].dev \in Devs /\ job[w].with \in Devs /\ job[w].dev # job[w].with
          /\ job' = job /\ tmp' = tmp /\ job[w].dev \in DOMAIN tmp
      BY <1>0, <1>18 DEF SwapOver, At, JobOK
    <2>2. CASE pc' = [pc EXCEPT ![w] = "leave"] /\ files' = files
      BY <1>0, <1>2, <1>18, <2>1, <2>2 DEF SwapOver, history
    <2>3. CASE /\ job[w].with \in DOMAIN files
               /\ files' = Put(Drop(files, job[w].with), job[w].dev, files[job[w].with])
               /\ pc' = [pc EXCEPT ![w] = "swap3"]
      <3>1. files[job[w].with] \in File
        BY <1>0, <2>3 DEF FilesTyped
      <3>2. FilesTyped(Drop(files, job[w].with))
        BY <1>0, FilesDrop
      <3>3. FilesTyped(files')
        BY <2>1, <2>3, <3>1, <3>2, FilesPut
      <3>4. JobOK(w)'
        BY <1>0, <2>1, <2>3 DEF JobOK
      <3> QED
        BY <1>0, <1>18, <2>1, <3>3, <3>4, DiskStep DEF SwapOver, history
    <2> QED
      BY <1>18, <2>2, <2>3 DEF SwapOver, Goto
  <1>19. CASE SwapBack(w)
    <2>1. /\ job[w].dev \in Devs /\ job[w].with \in Devs /\ job[w].dev # job[w].with
          /\ job' = job /\ job[w].dev \in DOMAIN tmp
      BY <1>0, <1>19 DEF SwapBack, At, JobOK
    <2>2. tmp[job[w].dev] \in File
      BY <1>0, <2>1 DEF FilesTyped
    <2>3. FilesTyped(files')
      BY <1>0, <1>19, <2>1, <2>2, FilesPut DEF SwapBack
    <2>4. FilesTyped(tmp')
      BY <1>0, <1>19, FilesDrop DEF SwapBack
    <2>5. pc'[w] = "swap4"
      BY <1>0, <1>19 DEF SwapBack, Goto
    <2>6. JobOK(w)'
      BY <2>1, <2>5 DEF JobOK
    <2>7. moved' \subseteq Devs
      BY <1>0, <1>19, <2>1 DEF SwapBack
    <2> QED
      BY <1>0, <1>19, <2>3, <2>4, <2>6, <2>7, DiskStep DEF SwapBack
  <1>20. CASE SwapRecords(w)
    <2>1. job[w].dev \in Devs /\ job[w].with \in Devs
      BY <1>0, <1>20 DEF SwapRecords, At, JobOK
    <2>2. suspect' \subseteq Devs
      BY <1>0, <1>20, <2>1 DEF SwapRecords
    <2> QED
      BY <1>0, <1>2, <1>20, <2>2 DEF SwapRecords, Goto, disk
  <1> QED
    BY <1>1, <1>3, <1>4, <1>5, <1>6, <1>7, <1>8, <1>9, <1>10, <1>11, <1>12, <1>13,
       <1>14, <1>15, <1>16, <1>17, <1>18, <1>19, <1>20 DEF Work


-----------------------------------------------------------------------------
(* Tables. *)

\* The records of the same devices at the same places.
Same(tab, new) ==
    /\ new \in Tables /\ new.first = tab.first /\ new.total = tab.total
    /\ \A k \in Slots : new.recs[k].dev = tab.recs[k].dev

LEMMA SameSound ==
  ASSUME NEW tab, Formed(tab), NEW new, Same(tab, new)
  PROVE  Formed(new) /\ (Exact(tab) => Exact(new)) /\ Listed(new) = Listed(tab)
  <1>0. PICK total : total = tab.total
    OBVIOUS
  <1>1. total \in Nat /\ total <= 2 * MaxDevs /\ new.total = total
    BY <1>0, TableParts DEF Formed, Same
  <1>2. \A k \in 0..(total - 1) : k \in Slots
    BY <1>1, Sizes
  <1>3. \A k \in 0..(total - 1) : new.recs[k].dev = tab.recs[k].dev
    BY <1>2 DEF Same
  <1>4. Formed(new)
    BY DEF Formed, Same
  <1>5. ASSUME Exact(tab)  PROVE Exact(new)
    <2>1. new.first = tab.first
      BY DEF Same
    <2> QED
      BY <1>0, <1>1, <1>3, <1>4, <1>5, <2>1 DEF Exact
  <1>6. ASSUME NEW d  PROVE d \in Listed(new) <=> d \in Listed(tab)
    BY <1>0, <1>1, <1>3, ListedIs
  <1> QED
    BY <1>4, <1>5, <1>6

\* The table new is the table tab with another record at place k.
Changed(tab, k, r, new) == new = [tab EXCEPT !.recs[k] = r]
Holds(tab, k, r, new) ==
    \A m \in Slots : new.recs[m] = IF m = k THEN r ELSE tab.recs[m]

LEMMA ChangeOne ==
  ASSUME NEW tab \in Tables, NEW k \in Slots, NEW r \in RecordOf, r.dev = tab.recs[k].dev,
         NEW new, Changed(tab, k, r, new)
  PROVE  Same(tab, new) /\ Holds(tab, k, r, new)
  <1>1. /\ tab.first \in [0..NumTypes -> Nat] /\ tab.total \in Nat
        /\ tab.recs \in [Slots -> RecordOf]
        /\ tab = [first |-> tab.first, total |-> tab.total, recs |-> tab.recs]
    BY TableParts DEF Tables
  <1>2. /\ new.recs = [tab.recs EXCEPT ![k] = r] /\ new.first = tab.first
        /\ new.total = tab.total
        /\ new = [first |-> tab.first, total |-> tab.total, recs |-> [tab.recs EXCEPT ![k] = r]]
    BY <1>1 DEF Changed
  <1>3. [tab.recs EXCEPT ![k] = r] \in [Slots -> RecordOf]
    BY <1>1
  <1>4. \A m \in Slots : [tab.recs EXCEPT ![k] = r][m] = IF m = k THEN r ELSE tab.recs[m]
    BY <1>1
  <1>5. new \in Tables
    BY <1>1, <1>2, <1>3 DEF Tables, RecordOf
  <1>6. Holds(tab, k, r, new)
    BY <1>2, <1>4 DEF Holds
  <1>7. \A m \in Slots : new.recs[m].dev = tab.recs[m].dev
    BY <1>6 DEF Holds
  <1> QED
    BY <1>2, <1>5, <1>6, <1>7 DEF Same

LEMMA ChangeTwo ==
  ASSUME NEW tab \in Tables, NEW k \in Slots, NEW m \in Slots,
         NEW r \in RecordOf, r.dev = tab.recs[k].dev,
         NEW s \in RecordOf, s.dev = tab.recs[m].dev,
         NEW new, NEW x, Changed(tab, k, r, x), Changed(x, m, s, new)
  PROVE  Same(tab, new) /\ Holds(tab, k, r, x) /\ Holds(x, m, s, new)
  <1>1. Same(tab, x) /\ Holds(tab, k, r, x)
    BY ChangeOne
  <1>2. x \in Tables /\ s.dev = x.recs[m].dev
    BY <1>1 DEF Same
  <1>3. Same(x, new) /\ Holds(x, m, s, new)
    BY <1>2, ChangeOne
  <1>4. Same(tab, new)
    BY <1>1, <1>3 DEF Same
  <1> QED
    BY <1>1, <1>3, <1>4

LEMMA EmptyExact == Exact(EmptyTable) /\ EmptyTable.total = 0 /\ Listed(EmptyTable) = {}
  <1>1. /\ EmptyTable.total = 0 /\ EmptyTable.first = [t \in 0..NumTypes |-> 0]
        /\ EmptyTable \in Tables
    BY DEF EmptyTable, Tables, Blank, Levels
  <1>2. /\ \A k : k \notin 0..(0 - 1)
        /\ \A t \in 0..NumTypes : EmptyTable.first[t] = 0
    BY <1>1
  <1>3. Formed(EmptyTable)
    BY <1>1, <1>2, Sizes DEF Formed
  <1>4. Exact(EmptyTable)
    BY <1>1, <1>2, <1>3 DEF Exact
  <1>5. \A d : d \notin Listed(EmptyTable)
    BY <1>1, <1>2, ListedIs
  <1> QED
    BY <1>1, <1>4, <1>5

LEMMA TablesStep ==
  ASSUME LockInv, TablesInv, NEW w \in Workers, Frame(w), Sound(table)', Found(w)'
  PROVE  TablesInv'
  <1>1. ASSUME NEW v \in Workers, v # w  PROVE Found(v)'
    <2>1. pc'[v] = pc[v] /\ job'[v] = job[v] /\ torn' = torn /\ (table' = table \/ HasRam(w))
      BY <1>1 DEF Frame
    <2>2. Found(v)
      BY DEF TablesInv
    <2>3. CASE table' = table
      BY <2>1, <2>2, <2>3 DEF Found, Fits
    <2>4. CASE HasRam(w)
      <3>1. ~HasRam(v)
        BY <1>1, <2>4, Alone
      <3>2. pc[v] \notin {"fill", "insert", "unlist", "swap2", "swap3", "swap4"}
        BY <3>1 DEF HasRam, Places
      <3> QED
        BY <2>1, <3>2 DEF Found
    <2> QED
      BY <2>1, <2>3, <2>4
  <1>2. Sound(backup.crc)'
    <2>1. torn' = torn /\ backup'.crc = backup.crc
      BY DEF Frame
    <2> QED
      BY <2>1 DEF TablesInv, Sound
  <1> QED
    BY <1>1, <1>2 DEF TablesInv

\* Searching finds a record of the table.
LEMMA FoundAt ==
  ASSUME NEW tab, Formed(tab), NEW d \in Devs, Search(tab, d) # -1
  PROVE  /\ Search(tab, d) \in tab.first[d[1]]..(tab.first[d[1] + 1] - 1)
         /\ Search(tab, d) \in 0..(tab.total - 1) /\ Search(tab, d) \in Slots
         /\ tab.recs[Search(tab, d)].dev = d /\ d \in Listed(tab)
  <1>1. PICK k : k = Search(tab, d)
    OBVIOUS
  <1>2. k \in tab.first[d[1]]..(tab.first[d[1] + 1] - 1) /\ tab.recs[k].dev = d
    BY <1>1, SearchFinds
  <1>3. PICK from, end, total : /\ from = tab.first[d[1]] /\ end = tab.first[d[1] + 1]
                                /\ total = tab.total
    OBVIOUS
  <1>4. d[1] \in Types
    BY Sizes
  <1>5. from \in Nat /\ end \in Nat /\ total \in Nat /\ end <= total /\ total <= 2 * MaxDevs
    BY <1>3, <1>4, Sections
  <1>6. k \in from..(end - 1)
    BY <1>2, <1>3
  <1>7. k \in 0..(total - 1) /\ k \in Slots
    BY <1>5, <1>6, Sizes
  <1>8. d \in Listed(tab)
    BY <1>2, <1>3, <1>7, ListedIs
  <1> QED
    BY <1>1, <1>2, <1>3, <1>7, <1>8

\* The record of the device has another level, or another address.
Rewritten(w) ==
    LET k == Search(table, job[w].dev)
        o == table.recs[k]
    IN  /\ k # -1 /\ Same(table, table')
        /\ \E r \in RecordOf :
               /\ Holds(table, k, r, table') /\ r.dev = o.dev
               /\ Op(w) = "level" => r.addr = o.addr
               /\ Op(w) = "readdress" => r.addr = job[w].addr

LEMMA WriteRecordIs ==
  ASSUME TablesInv, NEW w \in Workers, JobOK(w), RightPlace(w), WriteRecord(w)
  PROVE  (Search(table, job[w].dev) = -1 /\ table' = table) \/ Rewritten(w)
  <1>0. Formed(table) /\ table \in Tables
    BY DEF TablesInv, Sound, Formed
  <1>1. Asked(job[w]) /\ RamOnly(w)
    BY DEF WriteRecord, At, JobOK, RightPlace
  <1>2. /\ job[w].dev \in Devs
        /\ Op(w) = "level" \/ (Op(w) = "readdress" /\ job[w].addr \in Addrs)
    BY <1>1 DEF Asked, RamOnly, Op
  <1>3. PICK d, k, a : d = job[w].dev /\ k = Search(table, d) /\ a = job[w].addr
    OBVIOUS
  <1>4. \/ k = -1 /\ table' = table
        \/ k # -1 /\ Op(w) = "level" /\ table' = [table EXCEPT !.recs[k].level = 1 - @]
        \/ k # -1 /\ Op(w) = "readdress" /\ table' = [table EXCEPT !.recs[k].addr = a]
    BY <1>2, <1>3 DEF WriteRecord
  <1>5. ASSUME k # -1  PROVE k \in Slots
    BY <1>0, <1>2, <1>3, <1>5, FoundAt
  <1>6. table.recs \in [Slots -> RecordOf]
    BY <1>0, TableParts
  <1>7. ASSUME k # -1, NEW r \in RecordOf, r.dev = table.recs[k].dev,
               Changed(table, k, r, table'),
               Op(w) = "level" => r.addr = table.recs[k].addr,
               Op(w) = "readdress" => r.addr = a
        PROVE  Rewritten(w)
    <2>1. Same(table, table') /\ Holds(table, k, r, table')
      BY <1>0, <1>5, <1>7, ChangeOne
    <2> QED
      BY <1>3, <1>7, <2>1 DEF Rewritten
  <1>8. ASSUME k # -1, Op(w) = "level", table' = [table EXCEPT !.recs[k].level = 1 - @]
        PROVE  Rewritten(w)
    <2>1. PICK r : r = [table.recs[k] EXCEPT !.level = 1 - @]
      OBVIOUS
    <2>2. r \in RecordOf /\ r.dev = table.recs[k].dev /\ r.addr = table.recs[k].addr
      BY <1>5, <1>6, <1>8, <2>1 DEF RecordOf, Levels
    <2>3. Changed(table, k, r, table')
      BY <1>8, <2>1 DEF Changed
    <2> QED
      BY <1>7, <1>8, <2>2, <2>3
  <1>9. ASSUME k # -1, Op(w) = "readdress", table' = [table EXCEPT !.recs[k].addr = a]
        PROVE  Rewritten(w)
    <2>1. PICK r : r = [table.recs[k] EXCEPT !.addr = a]
      OBVIOUS
    <2>2. r \in RecordOf /\ r.dev = table.recs[k].dev /\ r.addr = a
      BY <1>2, <1>3, <1>5, <1>6, <1>9, <2>1 DEF RecordOf
    <2>3. Changed(table, k, r, table')
      BY <1>9, <2>1 DEF Changed
    <2> QED
      BY <1>7, <1>9, <2>2, <2>3
  <1> QED
    BY <1>3, <1>4, <1>8, <1>9

\* The record that s_dev_data_add inserts.
NewRecord(w) == [dev |-> job[w].dev, addr |-> job[w].addr, level |-> 1]

LEMMA AddRecordIs ==
  ASSUME TablesInv, NEW w \in Workers, JobOK(w), Found(w), AddRecord(w)
  PROVE  /\ Formed(table') /\ table'.total <= MaxDevs
         /\ ~torn => With(table, NewRecord(w), table')
  <1>0. /\ Formed(table) /\ table \in Tables /\ table.total \in Nat
        /\ ~torn => Exact(table)
    BY TableParts DEF TablesInv, Sound, Formed
  <1>1. PICK d, at, r : d = job[w].dev /\ at = job[w].at /\ r = NewRecord(w)
    OBVIOUS
  <1>2. /\ d \in Devs /\ job[w].addr \in Addrs /\ at \in 0..table.total
        /\ table.total < MaxDevs /\ (~torn => Fits(table, d, at))
    BY <1>1 DEF AddRecord, At, JobOK, Found
  <1>3. r \in Record /\ r \in RecordOf /\ r.dev = d /\ d[1] \in Types
    BY <1>1, <1>2, Sizes DEF NewRecord, Record, RecordOf, Levels
  <1>4. PICK p : p = Paste(table, at, r)
    OBVIOUS
  <1>5. table' = p
    BY <1>1, <1>4 DEF AddRecord, NewRecord
  <1>6. table.total < 2 * MaxDevs
    BY <1>0, <1>2, Sizes
  <1>7. Formed(p) /\ p.total = table.total + 1
    BY <1>0, <1>2, <1>3, <1>4, <1>6, PasteIs
  <1>8. ~torn => With(table, r, p)
    BY <1>0, <1>2, <1>3, <1>4, <1>6, PasteIn
  <1>9. p.total <= MaxDevs
    BY <1>0, <1>2, <1>7, Sizes
  <1> QED
    BY <1>1, <1>5, <1>7, <1>8, <1>9

LEMMA DelRecordIs ==
  ASSUME TablesInv, NEW w \in Workers, JobOK(w), Found(w), DelRecord(w)
  PROVE  /\ Formed(table') /\ table'.total <= MaxDevs
         /\ ~torn => /\ Exact(table') /\ Records(table') \subseteq Records(table)
                     /\ Listed(table') = Listed(table) \ {job[w].dev}
  <1>0. /\ Formed(table) /\ table \in Tables /\ table.total \in Nat
        /\ table.total <= MaxDevs
        /\ ~torn => Exact(table)
    BY TableParts DEF TablesInv, Sound, Formed
  <1>1. PICK d, k, c : d = job[w].dev /\ k = Search(table, d) /\ c = Cut(table, d[1], k)
    OBVIOUS
  <1>2. d \in Devs /\ k # -1 /\ d[1] \in Types
    BY <1>1, Sizes DEF DelRecord, At, JobOK, Found
  <1>3. table' = c
    BY <1>1 DEF DelRecord
  <1>4. k \in table.first[d[1]]..(table.first[d[1] + 1] - 1) /\ table.recs[k].dev = d
    BY <1>0, <1>1, <1>2, FoundAt
  <1>5. Formed(c) /\ c.total = table.total - 1
    BY <1>0, <1>1, <1>2, <1>4, CutIs
  <1>6. ~torn => Without(table, d[1], k, c)
    BY <1>0, <1>1, <1>2, <1>4, CutOut
  <1>7. c.total <= MaxDevs
    BY <1>0, <1>5, Sizes
  <1> QED
    BY <1>1, <1>3, <1>4, <1>5, <1>6, <1>7 DEF Without

\* The records of two devices have changed places, but for the names.
Exchanged(w) ==
    LET k == Search(table, job[w].dev)
        m == Search(table, job[w].with)
        r == [table.recs[m] EXCEPT !.dev = table.recs[k].dev]
        s == [table.recs[k] EXCEPT !.dev = table.recs[m].dev]
    IN  \E x : Holds(table, k, r, x) /\ Holds(x, m, s, table')

LEMMA SwapRecordsIs ==
  ASSUME TablesInv, NEW w \in Workers, JobOK(w), Found(w), SwapRecords(w)
  PROVE  Same(table, table') /\ Exchanged(w)
  <1>0. Formed(table) /\ table \in Tables
    BY DEF TablesInv, Sound, Formed
  <1>1. PICK d, e, k, m : /\ d = job[w].dev /\ k = Search(table, d)
                          /\ e = job[w].with /\ m = Search(table, e)
    OBVIOUS
  <1>2. d \in Devs /\ k # -1 /\ e \in Devs /\ m # -1
    BY <1>1 DEF SwapRecords, At, JobOK, Found
  <1>3. k \in Slots /\ m \in Slots
    BY <1>0, <1>1, <1>2, FoundAt
  <1>4. PICK r, s : /\ r = [table.recs[m] EXCEPT !.dev = table.recs[k].dev]
                    /\ s = [table.recs[k] EXCEPT !.dev = table.recs[m].dev]
    OBVIOUS
  <1>5. table' = [table EXCEPT !.recs[k] = r, !.recs[m] = s]
    BY <1>1, <1>4 DEF SwapRecords
  <1>6. table.recs[k] \in RecordOf /\ table.recs[m] \in RecordOf
    BY <1>0, <1>3, TableParts
  <1>7. /\ r \in RecordOf /\ r.dev = table.recs[k].dev
        /\ s \in RecordOf /\ s.dev = table.recs[m].dev
    BY <1>4, <1>6 DEF RecordOf
  <1>8. PICK x : x = [table EXCEPT !.recs[k] = r]
    OBVIOUS
  <1>9. Changed(table, k, r, x) /\ Changed(x, m, s, table')
    BY <1>0, <1>5, <1>8 DEF Changed, Tables
  <1>10. Same(table, table') /\ Holds(table, k, r, x) /\ Holds(x, m, s, table')
    BY <1>0, <1>3, <1>7, <1>9, ChangeTwo
  <1> QED
    BY <1>1, <1>4, <1>10 DEF Exchanged

LEMMA WorkTables ==
  ASSUME LockInv, DiskInv, TablesInv, NEW w \in Workers, Work(w)
  PROVE  TablesInv'
  <1>0. /\ pc \in [Workers -> Places] /\ DOMAIN job = Workers /\ Frame(w) /\ RightPlace(w)
        /\ JobOK(w) /\ Found(w) /\ torn' = torn
    BY WorkFrame DEF LockInv, DiskInv, TablesInv, Frame
  <1>1. /\ Formed(table) /\ table \in Tables /\ table.total <= MaxDevs /\ table.total \in Nat
        /\ ~torn => Exact(table)
    BY TableParts DEF TablesInv, Sound, Formed
  <1>2. table' = table => Sound(table)'
    BY <1>0 DEF TablesInv, Sound
  <1>3. ASSUME Sound(table)',
               pc'[w] \in {"idle", "rom", "ram", "file", "record", "both", "leave"}
        PROVE  TablesInv'
    <2>1. Found(w)'
      BY <1>3 DEF Found
    <2> QED
      BY <1>0, <1>3, <2>1, TablesStep
  <1>4. ASSUME NEW j \in Jobs(w), Start(w, j)  PROVE TablesInv'
    BY <1>0, <1>2, <1>3, <1>4 DEF Start, Goto
  <1>5. CASE TakeRom(w)
    BY <1>0, <1>2, <1>3, <1>5 DEF TakeRom, Goto
  <1>6. CASE TakeRam(w)
    BY <1>0, <1>2, <1>3, <1>6 DEF TakeRam, Goto
  <1>7. CASE GiveUpRom(w)
    BY <1>0, <1>2, <1>3, <1>7 DEF GiveUpRom, Goto
  <1>8. CASE GiveUpRam(w)
    BY <1>0, <1>2, <1>3, <1>8 DEF GiveUpRam, Goto
  <1>9. CASE Leave(w)
    BY <1>0, <1>2, <1>3, <1>9 DEF Leave, Goto
  <1>10. CASE WriteFile(w)
    BY <1>0, <1>2, <1>3, <1>10 DEF WriteFile, Goto
  <1>11. CASE WriteRecord(w)
    <2>1. table' = table \/ Same(table, table')
      BY <1>0, <1>11, WriteRecordIs DEF Rewritten
    <2>2. Sound(table)'
      BY <1>0, <1>1, <1>2, <2>1, SameSound DEF Sound, Same
    <2> QED
      BY <1>0, <1>3, <1>11, <2>2 DEF WriteRecord, Goto
  <1>12. CASE Create(w)
    <2>1. CASE pc' = [pc EXCEPT ![w] = "leave"] /\ files' = files /\ job' = job
      BY <1>0, <1>2, <1>3, <1>12, <2>1 DEF Create
    <2>2. ASSUME NEW d, NEW at, Created(w, d, at)  PROVE TablesInv'
      <3>1. table' = table
        BY <1>12 DEF Create
      <3>2. pc'[w] = "fill" /\ job'[w].dev = d /\ job'[w].at = at
        BY <1>0, <2>2 DEF Created
      <3>3. at \in 0..table.total /\ table.total < MaxDevs /\ (~torn => Fits(table, d, at))
        BY <1>1, <2>2 DEF Created
      <3>4. Found(w)'
        BY <1>0, <3>1, <3>2, <3>3 DEF Found, Fits
      <3> QED
        BY <1>0, <1>2, <3>1, <3>4, TablesStep
    <2> QED
      BY <1>0, <1>12, <2>1, <2>2, CreateIs
  <1>13. CASE FillFile(w)
    <2>1. pc[w] = "fill" /\ pc'[w] = "insert" /\ job' = job /\ table' = table
      BY <1>0, <1>13 DEF FillFile, At, Goto
    <2>2. Found(w)'
      BY <1>0, <2>1 DEF Found, Fits
    <2> QED
      BY <1>0, <1>2, <2>1, <2>2, TablesStep
  <1>14. CASE AddRecord(w)
    <2>1. /\ Formed(table') /\ table'.total <= MaxDevs
          /\ ~torn => Exact(table')
      BY <1>0, <1>14, AddRecordIs DEF With
    <2>2. Sound(table)'
      BY <1>0, <2>1 DEF Sound, Formed, Exact
    <2> QED
      BY <1>0, <1>3, <1>14, <2>2 DEF AddRecord, Goto
  <1>15. CASE DelFile(w)
    <2>1. table' = table /\ job' = job
      BY <1>15 DEF DelFile
    <2>2. CASE Search(table, job[w].dev) # -1 /\ pc' = [pc EXCEPT ![w] = "unlist"]
      <3>1. Found(w)'
        BY <1>0, <2>1, <2>2 DEF Found
      <3> QED
        BY <1>0, <1>2, <2>1, <3>1, TablesStep
    <2>3. CASE pc' = [pc EXCEPT ![w] = "leave"]
      BY <1>0, <1>2, <1>3, <2>1, <2>3
    <2> QED
      BY <1>15, <2>2, <2>3 DEF DelFile, Goto
  <1>16. CASE DelRecord(w)
    <2>1. /\ Formed(table') /\ table'.total <= MaxDevs
          /\ ~torn => Exact(table')
      BY <1>0, <1>16, DelRecordIs
    <2>2. Sound(table)'
      BY <1>0, <2>1 DEF Sound, Formed, Exact
    <2> QED
      BY <1>0, <1>3, <1>16, <2>2 DEF DelRecord, Goto
  <1>17. CASE DelAllFile(w)
    <2>1. table' = table /\ pc[w] = "both" /\ pc'[w] \in {"both", "leave"}
      BY <1>0, <1>17 DEF DelAllFile, At, Goto
    <2> QED
      BY <1>2, <1>3, <2>1
  <1>18. CASE DelAllRecords(w)
    <2>1. table' = EmptyTable
      BY <1>18 DEF DelAllRecords
    <2>2. Sound(table)'
      BY <2>1, EmptyExact, Sizes DEF Sound, Exact
    <2> QED
      BY <1>0, <1>3, <1>18, <2>2 DEF DelAllRecords, Goto
  <1>19. CASE SwapAway(w)
    <2>1. table' = table /\ job' = job
      BY <1>19 DEF SwapAway
    <2>2. CASE /\ Search(table, job[w].dev) # -1 /\ Search(table, job[w].with) # -1
               /\ pc' = [pc EXCEPT ![w] = "swap2"]
      <3>1. Found(w)'
        BY <1>0, <2>1, <2>2 DEF Found
      <3> QED
        BY <1>0, <1>2, <2>1, <3>1, TablesStep
    <2>3. CASE pc' = [pc EXCEPT ![w] = "leave"]
      BY <1>0, <1>2, <1>3, <2>1, <2>3
    <2> QED
      BY <1>19, <2>2, <2>3 DEF SwapAway, Goto
  <1>20. CASE SwapOver(w)
    <2>1. table' = table /\ job' = job /\ pc[w] = "swap2" /\ pc'[w] \in {"swap3", "leave"}
      BY <1>0, <1>20 DEF SwapOver, At, Goto
    <2>2. Found(w)'
      BY <1>0, <2>1 DEF Found
    <2> QED
      BY <1>0, <1>2, <2>1, <2>2, TablesStep
  <1>21. CASE SwapBack(w)
    <2>1. table' = table /\ job' = job /\ pc[w] = "swap3" /\ pc'[w] = "swap4"
      BY <1>0, <1>21 DEF SwapBack, At, Goto
    <2>2. Found(w)'
      BY <1>0, <2>1 DEF Found
    <2> QED
      BY <1>0, <1>2, <2>1, <2>2, TablesStep
  <1>22. CASE SwapRecords(w)
    <2>1. Same(table, table')
      BY <1>0, <1>22, SwapRecordsIs
    <2>2. Sound(table)'
      BY <1>0, <1>1, <2>1, SameSound DEF Sound, Same
    <2> QED
      BY <1>0, <1>3, <1>22, <2>2 DEF SwapRecords, Goto
  <1> QED
    BY <1>4, <1>5, <1>6, <1>7, <1>8, <1>9, <1>10, <1>11, <1>12, <1>13, <1>14, <1>15,
       <1>16, <1>17, <1>18, <1>19, <1>20, <1>21, <1>22 DEF Work


-----------------------------------------------------------------------------
(* What has a file. *)

Complete(f) == {d \in DOMAIN f : f[d].whole}

\* BackedInv, if only the thread w has removed or written a file.
BackedBy(w) ==
    ~torn =>
        /\ \A d \in DOMAIN tmp : pc[w] \in {"swap2", "swap3"} /\ job[w].dev = d
        /\ \A d \in Listed(table) : d \in DOMAIN files \/ Lacks(w, d)
        /\ \A d \in DOMAIN files : ~Lacks(w, d)
        /\ \A d \in Complete(files) : d \in Listed(table) \/ (pc[w] = "insert" /\ job[w].dev = d)

\* The thread is at a place where it has not.
Plain(w) ==
    /\ pc[w] \notin {"unlist", "swap2", "swap3", "insert"}
    /\ pc[w] = "both" /\ Op(w) = "delall" => job[w].k = 0

Calm == /\ DOMAIN tmp = {} /\ Listed(table) \subseteq DOMAIN files
        /\ Complete(files) \subseteq Listed(table)

LEMMA PlainLacks ==
  ASSUME NEW w, Plain(w)
  PROVE  /\ \A d : ~Lacks(w, d)
         /\ BackedBy(w) <=> (~torn => Calm)
  <1>1. \A d : ~Lacks(w, d)
    BY DEF Plain, Lacks
  <1>2. pc[w] \notin {"swap2", "swap3", "insert"}
    BY DEF Plain
  <1> QED
    BY <1>1, <1>2 DEF BackedBy, Calm

LEMMA PlainAfter ==
  ASSUME NEW w, Plain(w)'
  PROVE  (~torn' => Calm') => BackedBy(w)'
  <1>1. \A d : ~Lacks(w, d)'
    BY DEF Plain, Lacks, Op
  <1>2. pc'[w] \notin {"swap2", "swap3", "insert"}
    BY DEF Plain
  <1> QED
    BY <1>1, <1>2 DEF BackedBy, Calm

LEMMA BackedStart ==
  ASSUME LockInv, NEW w \in Workers, phase = "up", HasRom(w) \/ HasRam(w), BackedInv
  PROVE  BackedBy(w)
  <1>1. \A v \in Workers : v # w => pc[v] \notin {"unlist", "both", "swap2", "swap3", "insert"}
    BY Alone DEF HasRom, HasRam, Places
  <1>2. \A v \in Workers : \A d : Lacks(v, d) => v = w
    BY <1>1 DEF Lacks
  <1> QED
    BY <1>1, <1>2 DEF BackedInv, BackedBy, Complete

LEMMA BackedEnd ==
  ASSUME LockInv, NEW w \in Workers, Frame(w), HasRom(w) \/ HasRam(w), BackedBy(w)'
  PROVE  BackedInv'
  <1>1. \A v \in Workers : v # w => pc[v] \notin {"unlist", "both", "swap2", "swap3", "insert"}
    BY Alone DEF HasRom, HasRam, Places
  <1>2. \A v \in Workers : v # w => pc'[v] = pc[v]
    BY DEF Frame
  <1>3. \A v \in Workers : \A d : Lacks(v, d)' => v = w
    BY <1>1, <1>2 DEF Lacks
  <1> QED
    BY <1>1, <1>2, <1>3 DEF BackedInv, BackedBy, Complete

LEMMA BackedSame ==
  ASSUME LockInv, NEW w \in Workers, Frame(w), Plain(w), Plain(w)',
         table' = table, files' = files, tmp' = tmp, BackedInv
  PROVE  BackedInv'
  <1>1. \A v \in Workers : v # w => pc'[v] = pc[v] /\ job'[v] = job[v]
    BY DEF Frame
  <1>2. \A d : ~Lacks(w, d) /\ ~Lacks(w, d)'
    BY DEF Plain, Lacks, Op
  <1>3. \A v \in Workers : \A d : Lacks(v, d)' <=> Lacks(v, d)
    <2> TAKE v \in Workers
    <2>1. CASE v = w
      BY <1>2, <2>1
    <2>2. CASE v # w
      BY <1>1, <2>2 DEF Lacks, Op
    <2> QED
      BY <2>1, <2>2
  <1>4. /\ pc[w] \notin {"swap2", "swap3", "insert"} /\ pc'[w] \notin {"swap2", "swap3", "insert"}
        /\ phase = "up" /\ phase' = "up" /\ torn' = torn
    BY DEF Plain, Frame
  <1> QED
    BY <1>1, <1>3, <1>4 DEF BackedInv

\* The place k of a sorted table has another device than those before.
LEMMA NotBefore ==
  ASSUME NEW tab, Exact(tab), NEW k \in Nat, k < tab.total, NEW i \in 0..(k - 1)
  PROVE  tab.recs[i].dev # tab.recs[k].dev
  <1>1. tab.total \in Nat
    BY TableParts DEF Exact, Formed
  <1>2. PICK n \in Nat : n = tab.total
    BY <1>1
  <1>3. i \in 0..(n - 1) /\ k \in 0..(n - 1) /\ i < k
    BY <1>2
  <1>4. Before(tab.recs[i].dev, tab.recs[k].dev) /\ tab.recs[k].dev \in Devs
    BY <1>2, <1>3 DEF Exact
  <1> QED
    BY <1>4, BeforeOrder


LEMMA WorkBacked ==
  ASSUME LockInv, DiskInv, TablesInv, BackedInv, NEW w \in Workers, Work(w)
  PROVE  BackedInv'
  <1> USE DEF Places
  <1>0. /\ pc \in [Workers -> Places] /\ DOMAIN job = Workers /\ Frame(w) /\ RightPlace(w)
        /\ JobOK(w) /\ Found(w) /\ FilesTyped(files) /\ FilesTyped(tmp)
        /\ torn' = torn /\ phase = "up"
    BY WorkFrame DEF LockInv, DiskInv, TablesInv, Frame
  <1>1. /\ Formed(table) /\ table.total \in Nat
        /\ ~torn => Exact(table)
    BY TableParts DEF TablesInv, Sound, Formed
  <1>2. ASSUME Plain(w), pc'[w] \in {"idle", "rom", "ram", "file", "record", "leave"},
               table' = table, files' = files, tmp' = tmp
        PROVE  BackedInv'
    <2>1. Plain(w)'
      BY <1>2 DEF Plain
    <2> QED
      BY <1>0, <1>2, <2>1, BackedSame
  <1>3. HasRom(w) \/ HasRam(w) => BackedBy(w)
    BY <1>0, BackedStart
  <1>4. ASSUME pc[w] \in {"both", "file", "record", "fill", "insert", "unlist", "swap2", "swap3", "swap4"}
        PROVE  HasRom(w) \/ HasRam(w)
    BY <1>4 DEF HasRom, HasRam
  <1>5. ASSUME pc[w] \in {"both", "file", "record", "fill", "insert", "unlist", "swap2", "swap3", "swap4"},
               ~torn => Calm',
               pc'[w] \in {"idle", "ram", "record", "leave", "fill", "swap4"}
        PROVE  BackedInv'
    <2>1. Plain(w)'
      BY <1>5 DEF Plain
    <2>2. BackedBy(w)'
      BY <1>0, <1>5, <2>1, PlainAfter
    <2> QED
      BY <1>0, <1>4, <1>5, <2>2, BackedEnd
  <1>6. ASSUME Plain(w), HasRom(w) \/ HasRam(w), ~torn  PROVE Calm
    BY <1>3, <1>6, PlainLacks
  <1>10. ASSUME NEW j \in Jobs(w), Start(w, j)  PROVE BackedInv'
    BY <1>0, <1>2, <1>10 DEF Start, At, Goto, Plain, disk
  <1>11. CASE TakeRom(w)
    BY <1>0, <1>2, <1>11 DEF TakeRom, At, Goto, Plain, disk
  <1>12. CASE TakeRam(w)
    <2>1. /\ Plain(w) /\ pc'[w] \in {"record", "both"} /\ job' = job
          /\ Op(w) = "delall" => job[w].k = 0
      BY <1>0, <1>12 DEF TakeRam, At, Goto, Plain, JobOK
    <2>2. Plain(w)'
      BY <2>1 DEF Plain, Op
    <2> QED
      BY <1>0, <1>12, <2>1, <2>2, BackedSame DEF TakeRam, disk
  <1>13. CASE GiveUpRom(w)
    BY <1>0, <1>2, <1>13 DEF GiveUpRom, At, Goto, Plain, disk
  <1>14. CASE GiveUpRam(w)
    BY <1>0, <1>2, <1>14 DEF GiveUpRam, At, Goto, Plain, disk
  <1>15. CASE Leave(w)
    BY <1>0, <1>2, <1>15 DEF Leave, At, Goto, Plain, disk
  <1>16. CASE WriteFile(w)
    <2>1. /\ pc[w] = "file" /\ pc'[w] \in {"idle", "ram"} /\ Plain(w) /\ Asked(job[w]) /\ RomOnly(w)
          /\ table' = table /\ tmp' = tmp
      BY <1>0, <1>16 DEF WriteFile, At, Goto, JobOK, Plain, RightPlace
    <2>2. PICK d, v : /\ d = job[w].dev
                      /\ v = LET old == IF d \in DOMAIN files THEN files[d] ELSE Empty
                             IN  IF Op(w) = "readdress" THEN [old EXCEPT !.addr = job[w].addr]
                                 ELSE old
      OBVIOUS
    <2>3. files' = files \/ files' = Put(files, d, v)
      BY <1>16, <2>2 DEF WriteFile
    <2>4. d \in DOMAIN files => files[d] \in File
      BY <1>0 DEF FilesTyped
    <2>5. v.whole => d \in DOMAIN files /\ files[d].whole
      BY <2>2, <2>4 DEF File, Empty
    <2>6. ASSUME ~torn  PROVE Calm'
      <3>1. Calm
        BY <1>4, <1>6, <2>1, <2>6
      <3> QED
        BY <2>1, <2>3, <2>5, <3>1 DEF Calm, Complete, Put
    <2> QED
      BY <1>5, <2>1, <2>6
  <1>17. CASE WriteRecord(w)
    <2>1. /\ pc[w] = "record" /\ pc'[w] = "idle" /\ Plain(w)
          /\ files' = files /\ tmp' = tmp
      BY <1>0, <1>17 DEF WriteRecord, At, Goto, Plain, disk
    <2>2. Listed(table') = Listed(table)
      BY <1>0, <1>1, <1>17, WriteRecordIs, SameSound DEF Rewritten
    <2>3. ASSUME ~torn  PROVE Calm'
      <3>1. Calm
        BY <1>4, <1>6, <2>1, <2>3
      <3> QED
        BY <2>1, <2>2, <3>1 DEF Calm, Complete, Listed, Records
    <2> QED
      BY <1>5, <2>1, <2>3
  <1>18. CASE Create(w)
    <2>1. /\ pc[w] = "both" /\ Op(w) = "add" /\ Plain(w) /\ table' = table /\ tmp' = tmp
      BY <1>18 DEF Create, At, Plain
    <2>2. CASE pc' = [pc EXCEPT ![w] = "leave"] /\ files' = files /\ job' = job
      BY <1>0, <1>2, <2>1, <2>2
    <2>3. ASSUME NEW d, NEW at, Created(w, d, at)  PROVE BackedInv'
      <3>1. pc'[w] = "fill" /\ (files' = files \/ files' = Put(files, d, Empty))
            /\ ~Empty.whole
        BY <1>0, <2>3 DEF Created, Empty
      <3>2. files' = files \/ (d \notin DOMAIN files /\ files' = Put(files, d, Empty))
        BY <2>3 DEF Created
      <3>3. ASSUME ~torn  PROVE Calm'
        <4>1. Calm
          BY <1>4, <1>6, <2>1, <3>3
        <4> QED
          BY <2>1, <3>1, <3>2, <4>1 DEF Calm, Complete, Put
      <3> QED
        BY <1>5, <2>1, <3>1, <3>3
    <2> QED
      BY <1>0, <1>18, <2>2, <2>3, CreateIs
  <1>19. CASE FillFile(w)
    <2>1. /\ pc[w] = "fill" /\ pc'[w] = "insert" /\ Plain(w) /\ job' = job
          /\ table' = table /\ tmp' = tmp
      BY <1>0, <1>19 DEF FillFile, At, Goto, Plain
    <2>2. PICK d, v : d = job[w].dev /\ v = [addr |-> job[w].addr, whole |-> TRUE]
      OBVIOUS
    <2>3. files' = Put(files, d, v)
      BY <1>19, <2>2 DEF FillFile
    <2>4. \A x : ~Lacks(w, x)'
      BY <2>1 DEF Lacks, Op
    <2>5. ASSUME ~torn
          PROVE  /\ DOMAIN tmp' = {} /\ Listed(table') \subseteq DOMAIN files'
                 /\ \A x \in Complete(files') : x \in Listed(table') \/ x = d
      <3>1. Calm
        BY <1>4, <1>6, <2>1, <2>5
      <3> QED
        BY <2>1, <2>3, <3>1 DEF Calm, Complete, Put
    <2>6. BackedBy(w)'
      <3>1. pc'[w] = "insert" /\ job'[w].dev = d
        BY <2>1, <2>2
      <3>2. ASSUME ~torn
            PROVE  /\ DOMAIN tmp' = {} /\ Listed(table)' \subseteq DOMAIN files'
                   /\ \A x \in Complete(files)' : x \in Listed(table)' \/ x = d
        BY <2>5, <3>2 DEF Complete, Listed, Records
      <3> QED
        BY <1>0, <2>4, <3>1, <3>2 DEF BackedBy
    <2> QED
      BY <1>0, <1>4, <2>1, <2>6, BackedEnd
  <1>20. CASE AddRecord(w)
    <2>1. /\ pc[w] = "insert" /\ pc'[w] = "leave" /\ job[w].dev \in DOMAIN files
          /\ files' = files /\ tmp' = tmp
      BY <1>0, <1>20 DEF AddRecord, At, Goto, JobOK, disk
    <2>2. ~torn => Listed(table') = Listed(table) \cup {job[w].dev}
      BY <1>0, <1>20, AddRecordIs DEF With, NewRecord
    <2>3. ASSUME ~torn  PROVE Calm'
      <3>1. BackedBy(w) /\ \A x : ~Lacks(w, x)
        BY <1>3, <1>4, <2>1 DEF Lacks
      <3>2. /\ DOMAIN tmp = {} /\ Listed(table) \subseteq DOMAIN files
            /\ \A x \in Complete(files) : x \in Listed(table) \/ x = job[w].dev
        BY <2>1, <2>3, <3>1 DEF BackedBy
      <3>3. /\ DOMAIN tmp' = {} /\ Listed(table') \subseteq DOMAIN files'
            /\ Complete(files') \subseteq Listed(table')
        BY <2>1, <2>2, <2>3, <3>2
      <3> QED
        BY <3>3 DEF Calm, Complete, Listed, Records
    <2> QED
      BY <1>5, <2>1, <2>3
  <1>21. CASE DelFile(w)
    <2>1. pc[w] = "both" /\ Op(w) = "del" /\ Plain(w) /\ table' = table /\ tmp' = tmp /\ job' = job
      BY <1>21 DEF DelFile, At, Plain
    <2>2. CASE pc' = [pc EXCEPT ![w] = "leave"] /\ files' = files
      BY <1>0, <1>2, <2>1, <2>2
    <2>3. CASE files' = Drop(files, job[w].dev) /\ pc' = [pc EXCEPT ![w] = "unlist"]
      <3>1. PICK d : d = job[w].dev
        OBVIOUS
      <3>2. pc'[w] = "unlist" /\ \A x : Lacks(w, x)' <=> x = d
        BY <1>0, <2>1, <2>3, <3>1 DEF Lacks
      <3>3. ASSUME ~torn
            PROVE  /\ DOMAIN tmp' = {}
                   /\ \A x \in Listed(table)' : x \in DOMAIN files' \/ x = d
                   /\ d \notin DOMAIN files' /\ Complete(files)' \subseteq Listed(table)'
        <4>1. Calm
          BY <1>4, <1>6, <2>1, <3>3
        <4> QED
          BY <2>1, <2>3, <3>1, <4>1 DEF Calm, Complete, Drop, Listed, Records
      <3>4. BackedBy(w)'
        BY <1>0, <3>2, <3>3 DEF BackedBy
      <3> QED
        BY <1>0, <1>4, <2>1, <3>4, BackedEnd
    <2> QED
      BY <1>21, <2>2, <2>3 DEF DelFile, Goto
  <1>22. CASE DelRecord(w)
    <2>1. /\ pc[w] = "unlist" /\ pc'[w] = "leave" /\ files' = files /\ tmp' = tmp
      BY <1>0, <1>22 DEF DelRecord, At, Goto, disk
    <2>2. ~torn => Listed(table') = Listed(table) \ {job[w].dev}
      BY <1>0, <1>22, DelRecordIs
    <2>3. ASSUME ~torn  PROVE Calm'
      <3>1. BackedBy(w) /\ \A x : Lacks(w, x) <=> x = job[w].dev
        BY <1>3, <1>4, <2>1 DEF Lacks
      <3>2. /\ DOMAIN tmp = {}
            /\ \A x \in Listed(table) : x \in DOMAIN files \/ x = job[w].dev
            /\ job[w].dev \notin DOMAIN files /\ Complete(files) \subseteq Listed(table)
        BY <2>1, <2>3, <3>1 DEF BackedBy
      <3>3. /\ DOMAIN tmp' = {} /\ Listed(table') \subseteq DOMAIN files'
            /\ Complete(files') \subseteq Listed(table')
        BY <2>1, <2>2, <2>3, <3>2 DEF Complete
      <3> QED
        BY <3>3 DEF Calm, Complete, Listed, Records
    <2> QED
      BY <1>5, <2>1, <2>3
  <1>23. CASE DelAllFile(w)
    <2>1. /\ pc[w] = "both" /\ Op(w) = "delall" /\ job[w].op = "delall" /\ job[w].k \in Nat
          /\ job[w].k < table.total /\ table' = table /\ tmp' = tmp
      BY <1>0, <1>23 DEF DelAllFile, At, JobOK, Asked, Op
    <2>2. PICK k, d : k = job[w].k /\ d = table.recs[k].dev
      OBVIOUS
    <2>3. BackedBy(w) /\ \A x : Lacks(w, x) <=> \E i \in 0..(k - 1) : table.recs[i].dev = x
      BY <1>3, <1>4, <2>1, <2>2 DEF Lacks
    <2>4. CASE d \in DOMAIN files
      <3>1. /\ files' = Drop(files, d) /\ job' = [job EXCEPT ![w].k = k + 1] /\ pc' = pc
        BY <1>23, <2>2, <2>4 DEF DelAllFile
      <3>2. job'[w].op = "delall" /\ job'[w].k = k + 1 /\ pc'[w] = "both"
        BY <1>0, <2>1, <3>1
      <3>3. \A x : Lacks(w, x)' <=> \E i \in 0..k : table.recs[i].dev = x
        BY <2>1, <2>2, <3>2 DEF Lacks, Op
      <3>4. \A x : (\E i \in 0..k : table.recs[i].dev = x) <=> Lacks(w, x) \/ x = d
        <4>1. \A i : i \in 0..k <=> i \in 0..(k - 1) \/ i = k
          BY <2>1, <2>2
        <4> QED
          BY <2>2, <2>3, <4>1
      <3>5. ASSUME ~torn
            PROVE  /\ DOMAIN tmp = {}
                   /\ \A x \in Listed(table) : x \in DOMAIN files \/ Lacks(w, x)
                   /\ \A x \in DOMAIN files : ~Lacks(w, x)
                   /\ Complete(files) \subseteq Listed(table)
        BY <2>1, <2>3, <3>5 DEF BackedBy
      <3>6. ASSUME ~torn
            PROVE  /\ DOMAIN tmp' = {}
                   /\ \A x \in Listed(table)' : x \in DOMAIN files' \/ Lacks(w, x) \/ x = d
                   /\ \A x \in DOMAIN files' : ~Lacks(w, x) /\ x # d
                   /\ Complete(files)' \subseteq Listed(table)'
        BY <2>1, <3>1, <3>5, <3>6 DEF Complete, Drop, Listed, Records
      <3>7. BackedBy(w)'
        BY <1>0, <3>2, <3>3, <3>4, <3>6 DEF BackedBy
      <3> QED
        BY <1>0, <1>4, <2>1, <3>7, BackedEnd
    <2>5. CASE d \notin DOMAIN files
      <3>1. torn
        <4> SUFFICES ASSUME ~torn  PROVE FALSE
          OBVIOUS
        <4>1. d \in Listed(table)
          <5>1. k \in 0..(table.total - 1)
            BY <1>1, <2>1, <2>2
          <5> QED
            BY <2>2, <5>1, ListedIs
        <4>2. PICK i \in 0..(k - 1) : table.recs[i].dev = d
          BY <2>3, <2>5, <4>1 DEF BackedBy
        <4>3. table.recs[i].dev # table.recs[k].dev
          BY <1>1, <2>1, <2>2, NotBefore
        <4> QED
          BY <2>2, <4>2, <4>3
      <3> QED
        BY <1>0, <3>1 DEF BackedInv
    <2> QED
      BY <2>4, <2>5
  <1>24. CASE DelAllRecords(w)
    <2>1. /\ pc[w] = "both" /\ pc'[w] = "leave" /\ Op(w) = "delall" /\ job[w].k \in Nat
          /\ job[w].k >= table.total /\ table' = EmptyTable /\ tmp' = tmp /\ files' = files
      BY <1>0, <1>24 DEF DelAllRecords, At, Goto, JobOK, Asked, Op
    <2>2. Listed(table') = {}
      BY <2>1, EmptyExact
    <2>3. ASSUME ~torn  PROVE Calm'
      <3>1. /\ DOMAIN tmp = {} /\ \A x \in DOMAIN files : ~Lacks(w, x)
            /\ Complete(files) \subseteq Listed(table)
        BY <1>3, <1>4, <2>1, <2>3 DEF BackedBy
      <3>2. \A x \in Listed(table) : Lacks(w, x)
        <4> TAKE x \in Listed(table)
        <4>1. PICK i \in 0..(table.total - 1) : table.recs[i].dev = x
          BY ListedIs
        <4>2. i \in 0..(job[w].k - 1)
          BY <1>1, <2>1
        <4> QED
          BY <2>1, <4>1, <4>2 DEF Lacks
      <3>3. Complete(files) = {}
        BY <3>1, <3>2 DEF Complete
      <3> QED
        BY <2>1, <2>2, <3>1, <3>3 DEF Calm, Complete, Listed, Records
    <2> QED
      BY <1>5, <2>1, <2>3
  <1>25. CASE SwapAway(w)
    <2>1. pc[w] = "both" /\ Op(w) = "swap" /\ Plain(w) /\ table' = table /\ job' = job
      BY <1>25 DEF SwapAway, At, Plain
    <2>2. CASE pc' = [pc EXCEPT ![w] = "leave"] /\ files' = files /\ tmp' = tmp
      BY <1>0, <1>2, <2>1, <2>2
    <2>3. CASE /\ tmp' = Put(tmp, job[w].dev, files[job[w].dev])
               /\ files' = Drop(files, job[w].dev) /\ pc' = [pc EXCEPT ![w] = "swap2"]
      <3>1. PICK d : d = job[w].dev
        OBVIOUS
      <3>2. pc'[w] = "swap2" /\ job'[w].dev = d /\ \A x : Lacks(w, x)' <=> x = d
        BY <1>0, <2>1, <2>3, <3>1 DEF Lacks
      <3>3. ASSUME ~torn
            PROVE  /\ DOMAIN tmp' = {d}
                   /\ \A x \in Listed(table)' : x \in DOMAIN files' \/ x = d
                   /\ d \notin DOMAIN files' /\ Complete(files)' \subseteq Listed(table)'
        <4>1. Calm
          BY <1>4, <1>6, <2>1, <3>3
        <4>2. DOMAIN tmp' = DOMAIN tmp \cup {d}
          BY <2>3, <3>1 DEF Put
        <4>3. DOMAIN tmp' = {d}
          BY <4>1, <4>2 DEF Calm
        <4> QED
          BY <2>1, <2>3, <3>1, <4>1, <4>3 DEF Calm, Complete, Drop, Listed, Records
      <3>4. BackedBy(w)'
        BY <1>0, <3>2, <3>3 DEF BackedBy
      <3> QED
        BY <1>0, <1>4, <2>1, <3>4, BackedEnd
    <2> QED
      BY <1>25, <2>2, <2>3 DEF SwapAway, Goto
  <1>26. CASE SwapOver(w)
    <2>1. /\ pc[w] = "swap2" /\ table' = table /\ job' = job /\ tmp' = tmp
          /\ job[w].dev # job[w].with /\ job[w].with \in Devs /\ Search(table, job[w].with) # -1
      BY <1>0, <1>26 DEF SwapOver, At, JobOK, Found
    <2>2. PICK d, e : d = job[w].dev /\ e = job[w].with
      OBVIOUS
    <2>3. BackedBy(w) /\ \A x : Lacks(w, x) <=> x = d
      BY <1>3, <1>4, <2>1, <2>2 DEF Lacks
    <2>4. e \in Listed(table)
      BY <1>1, <2>1, <2>2, FoundAt
    <2>5. ASSUME ~torn
          PROVE  /\ \A x \in DOMAIN tmp : x = d
                 /\ \A x \in Listed(table) : x \in DOMAIN files \/ x = d
                 /\ d \notin DOMAIN files /\ Complete(files) \subseteq Listed(table)
      BY <2>1, <2>2, <2>3, <2>5 DEF BackedBy
    <2>6. CASE e \in DOMAIN files
      <3>1. /\ files' = Put(Drop(files, e), d, files[e]) /\ pc' = [pc EXCEPT ![w] = "swap3"]
        BY <1>26, <2>2, <2>6 DEF SwapOver, Goto
      <3>2. pc'[w] = "swap3" /\ job'[w].dev = d /\ \A x : Lacks(w, x)' <=> x = e
        BY <1>0, <2>1, <2>2, <3>1 DEF Lacks
      <3>3. /\ DOMAIN files' = (DOMAIN files \ {e}) \cup {d}
            /\ \A x \in DOMAIN files : x # e /\ x # d => files'[x] = files[x]
        BY <3>1 DEF Put, Drop
      <3>4. d \in Listed(table)
        <4>1. Search(table, d) # -1 /\ d \in Devs
          BY <1>0, <2>1, <2>2 DEF Found, JobOK
        <4> QED
          BY <1>1, <4>1, FoundAt
      <3>5. ASSUME ~torn
            PROVE  /\ \A x \in DOMAIN tmp' : x = d
                   /\ \A x \in Listed(table)' : x \in DOMAIN files' \/ x = e
                   /\ e \notin DOMAIN files' /\ Complete(files)' \subseteq Listed(table)'
        BY <2>1, <2>2, <2>5, <3>3, <3>4, <3>5 DEF Complete, Listed, Records
      <3>6. BackedBy(w)'
        BY <1>0, <3>2, <3>5 DEF BackedBy
      <3> QED
        BY <1>0, <1>4, <2>1, <3>6, BackedEnd
    <2>7. CASE e \notin DOMAIN files
      <3>1. torn
        BY <2>1, <2>2, <2>4, <2>5, <2>7
      <3> QED
        BY <1>0, <3>1 DEF BackedInv
    <2> QED
      BY <2>6, <2>7
  <1>27. CASE SwapBack(w)
    <2>1. /\ pc[w] = "swap3" /\ pc'[w] = "swap4" /\ table' = table /\ job' = job
          /\ job[w].with \in Devs /\ Search(table, job[w].with) # -1
      BY <1>0, <1>27 DEF SwapBack, At, Goto, JobOK, Found
    <2>2. PICK d, e, v : d = job[w].dev /\ e = job[w].with /\ v = tmp[d]
      OBVIOUS
    <2>3. BackedBy(w) /\ \A x : Lacks(w, x) <=> x = e
      BY <1>3, <1>4, <2>1, <2>2 DEF Lacks
    <2>4. e \in Listed(table)
      BY <1>1, <2>1, <2>2, FoundAt
    <2>5. ASSUME ~torn
          PROVE  /\ \A x \in DOMAIN tmp : x = d
                 /\ \A x \in Listed(table) : x \in DOMAIN files \/ x = e
                 /\ Complete(files) \subseteq Listed(table)
      BY <2>1, <2>2, <2>3, <2>5 DEF BackedBy
    <2>6. files' = Put(files, e, v) /\ tmp' = Drop(tmp, d)
      BY <1>27, <2>2 DEF SwapBack
    <2>7. ASSUME ~torn  PROVE Calm'
      <3>1. DOMAIN tmp' = {}
        BY <2>5, <2>6, <2>7 DEF Drop
      <3>2. /\ DOMAIN files' = DOMAIN files \cup {e}
            /\ \A x \in DOMAIN files : x # e => files'[x] = files[x]
        BY <2>6 DEF Put
      <3> QED
        BY <2>1, <2>4, <2>5, <2>7, <3>1, <3>2 DEF Calm, Complete, Listed, Records
    <2> QED
      BY <1>5, <2>1, <2>7
  <1>28. CASE SwapRecords(w)
    <2>1. /\ pc[w] = "swap4" /\ pc'[w] = "leave" /\ Plain(w)
          /\ files' = files /\ tmp' = tmp
      BY <1>0, <1>28 DEF SwapRecords, At, Goto, Plain, disk
    <2>2. Listed(table') = Listed(table)
      BY <1>0, <1>1, <1>28, SwapRecordsIs, SameSound
    <2>3. ASSUME ~torn  PROVE Calm'
      <3>1. Calm
        BY <1>4, <1>6, <2>1, <2>3
      <3> QED
        BY <2>1, <2>2, <3>1 DEF Calm, Complete, Listed, Records
    <2> QED
      BY <1>5, <2>1, <2>3
  <1> QED
    BY <1>10, <1>11, <1>12, <1>13, <1>14, <1>15, <1>16, <1>17, <1>18, <1>19, <1>20, <1>21,
       <1>22, <1>23, <1>24, <1>25, <1>26, <1>27, <1>28 DEF Work


-----------------------------------------------------------------------------
(* The other steps. *)

TableInv == LockInv /\ DiskInv /\ TablesInv /\ BackedInv

\* The backup is being written; the thread that does it changes nothing else.
Saves ==
    /\ UNCHANGED <<table, files, tmp, pc, job, ops, crashes, suspect, torn>>
    /\ phase # "down" /\ phase' # "down"
    /\ block' \in Nat /\ dirty' \in BOOLEAN /\ moved' \subseteq Devs
    /\ backup'.crc \in {backup.crc, table}

LEMMA SavesInv ==
  ASSUME DiskInv, TablesInv, BackedInv, Saves
  PROVE  DiskInv' /\ TablesInv' /\ BackedInv'
  <1>0. /\ table' = table /\ files' = files /\ tmp' = tmp /\ pc' = pc /\ job' = job
        /\ ops' = ops /\ crashes' = crashes /\ suspect' = suspect /\ torn' = torn
    BY DEF Saves
  <1>1. DiskInv'
    <2>1. \A w \in Workers : JobOK(w)' <=> JobOK(w)
      BY <1>0 DEF JobOK, Op
    <2> QED
      BY <1>0, <2>1 DEF DiskInv, Saves, FilesTyped
  <1>2. TablesInv'
    <2>1. \A w \in Workers : Found(w)' <=> Found(w)
      BY <1>0 DEF Found, Fits
    <2>2. Sound(table)' /\ Sound(backup.crc)'
      <3>1. Sound(table) /\ Sound(backup.crc)
        BY DEF TablesInv
      <3>2. backup'.crc \in {backup.crc, table}
        BY DEF Saves
      <3> QED
        BY <1>0, <3>1, <3>2 DEF Sound
    <2> QED
      BY <2>1, <2>2 DEF TablesInv
  <1>3. BackedInv'
    <2>1. \A w \in Workers : \A d : Lacks(w, d)' <=> Lacks(w, d)
      BY <1>0 DEF Lacks, Op
    <2>2. Listed(table)' = Listed(table)
      BY <1>0
    <2> QED
      BY <1>0, <2>1, <2>2 DEF BackedInv, Saves
  <1> QED
    BY <1>1, <1>2, <1>3

LEMMA OthersSave ==
  ASSUME TableInv, SyncStart \/ SaveBlock \/ SaveCrc
  PROVE  Saves
  <1>1. CASE SyncStart
    BY <1>1 DEF SyncStart, Saves, TableInv, DiskInv, disk, history
  <1>2. phase = "down" => saver = "idle"
    BY DEF TableInv, LockInv
  <1>3. block \in Nat /\ dirty \in BOOLEAN /\ moved \subseteq Devs
    BY DEF TableInv, DiskInv
  <1>4. CASE SaveBlock
    <2>1. PICK b, t : b = block /\ t = Block(table, block)
      OBVIOUS
    <2>2. backup' = [backup EXCEPT !.blocks[b] = t]
      BY <1>4, <2>1 DEF SaveBlock
    <2>3. backup'.crc = backup.crc
      BY <2>2
    <2>4. PICK v : dirty' = (dirty \/ v # t)
      BY <1>4, <2>1 DEF SaveBlock
    <2>5. dirty' \in BOOLEAN
      BY <2>4
    <2> QED
      BY <1>2, <1>3, <1>4, <2>3, <2>5 DEF SaveBlock, Saves, history
  <1>5. CASE SaveCrc
    <2>1. backup'.crc \in {backup.crc, table}
      BY <1>5 DEF SaveCrc
    <2>2. Wrong(table) \subseteq Devs
      BY DEF TableInv, DiskInv, FilesTyped, Wrong
    <2>3. moved' \subseteq Devs
      BY <1>5, <2>2 DEF SaveCrc
    <2> QED
      BY <1>2, <1>3, <1>5, <2>1, <2>3 DEF SaveCrc, Saves
  <1> QED
    BY <1>1, <1>4, <1>5

LEMMA CrashInv ==
  ASSUME TableInv, Crash
  PROVE  DiskInv' /\ TablesInv' /\ BackedInv'
  <1>0. /\ table' = EmptyTable /\ files' = files /\ tmp' = tmp /\ backup' = backup
        /\ \A w \in Workers : pc'[w] = "idle"
        /\ torn' = (torn \/ Swapping) /\ phase' = "down"
        /\ ops' = ops /\ crashes' = crashes + 1 /\ moved' = moved
        /\ suspect' = suspect \cup moved /\ block' = 0 /\ dirty' = FALSE
        /\ crashes < MaxCrashes
    BY DEF Crash, disk
  <1>1. DiskInv'
    <2>1. \A w \in Workers : JobOK(w)'
      BY <1>0 DEF JobOK
    <2>2. crashes' \in 0..MaxCrashes
      BY <1>0, BoundAssumption DEF TableInv, DiskInv
    <2> QED
      BY <1>0, <2>1, <2>2 DEF TableInv, DiskInv, FilesTyped
  <1>2. TablesInv'
    <2>1. \A w \in Workers : Found(w)'
      BY <1>0 DEF Found
    <2>2. Sound(table)'
      BY <1>0, EmptyExact, Sizes DEF Sound, Exact
    <2>3. Sound(backup.crc)'
      BY <1>0 DEF Sound, TableInv, TablesInv
    <2> QED
      BY <2>1, <2>2, <2>3 DEF TablesInv
  <1>3. BackedInv'
    <2>1. \A w \in Workers : \A d : ~Lacks(w, d)'
      BY <1>0 DEF Lacks
    <2>2. Listed(table)' = {}
      BY <1>0, EmptyExact
    <2>3. ~torn' => DOMAIN tmp' = {}
      BY <1>0 DEF TableInv, BackedInv, Swapping
    <2> QED
      BY <1>0, <2>1, <2>2, <2>3 DEF BackedInv
  <1> QED
    BY <1>1, <1>2, <1>3

LEMMA BootInv ==
  ASSUME TableInv, Boot
  PROVE  DiskInv' /\ TablesInv' /\ BackedInv'
  <1>0. PICK rubbish \in Addrs \cup {NoAddr} : table' = Restored(rubbish).tab
    BY DEF Boot
  <1>1. /\ files' = files /\ tmp' = tmp /\ backup' = backup /\ pc' = pc /\ job' = job
        /\ torn' = torn /\ phase' = "boot" /\ phase = "down"
        /\ ops' = ops /\ crashes' = crashes /\ moved' = moved /\ suspect' = suspect
        /\ block' = 0 /\ dirty' = TRUE
    BY DEF Boot, disk, history
  <1>2. \A w \in Workers : pc[w] = "idle"
    BY <1>1 DEF TableInv, LockInv, Quiet
  <1>3. FilesTyped(files) /\ FilesTyped(tmp) /\ FilesOK /\ DiskOK
    BY DEF TableInv, DiskInv, FilesTyped, FilesOK, DiskOK, File
  <1>4. /\ IsFiniteSet(DOMAIN files) /\ IsFiniteSet(DOMAIN tmp)
        /\ Cardinality(DOMAIN files) \in Nat /\ Cardinality(DOMAIN tmp) \in Nat
    BY <1>3, BelowCounts, FS_CardinalityType DEF DiskOK
  <1>5. Cardinality(DOMAIN files) + Cardinality(DOMAIN tmp) <= MaxDevs
    BY <1>4, Sizes DEF Boot, Overflows
  <1>6. Formed(Checkout) /\ Checkout.total <= MaxDevs /\ (~torn => Exact(Checkout))
    <2>1. Checkout = backup.crc \/ Checkout = EmptyTable
      BY DEF Checkout
    <2>2. Sound(backup.crc)
      BY DEF TableInv, TablesInv
    <2>3. Formed(EmptyTable) /\ EmptyTable.total <= MaxDevs /\ Exact(EmptyTable)
      BY EmptyExact, Sizes DEF Exact
    <2> QED
      BY <2>1, <2>2, <2>3 DEF Sound
  <1>7. Formed(table') /\ table'.total <= MaxDevs
    BY <1>0, <1>3, <1>5, <1>6, RestoredFormed
  <1>8. ~torn => DOMAIN tmp = {}
    BY <1>2 DEF TableInv, BackedInv
  <1>9. ASSUME ~torn  PROVE Exact(table') /\ Listed(table') = DOMAIN files
    <2>1. Cardinality(DOMAIN files) <= MaxDevs
      BY <1>4, <1>5, Sizes
    <2>2. Merge(rubbish, Restored(rubbish))
      BY <1>3, <1>6, <1>8, <1>9, <2>1, RestoredExact
    <2> QED
      BY <1>0, <2>2 DEF Merge
  <1>10. DiskInv'
    <2>1. \A w \in Workers : JobOK(w)'
      BY <1>1, <1>2 DEF JobOK
    <2> QED
      BY <1>1, <2>1 DEF TableInv, DiskInv, FilesTyped
  <1>11. TablesInv'
    <2>1. \A w \in Workers : Found(w)'
      BY <1>1, <1>2 DEF Found
    <2>2. Sound(table)'
      BY <1>1, <1>7, <1>9 DEF Sound
    <2>3. Sound(backup.crc)'
      BY <1>1 DEF Sound, TableInv, TablesInv
    <2> QED
      BY <2>1, <2>2, <2>3 DEF TablesInv
  <1>12. BackedInv'
    <2>1. \A w \in Workers : \A d : ~Lacks(w, d)'
      BY <1>1, <1>2 DEF Lacks
    <2>2. ~torn => Listed(table)' = DOMAIN files
      BY <1>9
    <2> QED
      BY <1>1, <1>2, <1>8, <2>1, <2>2 DEF BackedInv
  <1> QED
    BY <1>10, <1>11, <1>12

LEMMA TableInit == Init => TableInv
  <1> SUFFICES ASSUME Init  PROVE TableInv
    OBVIOUS
  <1>0. /\ table = EmptyTable /\ backup.crc = EmptyTable /\ phase = "down" /\ torn = FALSE
        /\ files \in [Installed -> [addr : Addrs, whole : {TRUE}]] /\ DOMAIN tmp = {}
        /\ \A w \in Workers : pc[w] = "idle"
        /\ block = 0 /\ dirty = FALSE /\ ops = 0 /\ crashes = 0 /\ moved = {} /\ suspect = {}
    BY DEF Init
  <1>1. LockInv
    BY LockInit
  <1>2. DiskInv
    <2>1. FilesTyped(files) /\ FilesTyped(tmp)
      BY <1>0, BoundAssumption DEF FilesTyped, File
    <2>2. \A w \in Workers : JobOK(w)
      BY <1>0 DEF JobOK
    <2>3. ops \in 0..MaxOps /\ crashes \in 0..MaxCrashes
      BY <1>0, BoundAssumption
    <2> QED
      BY <1>0, <2>1, <2>2, <2>3 DEF DiskInv
  <1>3. TablesInv
    <2>1. \A w \in Workers : Found(w)
      BY <1>0 DEF Found
    <2>2. Sound(table) /\ Sound(backup.crc)
      BY <1>0, EmptyExact, Sizes DEF Sound, Exact
    <2> QED
      BY <2>1, <2>2 DEF TablesInv
  <1>4. BackedInv
    <2>1. \A w \in Workers : \A d : ~Lacks(w, d)
      BY <1>0 DEF Lacks
    <2>2. Listed(table) = {}
      BY <1>0, EmptyExact
    <2> QED
      BY <1>0, <2>1, <2>2 DEF BackedInv
  <1> QED
    BY <1>1, <1>2, <1>3, <1>4 DEF TableInv

LEMMA TableNext == TableInv /\ [Next]_vars => TableInv'
  <1> SUFFICES ASSUME TableInv, [Next]_vars  PROVE TableInv'
    OBVIOUS
  <1>0. LockInv /\ DiskInv /\ TablesInv /\ BackedInv
    BY DEF TableInv
  <1>1. LockInv'
    BY <1>0, NextLock
  <1>2. ASSUME NEW w \in Workers, Work(w)  PROVE TableInv'
    BY <1>0, <1>1, <1>2, WorkDisk, WorkTables, WorkBacked DEF TableInv
  <1>3. CASE SyncStart \/ SaveBlock \/ SaveCrc
    BY <1>0, <1>1, <1>3, OthersSave, SavesInv DEF TableInv
  <1>4. CASE Crash
    BY <1>1, <1>4, CrashInv DEF TableInv
  <1>5. CASE Boot
    BY <1>1, <1>5, BootInv DEF TableInv
  <1>6. CASE UNCHANGED vars
    <2>1. /\ table' = table /\ files' = files /\ tmp' = tmp /\ backup' = backup
          /\ phase' = phase /\ pc' = pc /\ job' = job /\ block' = block /\ dirty' = dirty
          /\ ops' = ops /\ crashes' = crashes /\ moved' = moved /\ suspect' = suspect
          /\ torn' = torn
      BY <1>6 DEF vars, disk, saves, history
    <2>2. DiskInv'
      <3>1. \A w \in Workers : JobOK(w)' <=> JobOK(w)
        BY <2>1 DEF JobOK, Op
      <3> QED
        BY <1>0, <2>1, <3>1 DEF DiskInv, FilesTyped
    <2>3. TablesInv'
      <3>1. \A w \in Workers : Found(w)' <=> Found(w)
        BY <2>1 DEF Found, Fits
      <3>2. (Sound(table)' <=> Sound(table)) /\ (Sound(backup.crc)' <=> Sound(backup.crc))
        BY <2>1 DEF Sound
      <3> QED
        BY <1>0, <3>1, <3>2 DEF TablesInv
    <2>4. BackedInv'
      <3>1. \A w \in Workers : \A d : Lacks(w, d)' <=> Lacks(w, d)
        BY <2>1 DEF Lacks, Op
      <3>2. Listed(table)' = Listed(table)
        BY <2>1
      <3> QED
        BY <1>0, <2>1, <3>1, <3>2 DEF BackedInv
    <2> QED
      BY <1>1, <2>2, <2>3, <2>4 DEF TableInv
  <1> QED
    BY <1>2, <1>3, <1>4, <1>5, <1>6 DEF Next, Work

LEMMA TableSafe == TableInv => TableSound
  <1> SUFFICES ASSUME TableInv  PROVE TableSound
    OBVIOUS
  <1>0. LockInv /\ DiskInv /\ TablesInv /\ BackedInv
    BY DEF TableInv
  <1>1. Formed(table) /\ Formed(backup.crc) /\ (~torn => Exact(table))
    BY <1>0 DEF TablesInv, Sound
  <1>2. TypeOK
    <2>1. table \in Tables /\ backup.crc \in Tables
      BY <1>1 DEF Formed
    <2>2. /\ DOMAIN files \subseteq Devs /\ DOMAIN tmp \subseteq Devs
          /\ Range(files) \subseteq [addr : Addrs \cup {NoAddr}, whole : BOOLEAN]
      BY <1>0 DEF DiskInv, FilesTyped, File, Range
    <2>3. ram \in {0, 1} /\ rom \in {0, 1} /\ saver \in {"idle", "blocks"}
      BY <1>0 DEF LockInv, RomHeld, RamHeld
    <2> QED
      BY <1>0, <2>1, <2>2, <2>3 DEF TypeOK, LockInv, DiskInv
  <1>3. TableExact
    <2> SUFFICES ASSUME ~torn
                 PROVE  /\ \A k \in 0..(table.total - 2) :
                               Before(table.recs[k].dev, table.recs[k + 1].dev)
                        /\ \A t \in 0..NumTypes :
                               table.first[t] = Cardinality({d \in Listed(table) : d[1] < t})
                        /\ table.total = table.first[NumTypes]
      BY DEF TableExact
    <2>1. Exact(table) /\ Formed(table)
      BY <1>1
    <2>2. ASSUME NEW k \in 0..(table.total - 2)
          PROVE  Before(table.recs[k].dev, table.recs[k + 1].dev)
      <3>1. PICK n \in Nat : n = table.total
        BY <2>1, TableParts DEF Formed
      <3>2. k \in 0..(n - 1) /\ k + 1 \in 0..(n - 1) /\ k < k + 1
        BY <2>2, <3>1
      <3> QED
        BY <2>1, <3>1, <3>2 DEF Exact
    <2>3. ASSUME NEW t \in 0..NumTypes
          PROVE  table.first[t] = Cardinality({d \in Listed(table) : d[1] < t})
      BY <2>1, FirstCounts DEF Below
    <2>4. table.total = table.first[NumTypes]
      BY <2>1 DEF Formed
    <2> QED
      BY <2>2, <2>3, <2>4
  <1>4. RecordsBacked
    <2> SUFFICES ASSUME phase # "down", rom = 1, ~torn
                 PROVE  /\ Listed(table) \subseteq DOMAIN files
                        /\ {d \in DOMAIN files : files[d].whole} \subseteq Listed(table)
      BY DEF RecordsBacked
    <2>1. \A w \in Workers : ~HasRom(w)
      BY <1>0 DEF LockInv, RomHeld, WithRom
    <2>2. \A w \in Workers : pc[w] \notin {"unlist", "both", "swap2", "swap3", "insert"}
      BY <2>1 DEF HasRom, Places
    <2>3. \A w \in Workers : \A d : ~Lacks(w, d)
      BY <2>2 DEF Lacks
    <2> QED
      BY <1>0, <2>2, <2>3 DEF BackedInv
  <1> QED
    BY <1>2, <1>3, <1>4 DEF TableSound

\* Whatever the threads, the backup and the crashes do between them, the table
\* can be searched and has the devices that have files: TableInv is inductive
\* (dev_data_init, s_dev_data_add, s_dev_data_del, s_dev_data_swap_id).
THEOREM TableSoundHolds == Spec => []TableSound
  <1>1. Init => TableInv
    BY TableInit
  <1>2. TableInv /\ [Next]_vars => TableInv'
    BY TableNext
  <1>3. TableInv => TableSound
    BY TableSafe
  <1> QED
    BY <1>1, <1>2, <1>3, PTL DEF Spec



-----------------------------------------------------------------------------
(* The backup. *)

\* A backup that is complete in the files is the one of the last states saved.
\* While the program runs and nobody writes, the blocks are those of the CRC;
\* while somebody does, the first blocks are those of the table.
SaveInv ==
    /\ backup = [exists |-> backup.exists, crc |-> backup.crc, blocks |-> backup.blocks]
    /\ backup.exists \in BOOLEAN /\ DOMAIN backup.blocks = Blocks
    /\ backup.exists => synced = States(backup.crc)
    /\ phase = "up" /\ saver = "idle" /\ backup.exists =>
           \A b \in Blocks : backup.blocks[b] = Block(backup.crc, b)
    /\ saver = "blocks" =>
           \A b \in Blocks : b < block => backup.blocks[b] = Block(table, b)
    /\ saver = "blocks" /\ ~dirty =>
           backup.exists /\ \A b \in Blocks : backup.blocks[b] = Block(backup.crc, b)

\* Every record is in a block.
LEMMA InBlock ==
  ASSUME NEW k \in 0..(MaxDevs - 1)  PROVE k \div PerBlock \in Blocks
  <1>1. /\ k \in Nat /\ MaxDevs - 1 \in Nat /\ k <= MaxDevs - 1
        /\ PerBlock \in Nat /\ PerBlock > 0
    BY Sizes, BoundAssumption
  <1>2. PICK m \in Nat, p \in Nat : m = MaxDevs - 1 /\ p = PerBlock /\ p > 0 /\ k <= m
    BY <1>1
  <1>3. k \div p \in Nat /\ m \div p \in Nat /\ k \div p <= m \div p
    BY <1>1, <1>2, Z3
  <1> QED
    BY <1>2, <1>3 DEF Blocks

LEMMA SameBlocks ==
  ASSUME NEW x, NEW y, x.total \in Nat, x.total <= MaxDevs,
         \A b \in Blocks : Block(x, b) = Block(y, b)
  PROVE  x.first = y.first /\ x.total = y.total /\ Records(x) = Records(y)
  <1>0. 0 \in Blocks
    <2>1. 0 \in 0..(MaxDevs - 1)
      BY Sizes
    <2>2. 0 \div PerBlock = 0
      BY BoundAssumption
    <2> QED
      BY <2>1, <2>2, InBlock
  <1>1. x.first = y.first /\ x.total = y.total
    <2>1. Block(x, 0).head = <<x.first, x.total>> /\ Block(y, 0).head = <<y.first, y.total>>
      BY DEF Block
    <2>2. Block(x, 0) = Block(y, 0)
      BY <1>0
    <2> QED
      BY <2>1, <2>2
  <1>2. ASSUME NEW k \in 0..(MaxDevs - 1)  PROVE x.recs[k] = y.recs[k]
    <2>1. PICK b : b = k \div PerBlock
      OBVIOUS
    <2>2. b \in Blocks
      BY <2>1, InBlock
    <2>3. PICK K : K = {m \in 0..(MaxDevs - 1) : m \div PerBlock = b}
      OBVIOUS
    <2>4. k \in K
      BY <2>1, <2>3
    <2>5. Block(x, b).recs = [m \in K |-> x.recs[m]] /\ Block(y, b).recs = [m \in K |-> y.recs[m]]
      BY <2>3 DEF Block
    <2>6. [m \in K |-> x.recs[m]] = [m \in K |-> y.recs[m]]
      BY <2>2, <2>5
    <2> QED
      BY <2>4, <2>6
  <1>3. PICK n \in Nat : n = x.total
    OBVIOUS
  <1>4. \A k \in 0..(n - 1) : k \in 0..(MaxDevs - 1)
    BY <1>3, Sizes
  <1>5. Records(x) = {x.recs[k] : k \in 0..(n - 1)} /\ Records(y) = {y.recs[k] : k \in 0..(n - 1)}
    BY <1>1, <1>3 DEF Records
  <1>6. \A k \in 0..(n - 1) : x.recs[k] = y.recs[k]
    BY <1>2, <1>4
  <1>7. Records(x) = Records(y)
    BY <1>5, <1>6
  <1> QED
    BY <1>1, <1>7

\* What is known of a table by its records.
LEMMA SameRecords ==
  ASSUME NEW x, NEW y, Records(x) = Records(y)
  PROVE  /\ Listed(x) = Listed(y) /\ States(x) = States(y)
         /\ \A d : AddrOf(x, d) = AddrOf(y, d)
  <1>1. Listed(x) = Listed(y)
    BY DEF Listed
  <1>2. \A d : (CHOOSE r \in Records(x) : r.dev = d) = (CHOOSE r \in Records(y) : r.dev = d)
    OBVIOUS
  <1>3. States(x) = States(y)
    BY <1>1 DEF States
  <1>4. \A d : AddrOf(x, d) = AddrOf(y, d)
    BY <1>2 DEF AddrOf
  <1> QED
    BY <1>1, <1>3, <1>4

\* The backup and what is saved in it are left alone, or are deleted.
LEMMA WorkBackup ==
  ASSUME NEW w \in Workers, Work(w)
  PROVE  /\ saver' = saver
         /\ \/ backup' = backup /\ synced' = synced
            \/ HasRam(w) /\ backup' = [backup EXCEPT !.exists = FALSE]
  <1>1. ASSUME NEW j \in Jobs(w), Start(w, j)
        PROVE  saver' = saver /\ backup' = backup /\ synced' = synced
    BY <1>1 DEF Start, disk, saves
  <1>2. ASSUME \/ TakeRom(w) \/ TakeRam(w) \/ GiveUpRom(w) \/ GiveUpRam(w) \/ Leave(w)
               \/ WriteFile(w) \/ WriteRecord(w) \/ Create(w) \/ FillFile(w) \/ AddRecord(w)
        PROVE  saver' = saver /\ backup' = backup /\ synced' = synced
    BY <1>2 DEF TakeRom, TakeRam, GiveUpRom, GiveUpRam, Leave, WriteFile, WriteRecord, Create,
                FillFile, AddRecord, disk, saves, history
  <1>3. ASSUME \/ DelFile(w) \/ DelRecord(w) \/ DelAllFile(w)
               \/ SwapAway(w) \/ SwapOver(w) \/ SwapBack(w) \/ SwapRecords(w)
        PROVE  saver' = saver /\ backup' = backup /\ synced' = synced
    BY <1>3 DEF DelFile, DelRecord, DelAllFile, SwapAway, SwapOver, SwapBack, SwapRecords,
                disk, saves, history
  <1>4. CASE DelAllRecords(w)
    BY <1>4 DEF DelAllRecords, At, HasRam, Places, saves
  <1> QED
    BY <1>1, <1>2, <1>3, <1>4 DEF Work




\* The backup after a step.
LEMMA BackupGone ==
  ASSUME NEW v, v = [exists |-> v.exists, crc |-> v.crc, blocks |-> v.blocks],
         NEW x, x = [v EXCEPT !.exists = FALSE]
  PROVE  x = [exists |-> FALSE, crc |-> v.crc, blocks |-> v.blocks]
  OBVIOUS

LEMMA BackupCrc ==
  ASSUME NEW v, v = [exists |-> v.exists, crc |-> v.crc, blocks |-> v.blocks],
         NEW t, NEW x, x = [v EXCEPT !.crc = t, !.exists = TRUE]
  PROVE  x = [exists |-> TRUE, crc |-> t, blocks |-> v.blocks]
  OBVIOUS

LEMMA BackupBlock ==
  ASSUME NEW v, v = [exists |-> v.exists, crc |-> v.crc, blocks |-> v.blocks],
         NEW b, NEW t, NEW x, x = [v EXCEPT !.blocks[b] = t]
  PROVE  x = [exists |-> v.exists, crc |-> v.crc, blocks |-> [v.blocks EXCEPT ![b] = t]]
  OBVIOUS

LEMMA WorkSave ==
  ASSUME LockInv, SaveInv, NEW w \in Workers, Work(w)
  PROVE  SaveInv'
  <1>0. Frame(w)
    BY WorkFrame
  <1>1. /\ phase = "up" /\ phase' = "up" /\ saver' = saver /\ block' = block /\ dirty' = dirty
        /\ \/ backup' = backup /\ synced' = synced
           \/ HasRam(w) /\ backup' = [backup EXCEPT !.exists = FALSE]
        /\ table' = table \/ HasRam(w)
    BY <1>0, WorkBackup DEF Frame
  <1>2. HasRam(w) => saver = "idle"
    <2>1. HasRam(w) => w \in WithRam
      BY DEF WithRam
    <2> QED
      BY <2>1 DEF LockInv, RamHeld
  <1>3. CASE backup' = backup /\ synced' = synced
    <2>1. saver = "blocks" => table' = table
      BY <1>1, <1>2
    <2>2. SaveInv
      OBVIOUS
    <2>3. \A b : saver = "blocks" => Block(table, b)' = Block(table, b)
      BY <2>1 DEF Block
    <2> QED
      BY <1>1, <1>3, <2>2, <2>3 DEF SaveInv, States
  <1>4. CASE HasRam(w) /\ backup' = [backup EXCEPT !.exists = FALSE]
    <2>1. backup' = [exists |-> FALSE, crc |-> backup.crc, blocks |-> backup.blocks]
      BY <1>4, BackupGone DEF SaveInv
    <2>2. saver' = "idle"
      BY <1>1, <1>2, <1>4
    <2>3. DOMAIN backup.blocks = Blocks
      BY DEF SaveInv
    <2> QED
      BY <2>1, <2>2, <2>3 DEF SaveInv
  <1> QED
    BY <1>1, <1>3, <1>4

LEMMA BlockSave ==
  ASSUME TableInv, SaveInv, SaveBlock
  PROVE  SaveInv'
  <1>0. /\ table' = table /\ phase' = phase /\ saver' = saver /\ saver = "blocks"
        /\ block \in Blocks /\ block' = block + 1 /\ synced' = synced
        /\ Blocks \subseteq Nat
    BY DEF SaveBlock, history, Blocks
  <1>1. PICK n, t : n = block /\ t = Block(table, block)
    OBVIOUS
  <1>2. backup' = [backup EXCEPT !.blocks[n] = t] /\ n \in Blocks
    BY <1>0, <1>1 DEF SaveBlock
  <1>3. backup' = [exists |-> backup.exists, crc |-> backup.crc,
                   blocks |-> [backup.blocks EXCEPT ![n] = t]]
    BY <1>2, BackupBlock DEF SaveInv
  <1>4. /\ backup'.exists = backup.exists /\ backup'.crc = backup.crc
        /\ backup'.blocks = [backup.blocks EXCEPT ![n] = t]
        /\ backup' = [exists |-> backup'.exists, crc |-> backup'.crc, blocks |-> backup'.blocks]
    BY <1>3
  <1>5. /\ DOMAIN backup'.blocks = Blocks
        /\ \A b \in Blocks : backup'.blocks[b] = IF b = n THEN t ELSE backup.blocks[b]
    BY <1>2, <1>4 DEF SaveInv
  <1>6. backup'.exists => synced' = States(backup'.crc)
    BY <1>0, <1>4 DEF SaveInv
  <1>7. \A b \in Blocks : b < n + 1 => backup'.blocks[b] = Block(table, b)
    <2> TAKE b \in Blocks
    <2> HAVE b < n + 1
    <2>1. b = n \/ b < n
      BY <1>0, <1>2
    <2>2. b < n => backup.blocks[b] = Block(table, b)
      BY <1>0, <1>1 DEF SaveInv
    <2> QED
      BY <1>1, <1>5, <2>1, <2>2
  <1>8. ASSUME ~dirty'
        PROVE  backup'.exists /\ \A b \in Blocks : backup'.blocks[b] = Block(backup'.crc, b)
    <2>1. PICK v : v = backup.blocks[block]
      OBVIOUS
    <2>2. dirty' = (dirty \/ v # t)
      BY <1>1, <2>1 DEF SaveBlock
    <2>3. ~dirty /\ v = t
      BY <1>8, <2>2
    <2>4. backup.exists /\ \A b \in Blocks : backup.blocks[b] = Block(backup.crc, b)
      BY <1>0, <2>3 DEF SaveInv
    <2>5. \A b \in Blocks : backup'.blocks[b] = backup.blocks[b]
      BY <1>1, <1>5, <2>1, <2>3
    <2> QED
      BY <1>4, <2>4, <2>5
  <1>9. backup'.exists \in BOOLEAN
    BY <1>4 DEF SaveInv
  <1>10. \A b : Block(table, b)' = Block(table, b)
    BY <1>0 DEF Block
  <1> QED
    BY <1>0, <1>1, <1>4, <1>5, <1>6, <1>7, <1>8, <1>9, <1>10 DEF SaveInv

\* Where the table is that of the CRC, nothing is written and nothing changes.
LEMMA CrcSave ==
  ASSUME TableInv, SaveInv, SaveCrc
  PROVE  /\ SaveInv'
         /\ backup'.exists /\ Records(backup'.crc) = Records(table)
  <1>0. /\ table' = table /\ phase' = "up" /\ saver' = "idle" /\ saver = "blocks"
        /\ block \notin Blocks /\ block \in Nat /\ synced' = States(table)
    BY DEF SaveCrc, TableInv, DiskInv
  <1>1. \A b \in Blocks : b < block
    <2>1. PICK top : top = (MaxDevs - 1) \div PerBlock
      OBVIOUS
    <2>2. Blocks = 0..top /\ top \in Int
      <3>1. MaxDevs - 1 \in Int /\ PerBlock \in Nat /\ PerBlock > 0
        BY Sizes, BoundAssumption
      <3> QED
        BY <2>1, <3>1 DEF Blocks
    <2> QED
      BY <1>0, <2>2
  <1>2. \A b \in Blocks : backup.blocks[b] = Block(table, b)
    BY <1>0, <1>1 DEF SaveInv
  <1>3. CASE dirty
    <2>1. backup' = [backup EXCEPT !.crc = table, !.exists = TRUE]
      BY <1>3 DEF SaveCrc
    <2>2. backup' = [exists |-> TRUE, crc |-> table, blocks |-> backup.blocks]
      BY <2>1, BackupCrc DEF SaveInv
    <2>3. /\ backup'.exists = TRUE /\ backup'.crc = table /\ backup'.blocks = backup.blocks
          /\ DOMAIN backup.blocks = Blocks
      BY <2>2 DEF SaveInv
    <2> QED
      BY <1>0, <1>2, <2>2, <2>3 DEF SaveInv
  <1>4. CASE ~dirty
    <2>1. backup' = backup
      BY <1>4 DEF SaveCrc
    <2>2. backup.exists /\ \A b \in Blocks : backup.blocks[b] = Block(backup.crc, b)
      BY <1>0, <1>4 DEF SaveInv
    <2>3. table.total \in Nat /\ table.total <= MaxDevs
      BY TableParts DEF TableInv, TablesInv, Sound, Formed
    <2>4. \A b \in Blocks : Block(table, b) = Block(backup.crc, b)
      BY <1>2, <2>2
    <2>5. Records(table) = Records(backup.crc)
      BY <2>3, <2>4, SameBlocks
    <2>6. synced' = States(backup.crc)
      BY <1>0, <2>5, SameRecords
    <2> QED
      BY <1>0, <2>1, <2>2, <2>5, <2>6 DEF SaveInv
  <1> QED
    BY <1>3, <1>4

LEMMA SaveInit == Init => SaveInv
  <1> SUFFICES ASSUME Init  PROVE SaveInv
    OBVIOUS
  <1>1. backup = [exists |-> FALSE, crc |-> EmptyTable,
                  blocks |-> [b \in Blocks |-> Block(EmptyTable, b)]]
    BY DEF Init
  <1>2. /\ backup.exists = FALSE /\ DOMAIN backup.blocks = Blocks /\ saver = "idle"
        /\ backup = [exists |-> backup.exists, crc |-> backup.crc, blocks |-> backup.blocks]
    BY <1>1 DEF Init
  <1> QED
    BY <1>2 DEF SaveInv

LEMMA SaveNext == TableInv /\ SaveInv /\ [Next]_vars => SaveInv'
  <1> SUFFICES ASSUME TableInv, SaveInv, [Next]_vars  PROVE SaveInv'
    OBVIOUS
  <1>1. ASSUME NEW w \in Workers, Work(w)  PROVE SaveInv'
    BY <1>1, WorkSave DEF TableInv
  <1>2. \A b \in Blocks : b \in Nat
    BY DEF Blocks
  <1>3. CASE SyncStart
    <2>1. /\ table' = table /\ phase' = phase /\ phase = "up" /\ saver = "idle" /\ backup.exists
          /\ backup' = backup /\ synced' = synced
          /\ saver' = "blocks" /\ block' = 0 /\ dirty' = FALSE
      BY <1>3 DEF SyncStart, disk, history
    <2>2. \A b \in Blocks : ~(b < block')
      BY <1>2, <2>1
    <2> QED
      BY <2>1, <2>2 DEF SaveInv
  <1>4. CASE SaveBlock
    BY <1>4, BlockSave
  <1>5. CASE SaveCrc
    BY <1>5, CrcSave
  <1>6. CASE Crash
    BY <1>6 DEF Crash, SaveInv, disk
  <1>7. CASE Boot
    <2>1. /\ phase' = "boot" /\ saver' = "blocks" /\ block' = 0 /\ dirty' = TRUE
          /\ backup' = backup /\ synced' = synced
      BY <1>7 DEF Boot, disk, history
    <2>2. \A b \in Blocks : ~(b < block')
      BY <1>2, <2>1
    <2> QED
      BY <2>1, <2>2 DEF SaveInv
  <1>8. CASE UNCHANGED vars
    <2>1. /\ table' = table /\ phase' = phase /\ saver' = saver /\ block' = block
          /\ dirty' = dirty /\ backup' = backup /\ synced' = synced
      BY <1>8 DEF vars, disk, saves, history
    <2> QED
      BY <2>1 DEF SaveInv, Block
  <1> QED
    BY <1>1, <1>3, <1>4, <1>5, <1>6, <1>7, <1>8 DEF Next, Work




\* A sorted table has one record of a device.
LEMMA OneRecord ==
  ASSUME NEW tab, Exact(tab), NEW r \in Records(tab)
  PROVE  /\ r.dev \in Listed(tab) /\ AddrOf(tab, r.dev) = r.addr
         /\ States(tab)[r.dev] = r.level
         /\ \A s \in Records(tab) : s.dev = r.dev => s = r
  <1>1. PICK n \in Nat : n = tab.total
    BY TableParts DEF Exact, Formed
  <1>2. Records(tab) = {tab.recs[k] : k \in 0..(n - 1)}
    BY <1>1 DEF Records
  <1>3. PICK k \in 0..(n - 1) : r = tab.recs[k]
    BY <1>2
  <1>4. ASSUME NEW m \in 0..(n - 1), tab.recs[m].dev = r.dev  PROVE tab.recs[m] = r
    <2>1. /\ m < k => Before(r.dev, r.dev)
          /\ k < m => Before(r.dev, r.dev)
          /\ r.dev \in Devs
      BY <1>1, <1>3, <1>4 DEF Exact
    <2>2. m = k
      BY <2>1, BeforeOrder
    <2> QED
      BY <1>3, <2>2
  <1>5. \A s \in Records(tab) : s.dev = r.dev => s = r
    BY <1>2, <1>4
  <1>6. r.dev \in Listed(tab)
    BY DEF Listed
  <1>7. (CHOOSE s \in Records(tab) : s.dev = r.dev) = r
    BY <1>5
  <1>8. AddrOf(tab, r.dev) = r.addr
    BY <1>7 DEF AddrOf
  <1>9. States(tab)[r.dev] = r.level
    BY <1>6, <1>7 DEF States
  <1> QED
    BY <1>5, <1>6, <1>8, <1>9

\* The table after a start: each record is of the backup or is new.
LEMMA BootRecords ==
  ASSUME TableInv, Boot, ~torn
  PROVE  /\ Exact(table') /\ Listed(table') = DOMAIN files
         /\ \A r \in Records(table') :
                \/ backup.exists /\ r \in Records(backup.crc)
                \/ /\ r.level = 1 /\ r.dev \in DOMAIN files
                   /\ files[r.dev].addr \in {NoAddr, r.addr}
  <1>0. PICK rubbish \in Addrs \cup {NoAddr} : table' = Restored(rubbish).tab
    BY DEF Boot
  <1>1. FilesOK /\ DiskOK
    BY DEF TableInv, DiskInv, FilesTyped, FilesOK, DiskOK, File
  <1>2. Cardinality(DOMAIN files) <= MaxDevs
    <2>1. Cardinality(DOMAIN files) \in Nat /\ Cardinality(DOMAIN tmp) \in Nat
      BY <1>1, BelowCounts, FS_CardinalityType DEF DiskOK
    <2>2. Cardinality(DOMAIN files) + Cardinality(DOMAIN tmp) <= MaxDevs
      BY <2>1, Sizes DEF Boot, Overflows
    <2> QED
      BY <2>1, <2>2, Sizes
  <1>3. DOMAIN tmp = {}
    <2>1. \A w \in Workers : pc[w] = "idle"
      BY DEF Boot, TableInv, LockInv, Quiet
    <2> QED
      BY <2>1 DEF TableInv, BackedInv
  <1>4. \/ Checkout = backup.crc /\ backup.exists
        \/ Checkout = EmptyTable
    BY DEF Checkout
  <1>5. Exact(Checkout) /\ Checkout.total <= MaxDevs
    <2>1. Exact(backup.crc) /\ backup.crc.total <= MaxDevs
      BY DEF TableInv, TablesInv, Sound
    <2> QED
      BY <1>4, <2>1, EmptyExact, Sizes
  <1>6. Merge(rubbish, Restored(rubbish))
    BY <1>1, <1>2, <1>3, <1>5, RestoredExact
  <1>7. /\ Exact(table') /\ Listed(table') = DOMAIN files
        /\ Records(table') \subseteq Records(Checkout) \cup Added(rubbish)
    BY <1>0, <1>6 DEF Merge
  <1>8. Records(EmptyTable) = {}
    BY EmptyExact DEF Listed
  <1>9. \A r \in Added(rubbish) : /\ r.level = 1 /\ r.dev \in DOMAIN files
                                  /\ files[r.dev].addr \in {NoAddr, r.addr}
    <2> TAKE r \in Added(rubbish)
    <2>1. r.dev \in DOMAIN files /\ r = Fresh(r.dev, rubbish)
      BY DEF Added
    <2>2. /\ Fresh(r.dev, rubbish).level = 1
          /\ Fresh(r.dev, rubbish).addr = files[r.dev].addr \/ files[r.dev].addr = NoAddr
      BY <1>1, <2>1, FreshIs
    <2> QED
      BY <2>1, <2>2
  <1> QED
    BY <1>4, <1>7, <1>8, <1>9

LEMMA BootStates ==
  ASSUME TableInv, SaveInv, Boot, ~torn, NEW d \in Listed(table')
  PROVE  States(table')[d] \in {1} \cup {synced[e] : e \in DOMAIN synced \cap {d}}
  <1>0. /\ Exact(table')
        /\ \A r \in Records(table') : \/ backup.exists /\ r \in Records(backup.crc)
                                      \/ r.level = 1
    BY BootRecords
  <1>1. PICK r \in Records(table') : r.dev = d
    BY DEF Listed
  <1>2. States(table')[d] = r.level
    BY <1>0, <1>1, OneRecord
  <1>3. CASE r.level = 1
    BY <1>2, <1>3
  <1>4. CASE backup.exists /\ r \in Records(backup.crc)
    <2>1. Exact(backup.crc)
      BY DEF TableInv, TablesInv, Sound
    <2>2. d \in Listed(backup.crc) /\ States(backup.crc)[d] = r.level
      BY <1>1, <1>4, <2>1, OneRecord
    <2>3. synced = States(backup.crc)
      BY <1>4 DEF SaveInv
    <2>4. d \in DOMAIN synced /\ synced[d] = r.level
      BY <2>2, <2>3 DEF States
    <2> QED
      BY <1>2, <2>4
  <1> QED
    BY <1>0, <1>1, <1>3, <1>4

\* After a start the state of a device is the one of the last complete backup or the
\* default, after crashes at any step of the writing of blocks (s_dev_data_state_write,
\* s_dev_data_state_checkout).
THEOREM RestoreExactHolds == Spec => RestoreExact
  <1>1. Init => TableInv /\ SaveInv
    BY TableInit, SaveInit
  <1>2. TableInv /\ SaveInv /\ [Next]_vars => (TableInv /\ SaveInv)'
    BY TableNext, SaveNext
  <1>3. ASSUME TableInv, SaveInv, [Next]_vars
        PROVE  [Boot /\ ~torn => \A d \in Listed(table') :
                   States(table')[d] \in {1} \cup {synced[e] : e \in DOMAIN synced \cap {d}}]_vars
    BY <1>3, BootStates
  <1>4. TableInv /\ SaveInv /\ [Next]_vars =>
            [Boot /\ ~torn => \A d \in Listed(table') :
                States(table')[d] \in {1} \cup {synced[e] : e \in DOMAIN synced \cap {d}}]_vars
    BY <1>3
  <1> QED
    BY <1>1, <1>2, <1>4, PTL DEF Spec, RestoreExact




-----------------------------------------------------------------------------
(* The addresses. *)

Betwixt(v, x) == pc[v] \in {"ram", "record"} /\ Op(v) = "readdress" /\ job[v].dev = x

\* What may be in the file of the device x: the address in its record, or the one
\* that is on its way there.
Good(x, a) ==
    /\ x \in Listed(table) =>
           a \in {NoAddr, AddrOf(table, x)} \/ x \in suspect \/ Between(x)
    /\ \A v \in Workers : Betwixt(v, x) => a \in {NoAddr, job[v].addr} \/ x \in suspect

\* The files of the two that are swapped are under other names.
SwapGood(w) ==
    LET d == job[w].dev
        e == job[w].with
    IN  /\ pc[w] \in {"swap2", "swap3"} => Good(d, tmp[d].addr)
        /\ pc[w] \in {"swap3", "swap4"} => Good(e, files[d].addr)
        /\ pc[w] = "swap4" => Good(d, files[e].addr)

Swapped(w, x) == pc[w] \in {"swap3", "swap4"} /\ x \in {job[w].dev, job[w].with}

AddrInv ==
    ~torn =>
        /\ \A x \in DOMAIN files :
               Good(x, files[x].addr) \/ \E w \in Workers : Swapped(w, x)
        /\ \A w \in Workers : SwapGood(w)
        /\ \A w \in Workers : pc[w] = "insert" => files[job[w].dev].addr = job[w].addr

\* One thread deals with Zigbee events.
EventsInv ==
    \A w \in Workers :
        /\ pc[w] \in {"rom", "ram", "file", "record", "both"} /\ Op(w) \in {"readdress", "add"} =>
               w = Events
        /\ pc[w] \in {"fill", "insert"} => w = Events

\* The file agrees with the backup, or is known not to.
Settled(x, a) ==
    x \in Listed(backup.crc) => a \in {NoAddr, AddrOf(backup.crc, x)} \/ x \in moved

MovedInv ==
    ~torn =>
        /\ backup.exists =>
               \A x \in DOMAIN files :
                   \/ Settled(x, files[x].addr)
                   \/ \E w \in Workers : pc[w] = "swap3" /\ job[w].dev = x
        /\ phase # "up" => moved \subseteq suspect




LEMMA WorkEvents ==
  ASSUME LockInv, EventsInv, NEW w \in Workers, Work(w)
  PROVE  EventsInv'
  <1> USE DEF Places
  <1>0. /\ pc \in [Workers -> Places] /\ DOMAIN job = Workers /\ Frame(w)
    BY WorkFrame DEF LockInv
  <1>1. SUFFICES /\ /\ pc'[w] \in {"rom", "ram", "file", "record", "both"}
                    /\ job'[w].op \in {"readdress", "add"}
                    => w = Events
                 /\ pc'[w] \in {"fill", "insert"} => w = Events
    BY <1>0 DEF Frame, EventsInv, Op
  <1>2. /\ /\ pc[w] \in {"rom", "ram", "file", "record", "both"}
           /\ job[w].op \in {"readdress", "add"}
           => w = Events
        /\ pc[w] \in {"fill", "insert"} => w = Events
    BY DEF EventsInv, Op
  <1>3. ASSUME NEW j \in Jobs(w), Start(w, j), j.op \in {"readdress", "add"}
        PROVE  w = Events
    <2> SUFFICES ASSUME w # Events  PROVE FALSE
      OBVIOUS
    <2>1. \/ j \in [op : {"rename", "level", "del"}, dev : Devs]
          \/ j \in [op : {"swap"}, dev : Devs, with : Devs]
          \/ j \in [op : {"delall"}, k : {0}]
      BY DEF Jobs
    <2> QED
      BY <1>3, <2>1
  <1>4. ASSUME NEW j \in Jobs(w), Start(w, j)
        PROVE  pc'[w] \in {"ram", "rom"} /\ job'[w] = j
    BY <1>0, <1>4 DEF Start, Goto
  <1>5. CASE \E j \in Jobs(w) : Start(w, j)
    BY <1>3, <1>4, <1>5
  <1>6. CASE TakeRom(w) \/ TakeRam(w) \/ GiveUpRom(w) \/ GiveUpRam(w) \/ Leave(w)
             \/ WriteFile(w) \/ WriteRecord(w)
    BY <1>0, <1>2, <1>6 DEF TakeRom, TakeRam, GiveUpRom, GiveUpRam, Leave, WriteFile,
            WriteRecord, At, Goto, Op
  <1>7. CASE Create(w)
    <2>1. pc[w] = "both" /\ job[w].op = "add"
      BY <1>7 DEF Create, At, Op
    <2> QED
      BY <1>2, <2>1
  <1>8. CASE FillFile(w)
    BY <1>0, <1>2, <1>8 DEF FillFile, At, Goto
  <1>9. CASE AddRecord(w) \/ DelFile(w) \/ DelRecord(w) \/ DelAllRecords(w)
             \/ SwapAway(w) \/ SwapOver(w) \/ SwapBack(w) \/ SwapRecords(w)
    BY <1>0, <1>9 DEF AddRecord, DelFile, DelRecord, DelAllRecords, SwapAway,
            SwapOver, SwapBack, SwapRecords, At, Goto
  <1>10. CASE DelAllFile(w)
    <2>1. pc[w] = "both" /\ job[w].op = "delall"
      BY <1>10 DEF DelAllFile, At, Op
    <2>2. \/ pc' = pc /\ job' = [job EXCEPT ![w].k = @ + 1]
          \/ pc' = [pc EXCEPT ![w] = "leave"]
      BY <1>10 DEF DelAllFile, Goto
    <2>3. ASSUME pc' = pc, job' = [job EXCEPT ![w].k = @ + 1]
          PROVE  pc'[w] = "both" /\ job'[w].op = "delall"
      BY <1>0, <2>1, <2>3
    <2> QED
      BY <1>0, <2>2, <2>3
  <1> QED
    BY <1>5, <1>6, <1>7, <1>8, <1>9, <1>10 DEF Work

-----------------------------------------------------------------------------

\* What is good for the address of x stays good.
GoodSteady(w, x) ==
    /\ x \in Listed(table') => x \in Listed(table) /\ AddrOf(table', x) = AddrOf(table, x)
    /\ x \in suspect => x \in suspect'
    /\ Betwixt(w, x)' => Betwixt(w, x) /\ job'[w].addr = job[w].addr
    /\ Betwixt(w, x) => Betwixt(w, x)' \/ x \in suspect'

LEMMA GoodStays ==
  ASSUME NEW w \in Workers, Frame(w), NEW x, GoodSteady(w, x), NEW a, Good(x, a)
  PROVE  Good(x, a)'
  <1>1. \A v \in Workers : v # w => pc'[v] = pc[v] /\ job'[v] = job[v]
    BY DEF Frame
  <1>2. \A v \in Workers : v # w => (Betwixt(v, x)' <=> Betwixt(v, x))
    BY <1>1 DEF Betwixt, Op
  <1>3. Between(x) <=> \E v \in Workers : Betwixt(v, x)
    BY DEF Between, Betwixt
  <1>4. Between(x)' <=> \E v \in Workers : Betwixt(v, x)'
    BY DEF Between, Betwixt
  <1>5. Between(x) => Between(x)' \/ x \in suspect'
    BY <1>2, <1>3, <1>4 DEF GoodSteady
  <1>6. x \in Listed(table)' =>
            a \in {NoAddr, AddrOf(table, x)'} \/ x \in suspect' \/ Between(x)'
    <2> SUFFICES ASSUME x \in Listed(table')
                 PROVE  a \in {NoAddr, AddrOf(table', x)} \/ x \in suspect' \/ Between(x)'
      OBVIOUS
    <2>1. x \in Listed(table) /\ AddrOf(table', x) = AddrOf(table, x)
      BY DEF GoodSteady
    <2>2. a \in {NoAddr, AddrOf(table, x)} \/ x \in suspect \/ Between(x)
      BY <2>1 DEF Good
    <2> QED
      BY <1>5, <2>1, <2>2 DEF GoodSteady
  <1>7. ASSUME NEW v \in Workers, Betwixt(v, x)'
        PROVE  a \in {NoAddr, job'[v].addr} \/ x \in suspect'
    <2>1. Betwixt(v, x) /\ job'[v].addr = job[v].addr
      BY <1>1, <1>2, <1>7 DEF GoodSteady
    <2>2. a \in {NoAddr, job[v].addr} \/ x \in suspect
      BY <2>1 DEF Good
    <2> QED
      BY <2>1, <2>2 DEF GoodSteady
  <1> QED
    BY <1>6, <1>7 DEF Good

\* AddrInv, if only the thread w swaps or inserts.
AddrBy(w) ==
    ~torn =>
        /\ \A x \in DOMAIN files : Good(x, files[x].addr) \/ Swapped(w, x)
        /\ SwapGood(w)
        /\ pc[w] = "insert" => files[job[w].dev].addr = job[w].addr

LEMMA AddrStart ==
  ASSUME LockInv, NEW w \in Workers, phase = "up", HasRom(w) \/ HasRam(w), AddrInv
  PROVE  AddrBy(w)
  <1>1. \A v \in Workers : v # w => pc[v] \notin {"swap2", "swap3", "swap4", "insert"}
    BY Alone DEF HasRom, HasRam, Places
  <1>2. \A v \in Workers : \A x : Swapped(v, x) => v = w
    BY <1>1 DEF Swapped
  <1> QED
    BY <1>2 DEF AddrInv, AddrBy

LEMMA AddrEnd ==
  ASSUME LockInv, NEW w \in Workers, Frame(w), HasRom(w) \/ HasRam(w), AddrBy(w)'
  PROVE  AddrInv'
  <1>1. \A v \in Workers : v # w => pc[v] \notin {"swap2", "swap3", "swap4", "insert"}
    BY Alone DEF HasRom, HasRam, Places
  <1>2. \A v \in Workers : v # w => pc'[v] \notin {"swap2", "swap3", "swap4", "insert"}
    BY <1>1 DEF Frame
  <1>3. \A v \in Workers : v # w => SwapGood(v)'
    BY <1>2 DEF SwapGood
  <1>4. ASSUME ~torn'
        PROVE  /\ \A x \in DOMAIN files' : Good(x, files[x].addr)' \/ Swapped(w, x)'
               /\ SwapGood(w)'
               /\ pc'[w] = "insert" => files'[job'[w].dev].addr = job'[w].addr
    BY <1>4 DEF AddrBy
  <1> QED
    BY <1>2, <1>3, <1>4 DEF AddrInv

\* A step that changes neither files nor records.
LEMMA AddrSame ==
  ASSUME LockInv, NEW w \in Workers, Frame(w), AddrInv, files' = files, tmp' = tmp,
         \A x : GoodSteady(w, x),
         pc[w] \notin {"swap3", "swap4"},
         pc'[w] \notin {"swap2", "swap3", "swap4", "insert"}
  PROVE  AddrInv'
  <1>1. \A v \in Workers : v # w => pc'[v] = pc[v] /\ job'[v] = job[v]
    BY DEF Frame
  <1>2. \A x, a : Good(x, a) => Good(x, a)'
    BY GoodStays
  <1>3. \A v \in Workers : \A x : Swapped(v, x) => Swapped(v, x)'
    BY <1>1 DEF Swapped
  <1>4. ASSUME ~torn'
        PROVE  /\ \A x \in DOMAIN files :
                      Good(x, files[x].addr) \/ \E v \in Workers : Swapped(v, x)
               /\ \A v \in Workers : SwapGood(v)
               /\ \A v \in Workers : pc[v] = "insert" => files[job[v].dev].addr = job[v].addr
    BY <1>4 DEF AddrInv, Frame
  <1>5. ASSUME ~torn', NEW x \in DOMAIN files'
        PROVE  Good(x, files[x].addr)' \/ \E v \in Workers : Swapped(v, x)'
    <2>1. PICK a : a = files[x].addr
      OBVIOUS
    <2>2. Good(x, a) \/ \E v \in Workers : Swapped(v, x)
      BY <1>4, <1>5, <2>1
    <2>3. Good(x, a)' \/ \E v \in Workers : Swapped(v, x)'
      BY <1>2, <1>3, <2>2
    <2>4. files'[x].addr = a
      BY <2>1
    <2> QED
      BY <2>3, <2>4 DEF Good
  <1>6. ASSUME ~torn', NEW v \in Workers  PROVE SwapGood(v)'
    <2>1. CASE v = w
      BY <2>1 DEF SwapGood
    <2>2. CASE v # w
      <3>1. PICK d, e, a, b, c : /\ d = job[v].dev /\ e = job[v].with /\ a = tmp[d].addr
                                 /\ b = files[d].addr /\ c = files[e].addr
        OBVIOUS
      <3>2. /\ pc[v] \in {"swap2", "swap3"} => Good(d, a)
            /\ pc[v] \in {"swap3", "swap4"} => Good(e, b)
            /\ pc[v] = "swap4" => Good(d, c)
        BY <1>4, <1>6, <3>1 DEF SwapGood
      <3>3. /\ pc[v] \in {"swap2", "swap3"} => Good(d, a)'
            /\ pc[v] \in {"swap3", "swap4"} => Good(e, b)'
            /\ pc[v] = "swap4" => Good(d, c)'
        BY <1>2, <3>2
      <3>4. /\ pc'[v] = pc[v] /\ d = job'[v].dev /\ e = job'[v].with /\ a = tmp'[d].addr
            /\ b = files'[d].addr /\ c = files'[e].addr
        BY <1>1, <2>2, <3>1
      <3> QED
        BY <3>3, <3>4 DEF SwapGood, Good
    <2> QED
      BY <2>1, <2>2
  <1>7. ASSUME ~torn', NEW v \in Workers, pc'[v] = "insert"
        PROVE  files'[job'[v].dev].addr = job'[v].addr
    BY <1>1, <1>4, <1>7
  <1> QED
    BY <1>5, <1>6, <1>7 DEF AddrInv

\* A thread with a lock, at a place where it neither swaps nor inserts.
LEMMA AddrPlain ==
  ASSUME LockInv, NEW w \in Workers, Frame(w), HasRom(w) \/ HasRam(w),
         pc'[w] \notin {"swap2", "swap3", "swap4", "insert"},
         ~torn => \A x \in DOMAIN files' : \E a : a = files'[x].addr /\ Good(x, a)'
  PROVE  AddrInv'
  <1>1. SwapGood(w)' /\ \A x : ~Swapped(w, x)'
    BY DEF SwapGood, Swapped
  <1>2. ASSUME ~torn'
        PROVE  \A x \in DOMAIN files' : Good(x, files[x].addr)'
    <2>1. ~torn
      BY <1>2 DEF Frame
    <2> TAKE x \in DOMAIN files'
    <2>2. PICK a : a = files'[x].addr /\ Good(x, a)'
      BY <2>1
    <2> QED
      BY <2>2 DEF Good
  <1>3. AddrBy(w)'
    BY <1>1, <1>2 DEF AddrBy
  <1> QED
    BY <1>3, AddrEnd



LEMMA SteadyAll ==
  ASSUME NEW w, table' = table, suspect \subseteq suspect',
         pc[w] \notin {"ram", "record"}, pc'[w] \notin {"ram", "record"}
  PROVE  \A x : GoodSteady(w, x)
  BY DEF GoodSteady, Betwixt

LEMMA SubAddr ==
  ASSUME NEW x, Exact(x), NEW y, Exact(y), Records(y) \subseteq Records(x), NEW d \in Listed(y)
  PROVE  d \in Listed(x) /\ AddrOf(x, d) = AddrOf(y, d)
  <1>1. PICK r \in Records(y) : r.dev = d
    BY DEF Listed
  <1>2. r \in Records(x)
    BY <1>1
  <1> QED
    BY <1>1, <1>2, OneRecord

LEMMA AddrAt ==
  ASSUME NEW tab, Exact(tab), NEW k \in 0..(tab.total - 1)
  PROVE  tab.recs[k].dev \in Listed(tab) /\ AddrOf(tab, tab.recs[k].dev) = tab.recs[k].addr
  <1>1. tab.recs[k] \in Records(tab)
    BY DEF Records
  <1> QED
    BY <1>1, OneRecord

\* The addresses after the record of one device has changed.
LEMMA HoldsAddr ==
  ASSUME NEW tab, Exact(tab), NEW new, Same(tab, new), NEW k \in Slots, NEW r,
         Holds(tab, k, r, new), NEW x \in Listed(tab)
  PROVE  /\ x # tab.recs[k].dev => AddrOf(new, x) = AddrOf(tab, x)
         /\ x = tab.recs[k].dev /\ k \in 0..(tab.total - 1) => AddrOf(new, x) = r.addr
  <1>1. PICK n : n = tab.total
    OBVIOUS
  <1>2. n \in Nat /\ n <= 2 * MaxDevs /\ new.total = n /\ Exact(new)
    <2>1. Exact(new)
      BY SameSound DEF Exact
    <2> QED
      BY <1>1, <2>1, TableParts DEF Exact, Formed, Same
  <1>3. \A i \in 0..(n - 1) : i \in Slots
    BY <1>2, Sizes
  <1>4. PICK i \in 0..(n - 1) : tab.recs[i].dev = x
    BY <1>1, ListedIs
  <1>5. AddrOf(tab, x) = tab.recs[i].addr
    BY <1>1, <1>4, AddrAt
  <1>6. new.recs[i].dev = x
    BY <1>3, <1>4 DEF Same
  <1>7. AddrOf(new, x) = new.recs[i].addr
    BY <1>2, <1>4, <1>6, AddrAt
  <1>8. ASSUME x # tab.recs[k].dev  PROVE new.recs[i] = tab.recs[i]
    <2>1. i # k
      BY <1>4, <1>8
    <2> QED
      BY <1>3, <2>1 DEF Holds
  <1>9. ASSUME x = tab.recs[k].dev, k \in 0..(n - 1)  PROVE new.recs[i] = r
    <2>1. /\ i < k => Before(x, x)
          /\ k < i => Before(x, x)
          /\ x \in Devs
      BY <1>1, <1>4, <1>9 DEF Exact
    <2>2. i = k
      BY <1>9, <2>1, BeforeOrder
    <2> QED
      BY <1>3, <2>2 DEF Holds
  <1> QED
    BY <1>1, <1>5, <1>7, <1>8, <1>9

LEMMA FileAddr ==
  ASSUME LockInv, DiskInv, TablesInv, EventsInv, EventsInv', AddrInv, ~torn,
         NEW w \in Workers, WriteFile(w)
  PROVE  \A x \in DOMAIN files' : \E a : a = files'[x].addr /\ Good(x, a)'
  <1>0. /\ pc \in [Workers -> Places] /\ Frame(w) /\ JobOK(w) /\ RightPlace(w)
        /\ FilesTyped(files) /\ phase = "up"
    BY WorkFrame DEF LockInv, DiskInv, Work, Frame
  <1>1. /\ pc[w] = "file" /\ pc'[w] \in {"idle", "ram"} /\ Asked(job[w]) /\ RomOnly(w)
        /\ table' = table /\ job' = job /\ suspect' = suspect
    BY <1>0 DEF WriteFile, At, Goto, JobOK, RightPlace
  <1>2. HasRom(w)
    BY <1>1 DEF HasRom, Places
  <1>3. \A x \in DOMAIN files : Good(x, files[x].addr)
    BY <1>0, <1>1, <1>2, AddrStart DEF AddrBy, Swapped
  <1>4. PICK d, v : /\ d = job[w].dev
                    /\ v = LET old == IF d \in DOMAIN files THEN files[d] ELSE Empty
                           IN  IF Op(w) = "readdress" THEN [old EXCEPT !.addr = job[w].addr]
                               ELSE old
    OBVIOUS
  <1>5. d \in DOMAIN files => files[d] \in File
    BY <1>0 DEF FilesTyped
  <1>6. /\ Op(w) = "readdress" => v.addr = job[w].addr
        /\ Op(w) # "readdress" => v.addr = IF d \in DOMAIN files THEN files[d].addr ELSE NoAddr
    BY <1>4, <1>5 DEF File, Empty
  <1>7. \/ files' = files /\ pc'[w] = "idle"
        \/ files' = Put(files, d, v) /\ Op(w) = "readdress" /\ pc'[w] = "ram"
        \/ files' = Put(files, d, v) /\ Op(w) # "readdress" /\ pc'[w] = "idle"
    BY <1>0, <1>4 DEF WriteFile, Goto
  <1>8. \A x : x # d \/ pc'[w] = "idle" => GoodSteady(w, x)
    BY <1>1, <1>4 DEF GoodSteady, Betwixt
  <1>9. ASSUME NEW x \in DOMAIN files, GoodSteady(w, x), files'[x].addr = files[x].addr
        PROVE  \E a : a = files'[x].addr /\ Good(x, a)'
    <2>1. PICK a : a = files[x].addr
      OBVIOUS
    <2>2. Good(x, a)'
      BY <1>0, <1>3, <1>9, <2>1, GoodStays
    <2> QED
      BY <1>9, <2>1, <2>2
  <1>10. CASE files' = files /\ pc'[w] = "idle"
    BY <1>8, <1>9, <1>10
  <1>11. ASSUME files' = Put(files, d, v), NEW x \in DOMAIN files', x # d
         PROVE  \E a : a = files'[x].addr /\ Good(x, a)'
    <2>1. x \in DOMAIN files /\ files'[x] = files[x]
      BY <1>11 DEF Put
    <2> QED
      BY <1>8, <1>9, <1>11, <2>1
  <1>12. files' = Put(files, d, v) => files'[d] = v
    BY DEF Put
  <1>13. CASE files' = Put(files, d, v) /\ Op(w) = "readdress" /\ pc'[w] = "ram"
    <2>1. PICK a : a = job[w].addr
      OBVIOUS
    <2>2. files'[d].addr = a
      BY <1>6, <1>12, <1>13, <2>1
    <2>3. Between(d)'
      BY <1>1, <1>4, <1>13 DEF Between, Op
    <2>4. w = Events
      BY <1>1, <1>13 DEF EventsInv
    <2>5. \A u \in Workers : Betwixt(u, d)' => u = Events
      BY DEF EventsInv, Betwixt
    <2>6. Good(d, a)'
      BY <1>1, <2>1, <2>3, <2>4, <2>5 DEF Good
    <2> QED
      BY <1>11, <1>13, <2>2, <2>6
  <1>14. CASE files' = Put(files, d, v) /\ Op(w) # "readdress" /\ pc'[w] = "idle"
    <2>1. CASE d \in DOMAIN files
      <3>1. files'[d].addr = files[d].addr
        BY <1>6, <1>12, <1>14, <2>1
      <3>2. \E a : a = files'[d].addr /\ Good(d, a)'
        BY <1>8, <1>9, <1>14, <2>1, <3>1
      <3> QED
        BY <1>11, <1>14, <3>2
    <2>2. CASE d \notin DOMAIN files
      <3>1. files'[d].addr = NoAddr
        BY <1>6, <1>12, <1>14, <2>2
      <3>2. Good(d, NoAddr)'
        BY DEF Good
      <3> QED
        BY <1>11, <1>14, <3>1, <3>2
    <2> QED
      BY <2>1, <2>2
  <1> QED
    BY <1>7, <1>10, <1>13, <1>14

LEMMA RecordAddr ==
  ASSUME LockInv, DiskInv, TablesInv, EventsInv, EventsInv', AddrInv, ~torn,
         NEW w \in Workers, WriteRecord(w)
  PROVE  \A x \in DOMAIN files' : \E a : a = files'[x].addr /\ Good(x, a)'
  <1>0. /\ pc \in [Workers -> Places] /\ Frame(w) /\ JobOK(w) /\ RightPlace(w)
        /\ phase = "up" /\ Exact(table) /\ Formed(table) /\ table.total <= MaxDevs
    BY WorkFrame DEF LockInv, DiskInv, Work, Frame, TablesInv, Sound
  <1>1. /\ pc[w] = "record" /\ pc'[w] = "idle" /\ Asked(job[w]) /\ RamOnly(w)
        /\ files' = files /\ job' = job
    BY <1>0 DEF WriteRecord, At, Goto, JobOK, RightPlace, disk
  <1>2. HasRam(w)
    BY <1>1 DEF HasRam, Places
  <1>3. \A x \in DOMAIN files : Good(x, files[x].addr)
    BY <1>0, <1>1, <1>2, AddrStart DEF AddrBy, Swapped
  <1>4. PICK d, k : d = job[w].dev /\ k = Search(table, d)
    OBVIOUS
  <1>5. /\ d \in Devs
        /\ Op(w) = "level" \/ Op(w) = "readdress"
        /\ suspect' = IF /\ Op(w) = "readdress" /\ d \in DOMAIN files
                         /\ files[d].addr = job[w].addr
                      THEN suspect \ {d} ELSE suspect
    BY <1>1, <1>4 DEF Asked, RamOnly, Op, WriteRecord
  <1>6. \A x : ~Betwixt(w, x)'
    BY <1>1 DEF Betwixt
  <1>7. k # -1 => k \in 0..(table.total - 1) /\ k \in Slots /\ table.recs[k].dev = d
    BY <1>0, <1>4, <1>5, FoundAt
  <1>8. /\ \A x \in Listed(table') : x \in Listed(table)
        /\ \A x \in Listed(table) : x # d \/ Op(w) = "level" => AddrOf(table', x) = AddrOf(table, x)
        /\ Op(w) = "readdress" /\ d \in Listed(table') => AddrOf(table', d) = job[w].addr
    <2>1. CASE k = -1 /\ table' = table
      <3>1. d \notin Listed(table)
        BY <1>0, <1>4, <1>5, <2>1, SearchComplete
      <3> QED
        BY <2>1, <3>1
    <2>2. CASE Rewritten(w)
      <3>1. k # -1 /\ Same(table, table')
        BY <1>4, <2>2 DEF Rewritten
      <3>2. PICK r : /\ Holds(table, k, r, table')
                     /\ Op(w) = "level" => r.addr = table.recs[k].addr
                     /\ Op(w) = "readdress" => r.addr = job[w].addr
        BY <1>4, <2>2 DEF Rewritten
      <3>3. Listed(table') = Listed(table)
        BY <1>0, <3>1, SameSound
      <3>4. /\ \A x \in Listed(table) : x # d => AddrOf(table', x) = AddrOf(table, x)
            /\ d \in Listed(table) => AddrOf(table', d) = r.addr
        BY <1>0, <1>7, <3>1, <3>2, HoldsAddr
      <3>5. AddrOf(table, d) = table.recs[k].addr
        BY <1>0, <1>7, <3>1, AddrAt
      <3> QED
        BY <3>2, <3>3, <3>4, <3>5
    <2> QED
      BY <1>0, <1>4, <2>1, <2>2, WriteRecordIs
  <1>9. \A x : x # d \/ Op(w) = "level" => GoodSteady(w, x)
    <2> TAKE x
    <2> HAVE x # d \/ Op(w) = "level"
    <2>1. ~Betwixt(w, x)
      BY <1>4 DEF Betwixt
    <2>2. x \in suspect => x \in suspect'
      BY <1>5
    <2> QED
      BY <1>6, <1>8, <2>1, <2>2 DEF GoodSteady
  <1> TAKE x \in DOMAIN files'
  <1>10. PICK a : a = files[x].addr
    OBVIOUS
  <1>11. a = files'[x].addr /\ Good(x, a)
    BY <1>1, <1>3, <1>10
  <1>12. CASE x # d \/ Op(w) = "level"
    <2>1. Good(x, a)'
      BY <1>0, <1>9, <1>11, <1>12, GoodStays
    <2> QED
      BY <1>11, <2>1
  <1>13. CASE x = d /\ Op(w) = "readdress"
    <2>1. Betwixt(w, x) /\ w = Events
      BY <1>1, <1>4, <1>13 DEF Betwixt, EventsInv
    <2>2. a \in {NoAddr, job[w].addr} \/ x \in suspect
      BY <1>11, <2>1 DEF Good
    <2>3. \A v \in Workers : ~Betwixt(v, x)'
      BY <1>6, <2>1 DEF EventsInv, Betwixt
    <2>4. a \in {NoAddr, job[w].addr} \/ x \in suspect'
      BY <1>1, <1>5, <1>10, <1>13, <2>2
    <2>5. Good(x, a)'
      BY <1>8, <1>13, <2>3, <2>4 DEF Good
    <2> QED
      BY <1>11, <2>5
  <1> QED
    BY <1>5, <1>12, <1>13


\* A thread with a lock, whose step changes or adds no address.
LEMMA AddrKept ==
  ASSUME LockInv, AddrInv, NEW w \in Workers, Frame(w), HasRom(w) \/ HasRam(w),
         pc[w] \notin {"swap3", "swap4"},
         pc'[w] \notin {"swap2", "swap3", "swap4", "insert"},
         ~torn => \A x \in DOMAIN files' :
             \/ files'[x].addr = NoAddr
             \/ x \in DOMAIN files /\ files'[x].addr = files[x].addr /\ GoodSteady(w, x)
  PROVE  AddrInv'
  <1>1. ASSUME ~torn, NEW x \in DOMAIN files'
        PROVE  \E a : a = files'[x].addr /\ Good(x, a)'
    <2>1. CASE files'[x].addr = NoAddr
      <3>1. Good(x, NoAddr)'
        BY DEF Good
      <3> QED
        BY <2>1, <3>1
    <2>2. CASE x \in DOMAIN files /\ files'[x].addr = files[x].addr /\ GoodSteady(w, x)
      <3>1. PICK a : a = files[x].addr
        OBVIOUS
      <3>2. Good(x, a)
        BY <1>1, <2>2, <3>1, AddrStart DEF AddrBy, Swapped, Frame
      <3>3. Good(x, a)'
        BY <2>2, <3>2, GoodStays
      <3> QED
        BY <2>2, <3>1, <3>3
    <2> QED
      BY <1>1, <2>1, <2>2
  <1> QED
    BY <1>1, AddrPlain

LEMMA CreateAddr ==
  ASSUME LockInv, DiskInv, TablesInv, AddrInv, NEW w \in Workers, Create(w)
  PROVE  AddrInv'
  <1>0. /\ pc \in [Workers -> Places] /\ Frame(w) /\ JobOK(w) /\ FilesTyped(files)
    BY WorkFrame DEF LockInv, DiskInv, Work
  <1>1. /\ pc[w] = "both" /\ table' = table /\ suspect' = suspect
    BY DEF Create, At, history
  <1>2. HasRom(w) /\ HasRam(w)
    BY <1>1 DEF HasRom, HasRam, Places
  <1>3. /\ pc'[w] \in {"leave", "fill"}
        /\ \A x \in DOMAIN files' : \/ files'[x].addr = NoAddr
                                    \/ x \in DOMAIN files /\ files'[x].addr = files[x].addr
    <2>1. CASE pc' = [pc EXCEPT ![w] = "leave"] /\ files' = files
      BY <1>0, <2>1
    <2>2. ASSUME NEW d, NEW at, Created(w, d, at)
          PROVE  /\ pc'[w] = "fill"
                 /\ \A x \in DOMAIN files' :
                        \/ files'[x].addr = NoAddr
                        \/ x \in DOMAIN files /\ files'[x].addr = files[x].addr
      <3>1. pc' = [pc EXCEPT ![w] = "fill"]
        BY <2>2 DEF Created
      <3>2. files' = files \/ files' = Put(files, d, Empty)
        BY <2>2 DEF Created
      <3>3. Empty.addr = NoAddr
        BY DEF Empty
      <3>4. CASE files' = Put(files, d, Empty)
        BY <1>0, <3>1, <3>3, <3>4 DEF Put
      <3> QED
        BY <1>0, <3>1, <3>2, <3>4
    <2> QED
      BY <1>0, <2>1, <2>2, CreateIs
  <1>4. \A x : GoodSteady(w, x)
    BY <1>1, <1>3, SteadyAll
  <1> QED
    BY <1>0, <1>1, <1>2, <1>3, <1>4, AddrKept

LEMMA FillAddr ==
  ASSUME LockInv, DiskInv, TablesInv, EventsInv, EventsInv', AddrInv,
         NEW w \in Workers, FillFile(w)
  PROVE  AddrInv'
  <1>0. /\ pc \in [Workers -> Places] /\ Frame(w) /\ JobOK(w) /\ FilesTyped(files) /\ Found(w)
    BY WorkFrame DEF LockInv, DiskInv, TablesInv, Work
  <1>1. /\ pc[w] = "fill" /\ pc'[w] = "insert" /\ table' = table /\ suspect' = suspect
        /\ job' = job /\ files' = Put(files, job[w].dev, [addr |-> job[w].addr, whole |-> TRUE])
    BY <1>0 DEF FillFile, At, Goto
  <1>2. HasRom(w) /\ HasRam(w)
    BY <1>1 DEF HasRom, HasRam, Places
  <1>3. PICK d, a : d = job[w].dev /\ a = job[w].addr
    OBVIOUS
  <1>4. files'[d].addr = a /\ \A x \in DOMAIN files' : x # d => x \in DOMAIN files /\ files'[x] = files[x]
    BY <1>1, <1>3 DEF Put
  <1>5. \A x : GoodSteady(w, x)
    BY <1>1, SteadyAll
  <1>6. ASSUME ~torn  PROVE Good(d, a)'
    <2>1. d \notin Listed(table)
      BY <1>0, <1>1, <1>3, <1>6, FitsNew DEF Found, JobOK, TablesInv, Sound
    <2>2. w = Events
      BY <1>1 DEF EventsInv
    <2>3. \A v \in Workers : ~Betwixt(v, d)'
      BY <1>1, <2>2 DEF EventsInv, Betwixt
    <2> QED
      BY <1>1, <2>1, <2>3 DEF Good
  <1>7. ASSUME ~torn', NEW x \in DOMAIN files'  PROVE Good(x, files[x].addr)'
    <2>0. ~torn
      BY <1>0, <1>7 DEF Frame
    <2>1. CASE x = d
      <3>1. files'[x].addr = a
        BY <1>4, <2>1
      <3> QED
        BY <1>6, <2>0, <2>1, <3>1 DEF Good
    <2>2. CASE x # d
      <3>1. PICK b : b = files[x].addr
        OBVIOUS
      <3>2. x \in DOMAIN files /\ files'[x].addr = b
        BY <1>4, <1>7, <2>2, <3>1
      <3>3. Good(x, b)
        BY <1>0, <1>1, <1>2, <2>0, <3>1, <3>2, AddrStart DEF AddrBy, Swapped, Frame
      <3>4. Good(x, b)'
        BY <1>0, <1>5, <3>3, GoodStays
      <3> QED
        BY <3>2, <3>4 DEF Good
    <2> QED
      BY <2>1, <2>2
  <1>8. SwapGood(w)'
    BY <1>1 DEF SwapGood
  <1>9. files'[job'[w].dev].addr = job'[w].addr
    BY <1>1, <1>3, <1>4
  <1>10. AddrBy(w)'
    BY <1>7, <1>8, <1>9 DEF AddrBy
  <1> QED
    BY <1>0, <1>2, <1>10, AddrEnd

LEMMA InsertAddr ==
  ASSUME LockInv, DiskInv, TablesInv, EventsInv, EventsInv', AddrInv,
         NEW w \in Workers, AddRecord(w)
  PROVE  AddrInv'
  <1>0. /\ pc \in [Workers -> Places] /\ Frame(w) /\ JobOK(w) /\ FilesTyped(files) /\ Found(w)
    BY WorkFrame DEF LockInv, DiskInv, TablesInv, Work
  <1>1. /\ pc[w] = "insert" /\ pc'[w] = "leave" /\ files' = files
        /\ suspect' = suspect \ {job[w].dev}
    BY <1>0 DEF AddRecord, At, Goto, disk
  <1>2. HasRom(w) /\ HasRam(w)
    BY <1>1 DEF HasRom, HasRam, Places
  <1>3. PICK d, r : d = job[w].dev /\ r = NewRecord(w)
    OBVIOUS
  <1>4. r.dev = d /\ r.addr = job[w].addr
    BY <1>3 DEF NewRecord
  <1>5. ASSUME ~torn
        PROVE  /\ Exact(table) /\ Exact(table') /\ Records(table') = Records(table) \cup {r}
               /\ Listed(table') = Listed(table) \cup {d}
    BY <1>0, <1>3, <1>4, <1>5, AddRecordIs DEF With, TablesInv, Sound
  <1>6. ASSUME ~torn, NEW x \in DOMAIN files'
        PROVE  \E a : a = files'[x].addr /\ Good(x, a)'
    <2>1. PICK a : a = files[x].addr
      OBVIOUS
    <2>2. AddrBy(w)
      BY <1>0, <1>2, AddrStart DEF Frame
    <2>3. a = files'[x].addr /\ Good(x, a)
      BY <1>1, <1>6, <2>1, <2>2 DEF AddrBy, Swapped
    <2>4. CASE x = d
      <3>1. a = job[w].addr
        BY <1>1, <1>3, <1>6, <2>1, <2>2, <2>4 DEF AddrBy
      <3>2. AddrOf(table', d) = r.addr
        BY <1>4, <1>5, <1>6, OneRecord
      <3>3. w = Events /\ ~Betwixt(w, d)'
        BY <1>1 DEF EventsInv, Betwixt
      <3>4. \A v \in Workers : ~Betwixt(v, d)'
        BY <3>3 DEF EventsInv, Betwixt
      <3>5. Good(x, a)'
        BY <1>4, <2>4, <3>1, <3>2, <3>4 DEF Good
      <3> QED
        BY <2>3, <3>5
    <2>5. CASE x # d
      <3>1. x \in Listed(table') => x \in Listed(table) /\ AddrOf(table', x) = AddrOf(table, x)
        BY <1>5, <1>6, <2>5, SubAddr
      <3>2. GoodSteady(w, x)
        BY <1>1, <1>3, <2>5, <3>1 DEF GoodSteady, Betwixt
      <3>3. Good(x, a)'
        BY <1>0, <2>3, <3>2, GoodStays
      <3> QED
        BY <2>3, <3>3
    <2> QED
      BY <2>4, <2>5
  <1> QED
    BY <1>0, <1>1, <1>2, <1>6, AddrPlain

LEMMA DelAddr ==
  ASSUME LockInv, DiskInv, TablesInv, AddrInv, NEW w \in Workers,
         DelFile(w) \/ DelRecord(w) \/ DelAllFile(w) \/ DelAllRecords(w)
  PROVE  AddrInv'
  <1>0. /\ pc \in [Workers -> Places] /\ Frame(w) /\ JobOK(w) /\ FilesTyped(files) /\ Found(w)
    BY WorkFrame DEF LockInv, DiskInv, TablesInv, Work
  <1>1. /\ pc[w] \in {"both", "unlist"} /\ pc'[w] \in {"both", "unlist", "leave"}
        /\ suspect' = suspect
    BY <1>0 DEF DelFile, DelRecord, DelAllFile, DelAllRecords, At, Goto, history
  <1>2. HasRom(w) /\ HasRam(w)
    BY <1>1 DEF HasRom, HasRam, Places
  <1>3. \A x \in DOMAIN files' : x \in DOMAIN files /\ files'[x].addr = files[x].addr
    <2>1. files' = files \/ \E d : files' = Drop(files, d)
      BY DEF DelFile, DelRecord, DelAllFile, DelAllRecords, disk
    <2> QED
      BY <2>1 DEF Drop
  <1>4. ASSUME ~torn, NEW x \in Listed(table')
        PROVE  x \in Listed(table) /\ AddrOf(table', x) = AddrOf(table, x)
    <2>1. CASE DelFile(w) \/ DelAllFile(w)
      BY <1>4, <2>1 DEF DelFile, DelAllFile
    <2>2. CASE DelRecord(w)
      BY <1>0, <1>4, <2>2, DelRecordIs, SubAddr DEF TablesInv, Sound
    <2>3. CASE DelAllRecords(w)
      BY <1>4, <2>3, EmptyExact DEF DelAllRecords
    <2> QED
      BY <2>1, <2>2, <2>3
  <1>5. ~torn => \A x : GoodSteady(w, x)
    BY <1>1, <1>4 DEF GoodSteady, Betwixt
  <1> QED
    BY <1>0, <1>1, <1>2, <1>3, <1>5, AddrKept


LEMMA AwayAddr ==
  ASSUME LockInv, DiskInv, AddrInv, NEW w \in Workers, SwapAway(w)
  PROVE  AddrInv'
  <1>0. /\ pc \in [Workers -> Places] /\ Frame(w)
    BY WorkFrame DEF LockInv, Work
  <1>1. /\ pc[w] = "both" /\ pc'[w] \in {"leave", "swap2"} /\ table' = table
        /\ suspect' = suspect /\ job' = job
    BY <1>0 DEF SwapAway, At, Goto, history
  <1>2. HasRom(w) /\ HasRam(w)
    BY <1>1 DEF HasRom, HasRam, Places
  <1>3. \A x : GoodSteady(w, x)
    BY <1>1, SteadyAll
  <1>4. PICK d : d = job[w].dev
    OBVIOUS
  <1>5. \/ pc'[w] = "leave" /\ files' = files
        \/ /\ pc'[w] = "swap2" /\ files' = Drop(files, d) /\ d \in DOMAIN files
           /\ tmp' = Put(tmp, d, files[d])
    BY <1>0, <1>4 DEF SwapAway, Goto
  <1>6. CASE pc'[w] = "leave" /\ files' = files
    BY <1>0, <1>1, <1>2, <1>3, <1>6, AddrKept
  <1>7. CASE /\ pc'[w] = "swap2" /\ files' = Drop(files, d) /\ d \in DOMAIN files
             /\ tmp' = Put(tmp, d, files[d])
    <2>1. ~torn => \A x \in DOMAIN files : Good(x, files[x].addr)
      BY <1>0, <1>1, <1>2, AddrStart DEF AddrBy, Swapped, Frame
    <2>2. ASSUME ~torn, NEW x \in DOMAIN files  PROVE \E a : a = files[x].addr /\ Good(x, a)'
      <3>1. PICK a : a = files[x].addr
        OBVIOUS
      <3>2. Good(x, a)
        BY <2>1, <2>2, <3>1
      <3> QED
        BY <1>0, <1>3, <3>1, <3>2, GoodStays
    <2>3. ASSUME ~torn, NEW x \in DOMAIN files'  PROVE Good(x, files[x].addr)'
      <3>1. x \in DOMAIN files /\ files'[x] = files[x]
        BY <1>7, <2>3 DEF Drop
      <3>2. PICK a : a = files[x].addr /\ Good(x, a)'
        BY <2>2, <2>3, <3>1
      <3> QED
        BY <3>1, <3>2 DEF Good
    <2>4. ASSUME ~torn  PROVE SwapGood(w)'
      <3>1. PICK a : a = files[d].addr /\ Good(d, a)'
        BY <1>7, <2>2, <2>4
      <3>2. tmp'[d].addr = a
        BY <1>7, <3>1 DEF Put
      <3> QED
        BY <1>1, <1>4, <1>7, <3>1, <3>2 DEF SwapGood, Good
    <2>5. torn' = torn /\ pc'[w] # "insert"
      BY <1>0, <1>7 DEF Frame
    <2>6. AddrBy(w)'
      BY <2>3, <2>4, <2>5 DEF AddrBy
    <2> QED
      BY <1>0, <1>2, <2>6, AddrEnd
  <1> QED
    BY <1>5, <1>6, <1>7

LEMMA OverAddr ==
  ASSUME LockInv, DiskInv, AddrInv, NEW w \in Workers, SwapOver(w)
  PROVE  AddrInv'
  <1>0. /\ pc \in [Workers -> Places] /\ Frame(w) /\ JobOK(w)
    BY WorkFrame DEF LockInv, DiskInv, Work
  <1>1. /\ pc[w] = "swap2" /\ pc'[w] \in {"leave", "swap3"} /\ table' = table
        /\ suspect' = suspect /\ job' = job /\ tmp' = tmp
    BY <1>0 DEF SwapOver, At, Goto, history
  <1>2. HasRom(w) /\ HasRam(w)
    BY <1>1 DEF HasRom, HasRam, Places
  <1>3. \A x : GoodSteady(w, x)
    BY <1>1, SteadyAll
  <1>4. PICK d, e : d = job[w].dev /\ e = job[w].with
    OBVIOUS
  <1>5. \/ pc'[w] = "leave" /\ files' = files
        \/ /\ pc'[w] = "swap3" /\ e \in DOMAIN files
           /\ files' = Put(Drop(files, e), d, files[e])
    BY <1>0, <1>4 DEF SwapOver, Goto
  <1>6. CASE pc'[w] = "leave" /\ files' = files
    BY <1>0, <1>1, <1>2, <1>3, <1>6, AddrKept
  <1>7. CASE /\ pc'[w] = "swap3" /\ e \in DOMAIN files
             /\ files' = Put(Drop(files, e), d, files[e])
    <2>1. ~torn => (\A x \in DOMAIN files : Good(x, files[x].addr)) /\ Good(d, tmp[d].addr)
      BY <1>0, <1>1, <1>2, <1>4, AddrStart DEF AddrBy, Swapped, SwapGood, Frame
    <2>2. ASSUME ~torn, NEW x \in DOMAIN files  PROVE \E a : a = files[x].addr /\ Good(x, a)'
      <3>1. PICK a : a = files[x].addr
        OBVIOUS
      <3>2. Good(x, a)
        BY <2>1, <2>2, <3>1
      <3> QED
        BY <1>0, <1>3, <3>1, <3>2, GoodStays
    <2>3. d # e /\ files'[d] = files[e]
      BY <1>0, <1>1, <1>4, <1>7 DEF JobOK, Put
    <2>4. ASSUME ~torn, NEW x \in DOMAIN files'
          PROVE  Good(x, files[x].addr)' \/ Swapped(w, x)'
      <3>1. CASE x = d
        BY <1>1, <1>4, <1>7, <3>1 DEF Swapped
      <3>2. CASE x # d
        <4>1. x \in DOMAIN files /\ files'[x] = files[x]
          BY <1>7, <2>4, <3>2 DEF Drop, Put
        <4>2. PICK a : a = files[x].addr /\ Good(x, a)'
          BY <2>2, <2>4, <4>1
        <4> QED
          BY <4>1, <4>2 DEF Good
      <3> QED
        BY <3>1, <3>2
    <2>5. ASSUME ~torn  PROVE SwapGood(w)'
      <3>1. PICK a : a = files[e].addr /\ Good(e, a)'
        BY <1>7, <2>2, <2>5
      <3>2. files'[d].addr = a
        BY <2>3, <3>1
      <3>3. PICK b : b = tmp[d].addr
        OBVIOUS
      <3>4. Good(d, b)
        BY <2>1, <2>5, <3>3
      <3>5. Good(d, b)' /\ tmp'[d].addr = b
        BY <1>0, <1>1, <1>3, <3>3, <3>4, GoodStays
      <3> QED
        BY <1>1, <1>4, <1>7, <3>1, <3>2, <3>5 DEF SwapGood, Good
    <2>6. torn' = torn /\ pc'[w] # "insert"
      BY <1>0, <1>7 DEF Frame
    <2>7. AddrBy(w)'
      BY <2>4, <2>5, <2>6 DEF AddrBy
    <2> QED
      BY <1>0, <1>2, <2>7, AddrEnd
  <1> QED
    BY <1>5, <1>6, <1>7

\* A device that is swapped, and is not away, has a file.
LEMMA SwapHas ==
  ASSUME TableInv, ~torn, NEW w \in Workers, phase = "up",
         pc[w] \in {"swap3", "swap4"}
  PROVE  job[w].dev \in DOMAIN files
  <1>1. HasRom(w)
    BY DEF HasRom, Places
  <1>2. Search(table, job[w].dev) # -1 /\ job[w].dev \in Devs /\ job[w].dev # job[w].with
    BY DEF TableInv, TablesInv, Found, DiskInv, JobOK
  <1>3. job[w].dev \in Listed(table)
    BY <1>2, FoundAt DEF TableInv, TablesInv, Sound
  <1>4. ~Lacks(w, job[w].dev)
    BY <1>2 DEF Lacks
  <1>5. BackedBy(w)
    BY <1>1, BackedStart DEF TableInv
  <1> QED
    BY <1>3, <1>4, <1>5 DEF BackedBy

LEMMA BackAddr ==
  ASSUME TableInv, AddrInv, NEW w \in Workers, SwapBack(w)
  PROVE  AddrInv'
  <1> USE DEF TableInv
  <1>0. /\ pc \in [Workers -> Places] /\ Frame(w) /\ JobOK(w)
    BY WorkFrame DEF LockInv, DiskInv, Work
  <1>1. /\ pc[w] = "swap3" /\ pc'[w] = "swap4" /\ table' = table
        /\ suspect' = suspect /\ job' = job
    BY <1>0 DEF SwapBack, At, Goto
  <1>2. HasRom(w) /\ HasRam(w)
    BY <1>1 DEF HasRom, HasRam, Places
  <1>3. \A x : GoodSteady(w, x)
    BY <1>1, SteadyAll
  <1>4. PICK d, e : d = job[w].dev /\ e = job[w].with
    OBVIOUS
  <1>5. d # e /\ files' = Put(files, e, tmp[d])
    BY <1>0, <1>1, <1>4 DEF SwapBack, JobOK
  <1>6. AddrBy(w)
    BY <1>0, <1>2, AddrStart DEF Frame
  <1>7. ASSUME ~torn  PROVE d \in DOMAIN files
    BY <1>0, <1>1, <1>4, <1>7, SwapHas DEF Frame
  <1>8. ASSUME ~torn, NEW x \in DOMAIN files'
        PROVE  Good(x, files[x].addr)' \/ Swapped(w, x)'
    <2>1. CASE x \in {d, e}
      BY <1>1, <1>4, <2>1 DEF Swapped
    <2>2. CASE x \notin {d, e}
      <3>1. PICK a : a = files[x].addr
        OBVIOUS
      <3>2. x \in DOMAIN files /\ files'[x].addr = a
        BY <1>5, <1>8, <2>2, <3>1 DEF Put
      <3>3. Good(x, a)
        BY <1>4, <1>6, <1>8, <2>2, <3>1, <3>2 DEF AddrBy, Swapped
      <3>4. Good(x, a)'
        BY <1>0, <1>3, <3>3, GoodStays
      <3> QED
        BY <3>2, <3>4 DEF Good
    <2> QED
      BY <2>1, <2>2
  <1>9. ASSUME ~torn  PROVE SwapGood(w)'
    <2>1. PICK a, b : a = tmp[d].addr /\ b = files[d].addr
      OBVIOUS
    <2>2. Good(d, a) /\ Good(e, b)
      BY <1>1, <1>4, <1>6, <1>9, <2>1 DEF AddrBy, SwapGood
    <2>3. Good(d, a)' /\ Good(e, b)'
      BY <1>0, <1>3, <2>2, GoodStays
    <2>4. files'[d].addr = b /\ files'[e].addr = a
      BY <1>5, <1>7, <1>9, <2>1 DEF Put
    <2> QED
      BY <1>1, <1>4, <2>3, <2>4 DEF SwapGood, Good
  <1>10. torn' = torn /\ pc'[w] # "insert"
    BY <1>0, <1>1 DEF Frame
  <1>11. AddrBy(w)'
    BY <1>8, <1>9, <1>10 DEF AddrBy
  <1> QED
    BY <1>0, <1>2, <1>11, AddrEnd

\* The records of two devices exchanged.
LEMMA ExchangedAddr ==
  ASSUME TablesInv, ~torn, NEW w \in Workers, JobOK(w), Found(w), SwapRecords(w)
  PROVE  LET d == job[w].dev
             e == job[w].with
         IN  /\ d \in Listed(table) /\ e \in Listed(table) /\ Listed(table') = Listed(table)
             /\ AddrOf(table', d) = AddrOf(table, e) /\ AddrOf(table', e) = AddrOf(table, d)
             /\ \A x \in Listed(table) : x \notin {d, e} => AddrOf(table', x) = AddrOf(table, x)
  <1>1. PICK d, e, k, m : /\ d = job[w].dev /\ e = job[w].with
                          /\ k = Search(table, d) /\ m = Search(table, e)
    OBVIOUS
  <1>2. pc[w] = "swap4"
    BY DEF SwapRecords, At
  <1>3. /\ d \in Devs /\ e \in Devs /\ d # e /\ k # -1 /\ m # -1
        /\ Formed(table) /\ Exact(table)
    BY <1>1, <1>2 DEF JobOK, Found, TablesInv, Sound
  <1>4. /\ k \in 0..(table.total - 1) /\ k \in Slots /\ table.recs[k].dev = d
        /\ d \in Listed(table)
    BY <1>1, <1>3, FoundAt
  <1>5. /\ m \in 0..(table.total - 1) /\ m \in Slots /\ table.recs[m].dev = e
        /\ e \in Listed(table)
    BY <1>1, <1>3, FoundAt
  <1>6. k # m
    BY <1>3, <1>4, <1>5
  <1>7. Same(table, table') /\ Exchanged(w)
    BY SwapRecordsIs
  <1>8. /\ Exact(table') /\ Listed(table') = Listed(table) /\ table'.total = table.total
        /\ \A i \in Slots : table'.recs[i].dev = table.recs[i].dev
    BY <1>3, <1>7, SameSound DEF Same
  <1>9. PICK r, s : /\ r = [table.recs[m] EXCEPT !.dev = table.recs[k].dev]
                    /\ s = [table.recs[k] EXCEPT !.dev = table.recs[m].dev]
    OBVIOUS
  <1>10. PICK x : Holds(table, k, r, x) /\ Holds(x, m, s, table')
    BY <1>1, <1>7, <1>9 DEF Exchanged
  <1>11. \A i \in Slots : table'.recs[i] = IF i = m THEN s ELSE IF i = k THEN r ELSE table.recs[i]
    BY <1>10 DEF Holds
  <1>12. table.recs \in [Slots -> RecordOf] /\ table.total \in Nat /\ table.total <= 2 * MaxDevs
    BY <1>3, TableParts DEF Formed
  <1>13. r.addr = table.recs[m].addr /\ s.addr = table.recs[k].addr
    <2>1. table.recs[m] \in RecordOf /\ table.recs[k] \in RecordOf
      BY <1>4, <1>5, <1>12
    <2> QED
      BY <1>9, <2>1 DEF RecordOf
  <1>14. AddrOf(table', d) = AddrOf(table, e)
    <2>1. AddrOf(table', d) = table'.recs[k].addr
      BY <1>4, <1>8, AddrAt
    <2>2. AddrOf(table, e) = table.recs[m].addr
      BY <1>3, <1>5, AddrAt
    <2> QED
      BY <1>4, <1>6, <1>11, <1>13, <2>1, <2>2
  <1>15. AddrOf(table', e) = AddrOf(table, d)
    <2>1. AddrOf(table', e) = table'.recs[m].addr
      BY <1>5, <1>8, AddrAt
    <2>2. AddrOf(table, d) = table.recs[k].addr
      BY <1>3, <1>4, AddrAt
    <2> QED
      BY <1>5, <1>11, <1>13, <2>1, <2>2
  <1>16. ASSUME NEW y \in Listed(table), y \notin {d, e}
         PROVE  AddrOf(table', y) = AddrOf(table, y)
    <2>1. PICK i \in 0..(table.total - 1) : table.recs[i].dev = y
      BY ListedIs
    <2>2. i \in Slots /\ i # k /\ i # m
      BY <1>4, <1>5, <1>12, <1>16, <2>1, Sizes
    <2>3. table'.recs[i] = table.recs[i]
      BY <1>11, <2>2
    <2>4. AddrOf(table, y) = table.recs[i].addr
      BY <1>3, <2>1, AddrAt
    <2>5. AddrOf(table', y) = table'.recs[i].addr
      BY <1>8, <2>1, <2>2, AddrAt
    <2> QED
      BY <2>3, <2>4, <2>5
  <1> QED
    BY <1>1, <1>4, <1>5, <1>8, <1>14, <1>15, <1>16

LEMMA SwapAddr ==
  ASSUME TableInv, AddrInv, NEW w \in Workers, SwapRecords(w)
  PROVE  AddrInv'
  <1> USE DEF TableInv
  <1>0. /\ pc \in [Workers -> Places] /\ Frame(w) /\ JobOK(w) /\ Found(w)
    BY WorkFrame DEF LockInv, DiskInv, TablesInv, Work
  <1>1. /\ pc[w] = "swap4" /\ pc'[w] = "leave" /\ files' = files /\ job' = job
    BY <1>0 DEF SwapRecords, At, Goto, disk
  <1>2. HasRom(w) /\ HasRam(w)
    BY <1>1 DEF HasRom, HasRam, Places
  <1>3. PICK d, e : d = job[w].dev /\ e = job[w].with
    OBVIOUS
  <1>4. suspect' = IF {d, e} \cap suspect # {} \/ Between(d) \/ Between(e)
                   THEN suspect \cup {d, e} ELSE suspect
    BY <1>3 DEF SwapRecords
  <1>5. AddrBy(w)
    BY <1>0, <1>2, AddrStart DEF Frame
  <1>6. ASSUME ~torn
        PROVE  /\ d \in Listed(table) /\ e \in Listed(table) /\ Listed(table') = Listed(table)
               /\ AddrOf(table', d) = AddrOf(table, e) /\ AddrOf(table', e) = AddrOf(table, d)
               /\ \A x \in Listed(table) : x \notin {d, e} => AddrOf(table', x) = AddrOf(table, x)
    BY <1>0, <1>3, <1>6, ExchangedAddr
  <1>7. ASSUME NEW v \in Workers, NEW x \in {d, e}, Betwixt(v, x)'  PROVE x \in suspect'
    <2>1. v # w
      BY <1>1, <1>7 DEF Betwixt
    <2>2. Between(x)
      BY <1>0, <1>7, <2>1 DEF Frame, Betwixt, Between, Op
    <2> QED
      BY <1>4, <1>7, <2>2
  <1>8. ASSUME ~torn, NEW x \in {d, e}, NEW y \in {d, e}, NEW a, Good(y, a),
               AddrOf(table', x) = AddrOf(table, y)
        PROVE  Good(x, a)'
    <2>1. a \in {NoAddr, AddrOf(table, y)} \/ y \in suspect \/ Between(y)
      BY <1>6, <1>8 DEF Good
    <2>2. a \in {NoAddr, AddrOf(table', x)} \/ x \in suspect'
      BY <1>4, <1>8, <2>1
    <2> QED
      BY <1>7, <2>2 DEF Good
  <1>9. ASSUME ~torn, NEW x \in DOMAIN files'
        PROVE  \E a : a = files'[x].addr /\ Good(x, a)'
    <2>1. PICK a : a = files[x].addr
      OBVIOUS
    <2>2. CASE x = d
      <3>1. Good(e, a)
        BY <1>1, <1>3, <1>5, <1>9, <2>1, <2>2 DEF AddrBy, SwapGood
      <3>2. Good(x, a)'
        BY <1>6, <1>8, <1>9, <2>2, <3>1
      <3> QED
        BY <1>1, <2>1, <3>2
    <2>3. CASE x = e
      <3>1. Good(d, a)
        BY <1>1, <1>3, <1>5, <1>9, <2>1, <2>3 DEF AddrBy, SwapGood
      <3>2. Good(x, a)'
        BY <1>6, <1>8, <1>9, <2>3, <3>1
      <3> QED
        BY <1>1, <2>1, <3>2
    <2>4. CASE x \notin {d, e}
      <3>1. Good(x, a)
        BY <1>1, <1>3, <1>5, <1>9, <2>1, <2>4 DEF AddrBy, Swapped
      <3>2. x \in suspect => x \in suspect'
        BY <1>4
      <3>3. GoodSteady(w, x)
        BY <1>1, <1>6, <1>9, <2>4, <3>2 DEF GoodSteady, Betwixt
      <3>4. Good(x, a)'
        BY <1>0, <3>1, <3>3, GoodStays
      <3> QED
        BY <1>1, <2>1, <3>4
    <2> QED
      BY <2>2, <2>3, <2>4
  <1> QED
    BY <1>0, <1>1, <1>2, <1>9, AddrPlain

LEMMA WorkAddr ==
  ASSUME TableInv, EventsInv, EventsInv', AddrInv, NEW w \in Workers, Work(w)
  PROVE  AddrInv'
  <1> USE DEF TableInv
  <1>0. pc \in [Workers -> Places] /\ Frame(w)
    BY WorkFrame DEF LockInv
  <1>1. CASE \/ \E j \in Jobs(w) : Start(w, j)
             \/ TakeRom(w) \/ TakeRam(w) \/ GiveUpRom(w) \/ GiveUpRam(w) \/ Leave(w)
    <2>1. /\ table' = table /\ files' = files /\ tmp' = tmp
          /\ pc[w] \in {"idle", "rom", "ram", "leave"}
          /\ pc'[w] \in {"idle", "rom", "ram", "file", "record", "both"}
          /\ suspect \subseteq suspect'
      BY <1>0, <1>1 DEF Start, TakeRom, TakeRam, GiveUpRom, GiveUpRam, Leave, At, Goto, disk,
              history
    <2>2. ASSUME NEW x, Betwixt(w, x)'
          PROVE  Betwixt(w, x) /\ job'[w].addr = job[w].addr
      <3>1. pc'[w] \in {"ram", "record"} /\ job'[w].op = "readdress" /\ job'[w].dev = x
        BY <2>2 DEF Betwixt, Op
      <3>2. ASSUME NEW j \in Jobs(w), Start(w, j)  PROVE FALSE
        BY <1>0, <3>1, <3>2 DEF Start, Goto, LockInv
      <3>3. ~TakeRom(w) /\ ~GiveUpRom(w) /\ ~GiveUpRam(w) /\ ~Leave(w)
        BY <1>0, <3>1 DEF TakeRom, GiveUpRom, GiveUpRam, Leave, Goto, RomOnly, Op
      <3>4. TakeRam(w)
        BY <1>1, <3>2, <3>3
      <3> QED
        BY <3>1, <3>4 DEF TakeRam, At, Betwixt, Op
    <2>3. ASSUME NEW x, Betwixt(w, x)
          PROVE  Betwixt(w, x)' \/ x \in suspect'
      <3>1. pc[w] \in {"ram", "record"} /\ job[w].op = "readdress" /\ job[w].dev = x
        BY <2>3 DEF Betwixt, Op
      <3>2. CASE TakeRam(w)
        BY <1>0, <3>1, <3>2 DEF TakeRam, Goto, Betwixt, Op, RamOnly
      <3>3. CASE GiveUpRam(w)
        BY <3>1, <3>3 DEF GiveUpRam, Op
      <3>4. TakeRam(w) \/ GiveUpRam(w)
        BY <1>1, <3>1 DEF Start, TakeRom, GiveUpRom, Leave, At
      <3> QED
        BY <3>2, <3>3, <3>4
    <2>4. \A x : GoodSteady(w, x)
      BY <2>1, <2>2, <2>3 DEF GoodSteady
    <2> QED
      BY <1>0, <2>1, <2>4, AddrSame
  <1>2. CASE WriteFile(w) \/ WriteRecord(w)
    <2>1. ~torn => \A x \in DOMAIN files' : \E a : a = files'[x].addr /\ Good(x, a)'
      BY <1>2, FileAddr, RecordAddr
    <2>2. /\ pc'[w] \in {"idle", "ram"}
          /\ pc[w] = "file" \/ pc[w] = "record"
      BY <1>0, <1>2 DEF WriteFile, WriteRecord, At, Goto
    <2>3. HasRom(w) \/ HasRam(w)
      BY <2>2 DEF HasRom, HasRam, Places
    <2> QED
      BY <1>0, <2>1, <2>2, <2>3, AddrPlain
  <1>3. CASE Create(w) \/ FillFile(w) \/ AddRecord(w)
    BY <1>3, CreateAddr, FillAddr, InsertAddr
  <1>4. CASE DelFile(w) \/ DelRecord(w) \/ DelAllFile(w) \/ DelAllRecords(w)
    BY <1>4, DelAddr
  <1>5. CASE SwapAway(w) \/ SwapOver(w) \/ SwapBack(w) \/ SwapRecords(w)
    BY <1>5, AwayAddr, OverAddr, BackAddr, SwapAddr
  <1> QED
    BY <1>1, <1>2, <1>3, <1>4, <1>5 DEF Work


\* What a step does to the files, as far as the backup goes.
LEMMA WorkFiles ==
  ASSUME LockInv, DiskInv, NEW w \in Workers, Work(w)
  PROVE  /\ moved \subseteq moved'
         /\ pc[w] = "swap3" => job[w].dev \in moved'
         /\ \A x \in DOMAIN files' :
                \/ x \in DOMAIN files /\ files'[x].addr = files[x].addr
                \/ files'[x].addr = NoAddr
                \/ x \in moved'
                \/ pc'[w] = "swap3" /\ job'[w].dev = x
  <1>0. /\ pc \in [Workers -> Places] /\ FilesTyped(files)
    BY DEF LockInv, DiskInv
  <1>1. CASE files' = files /\ moved' = moved /\ pc[w] # "swap3"
    BY <1>1
  <1>2. CASE \/ \E j \in Jobs(w) : Start(w, j)
             \/ TakeRom(w) \/ TakeRam(w) \/ GiveUpRom(w) \/ GiveUpRam(w) \/ Leave(w)
             \/ WriteRecord(w) \/ AddRecord(w) \/ DelRecord(w) \/ DelAllRecords(w)
             \/ SwapRecords(w)
    BY <1>1, <1>2 DEF Start, TakeRom, TakeRam, GiveUpRom, GiveUpRam, Leave, WriteRecord,
            AddRecord, DelRecord, DelAllRecords, SwapRecords, At, disk, history
  <1>3. CASE WriteFile(w)
    <2>1. PICK d, old, new :
              /\ d = job[w].dev /\ old = IF d \in DOMAIN files THEN files[d] ELSE Empty
              /\ new = IF Op(w) = "readdress" THEN [old EXCEPT !.addr = job[w].addr] ELSE old
      OBVIOUS
    <2>2. /\ files' = Put(files, d, new) \/ files' = files
          /\ moved' = IF Op(w) = "readdress" THEN moved \cup {d} ELSE moved
          /\ pc[w] = "file"
      BY <1>3, <2>1 DEF WriteFile, At
    <2>3. Empty.addr = NoAddr
      BY DEF Empty
    <2>4. CASE files' = Put(files, d, new)
      <3>1. ASSUME NEW x \in DOMAIN files', x # d
            PROVE  x \in DOMAIN files /\ files'[x].addr = files[x].addr
        BY <2>4, <3>1 DEF Put
      <3>2. files'[d] = new
        BY <2>4 DEF Put
      <3> QED
        BY <2>1, <2>2, <2>3, <3>1, <3>2
    <2> QED
      BY <2>2, <2>4
  <1>4. CASE Create(w)
    <2>1. moved' = moved /\ pc[w] = "both"
      BY <1>4 DEF Create, At, history
    <2>2. files' = files \/ \E d : files' = Put(files, d, Empty)
      BY <1>4 DEF Create
    <2>3. Empty.addr = NoAddr
      BY DEF Empty
    <2> QED
      BY <2>1, <2>2, <2>3 DEF Put
  <1>5. CASE FillFile(w)
    BY <1>5 DEF FillFile, At, Put
  <1>6. CASE DelFile(w) \/ DelAllFile(w)
    BY <1>6 DEF DelFile, DelAllFile, At, Drop, history
  <1>7. CASE SwapAway(w)
    BY <1>7 DEF SwapAway, At, Drop, history
  <1>8. CASE SwapOver(w)
    <2>1. /\ moved' = moved /\ pc[w] = "swap2" /\ job' = job
          /\ \/ files' = files
             \/ /\ files' = Put(Drop(files, job[w].with), job[w].dev, files[job[w].with])
                /\ pc' = [pc EXCEPT ![w] = "swap3"]
      BY <1>8 DEF SwapOver, At, Goto, history
    <2> QED
      BY <1>0, <2>1 DEF Put, Drop
  <1>9. CASE SwapBack(w)
    BY <1>9 DEF SwapBack, At, Put
  <1> QED
    BY <1>2, <1>3, <1>4, <1>5, <1>6, <1>7, <1>8, <1>9 DEF Work

LEMMA WorkMoved ==
  ASSUME LockInv, DiskInv, SaveInv, MovedInv, NEW w \in Workers, Work(w)
  PROVE  MovedInv'
  <1>0. Frame(w)
    BY WorkFrame
  <1>1. phase' = "up" /\ torn' = torn /\ backup'.crc = backup.crc
    BY <1>0 DEF Frame
  <1>2. backup'.exists => backup.exists
    BY WorkBackup, BackupGone DEF SaveInv
  <1>3. ASSUME ~torn, backup.exists, NEW x \in DOMAIN files'
        PROVE  Settled(x, files[x].addr)' \/ \E v \in Workers : pc'[v] = "swap3" /\ job'[v].dev = x
    <2>1. CASE x \in DOMAIN files /\ files'[x].addr = files[x].addr
      <3>1. CASE Settled(x, files[x].addr)
        BY <1>1, <2>1, <3>1, WorkFiles DEF Settled
      <3>2. CASE \E v \in Workers : pc[v] = "swap3" /\ job[v].dev = x
        <4>1. PICK v \in Workers : pc[v] = "swap3" /\ job[v].dev = x
          BY <3>2
        <4>2. CASE v = w
          <5>1. x \in moved'
            BY <4>1, <4>2, WorkFiles
          <5> QED
            BY <5>1 DEF Settled
        <4>3. CASE v # w
          BY <1>0, <4>1, <4>3 DEF Frame
        <4> QED
          BY <4>2, <4>3
      <3> QED
        BY <1>3, <2>1, <3>1, <3>2 DEF MovedInv
    <2>2. CASE files'[x].addr = NoAddr \/ x \in moved'
      BY <2>2 DEF Settled
    <2>3. CASE pc'[w] = "swap3" /\ job'[w].dev = x
      BY <2>3
    <2> QED
      BY <2>1, <2>2, <2>3, WorkFiles
  <1> QED
    BY <1>1, <1>2, <1>3 DEF MovedInv

\* A step of the writer of the backup.
LEMMA SavesAddr ==
  ASSUME TableInv, SaveInv, EventsInv, AddrInv, MovedInv, SyncStart \/ SaveBlock \/ SaveCrc
  PROVE  EventsInv' /\ AddrInv' /\ MovedInv'
  <1>1. UNCHANGED <<table, files, tmp, pc, job, suspect, torn>>
    BY DEF SyncStart, SaveBlock, SaveCrc, history, disk
  <1>2. EventsInv'
    BY <1>1 DEF EventsInv, Op
  <1>3. \A x, a : Good(x, a)' <=> Good(x, a)
    BY <1>1 DEF Good, Between, Betwixt, Op
  <1>4. AddrInv'
    <2>1. ASSUME ~torn, NEW x \in DOMAIN files
          PROVE  Good(x, files[x].addr)' \/ \E w \in Workers : Swapped(w, x)'
      <3>1. PICK a : a = files[x].addr
        OBVIOUS
      <3>2. CASE Good(x, a)
        BY <1>1, <1>3, <3>1, <3>2 DEF Good
      <3>3. CASE \E w \in Workers : Swapped(w, x)
        BY <1>1, <3>3 DEF Swapped
      <3> QED
        BY <2>1, <3>1, <3>2, <3>3 DEF AddrInv
    <2>2. ASSUME ~torn, NEW w \in Workers  PROVE SwapGood(w)'
      <3>1. PICK d, e, a, b, c : /\ d = job[w].dev /\ e = job[w].with /\ a = tmp[d].addr
                                 /\ b = files[d].addr /\ c = files[e].addr
        OBVIOUS
      <3>2. /\ pc[w] \in {"swap2", "swap3"} => Good(d, a)
            /\ pc[w] \in {"swap3", "swap4"} => Good(e, b)
            /\ pc[w] = "swap4" => Good(d, c)
        BY <2>2, <3>1 DEF AddrInv, SwapGood
      <3>3. /\ pc[w] \in {"swap2", "swap3"} => Good(d, a)'
            /\ pc[w] \in {"swap3", "swap4"} => Good(e, b)'
            /\ pc[w] = "swap4" => Good(d, c)'
        BY <1>3, <3>2
      <3> QED
        BY <1>1, <3>1, <3>3 DEF SwapGood, Good
    <2>3. ASSUME ~torn, NEW w \in Workers, pc[w] = "insert"
          PROVE  files[job[w].dev].addr = job[w].addr
      BY <2>3 DEF AddrInv
    <2> QED
      BY <1>1, <2>1, <2>2, <2>3 DEF AddrInv
  <1>5. CASE SyncStart \/ SaveBlock
    <2>1. phase' = phase /\ moved' = moved
      BY <1>5 DEF SyncStart, SaveBlock, history
    <2>2. backup'.exists = backup.exists /\ backup'.crc = backup.crc
      BY <1>5, BackupBlock DEF SyncStart, SaveBlock, SaveInv, disk
    <2>3. \A x, a : Settled(x, a)' <=> Settled(x, a)
      BY <2>1, <2>2 DEF Settled
    <2>4. ASSUME ~torn, backup.exists, NEW x \in DOMAIN files
          PROVE  Settled(x, files[x].addr)' \/ \E w \in Workers : pc[w] = "swap3" /\ job[w].dev = x
      <3>1. PICK a : a = files[x].addr
        OBVIOUS
      <3>2. CASE Settled(x, a)
        BY <1>1, <2>3, <3>1, <3>2 DEF Settled
      <3> QED
        BY <2>4, <3>1, <3>2 DEF MovedInv
    <2>5. MovedInv'
      BY <1>1, <2>1, <2>2, <2>4 DEF MovedInv
    <2> QED
      BY <1>2, <1>4, <2>5
  <1>6. CASE SaveCrc
    <2>1. phase' = "up" /\ moved' = Wrong(table)
      BY <1>6 DEF SaveCrc
    <2>2. Records(backup'.crc) = Records(table)
      BY <1>6, CrcSave
    <2>3. Listed(backup'.crc) = Listed(table) /\ \A x : AddrOf(backup'.crc, x) = AddrOf(table, x)
      BY <2>2, SameRecords
    <2>4. ASSUME NEW x \in DOMAIN files  PROVE Settled(x, files[x].addr)'
      BY <1>1, <2>1, <2>3 DEF Settled, Wrong
    <2>5. MovedInv'
      BY <1>1, <2>1, <2>4 DEF MovedInv
    <2> QED
      BY <1>2, <1>4, <2>5
  <1> QED
    BY <1>5, <1>6

LEMMA CrashAddr ==
  ASSUME TableInv, AddrInv, MovedInv, Crash
  PROVE  EventsInv' /\ AddrInv' /\ MovedInv'
  <1>1. /\ \A w \in Workers : pc'[w] = "idle"
        /\ table' = EmptyTable /\ files' = files /\ backup' = backup /\ moved' = moved
        /\ suspect' = suspect \cup moved /\ torn' = (torn \/ Swapping)
    BY DEF Crash, disk
  <1>2. EventsInv'
    BY <1>1 DEF EventsInv
  <1>3. \A x, a : Good(x, a)'
    BY <1>1, EmptyExact DEF Good, Betwixt
  <1>4. \A w \in Workers : SwapGood(w)'
    BY <1>1 DEF SwapGood
  <1>5. \A x \in DOMAIN files' : Good(x, files[x].addr)'
    BY <1>3 DEF Good
  <1>6. AddrInv'
    BY <1>1, <1>4, <1>5 DEF AddrInv
  <1>7. ASSUME ~torn', backup.exists, NEW x \in DOMAIN files
        PROVE  Settled(x, files[x].addr)'
    <2>1. ~torn /\ \A w \in Workers : pc[w] # "swap3"
      BY <1>1, <1>7 DEF Swapping
    <2>2. Settled(x, files[x].addr)
      BY <1>7, <2>1 DEF MovedInv
    <2> QED
      BY <1>1, <2>2 DEF Settled
  <1>8. MovedInv'
    BY <1>1, <1>7 DEF MovedInv
  <1> QED
    BY <1>2, <1>6, <1>8

LEMMA BootAddr ==
  ASSUME TableInv, SaveInv, EventsInv, AddrInv, MovedInv, Boot
  PROVE  EventsInv' /\ AddrInv' /\ MovedInv'
  <1> USE DEF TableInv
  <1>1. /\ phase = "down" /\ phase' = "boot"
        /\ UNCHANGED <<files, tmp, backup, pc, job, moved, suspect, torn>>
    BY DEF Boot, disk, history
  <1>2. \A w \in Workers : pc[w] = "idle"
    BY <1>1 DEF LockInv, Quiet
  <1>3. EventsInv'
    BY <1>1, <1>2 DEF EventsInv
  <1>4. ASSUME ~torn, NEW x \in DOMAIN files
        PROVE  Good(x, files[x].addr)'
    <2>1. \A w \in Workers : ~Betwixt(w, x)'
      BY <1>1, <1>2 DEF Betwixt
    <2>2. ASSUME x \in Listed(table')
          PROVE  files[x].addr \in {NoAddr, AddrOf(table', x)} \/ x \in suspect
      <3>1. PICK r \in Records(table') : r.dev = x
        BY <2>2 DEF Listed
      <3>2. AddrOf(table', x) = r.addr
        BY <1>4, <3>1, BootRecords, OneRecord
      <3>3. CASE backup.exists /\ r \in Records(backup.crc)
        <4>1. x \in Listed(backup.crc) /\ AddrOf(backup.crc, x) = r.addr
          BY <1>4, <3>1, <3>3, OneRecord DEF TablesInv, Sound
        <4>2. Settled(x, files[x].addr)
          BY <1>2, <1>4, <3>3 DEF MovedInv
        <4>3. moved \subseteq suspect
          BY <1>1, <1>4 DEF MovedInv
        <4> QED
          BY <3>2, <4>1, <4>2, <4>3 DEF Settled
      <3>4. CASE files[r.dev].addr \in {NoAddr, r.addr}
        BY <3>1, <3>2, <3>4
      <3> QED
        BY <1>4, <3>1, <3>3, <3>4, BootRecords
    <2> QED
      BY <1>1, <2>1, <2>2 DEF Good
  <1>5. \A w \in Workers : SwapGood(w)'
    BY <1>1, <1>2 DEF SwapGood
  <1>6. AddrInv'
    BY <1>1, <1>2, <1>4, <1>5 DEF AddrInv
  <1>7. MovedInv'
    <2>1. ASSUME ~torn, backup.exists, NEW x \in DOMAIN files
          PROVE  Settled(x, files[x].addr)'
      <3>1. Settled(x, files[x].addr)
        BY <1>2, <2>1 DEF MovedInv
      <3> QED
        BY <1>1, <3>1 DEF Settled
    <2>2. ~torn => moved \subseteq suspect
      BY <1>1 DEF MovedInv
    <2> QED
      BY <1>1, <2>1, <2>2 DEF MovedInv
  <1> QED
    BY <1>3, <1>6, <1>7

LEMMA AddrInit == Init => EventsInv /\ AddrInv /\ MovedInv
  <1> SUFFICES ASSUME Init  PROVE EventsInv /\ AddrInv /\ MovedInv
    OBVIOUS
  <1>1. \A w \in Workers : pc[w] = "idle"
    BY DEF Init
  <1>2. table = EmptyTable /\ ~backup.exists /\ moved = {}
    BY DEF Init
  <1>3. \A x, a : Good(x, a)
    BY <1>1, <1>2, EmptyExact DEF Good, Betwixt
  <1>4. \A w \in Workers : SwapGood(w)
    BY <1>1 DEF SwapGood
  <1> QED
    BY <1>1, <1>2, <1>3, <1>4 DEF EventsInv, AddrInv, MovedInv

LEMMA AddrNext ==
  TableInv /\ SaveInv /\ EventsInv /\ AddrInv /\ MovedInv /\ [Next]_vars
      => EventsInv' /\ AddrInv' /\ MovedInv'
  <1> SUFFICES ASSUME TableInv, SaveInv, EventsInv, AddrInv, MovedInv, [Next]_vars
               PROVE  EventsInv' /\ AddrInv' /\ MovedInv'
    OBVIOUS
  <1>1. ASSUME NEW w \in Workers, Work(w)  PROVE EventsInv' /\ AddrInv' /\ MovedInv'
    BY <1>1, WorkEvents, WorkAddr, WorkMoved DEF TableInv
  <1>2. CASE UNCHANGED vars
    <2>1. UNCHANGED <<table, files, tmp, backup, phase, pc, job, moved, suspect, torn>>
      BY <1>2 DEF vars, disk, history
    <2>2. EventsInv'
      BY <2>1 DEF EventsInv, Op
    <2>3. AddrInv'
      BY <2>1 DEF AddrInv, Good, Between, Betwixt, SwapGood, Swapped, Op
    <2>4. MovedInv'
      BY <2>1 DEF MovedInv, Settled
    <2> QED
      BY <2>2, <2>3, <2>4
  <1>3. CASE Next
    <2>1. (\E w \in Workers : Work(w)) \/ SyncStart \/ SaveBlock \/ SaveCrc \/ Crash \/ Boot
      BY <1>3 DEF Next, Work
    <2> QED
      BY <1>1, <2>1, SavesAddr, CrashAddr, BootAddr
  <1> QED
    BY <1>2, <1>3

LEMMA AddrSafe == LockInv /\ AddrInv => AddressAgrees
  <1> SUFFICES ASSUME LockInv, AddrInv, ram = 1, rom = 1, ~torn, NEW d \in Wrong(table)
               PROVE  Between(d) \/ d \in suspect
    BY DEF AddressAgrees
  <1>1. \A w \in Workers : ~HasRom(w)
    BY DEF LockInv, RomHeld, WithRom
  <1>2. \A w \in Workers : ~Swapped(w, d)
    BY <1>1 DEF HasRom, Places, Swapped
  <1>3. d \in DOMAIN files /\ d \in Listed(table) /\ files[d].addr \notin {NoAddr, AddrOf(table, d)}
    BY DEF Wrong
  <1>4. Good(d, files[d].addr)
    BY <1>2, <1>3 DEF AddrInv
  <1> QED
    BY <1>3, <1>4 DEF Good

\* When no thread is at work, the address in the record of a device is the one in
\* its file, but for the devices the property excepts; for every number of threads,
\* types and operations.
THEOREM AddressAgreesHolds == Spec => []AddressAgrees
  <1>1. Init => TableInv /\ SaveInv /\ EventsInv /\ AddrInv /\ MovedInv
    BY TableInit, SaveInit, AddrInit
  <1>2. TableInv /\ SaveInv /\ EventsInv /\ AddrInv /\ MovedInv /\ [Next]_vars
            => (TableInv /\ SaveInv /\ EventsInv /\ AddrInv /\ MovedInv)'
    BY TableNext, SaveNext, AddrNext
  <1>3. TableInv /\ AddrInv => AddressAgrees
    BY AddrSafe DEF TableInv
  <1> QED
    BY <1>1, <1>2, <1>3, PTL DEF Spec

=============================================================================
