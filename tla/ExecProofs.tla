------------------------------ MODULE ExecProofs ------------------------------
(***************************************************************************)
(* The executors.  A start of a set leads to at most one execution, for    *)
(* any number of sets, callers and requests, as long as no wait for the    *)
(* lock times out; and the lock is one thread's until then, and never      *)
(* lost.  The commands of a rule are given on time, for any outputs and    *)
(* times.                                                                  *)
(***************************************************************************)
EXTENDS SetExec, RuleExec, FiniteSetTheorems, TLAPS

-----------------------------------------------------------------------------
(* Sets. *)

\* Callers only run set_execute_active; the task is never idle.
Roles ==
    /\ \A c \in Callers : pc[c] \in CallPlaces \cup {"idle"}
    /\ pc[Task] # "idle"

\* A set that is marked, or that the task has seen marked, has a start that
\* has not been executed; it is kept marked past that only while the task
\* executes it.
Credits ==
    \A s \in Sets :
        /\ owed[s] >= 0
        /\ setExecute[s] # 0 => owed[s] > 0 \/ (cur = s /\ pc[Task] \in Executing)
        /\ cur = s /\ pc[Task] = "look" => owed[s] > 0

\* A start that is not begun yet, though its mark is gone or about to be
\* cleared with an older start of the set, came while that was carried out.
LateStarts ==
    \A s \in Sets : pending[s] /\ (setExecute[s] = 0 \/ CarryingOut(s)) => late[s]

Inv == TypeOK /\ Roles /\ LateStarts /\ (timeOuts = 0 => Credits)

LEMMA ModBound ==
    ASSUME NEW d \in Int
    PROVE  d % SetWidth \in 0..(SetWidth - 1)
BY SetDelaysAssumption

LEMMA InitInv == Init => Inv
<1> SUFFICES ASSUME Init PROVE Inv
  OBVIOUS
<1>1. TypeOK
  BY SetsAssumption, ThreadsAssumption, SetDelaysAssumption
     DEF Init, TypeOK, Sets, Places
<1>2. Roles
  BY ThreadsAssumption DEF Init, Roles, Threads
<1>3. Credits
  BY DEF Init, Credits, Threads, Sets
<1>4. LateStarts
  BY DEF Init, LateStarts
<1> QED BY <1>1, <1>2, <1>3, <1>4 DEF Inv

\* The next set of the round is a set.
LEMMA NextSetType ==
    ASSUME cur \in Sets, NextSet
    PROVE  cur' \in Sets
BY SetsAssumption DEF NextSet, Sets

LEMMA CallType ==
    ASSUME TypeOK, NEW c \in Callers, NEW s \in Sets, NEW v \in Values,
           Call(c, s, v)
    PROVE  TypeOK'
BY SetDelaysAssumption DEF Call, At, Goto, TypeOK, Threads, Places, task

LEMMA ActiveType ==
    ASSUME TypeOK, NEW t \in Threads, Active(t)
    PROVE  TypeOK'
<1> USE DEF At, Goto, Done, Places
<1>1. CASE Check(t)
  BY <1>1 DEF Check, TypeOK, args, task, history
<1>2. CASE ReadDelay(t)
  BY <1>2 DEF ReadDelay, TypeOK, args, task, history
<1>3. CASE Wait(t)
  BY <1>3, SetDelaysAssumption DEF Wait, Take, TimeOut, TypeOK, args, task, history
<1>4. CASE StoreExecute(t)
  <2>1. setExecute' \in [Sets -> Values \cup {0, 1}] /\ pending' \in [Sets -> BOOLEAN]
    BY <1>4, SetDelaysAssumption DEF StoreExecute, TypeOK
  <2>2. owed' \in [Sets -> Int] /\ late' \in [Sets -> BOOLEAN]
    <3>1. owed' \in [Sets -> Int]
      BY <1>4 DEF StoreExecute, TypeOK
    <3>2. PICK b \in BOOLEAN : late' = [late EXCEPT ![set[t]] = b]
      BY <1>4 DEF StoreExecute
    <3> QED BY <3>1, <3>2 DEF TypeOK
  <2>3. pc' \in [Threads -> Places]
    BY <1>4 DEF StoreExecute, TypeOK
  <2> QED BY <1>4, <2>1, <2>2, <2>3 DEF StoreExecute, TypeOK, args, task
<1>5. CASE StoreDelay(t)
  <2>1. PICK d \in 0..(SetWidth - 1) : setDelay' = [setDelay EXCEPT ![set[t]] = d]
    <3>1. 0 \in 0..(SetWidth - 1)
      BY SetDelaysAssumption
    <3> QED BY <1>5, <3>1, SetDelaysAssumption DEF StoreDelay
  <2>2. setDelay' \in [Sets -> 0..(SetWidth - 1)]
    BY <2>1 DEF TypeOK
  <2> QED BY <1>5, <2>2 DEF StoreDelay, TypeOK, args, task, history
<1>6. CASE PostLock(t)
  BY <1>6 DEF PostLock, Post, TypeOK, args, task, history
<1> QED BY <1>1, <1>2, <1>3, <1>4, <1>5, <1>6 DEF Active

LEMMA TaskType ==
    ASSUME TypeOK, TaskStep
    PROVE  TypeOK'
<1> USE DEF At, Goto, Places, Threads
<1>1. CASE Scan
  <2>1. cur' \in Sets
    BY <1>1, NextSetType DEF Scan, TypeOK
  <2>2. pc' \in [Threads -> Places]
    BY <1>1 DEF Scan, TypeOK
  <2> QED BY <1>1, <2>1, <2>2 DEF Scan, TypeOK, args, history
<1>2. CASE Look
  <2>1. todo' \in SUBSET Sets
    <3>1. Members[cur] \in SUBSET Sets
      BY SetsAssumption DEF TypeOK
    <3> QED BY <1>2, <3>1 DEF Look, TypeOK
  <2>2. pc' \in [Threads -> Places]
    BY <1>2 DEF Look, TypeOK
  <2>3. owed' \in [Sets -> Int]
    <3>1. cur \in Sets /\ owed \in [Sets -> Int]
      BY DEF TypeOK
    <3>2. owed' = owed \/ owed' = [owed EXCEPT ![cur] = @ - 1]
      BY <1>2 DEF Look
    <3> QED BY <3>1, <3>2
  <2>4. pending' \in [Sets -> BOOLEAN] /\ late' \in [Sets -> BOOLEAN]
    <3>1. /\ pending' = pending \/ pending' = [pending EXCEPT ![cur] = FALSE]
          /\ late' = late \/ late' = [late EXCEPT ![cur] = FALSE]
      BY <1>2 DEF Look
    <3> QED BY <3>1 DEF TypeOK
  <2> QED BY <1>2, <2>1, <2>2, <2>3, <2>4 DEF Look, TypeOK, args
<1>3. CASE TickWait
  BY <1>3, SetDelaysAssumption DEF TickWait, Take, TimeOut, TypeOK, args, task, history
<1>4. CASE Tick
  <2>1. setDelay[cur] - 1 \in Int
    BY SetDelaysAssumption DEF TypeOK
  <2>2. setDelay' \in [Sets -> 0..(SetWidth - 1)]
    BY <1>4, <2>1, ModBound DEF Tick, TypeOK
  <2> QED BY <1>4, <2>2 DEF Tick, TypeOK, args, task, history
<1>5. CASE MembersDone
  BY <1>5 DEF MembersDone, TypeOK, args, task, history
<1>6. CASE ClearWait
  BY <1>6, SetDelaysAssumption DEF ClearWait, Take, TimeOut, TypeOK, args, task, history
<1>7. CASE Clear
  BY <1>7 DEF Clear, TypeOK, args, task, history
<1>8. CASE TaskPost
  BY <1>8, NextSetType DEF TaskPost, TypeOK, args, history
<1>9. ASSUME NEW m \in Sets, Member(m) PROVE TypeOK'
  BY <1>9 DEF Member, TypeOK, history
<1> QED BY <1>1, <1>2, <1>3, <1>4, <1>5, <1>6, <1>7, <1>8, <1>9 DEF TaskStep

LEMMA RolesStep ==
    ASSUME TypeOK, Roles, [Next]_vars
    PROVE  Roles'
<1> USE ThreadsAssumption DEF At, Goto, Threads, CallPlaces
<1>1. ASSUME NEW c \in Callers, NEW s \in Sets, NEW v \in Values, Call(c, s, v)
      PROVE  Roles'
  BY <1>1 DEF Call, Roles, TypeOK
<1>2. ASSUME NEW t \in Threads, Active(t) PROVE Roles'
  <2>1. pc[t] \in CallPlaces /\ \E p \in CallPlaces \cup {Done(t)} : pc' = [pc EXCEPT ![t] = p]
    BY <1>2 DEF Active, Check, ReadDelay, Wait, Take, TimeOut, StoreExecute, StoreDelay, PostLock, Post
  <2> QED BY <2>1 DEF Roles, TypeOK, Done
<1>3. CASE TaskStep
  <2>1. \E p \in Places \ {"idle"} : pc' = [pc EXCEPT ![Task] = p] \/ pc' = pc
    BY <1>3 DEF TaskStep, Scan, Look, TickWait, Tick, Member, MembersDone, ClearWait, Clear,
                TaskPost, Take, TimeOut, Places
  <2> QED BY <2>1 DEF Roles, TypeOK
<1>4. CASE UNCHANGED vars
  BY <1>4 DEF vars, Roles
<1> QED BY <1>1, <1>2, <1>3, <1>4 DEF Next

-----------------------------------------------------------------------------
(* The credits. *)

\* A step that leaves the marks and counts alone, and the task in the same set
\* and on the same side of its execution.
LEMMA CreditsKept ==
    ASSUME Credits,
           UNCHANGED <<setExecute, owed, cur>>,
           pc[Task] \in Executing => pc'[Task] \in Executing,
           pc'[Task] = "look" => pc[Task] = "look"
    PROVE  Credits'
BY DEF Credits

LEMMA CreditsActive ==
    ASSUME TypeOK, Roles, Credits, timeOuts' = timeOuts, NEW t \in Threads, Active(t)
    PROVE  Credits'
<1>1. /\ pc[Task] \in Executing => pc'[Task] \in Executing
      /\ pc'[Task] = "look" => pc[Task] = "look"
  <2>1. \E p \in CallPlaces \cup {Done(t)} : pc' = [pc EXCEPT ![t] = p]
    BY DEF Active, Check, ReadDelay, Wait, Take, TimeOut, StoreExecute, StoreDelay,
           PostLock, Post, At, Goto, CallPlaces
  <2> QED BY <2>1, ThreadsAssumption DEF TypeOK, Threads, Done, Executing, CallPlaces
<1>2. CASE StoreExecute(t)
  <2>1. set[t] \in Sets
    BY DEF TypeOK
  <2>2. /\ setExecute' = [setExecute EXCEPT ![set[t]] = val[t]]
        /\ owed' = [owed EXCEPT ![set[t]] = @ + (IF val[t] > 0 THEN 1 ELSE 0)]
        /\ cur' = cur
    BY <1>2 DEF StoreExecute, task
  <2>3. val[t] \in Nat /\ owed \in [Sets -> Int]
    <3>1. val[t] \in Values \cup {0, 1}
      BY DEF TypeOK
    <3>2. CASE val[t] \in Values
      BY <3>2, SetDelaysAssumption DEF TypeOK
    <3>3. CASE val[t] \in {0, 1}
      BY <3>3 DEF TypeOK
    <3> QED BY <3>1, <3>2, <3>3
  <2>4. ASSUME NEW r \in Sets, r # set[t]
        PROVE  setExecute'[r] = setExecute[r] /\ owed'[r] = owed[r]
    BY <2>2, <2>4 DEF TypeOK
  <2>5. setExecute'[set[t]] = val[t] /\ owed'[set[t]] = owed[set[t]] + (IF val[t] > 0 THEN 1 ELSE 0)
    BY <2>1, <2>2 DEF TypeOK
  <2>6. owed[set[t]] \in Int /\ owed[set[t]] >= 0
    BY <2>1, <2>3 DEF Credits
  <2>7. /\ owed'[set[t]] >= 0
        /\ setExecute'[set[t]] # 0 => owed'[set[t]] > 0
        /\ owed[set[t]] > 0 => owed'[set[t]] > 0
    BY <2>3, <2>5, <2>6
  <2> QED BY <1>1, <2>1, <2>2, <2>4, <2>7 DEF Credits
<1>3. CASE ~StoreExecute(t)
  <2>1. UNCHANGED <<setExecute, owed, cur>>
    BY <1>3 DEF Active, Check, ReadDelay, Wait, Take, TimeOut, StoreDelay, PostLock, Post,
                task, history
  <2> QED BY <1>1, <2>1, CreditsKept
<1> QED BY <1>2, <1>3

LEMMA CreditsTask ==
    ASSUME TypeOK, Roles, Credits, timeOuts' = timeOuts, TaskStep
    PROVE  Credits'
<1> USE DEF At, Goto
<1>0. Task \in Threads /\ cur \in Sets
  BY DEF Threads, TypeOK
<1>1. CASE Scan
  <2>1. CASE setExecute[cur] = 1
    <3>1. pc' = [pc EXCEPT ![Task] = "look"] /\ UNCHANGED <<setExecute, owed, cur>>
      BY <1>1, <2>1 DEF Scan, history
    <3>2. pc[Task] = "scan"
      BY <1>1 DEF Scan
    <3>3. owed[cur] > 0
      BY <1>0, <2>1, <3>2 DEF Credits, Executing, CallPlaces
    <3> QED BY <1>0, <3>1, <3>2, <3>3 DEF Credits, Executing, CallPlaces, TypeOK
  <2>2. CASE setExecute[cur] # 1
    <3>1. pc[Task] = "scan" /\ UNCHANGED <<pc, setExecute, owed>>
      BY <1>1, <2>2 DEF Scan, history
    <3> QED BY <3>1 DEF Credits, Executing, CallPlaces
  <2> QED BY <2>1, <2>2
<1>2. CASE Look
  <2>1. pc[Task] = "look" /\ owed[cur] > 0
    BY <1>0, <1>2 DEF Look, Credits
  <2>2. UNCHANGED <<setExecute, cur>>
    BY <1>2 DEF Look
  <2>3. CASE setDelay[cur] > 0
    <3>1. pc' = [pc EXCEPT ![Task] = "tickwait"] /\ UNCHANGED owed
      BY <1>2, <2>3 DEF Look
    <3>2. pc'[Task] = "tickwait"
      BY <1>0, <3>1 DEF TypeOK
    <3> QED BY <2>1, <2>2, <3>1, <3>2 DEF Credits, Executing, CallPlaces
  <2>4. CASE ~(setDelay[cur] > 0)
    <3>1. pc' = [pc EXCEPT ![Task] = "members"] /\ owed' = [owed EXCEPT ![cur] = @ - 1]
      BY <1>2, <2>4 DEF Look
    <3>2. pc'[Task] = "members"
      BY <1>0, <3>1 DEF TypeOK
    <3>3. owed'[cur] = owed[cur] - 1 /\ \A r \in Sets : r # cur => owed'[r] = owed[r]
      BY <1>0, <3>1 DEF TypeOK
    <3>4. owed[cur] \in Int
      BY <1>0 DEF TypeOK
    <3>5. owed'[cur] >= 0
      BY <2>1, <3>3, <3>4
    <3> QED BY <2>1, <2>2, <3>2, <3>3, <3>5 DEF Credits, Executing, CallPlaces
  <2> QED BY <2>3, <2>4
<1>3. CASE TickWait \/ Tick \/ MembersDone \/ ClearWait \/ \E m \in Sets : Member(m)
  <2>1. UNCHANGED <<setExecute, owed, cur>>
    BY <1>3 DEF TickWait, Tick, MembersDone, ClearWait, Member, Take, TimeOut, task, history
  <2>2. /\ pc[Task] \in Executing => pc'[Task] \in Executing
        /\ pc'[Task] # "look"
    BY <1>0, <1>3 DEF TickWait, Tick, MembersDone, ClearWait, Member, Take, TimeOut, TypeOK,
                      Executing, CallPlaces
  <2> QED BY <2>1, <2>2, CreditsKept
<1>4. CASE Clear
  <2>1. /\ setExecute' = [setExecute EXCEPT ![cur] = 0] /\ pc' = [pc EXCEPT ![Task] = "done"]
        /\ UNCHANGED <<owed, cur>>
    BY <1>4 DEF Clear, task, history
  <2>2. setExecute'[cur] = 0 /\ \A r \in Sets : r # cur => setExecute'[r] = setExecute[r]
    BY <1>0, <2>1 DEF TypeOK
  <2>3. pc'[Task] = "done"
    BY <1>0, <2>1 DEF TypeOK
  <2> QED BY <2>1, <2>2, <2>3 DEF Credits
<1>5. CASE TaskPost
  <2>1. pc[Task] = "done" /\ pc' = [pc EXCEPT ![Task] = "scan"] /\ UNCHANGED <<setExecute, owed>>
    BY <1>5 DEF TaskPost, history
  <2>2. pc'[Task] = "scan"
    BY <1>0, <2>1 DEF TypeOK
  <2> QED BY <2>1, <2>2 DEF Credits, Executing, CallPlaces
<1> QED BY <1>1, <1>2, <1>3, <1>4, <1>5 DEF TaskStep

-----------------------------------------------------------------------------
(* Late starts. *)

\* A step that stores no mark and begins or ends no execution.
LEMMA LateKept ==
    ASSUME LateStarts, UNCHANGED <<setExecute, pending, late>>,
           \A s \in Sets : CarryingOut(s)' => CarryingOut(s)
    PROVE  LateStarts'
BY DEF LateStarts

LEMMA LateActive ==
    ASSUME TypeOK, Roles, LateStarts, NEW t \in Threads, Active(t)
    PROVE  LateStarts'
<1>1. cur' = cur /\ (pc'[Task] \in Executing <=> pc[Task] \in Executing)
  <2>1. /\ pc[t] \in CallPlaces /\ cur' = cur
        /\ \E p \in CallPlaces \cup {Done(t)} : pc' = [pc EXCEPT ![t] = p]
    BY DEF Active, Check, ReadDelay, Wait, Take, TimeOut, StoreExecute, StoreDelay,
           PostLock, Post, At, Goto, CallPlaces, task
  <2> QED BY <2>1, ThreadsAssumption DEF TypeOK, Threads, Done, Executing, CallPlaces
<1>2. \A s \in Sets : CarryingOut(s)' <=> CarryingOut(s)
  BY <1>1 DEF CarryingOut
<1>3. CASE StoreExecute(t)
  <2>1. PICK q \in Sets, v \in Nat : q = set[t] /\ v = val[t]
    <3>1. val[t] \in Values \cup {0, 1} /\ set[t] \in Sets
      BY DEF TypeOK
    <3>2. \A x \in Values \cup {0, 1} : x \in Nat
      BY SetDelaysAssumption
    <3> QED BY <3>1, <3>2
  <2>2. /\ setExecute' = [setExecute EXCEPT ![q] = v]
        /\ pending' = [pending EXCEPT ![q] = v > 0]
        /\ late' = [late EXCEPT ![q] = v > 0 /\ CarryingOut(q)]
    BY <1>3, <2>1 DEF StoreExecute
  <2>3. ASSUME NEW r \in Sets, r # q
        PROVE  setExecute'[r] = setExecute[r] /\ pending'[r] = pending[r] /\ late'[r] = late[r]
    BY <2>2, <2>3 DEF TypeOK
  <2>4. /\ setExecute'[q] = v /\ pending'[q] = (v > 0)
        /\ late'[q] = (v > 0 /\ CarryingOut(q))
    BY <2>2 DEF TypeOK
  <2>5. v > 0 => v # 0
    OBVIOUS
  <2>6. pending'[q] /\ (setExecute'[q] = 0 \/ CarryingOut(q)') => late'[q]
    BY <1>2, <2>4, <2>5
  <2> QED BY <1>2, <2>3, <2>6 DEF LateStarts
<1>4. CASE ~StoreExecute(t)
  <2>1. UNCHANGED <<setExecute, pending, late>>
    BY <1>4 DEF Active, Check, ReadDelay, Wait, Take, TimeOut, StoreDelay, PostLock, Post,
                history
  <2> QED BY <1>2, <2>1, LateKept
<1> QED BY <1>3, <1>4

LEMMA LateTask ==
    ASSUME TypeOK, LateStarts, TaskStep
    PROVE  LateStarts'
<1> USE DEF At, Goto
<1>0. Task \in Threads /\ cur \in Sets
  BY DEF Threads, TypeOK
<1>1. CASE Scan \/ TickWait \/ Tick \/ MembersDone \/ ClearWait \/ TaskPost \/ \E m \in Sets : Member(m)
  <2>1. UNCHANGED <<setExecute, pending, late>>
    BY <1>1 DEF Scan, TickWait, Tick, MembersDone, ClearWait, Member, TaskPost, Take, TimeOut,
                history
  <2>2. pc'[Task] \in Executing => pc[Task] \in Executing /\ cur' = cur
    BY <1>0, <1>1 DEF Scan, TickWait, Tick, MembersDone, ClearWait, Member, TaskPost, Take,
                      TimeOut, TypeOK, Executing, CallPlaces, task
  <2> QED BY <2>1, <2>2, LateKept DEF CarryingOut
<1>2. CASE Look /\ setDelay[cur] > 0
  <2>1. UNCHANGED <<setExecute, pending, late>> /\ pc' = [pc EXCEPT ![Task] = "tickwait"]
    BY <1>2 DEF Look
  <2>2. pc'[Task] \notin Executing
    BY <1>0, <2>1 DEF TypeOK, Executing, CallPlaces
  <2> QED BY <2>1, <2>2, LateKept DEF CarryingOut
<1>3. CASE Look /\ ~(setDelay[cur] > 0)
  <2>1. /\ UNCHANGED <<setExecute, cur>>
        /\ pending' = [pending EXCEPT ![cur] = FALSE]
        /\ late' = [late EXCEPT ![cur] = FALSE]
    BY <1>3 DEF Look
  <2>2. pending'[cur] = FALSE
    BY <1>0, <2>1 DEF TypeOK
  <2>3. ASSUME NEW r \in Sets, r # cur
        PROVE  pending'[r] = pending[r] /\ late'[r] = late[r] /\ ~CarryingOut(r)'
    BY <2>1, <2>3 DEF TypeOK, CarryingOut
  <2> QED BY <2>1, <2>2, <2>3 DEF LateStarts
<1>4. CASE Clear
  <2>1. /\ setExecute' = [setExecute EXCEPT ![cur] = 0] /\ UNCHANGED <<pending, late, cur>>
        /\ pc[Task] = "clear" /\ pc' = [pc EXCEPT ![Task] = "done"]
    BY <1>4 DEF Clear, task, history
  <2>2. CarryingOut(cur) /\ pc'[Task] \notin Executing
    BY <1>0, <2>1 DEF TypeOK, CarryingOut, Executing, CallPlaces
  <2>3. \A r \in Sets : r # cur => setExecute'[r] = setExecute[r]
    BY <2>1 DEF TypeOK
  <2> QED BY <1>0, <2>1, <2>2, <2>3 DEF LateStarts, CarryingOut
<1> QED BY <1>1, <1>2, <1>3, <1>4 DEF TaskStep

LEMMA LateStep ==
    ASSUME TypeOK, Roles, LateStarts, [Next]_vars
    PROVE  LateStarts'
<1>1. ASSUME NEW c \in Callers, NEW s \in Sets, NEW v \in Values, Call(c, s, v)
      PROVE  LateStarts'
  <2>1. UNCHANGED <<setExecute, pending, late, cur>> /\ pc'[Task] = pc[Task]
    BY <1>1, ThreadsAssumption DEF Call, Goto, TypeOK, Threads, task
  <2> QED BY <2>1, LateKept DEF CarryingOut
<1>2. CASE UNCHANGED vars
  <2>1. UNCHANGED <<setExecute, pending, late, cur, pc>>
    BY <1>2 DEF vars, task, history
  <2> QED BY <2>1, LateKept DEF CarryingOut
<1> QED BY <1>1, <1>2, LateActive, LateTask DEF Next

-----------------------------------------------------------------------------
(* Together. *)

\* A step counts at most one timeout.
LEMMA TimeOutsStep ==
    ASSUME [Next]_vars
    PROVE  timeOuts' \in {timeOuts, timeOuts + 1}
<1>1. ASSUME NEW t \in Threads, Active(t)
      PROVE  timeOuts' \in {timeOuts, timeOuts + 1}
  BY <1>1 DEF Active, Check, ReadDelay, Wait, Take, TimeOut, StoreExecute, StoreDelay,
              PostLock, Post, history
<1>2. ASSUME TaskStep PROVE timeOuts' \in {timeOuts, timeOuts + 1}
  BY <1>2 DEF TaskStep, Scan, Look, TickWait, Tick, Member, MembersDone, ClearWait, Clear,
              TaskPost, Take, TimeOut, history
<1> QED BY <1>1, <1>2 DEF Next, Call, vars, history

LEMMA InvStep == Inv /\ [Next]_vars => Inv'
<1> SUFFICES ASSUME Inv, [Next]_vars PROVE Inv'
  OBVIOUS
<1>0. TypeOK /\ Roles /\ LateStarts /\ (timeOuts = 0 => Credits)
  BY DEF Inv
<1>1. TypeOK'
  <2>1. CASE UNCHANGED vars
    BY <1>0, <2>1 DEF vars, args, task, history, TypeOK
  <2> QED BY <1>0, <2>1, CallType, ActiveType, TaskType DEF Next
<1>2. Roles'
  BY <1>0, RolesStep
<1>3. ASSUME timeOuts' = 0 PROVE Credits'
  <2>0. timeOuts' = timeOuts /\ Credits
    <3>1. timeOuts' \in {timeOuts, timeOuts + 1}
      BY TimeOutsStep
    <3> QED BY <1>0, <1>3, <3>1 DEF TypeOK
  <2>1. ASSUME NEW c \in Callers, NEW s \in Sets, NEW v \in Values, Call(c, s, v)
        PROVE  Credits'
    <3>1. UNCHANGED <<setExecute, owed, cur>> /\ pc'[Task] = pc[Task]
      BY <1>0, <2>1, ThreadsAssumption DEF Call, Goto, TypeOK, Threads, task
    <3> QED BY <2>0, <3>1, CreditsKept
  <2>2. CASE UNCHANGED vars
    BY <2>0, <2>2, CreditsKept DEF vars, task, history
  <2> QED BY <1>0, <1>3, <2>0, <2>1, <2>2, CreditsActive, CreditsTask DEF Next
<1>4. LateStarts'
  BY <1>0, LateStep
<1> QED BY <1>1, <1>2, <1>3, <1>4 DEF Inv

\* The state of the sets is well typed, a start leads to at most one execution,
\* and none is lost but one stored while its own set is being carried out: for
\* every number of sets, callers, requests and delays.
THEOREM SetRunsOnce == Spec => []StartsSound
<1>1. Inv => StartsSound
  BY DEF Inv, Credits, LateStarts, ExecutedOnce, LostOnlyLate, StartsSound
<1> QED BY InitInv, InvStep, <1>1, PTL DEF Spec

-----------------------------------------------------------------------------
(* The lock. *)

Holders == {t \in Threads : pc[t] \in Holding}
LockInv ==
    /\ sem \in Nat /\ sem + Cardinality(Holders) >= 1
    /\ timeOuts = 0 => sem + Cardinality(Holders) = 1

LEMMA HoldersFinite ==
    /\ IsFiniteSet(Holders) /\ Cardinality(Holders) \in Nat
    /\ IsFiniteSet(Holders') /\ Cardinality(Holders') \in Nat
<1>1. IsFiniteSet(Threads)
  BY ThreadsAssumption, FS_AddElement, FS_Union, FS_Singleton DEF Threads
<1>2. IsFiniteSet(Holders) /\ IsFiniteSet(Holders')
  BY <1>1, FS_Subset DEF Holders
<1> QED BY <1>2, FS_CardinalityType

\* A thread goes on without crossing the border of a section.
LEMMA LockStays ==
    ASSUME TypeOK, LockInv, NEW t \in Threads, NEW p \in Places,
           pc' = [pc EXCEPT ![t] = p], pc[t] \in Holding <=> p \in Holding,
           sem' = sem, timeOuts' = timeOuts
    PROVE  LockInv'
<1>1. Holders' = Holders
  BY DEF Holders, TypeOK
<1> QED BY <1>1 DEF LockInv

\* It takes the lock, or goes in without it.
LEMMA LockEntered ==
    ASSUME TypeOK, LockInv, NEW t \in Threads, NEW p \in Holding,
           pc' = [pc EXCEPT ![t] = p], pc[t] \notin Holding,
           \/ sem > 0 /\ sem' = sem - 1 /\ timeOuts' = timeOuts
           \/ sem' = sem /\ timeOuts' = timeOuts + 1
    PROVE  LockInv'
<1>1. Holders' = Holders \cup {t} /\ t \notin Holders
  BY DEF Holders, TypeOK
<1>2. Cardinality(Holders') = Cardinality(Holders) + 1
  BY <1>1, HoldersFinite, FS_AddElement
<1>3. timeOuts \in Nat
  BY SetDelaysAssumption DEF TypeOK
<1> QED BY <1>2, <1>3, HoldersFinite DEF LockInv

LEMMA LockLeft ==
    ASSUME TypeOK, LockInv, NEW t \in Threads, NEW p \in Places \ Holding,
           pc' = [pc EXCEPT ![t] = p], pc[t] \in Holding,
           sem' = sem + 1, timeOuts' = timeOuts
    PROVE  LockInv'
<1>1. Holders' = Holders \ {t} /\ t \in Holders
  BY DEF Holders, TypeOK
<1>2. Cardinality(Holders') = Cardinality(Holders) - 1
  BY <1>1, HoldersFinite, FS_RemoveElement
<1> QED BY <1>2, HoldersFinite DEF LockInv

LEMMA LockActive ==
    ASSUME TypeOK, LockInv, NEW t \in Threads, Active(t)
    PROVE  LockInv'
<1> USE DEF At, Goto, Holding, Places
<1>1. CASE Check(t) \/ ReadDelay(t)
  <2>1. /\ pc[t] \in {"check", "delay"} /\ UNCHANGED <<sem, timeOuts>>
        /\ \E p \in {"delay", "wait", "members", "idle"} : pc' = [pc EXCEPT ![t] = p]
    BY <1>1 DEF Check, ReadDelay, Done, history
  <2> QED BY <2>1, LockStays
<1>2. CASE Wait(t)
  <2>1. /\ pc[t] = "wait" /\ \E p \in {"store", "post"} : pc' = [pc EXCEPT ![t] = p]
        /\ \/ sem > 0 /\ sem' = sem - 1 /\ timeOuts' = timeOuts
           \/ sem' = sem /\ timeOuts' = timeOuts + 1
    BY <1>2 DEF Wait, Take, TimeOut, history
  <2> QED BY <2>1, LockEntered
<1>3. CASE StoreExecute(t) \/ StoreDelay(t)
  <2>1. /\ pc[t] \in {"store", "store2"} /\ UNCHANGED <<sem, timeOuts>>
        /\ \E p \in {"store2", "post"} : pc' = [pc EXCEPT ![t] = p]
    BY <1>3 DEF StoreExecute, StoreDelay, history
  <2> QED BY <2>1, LockStays
<1>4. CASE PostLock(t)
  <2>1. /\ pc[t] = "post" /\ sem' = sem + 1 /\ timeOuts' = timeOuts
        /\ \E p \in {"members", "idle"} : pc' = [pc EXCEPT ![t] = p]
    BY <1>4 DEF PostLock, Post, Done, history
  <2> QED BY <2>1, LockLeft
<1> QED BY <1>1, <1>2, <1>3, <1>4 DEF Active

LEMMA LockTask ==
    ASSUME TypeOK, LockInv, TaskStep
    PROVE  LockInv'
<1> USE DEF At, Goto, Holding, Places
<1>0. Task \in Threads
  BY DEF Threads
<1>1. CASE Scan \/ Look \/ MembersDone \/ \E m \in Sets : Member(m)
  <2>1. /\ pc[Task] \in {"scan", "look", "members"} /\ UNCHANGED <<sem, timeOuts>>
        /\ \/ pc' = pc
           \/ \E p \in {"look", "tickwait", "members", "check", "clearwait"} :
                  pc' = [pc EXCEPT ![Task] = p]
    BY <1>1 DEF Scan, Look, MembersDone, Member, history
  <2>2. CASE pc' = pc
    BY <2>1, <2>2 DEF LockInv, Holders
  <2> QED BY <1>0, <2>1, <2>2, LockStays
<1>2. CASE TickWait \/ ClearWait
  <2>1. /\ pc[Task] \in {"tickwait", "clearwait"}
        /\ \E p \in {"tick", "clear", "done"} : pc' = [pc EXCEPT ![Task] = p]
        /\ \/ sem > 0 /\ sem' = sem - 1 /\ timeOuts' = timeOuts
           \/ sem' = sem /\ timeOuts' = timeOuts + 1
    BY <1>2 DEF TickWait, ClearWait, Take, TimeOut, history
  <2> QED BY <1>0, <2>1, LockEntered
<1>3. CASE Tick \/ Clear
  <2>1. /\ pc[Task] \in {"tick", "clear"} /\ UNCHANGED <<sem, timeOuts>>
        /\ pc' = [pc EXCEPT ![Task] = "done"]
    BY <1>3 DEF Tick, Clear, history
  <2> QED BY <1>0, <2>1, LockStays
<1>4. CASE TaskPost
  <2>1. /\ pc[Task] = "done" /\ sem' = sem + 1 /\ timeOuts' = timeOuts
        /\ pc' = [pc EXCEPT ![Task] = "scan"]
    BY <1>4 DEF TaskPost, history
  <2> QED BY <1>0, <2>1, LockLeft
<1> QED BY <1>1, <1>2, <1>3, <1>4 DEF TaskStep

LEMMA InitLock == Init => LockInv
<1> SUFFICES ASSUME Init PROVE LockInv
  OBVIOUS
<1>1. Holders = {}
  BY DEF Init, Holders, Holding
<1> QED BY <1>1, FS_EmptySet DEF Init, LockInv

LEMMA StepLock == TypeOK /\ LockInv /\ [Next]_vars => LockInv'
<1> SUFFICES ASSUME TypeOK, LockInv, [Next]_vars PROVE LockInv'
  OBVIOUS
<1>1. ASSUME NEW c \in Callers, NEW s \in Sets, NEW v \in Values, Call(c, s, v)
      PROVE  LockInv'
  <2>1. /\ c \in Threads /\ pc[c] = "idle" /\ pc' = [pc EXCEPT ![c] = "check"]
        /\ UNCHANGED <<sem, timeOuts>>
    BY <1>1 DEF Call, At, Goto, Threads
  <2> QED BY <2>1, LockStays DEF Holding, Places
<1>2. CASE UNCHANGED vars
  BY <1>2 DEF vars, history, LockInv, Holders
<1> QED BY <1>1, <1>2, LockActive, LockTask DEF Next

\* s_tsetexecuteSem, which is posted also where it was not taken, is held by
\* one thread at a time until a wait has timed out, and is never lost: for any
\* number of callers and of timeouts.
THEOREM SetLockKept == Spec => []LockSound
<1>1. Inv /\ [Next]_vars /\ LockInv => LockInv'
  BY StepLock DEF Inv
<1>2. LockInv => LockSound
  <2> SUFFICES ASSUME LockInv PROVE LockSound
    OBVIOUS
  <2>1. Cardinality(Holders) \in Nat /\ sem \in Nat
    BY HoldersFinite DEF LockInv
  <2> QED BY <2>1 DEF LockInv, LockSound, LockExclusive, LockNeverLost, Holders
<1> QED BY InitInv, InvStep, InitLock, <1>1, <1>2, PTL DEF Spec

-----------------------------------------------------------------------------
(* Rules. *)

\* Has output o been looked at since the round began?
Passed(o) ==
    \/ place \in {"check", "send"}
    \/ place = "F" /\ o[1] = "T"
    \/ place = o[1] /\ k > o[2]

\* Times output o has been looked at since its counters were set.
Looks(o) == age[o[1]] + (IF Passed(o) THEN 1 ELSE 0)

\* What the counters of output o are after n looks.
Timed(o, n) ==
    /\ n <= delay[o] => delayCnt[o] = n + 1 /\ durCnt[o] = 1
    /\ delay[o] < n /\ n <= delay[o] + dur[o] =>
           delayCnt[o] = delay[o] + 1 /\ durCnt[o] = n - delay[o] + 1
    /\ n > delay[o] + dur[o] => delayCnt[o] = 0 /\ durCnt[o] = 0

Timing ==
    \A o \in Outputs :
        fresh[o[1]] /\ state[o[1]] = 1 /\ Short(o) => Timed(o, Looks(o))

\* Between rounds there are no commands.
QueueEmpty == place = "check" => out = {}

RuleInv == RuleTypeOK /\ QueueEmpty /\ Timing /\ OnTime

LEMMA OutputsPairs ==
    /\ \A o \in Outputs : o[1] \in Lists /\ o[2] \in Nat \ {0}
                          /\ o[2] <= NumOut[o[1]] /\ o = <<o[1], o[2]>>
    /\ \A b \in Lists, n \in Nat \ {0} : n <= NumOut[b] => <<b, n>> \in Outputs
<1>1. ASSUME NEW o \in Outputs
      PROVE  o[1] \in Lists /\ o[2] \in Nat \ {0} /\ o[2] <= NumOut[o[1]]
             /\ o = <<o[1], o[2]>>
  <2>1. PICK b \in Lists : o \in {b} \X Outs(b)
    BY DEF Outputs
  <2>2. NumOut[b] \in Nat
    BY OutsAssumption
  <2> QED
    BY <2>1, <2>2 DEF Outs
<1>2. ASSUME NEW b \in Lists, NEW n \in Nat \ {0}, n <= NumOut[b]
      PROVE  <<b, n>> \in Outputs
  <2>1. NumOut[b] \in Nat
    BY OutsAssumption
  <2>2. <<b, n>> \in {b} \X Outs(b)
    BY <1>2, <2>1 DEF Outs
  <2> QED
    BY <2>2 DEF Outputs
<1> QED
  BY <1>1, <1>2

LEMMA ModSmall ==
    ASSUME NEW x \in Nat
    PROVE  x % Width \in Counters /\ (x < Width => x % Width = x)
  BY TimesAssumption, SMTT(60) DEF Counters

\* The assumption about times, in terms of counters.
LEMMA TimesInRange ==
    /\ Width \in Nat /\ Width > 1 /\ Day \in Nat
    /\ 0 \in Counters /\ 1 \in Counters /\ Counters \subseteq Nat
    /\ Delays \subseteq Nat /\ Durations \subseteq Nat
    /\ Windows \subseteq Nat
  BY TimesAssumption DEF Counters
LEMMA InvInit == RuleInit => RuleInv
<1> SUFFICES ASSUME RuleInit PROVE RuleInv
  OBVIOUS
<1>1. RuleTypeOK
  <2>1. delayCnt \in [Outputs -> Counters] /\ durCnt \in [Outputs -> Counters]
    BY TimesInRange DEF RuleInit
  <2>2. state \in [Lists -> 0..1] /\ finish \in [Lists -> Nat] /\ age \in [Lists -> Nat]
        /\ fresh \in [Lists -> BOOLEAN]
    BY DEF RuleInit
  <2>3. execute \in 0..2 /\ left \in Nat /\ k \in Nat \ {0}
        /\ place \in Lists \cup {"check", "send"}
    BY DEF RuleInit
  <2>4. active \in BOOLEAN /\ window \in Windows /\ single \in BOOLEAN
        /\ cond \in BOOLEAN
        /\ delay \in [Outputs -> Delays] /\ dur \in [Outputs -> Durations]
        /\ quitm \in [Outputs -> Quits]
    BY DEF RuleInit
  <2> QED
    BY <2>1, <2>2, <2>3, <2>4 DEF RuleTypeOK
<1>2. QueueEmpty /\ OnTime
  BY DEF RuleInit, QueueEmpty, OnTime
<1>3. Timing
  BY OutputsPairs DEF RuleInit, Timing
<1> QED
  BY <1>1, <1>2, <1>3 DEF RuleInv

\* Steps between rounds that leave the queue as it is.
LEMMA InactiveInv == RuleInv /\ Inactive => RuleInv'
<1> SUFFICES ASSUME RuleInv, Inactive PROVE RuleInv'
  OBVIOUS
<1>1. RuleTypeOK'
  BY DEF RuleInv, RuleTypeOK, Inactive, rule, counters, Lists
<1>2. QueueEmpty' /\ OnTime'
  BY DEF RuleInv, QueueEmpty, OnTime, Inactive
<1>3. Timing'
  BY OutputsPairs DEF Inactive, Timing
<1> QED
  BY <1>1, <1>2, <1>3 DEF RuleInv

LEMMA WriteInv == RuleInv /\ (WriteActive \/ WriteDuration) => RuleInv'
<1> SUFFICES ASSUME RuleInv, WriteActive \/ WriteDuration PROVE RuleInv'
  OBVIOUS
<1>1. UNCHANGED <<delay, dur, quitm, timers, place, k, out, cond, execute, left, single>>
      /\ active' \in BOOLEAN /\ window' \in Windows
  BY DEF WriteActive, WriteDuration, RuleInv, RuleTypeOK
<1>2. RuleTypeOK'
  BY <1>1 DEF RuleInv, RuleTypeOK, timers, counters
<1>3. QueueEmpty' /\ OnTime'
  BY <1>1 DEF RuleInv, QueueEmpty, OnTime, Short, timers
<1>4. Timing'
  BY <1>1 DEF RuleInv, Timing, Timed, Looks, Passed, Short, timers, counters
<1> QED
  BY <1>2, <1>3, <1>4 DEF RuleInv

LEMMA ReplaceInv == RuleInv /\ Replace => RuleInv'
<1> SUFFICES ASSUME RuleInv, Replace PROVE RuleInv'
  OBVIOUS
<1>1. RuleTypeOK'
  BY TimesInRange DEF RuleInv, RuleTypeOK, Replace, counters, Lists
<1>2. QueueEmpty' /\ OnTime'
  BY DEF RuleInv, QueueEmpty, OnTime, Replace
<1>3. Timing'
  BY OutputsPairs DEF Replace, Timing
<1> QED
  BY <1>1, <1>2, <1>3 DEF RuleInv

LEMMA SendInv == RuleInv /\ Send => RuleInv'
<1> SUFFICES ASSUME RuleInv, Send PROVE RuleInv'
  OBVIOUS
<1>1. RuleTypeOK'
  BY DEF RuleInv, RuleTypeOK, Send, rule, timers, counters
<1>2. QueueEmpty' /\ OnTime'
  BY DEF QueueEmpty, OnTime, Send
<1>3. \A o \in Outputs : Passed(o) /\ Passed(o)'
  BY DEF Send, Passed
<1>4. Timing'
  BY <1>3 DEF RuleInv, Send, Timing, Timed, Looks, Short, rule, timers, counters
<1> QED
  BY <1>1, <1>2, <1>4 DEF RuleInv

LEMMA LeaveInv == ASSUME NEW b \in Lists PROVE RuleInv /\ Leave(b) => RuleInv'
<1> SUFFICES ASSUME RuleInv, Leave(b) PROVE RuleInv'
  OBVIOUS
<1>1. RuleTypeOK'
  BY DEF RuleInv, RuleTypeOK, Leave, rule, timers, counters, Lists
<1>2. QueueEmpty' /\ OnTime'
  BY DEF RuleInv, QueueEmpty, OnTime, Leave, Short, rule, timers
<1>3. \A o \in Outputs : state[o[1]] = 1 => (Passed(o) <=> Passed(o)')
  <2> SUFFICES ASSUME NEW o \in Outputs, state[o[1]] = 1
               PROVE  Passed(o) <=> Passed(o)'
    OBVIOUS
  <2>1. o[1] \in Lists /\ o[2] \in Nat \ {0} /\ o[2] <= NumOut[o[1]]
    BY OutputsPairs
  <2>2. NumOut[b] \in Nat /\ k \in Nat
    BY OutsAssumption DEF RuleInv, RuleTypeOK
  <2>3. place = b /\ k' = 1 /\ place' = (IF b = "T" THEN "F" ELSE "send")
        /\ (state[b] = 0 \/ k > NumOut[b])
    BY DEF Leave
  <2>4. CASE o[1] = b
    BY <2>1, <2>2, <2>3, <2>4 DEF Passed, Lists
  <2>5. CASE o[1] # b
    BY <2>1, <2>3, <2>5 DEF Passed, Lists
  <2> QED
    BY <2>4, <2>5
<1>4. Timing'
  BY <1>3 DEF RuleInv, Leave, Timing, Timed, Looks, Short, rule, timers, counters
<1> QED
  BY <1>1, <1>2, <1>4 DEF RuleInv

\* The output at the cursor is the only one a step looks at.
LEMMA Cursor ==
    ASSUME NEW b \in Lists, NEW n, k = n, RuleTypeOK, place = b, k <= NumOut[b],
           state[b] > 0, k' = k + 1, place' = place
    PROVE  /\ <<b, n>> \in Outputs /\ state[b] = 1
           /\ ~Passed(<<b, n>>) /\ Passed(<<b, n>>)'
           /\ \A o \in Outputs : o # <<b, n>> => (Passed(o) <=> Passed(o)')
<1>1. k = n /\ n \in Nat \ {0} /\ state[b] = 1
  BY DEF RuleTypeOK
<1>2. <<b, n>> \in Outputs
  BY <1>1, OutputsPairs
<1>3. ~Passed(<<b, n>>) /\ Passed(<<b, n>>)'
  BY <1>1 DEF Passed, Lists
<1>4. ASSUME NEW o \in Outputs, o # <<b, n>>
      PROVE  Passed(o) <=> Passed(o)'
  <2>1. o[1] \in Lists /\ o[2] \in Nat /\ o = <<o[1], o[2]>>
    BY OutputsPairs
  <2>2. CASE o[1] = b
    <3>1. o[2] # n
      BY <1>4, <2>1, <2>2
    <3> QED
      BY <1>1, <2>1, <2>2, <3>1 DEF Passed, Lists
  <2>3. CASE o[1] # b
    BY <2>1, <2>3 DEF Passed, Lists
  <2> QED
    BY <2>2, <2>3
<1> QED
  BY <1>1, <1>2, <1>3, <1>4

\* The types of what an output's timing depends on.
LEMMA OutputTypes ==
    ASSUME RuleTypeOK, NEW o \in Outputs
    PROVE  /\ delay[o] \in Nat /\ dur[o] \in Nat /\ age[o[1]] \in Nat
           /\ delayCnt[o] \in Counters /\ durCnt[o] \in Counters
           /\ delayCnt[o] \in Nat /\ durCnt[o] \in Nat
  BY OutputsPairs, TimesInRange DEF RuleTypeOK

LEMMA DelayInv == ASSUME NEW b \in Lists PROVE RuleInv /\ Delay(b) => RuleInv'
<1> SUFFICES ASSUME RuleInv, Delay(b) PROVE RuleInv'
  OBVIOUS
<1> PICK n : k = n
  OBVIOUS
<1> DEFINE d == <<b, n>>
<1>1. /\ place = b /\ state[b] > 0 /\ k <= NumOut[b] /\ delayCnt[d] # delay[d] + 1
      /\ delayCnt' = [delayCnt EXCEPT ![d] = IF @ = 0 THEN 0 ELSE (@ + 1) % Width]
      /\ k' = k + 1 /\ place' = place
      /\ UNCHANGED <<rule, execute, left, state, finish, durCnt, age, fresh, out,
                     cond>>
  BY DEF Delay
<1>2. /\ d \in Outputs /\ state[b] = 1 /\ ~Passed(d) /\ Passed(d)'
      /\ \A o \in Outputs : o # d => (Passed(o) <=> Passed(o)')
  BY <1>1, Cursor DEF RuleInv
<1> HIDE DEF d
<1>3. /\ delay[d] \in Nat /\ dur[d] \in Nat /\ age[b] \in Nat
      /\ delayCnt[d] \in Nat /\ durCnt[d] \in Nat /\ d[1] = b
  BY <1>2, OutputTypes DEF RuleInv, d
<1>4. RuleTypeOK'
  <2>1. delayCnt' \in [Outputs -> Counters]
    BY <1>1, <1>2, <1>3, ModSmall, TimesInRange DEF RuleInv, RuleTypeOK
  <2>2. k' \in Nat \ {0}
    BY <1>1 DEF RuleInv, RuleTypeOK
  <2> QED
    BY <1>1, <2>1, <2>2 DEF RuleInv, RuleTypeOK, rule
<1>5. QueueEmpty' /\ OnTime'
  BY <1>1 DEF RuleInv, QueueEmpty, OnTime, Short, rule
<1>6. ASSUME NEW o \in Outputs, fresh'[o[1]], state'[o[1]] = 1, Short(o)'
      PROVE  Timed(o, Looks(o))'
  <2>1. fresh[o[1]] /\ state[o[1]] = 1 /\ Short(o)
    BY <1>1, <1>6 DEF Short, rule
  <2>2. Timed(o, Looks(o))
    BY <2>1 DEF RuleInv, Timing
  <2>3. CASE o # d
    <3>1. delayCnt'[o] = delayCnt[o] /\ Looks(o)' = Looks(o)
      BY <1>1, <1>2, <1>6, <2>3 DEF Looks, RuleInv, RuleTypeOK
    <3> QED
      BY <1>1, <2>2, <3>1 DEF Timed, rule
  <2>4. CASE o = d
    <3>1. Looks(o) = age[b] /\ Looks(o)' = age[b] + 1
      BY <1>1, <1>2, <1>3, <2>4 DEF Looks
    <3>2. delayCnt'[d] = IF delayCnt[d] = 0 THEN 0 ELSE (delayCnt[d] + 1) % Width
      BY <1>1, <1>2 DEF RuleInv, RuleTypeOK
    <3>3. age[b] < delay[d] \/ age[b] > delay[d] + dur[d]
      BY <1>1, <1>3, <2>2, <2>4, <3>1 DEF Timed
    <3>4. CASE age[b] < delay[d]
      <4>1. delayCnt[d] = age[b] + 1 /\ durCnt[d] = 1
        BY <1>3, <2>2, <2>4, <3>1, <3>4 DEF Timed
      <4>2. delayCnt[d] + 1 \in Nat /\ delayCnt[d] + 1 < Width
        BY <1>3, <2>1, <2>4, <3>4, <4>1, TimesInRange DEF Short
      <4>3. delayCnt'[d] = age[b] + 2
        BY <1>3, <3>2, <4>1, <4>2, ModSmall
      <4> QED
        BY <1>1, <1>3, <2>4, <3>1, <3>4, <4>1, <4>3 DEF Timed, rule
    <3>5. CASE age[b] > delay[d] + dur[d]
      <4>1. delayCnt[d] = 0 /\ durCnt[d] = 0
        BY <1>3, <2>2, <2>4, <3>1, <3>5 DEF Timed
      <4> QED
        BY <1>1, <1>3, <2>4, <3>1, <3>2, <3>5, <4>1 DEF Timed, rule
    <3> QED
      BY <3>3, <3>4, <3>5
  <2> QED
    BY <2>3, <2>4
<1> QED
  BY <1>4, <1>5, <1>6 DEF RuleInv, Timing

\* What an output whose delay is over has been through.
LEMMA DueTimes ==
    ASSUME RuleTypeOK, NEW o \in Outputs, Timed(o, age[o[1]]), delayCnt[o] = delay[o] + 1
    PROVE  /\ delay[o] <= age[o[1]] /\ age[o[1]] <= delay[o] + dur[o]
           /\ durCnt[o] = age[o[1]] - delay[o] + 1
<1>1. delay[o] \in Nat /\ dur[o] \in Nat /\ age[o[1]] \in Nat
      /\ delayCnt[o] \in Nat /\ durCnt[o] \in Nat
  BY OutputTypes
<1> QED
  BY <1>1 DEF Timed

LEMMA DueInv == ASSUME NEW b \in Lists PROVE RuleInv /\ Due(b) => RuleInv'
<1> SUFFICES ASSUME RuleInv, Due(b) PROVE RuleInv'
  OBVIOUS
<1> PICK n : k = n
  OBVIOUS
<1> DEFINE d == <<b, n>>
<1>1. /\ place = b /\ state[b] > 0 /\ k <= NumOut[b] /\ delayCnt[d] = delay[d] + 1
      /\ out' = out \cup Commands(d)
      /\ \/ Over(d) /\ Finish(b, d)
         \/ /\ ~Over(d)
            /\ durCnt' = [durCnt EXCEPT ![d] = (@ + 1) % Width]
            /\ UNCHANGED <<state, finish, delayCnt>>
      /\ k' = k + 1 /\ place' = place
      /\ UNCHANGED <<rule, execute, left, age, fresh, cond>>
  BY DEF Due
<1>2. /\ d \in Outputs /\ state[b] = 1 /\ ~Passed(d) /\ Passed(d)'
      /\ \A o \in Outputs : o # d => (Passed(o) <=> Passed(o)')
  BY <1>1, Cursor DEF RuleInv
<1> HIDE DEF d
<1>3. /\ delay[d] \in Nat /\ dur[d] \in Nat /\ age[b] \in Nat
      /\ delayCnt[d] \in Nat /\ durCnt[d] \in Nat /\ d[1] = b
  BY <1>2, OutputTypes DEF RuleInv, d
<1>4. RuleTypeOK'
  <2>1. delayCnt' \in [Outputs -> Counters] /\ durCnt' \in [Outputs -> Counters]
    <3>1. (durCnt[d] + 1) % Width \in Counters /\ 0 \in Counters
      BY <1>3, ModSmall, TimesInRange
    <3>2. CASE Finish(b, d)
      BY <3>1, <3>2 DEF RuleInv, RuleTypeOK, Finish
    <3>3. CASE /\ durCnt' = [durCnt EXCEPT ![d] = (@ + 1) % Width]
               /\ delayCnt' = delayCnt
      BY <3>1, <3>3 DEF RuleInv, RuleTypeOK
    <3> QED
      BY <1>1, <3>2, <3>3
  <2>2. state' \in [Lists -> 0..1] /\ finish' \in [Lists -> Nat]
    <3>1. CASE Finish(b, d)
      BY <3>1 DEF RuleInv, RuleTypeOK, Finish
    <3>2. CASE UNCHANGED <<state, finish>>
      BY <3>2 DEF RuleInv, RuleTypeOK
    <3> QED
      BY <1>1, <3>1, <3>2
  <2>3. k' \in Nat \ {0}
    BY <1>1 DEF RuleInv, RuleTypeOK
  <2> QED
    BY <1>1, <2>1, <2>2, <2>3 DEF RuleInv, RuleTypeOK, rule
<1>5. fresh[b] /\ Short(d) =>
          /\ delay[d] <= age[b] /\ age[b] <= delay[d] + dur[d]
          /\ durCnt[d] = age[b] - delay[d] + 1
  <2> SUFFICES ASSUME fresh[b], Short(d)
               PROVE  /\ delay[d] <= age[b] /\ age[b] <= delay[d] + dur[d]
                      /\ durCnt[d] = age[b] - delay[d] + 1
    OBVIOUS
  <2>1. Looks(d) = age[b]
    BY <1>2, <1>3 DEF Looks
  <2>2. Timed(d, age[d[1]])
    BY <1>2, <1>3, <2>1 DEF RuleInv, Timing
  <2> QED
    BY <1>1, <1>2, <1>3, <2>2, DueTimes DEF RuleInv
<1>6. QueueEmpty'
  BY <1>1 DEF QueueEmpty, Lists
<1>7. OnTime'
  <2> SUFFICES ASSUME NEW o \in Outputs, fresh[o[1]], Short(o)
               PROVE  /\ <<o, "action">> \in out' => age[o[1]] = delay[o]
                      /\ <<o, "quit">> \in out' => age[o[1]] = delay[o] + dur[o]
    BY <1>1 DEF OnTime, Short, rule
  <2>1. /\ <<o, "action">> \in out => age[o[1]] = delay[o]
        /\ <<o, "quit">> \in out => age[o[1]] = delay[o] + dur[o]
    BY DEF RuleInv, OnTime
  <2>2. <<o, "action">> \in Commands(d) => o = d /\ durCnt[d] = 1
    BY DEF Commands
  <2>3. <<o, "quit">> \in Commands(d) => o = d /\ durCnt[d] = dur[d] + 1
    BY DEF Commands, Over
  <2>4. o = d /\ durCnt[d] = 1 => age[o[1]] = delay[o]
    BY <1>3, <1>5
  <2>5. o = d /\ durCnt[d] = dur[d] + 1 => age[o[1]] = delay[o] + dur[o]
    BY <1>3, <1>5
  <2> QED
    BY <1>1, <2>1, <2>2, <2>3, <2>4, <2>5
<1>8. ASSUME NEW o \in Outputs, fresh'[o[1]], state'[o[1]] = 1, Short(o)'
      PROVE  Timed(o, Looks(o))'
  <2>1. fresh[o[1]] /\ Short(o) /\ age' = age /\ delay' = delay /\ dur' = dur
    BY <1>1, <1>8 DEF Short, rule
  <2>2. CASE o # d
    <3>1. /\ delayCnt'[o] = delayCnt[o] /\ durCnt'[o] = durCnt[o]
      BY <1>1, <1>2, <2>2 DEF RuleInv, RuleTypeOK, Finish
    <3>2. state[o[1]] = 1
      BY <1>1, <1>2, <1>8, OutputsPairs DEF RuleInv, RuleTypeOK, Finish
    <3>3. Timed(o, Looks(o))
      BY <2>1, <3>2 DEF RuleInv, Timing
    <3>4. Looks(o)' = Looks(o)
      BY <1>2, <2>1, <2>2 DEF Looks
    <3> QED
      BY <2>1, <3>1, <3>3, <3>4 DEF Timed
  <2>3. CASE o = d
    <3>1. Looks(o)' = age[b] + 1
      BY <1>2, <1>3, <2>1, <2>3 DEF Looks
    <3>2. /\ delay[d] <= age[b] /\ age[b] <= delay[d] + dur[d]
          /\ durCnt[d] = age[b] - delay[d] + 1
          /\ delay[d] + 1 < Width /\ dur[d] + 1 < Width
      BY <1>3, <1>5, <2>1, <2>3 DEF Short
    <3>3. CASE Over(d)
      <4>1. delayCnt'[d] = 0 /\ durCnt'[d] = 0
        BY <1>1, <1>2, <3>3 DEF RuleInv, RuleTypeOK, Finish
      <4>2. age[b] + 1 > delay[d] + dur[d]
        BY <1>3, <3>2, <3>3 DEF Over
      <4> QED
        BY <1>3, <2>1, <2>3, <3>1, <4>1, <4>2 DEF Timed
    <3>4. CASE ~Over(d)
      <4>1. delayCnt'[d] = delay[d] + 1 /\ durCnt'[d] = (durCnt[d] + 1) % Width
        BY <1>1, <1>2, <3>4 DEF RuleInv, RuleTypeOK
      <4>2. age[b] + 1 <= delay[d] + dur[d]
        BY <1>3, <3>2, <3>4 DEF Over
      <4>3. durCnt[d] + 1 \in Nat /\ durCnt[d] + 1 < Width
        BY <1>3, <3>2, <4>2, TimesInRange
      <4>4. durCnt'[d] = age[b] - delay[d] + 2
        BY <1>3, <3>2, <4>1, <4>3, ModSmall
      <4> QED
        BY <1>3, <2>1, <2>3, <3>1, <3>2, <4>1, <4>2, <4>4 DEF Timed
    <3> QED
      BY <3>3, <3>4
  <2> QED
    BY <2>2, <2>3
<1> QED
  BY <1>4, <1>6, <1>7, <1>8 DEF RuleInv, Timing

\* A list that goes on: one more round of looks, as far as "age" counts.
LEMMA GoesOn ==
    ASSUME RuleTypeOK, NEW o \in Outputs, Short(o), Timed(o, age[o[1]] + 1)
    PROVE  Timed(o, IF age[o[1]] < Old THEN age[o[1]] + 1 ELSE age[o[1]])
<1>1. delay[o] \in Nat /\ dur[o] \in Nat /\ age[o[1]] \in Nat
  BY OutputTypes
<1>2. CASE age[o[1]] < Old
  BY <1>2
<1>3. CASE ~(age[o[1]] < Old)
  <2>1. age[o[1]] > delay[o] + dur[o]
    BY <1>1, <1>3, TimesInRange DEF Old, Short
  <2>2. delayCnt[o] = 0 /\ durCnt[o] = 0
    BY <1>1, <2>1 DEF Timed
  <2> QED
    BY <1>1, <1>3, <2>1, <2>2 DEF Timed
<1> QED
  BY <1>2, <1>3

LEMMA TriggerTypes ==
    ASSUME RuleTypeOK, NEW b \in Lists, NEW force, Trigger(b, force)
    PROVE  /\ state' \in [Lists -> 0..1] /\ finish' \in [Lists -> Nat]
           /\ delayCnt' \in [Outputs -> Counters] /\ durCnt' \in [Outputs -> Counters]
           /\ age' \in [Lists -> Nat] /\ fresh' \in [Lists -> BOOLEAN]
<1>1. state' \in [Lists -> 0..1] /\ finish' \in [Lists -> Nat]
  BY DEF Trigger, RuleTypeOK
<1>2. CASE Restart(b) /\ fresh' = [fresh EXCEPT ![b] = TRUE]
  BY <1>1, <1>2, TimesInRange DEF Trigger, Restart, Older, RuleTypeOK
<1>3. CASE fresh' = [fresh EXCEPT ![b] = FALSE] /\ UNCHANGED counters
  BY <1>1, <1>3 DEF Trigger, Older, RuleTypeOK, counters
<1> QED
  BY <1>2, <1>3 DEF Trigger

LEMMA RoundInv == ASSUME NEW c \in BOOLEAN, NEW w \in BOOLEAN
                  PROVE  RuleInv /\ Round(c, w) => RuleInv'
<1> SUFFICES ASSUME RuleInv, Round(c, w) PROVE RuleInv'
  OBVIOUS
<1> DEFINE force == InForce(w)
           rest == IF window <= Day /\ w THEN window ELSE left
<1>1. /\ place = "check" /\ place' = "T" /\ k' = 1 /\ out' = out
      /\ execute' = (IF force = 1 /\ rest = 0 THEN 0 ELSE force)
      /\ left' = (IF force = 1 /\ rest > 0 THEN rest - 1 ELSE rest)
      /\ cond' = c /\ UNCHANGED rule
  BY DEF Round, rule
<1>2. \/ \E b \in Lists : Trigger(b, force)
      \/ Older({}) /\ UNCHANGED <<state, finish, counters, fresh>>
  BY DEF Round, Lists
<1>3. force \in 0..2 /\ rest \in Nat
  BY TimesInRange DEF RuleInv, RuleTypeOK, InForce
<1> HIDE DEF force, rest
<1>4. RuleTypeOK'
  <2>1. execute' \in 0..2 /\ left' \in Nat
    BY <1>1, <1>3
  <2>2. cond' \in BOOLEAN
    BY <1>1
  <2>3. /\ state' \in [Lists -> 0..1] /\ finish' \in [Lists -> Nat]
        /\ delayCnt' \in [Outputs -> Counters] /\ durCnt' \in [Outputs -> Counters]
        /\ age' \in [Lists -> Nat] /\ fresh' \in [Lists -> BOOLEAN]
    <3>1. CASE \E b \in Lists : Trigger(b, force)
      BY <3>1, TriggerTypes DEF RuleInv
    <3>2. CASE Older({}) /\ UNCHANGED <<state, finish, counters, fresh>>
      BY <3>2 DEF RuleInv, RuleTypeOK, Older, counters
    <3> QED
      BY <1>2, <3>1, <3>2
  <2> QED
    BY <1>1, <2>1, <2>2, <2>3 DEF RuleInv, RuleTypeOK, rule, Lists
<1>5. QueueEmpty' /\ OnTime'
  BY <1>1 DEF RuleInv, QueueEmpty, OnTime
<1>6. ASSUME NEW o \in Outputs, fresh'[o[1]], state'[o[1]] = 1, Short(o)'
      PROVE  Timed(o, Looks(o))'
  <2>1. Short(o) /\ delay' = delay /\ dur' = dur
    BY <1>1, <1>6 DEF Short, rule
  <2>2. o[1] \in Lists /\ o[2] \in Nat \ {0}
    BY OutputsPairs
  <2>3. Passed(o) /\ ~Passed(o)'
    BY <1>1, <2>2 DEF Passed
  <2>4. Looks(o) = age[o[1]] + 1 /\ Looks(o)' = age'[o[1]]
    BY <1>4, <2>2, <2>3 DEF Looks, RuleTypeOK
  <2>5. CASE \E b \in Lists : o[1] = b /\ Trigger(b, force)
    <3>1. Restart(o[1]) /\ age'[o[1]] = 0
      BY <1>6, <2>2, <2>5 DEF Trigger, Older, RuleInv, RuleTypeOK
    <3>2. delayCnt'[o] = 1 /\ durCnt'[o] = 1
      BY <3>1 DEF Restart
    <3>3. delay[o] \in Nat /\ dur[o] \in Nat
      BY OutputTypes DEF RuleInv
    <3> QED
      BY <2>1, <2>4, <3>1, <3>2, <3>3 DEF Timed
  <2>6. CASE \/ \E b \in Lists : o[1] # b /\ Trigger(b, force)
             \/ Older({}) /\ UNCHANGED <<state, finish, counters, fresh>>
    <3>1. /\ state'[o[1]] = state[o[1]] /\ fresh'[o[1]] = fresh[o[1]]
          /\ delayCnt'[o] = delayCnt[o] /\ durCnt'[o] = durCnt[o]
      <4>1. CASE \E b \in Lists : o[1] # b /\ Trigger(b, force)
        <5>1. PICK b \in Lists : o[1] # b /\ Trigger(b, force)
          BY <4>1
        <5>2. state'[o[1]] = state[o[1]] /\ fresh'[o[1]] = fresh[o[1]]
          BY <2>2, <5>1 DEF Trigger, RuleInv, RuleTypeOK
        <5>3. Restart(b) \/ UNCHANGED counters
          BY <5>1 DEF Trigger
        <5>4. delayCnt'[o] = delayCnt[o] /\ durCnt'[o] = durCnt[o]
          BY <5>1, <5>3 DEF Restart, counters
        <5> QED
          BY <5>2, <5>4
      <4>2. CASE UNCHANGED <<state, finish, counters, fresh>>
        BY <4>2 DEF counters
      <4> QED
        BY <2>6, <4>1, <4>2
    <3>2. age'[o[1]] = IF age[o[1]] < Old THEN age[o[1]] + 1 ELSE age[o[1]]
      BY <1>6, <2>2, <2>6, <3>1 DEF Trigger, Older
    <3>3. Timed(o, age[o[1]] + 1)
      BY <1>6, <2>1, <2>4, <3>1 DEF RuleInv, Timing
    <3>4. Timed(o, IF age[o[1]] < Old THEN age[o[1]] + 1 ELSE age[o[1]])
      BY <2>1, <3>3, GoesOn DEF RuleInv
    <3> QED
      BY <2>1, <2>4, <3>1, <3>2, <3>4 DEF Timed
  <2> QED
    BY <1>2, <2>5, <2>6
<1> QED
  BY <1>4, <1>5, <1>6 DEF RuleInv, Timing

\* Whatever its outputs, delays and durations, and however the API changes it
\* between rounds, a rule gives each command in the round it is due in
\* (s_rules_execute_deal_task, rule.c:1139-1300).
THEOREM RuleOnTime == RuleSpec => []RoundsSound
<1>1. RuleInit => RuleInv
  BY InvInit
<1>2. RuleInv /\ [RuleNext]_ruleVars => RuleInv'
  <2> SUFFICES ASSUME RuleInv, [RuleNext]_ruleVars PROVE RuleInv'
    OBVIOUS
  <2>1. ASSUME NEW c \in BOOLEAN, NEW w \in BOOLEAN, Round(c, w) PROVE RuleInv'
    BY <2>1, RoundInv
  <2>2. ASSUME NEW b \in Lists, Leave(b) \/ Due(b) \/ Delay(b) PROVE RuleInv'
    BY <2>2, LeaveInv, DueInv, DelayInv
  <2>3. CASE Inactive \/ Send
    BY <2>3, InactiveInv, SendInv
  <2>4. CASE WriteActive \/ WriteDuration \/ Replace
    BY <2>4, WriteInv, ReplaceInv
  <2>5. CASE UNCHANGED ruleVars
    <3>1. UNCHANGED <<rule, execute, left, timers, place, k, out, cond>>
      BY <2>5 DEF ruleVars
    <3>2. RuleTypeOK'
      BY <3>1 DEF RuleInv, RuleTypeOK, rule, timers, counters
    <3>3. QueueEmpty' /\ OnTime'
      BY <3>1 DEF RuleInv, QueueEmpty, OnTime, Short, rule, timers
    <3>4. Timing'
      BY <3>1 DEF RuleInv, Timing, Timed, Looks, Passed, Short, rule, timers, counters
    <3> QED
      BY <3>2, <3>3, <3>4 DEF RuleInv
  <2> QED
    BY <2>1, <2>2, <2>3, <2>4, <2>5 DEF RuleNext, Executor
<1>3. RuleInv => RoundsSound
  BY DEF RuleInv, RoundsSound
<1> QED
  BY <1>1, <1>2, <1>3, PTL DEF RuleSpec
=============================================================================
