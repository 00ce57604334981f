------------------------------ MODULE SetExec -------------------------------
(***************************************************************************)
(* set/set.c: starting and stopping the delayed execution of sets.         *)
(*                                                                         *)
(*   API, schedule, rule --set_execute_active--> Set_Execute_State         *)
(*                                                        |                *)
(*   s_set_execute_deal_task, every second: count down, execute, clear     *)
(*                                                                         *)
(* set_execute_active looks at the state without the lock, takes the lock  *)
(* to store both fields, and posts even when its wait has timed out.  The  *)
(* task reads both fields without the lock and takes it for each store.    *)
(* Executing a set may start or stop others: the task then calls           *)
(* set_execute_active itself.                                              *)
(*                                                                         *)
(* A step is the code between two accesses to the shared fields.  The API  *)
(* edits, deletes and adds the files of sets at any time, so a read of a   *)
(* file finds any delay or no file.                                        *)
(***************************************************************************)
EXTENDS Integers, FiniteSets

CONSTANTS
    NumSets,       \* sets have the numbers 1..NumSets
    Callers,       \* other threads that call set_execute_active
    Task,          \* s_set_execute_deal_task
    SetDelays,     \* delays a set may have, in rounds of the task
    SetWidth,      \* set_delay counts modulo SetWidth
    Values,        \* values "execute" may have in a request
    MaxCalls,      \* bound: calls of set_execute_active by Callers
    Members,       \* Members[s]: the sets that set s starts or stops
    MaxTimeOuts    \* bound: waits for s_tsetexecuteSem that time out

Sets == 1..NumSets
Threads == Callers \cup {Task}

ASSUME SetsAssumption ==
    NumSets \in Nat \ {0} /\ Members \in [Sets -> SUBSET Sets]
ASSUME ThreadsAssumption == IsFiniteSet(Callers) /\ Task \notin Callers
ASSUME SetDelaysAssumption ==
    /\ SetWidth \in Nat \ {0} /\ SetDelays \subseteq 0..(SetWidth - 1)
    /\ Values \subseteq Nat /\ MaxCalls \in Nat
    /\ MaxTimeOuts \in Nat

VARIABLES
    setExecute,      \* Set_Execute_State[].set_execute
    setDelay,        \* Set_Execute_State[].set_delay
    sem,             \* s_tsetexecuteSem
    pc, set, val,    \* per thread: place; arguments of set_execute_active
    cur, todo,       \* the task: i + 1, and members of that set to come
    calls,           \* calls made by Callers
    owed,            \* history: starts stored less executions begun, per set
    pending,         \* history: started, and since then not stopped or begun
    late,            \* history: the pending start came while its set was carried out
    timeOuts         \* waits that have timed out

args == <<set, val>>
task == <<cur, todo>>
history == <<calls, owed, pending, late, timeOuts>>
vars == <<setExecute, setDelay, sem, pc, args, task, history>>

At(t, place) == pc[t] = place
Goto(t, place) == pc' = [pc EXCEPT ![t] = place]

\* The task is between the start of set_active for set s and its clear; it may
\* be in a call of set_execute_active for a member.
CallPlaces == {"check", "delay", "wait", "store", "store2", "post"}
Executing == CallPlaces \cup {"members", "clearwait", "clear"}
CarryingOut(s) == cur = s /\ pc[Task] \in Executing

Init ==
    /\ setExecute = [s \in Sets |-> 0] /\ setDelay = [s \in Sets |-> 0]
    /\ sem = 1
    /\ pc = [t \in Threads |-> IF t = Task THEN "scan" ELSE "idle"]
    /\ set = [t \in Threads |-> 1]
    /\ val = [t \in Threads |-> 0]
    /\ cur = 1 /\ todo = {}
    /\ calls = 0
    /\ owed = [s \in Sets |-> 0]
    /\ pending = [s \in Sets |-> FALSE] /\ late = [s \in Sets |-> FALSE]
    /\ timeOuts = 0

-----------------------------------------------------------------------------
(* set_execute_active, by any thread. *)

\* Where the call returns to: the task goes on with the members of its set.
Done(t) == IF t = Task THEN "members" ELSE "idle"

Call(c, s, v) ==
    /\ At(c, "idle") /\ calls < MaxCalls
    /\ calls' = calls + 1
    /\ set' = [set EXCEPT ![c] = s] /\ val' = [val EXCEPT ![c] = v]
    /\ Goto(c, "check")
    /\ UNCHANGED <<setExecute, setDelay, sem, task, owed, pending, late, timeOuts>>

\* The state is looked at without the lock: a start of a set that is not 0
\* and a stop of one that is 0 do nothing.
Check(t) ==
    /\ At(t, "check")
    /\ LET idle == setExecute[set[t]] = 0
       IN  Goto(t, CASE val[t] > 0 /\ idle -> "delay"
                     [] val[t] = 0 /\ ~idle -> "wait"
                     [] OTHER -> Done(t))
    /\ UNCHANGED <<setExecute, setDelay, sem, args, task, history>>

\* set_read_delay; a set without a file is not started.  What is read is any
\* delay: it is chosen where it is stored.
ReadDelay(t) ==
    /\ At(t, "delay")
    /\ \E to \in {Done(t), "wait"} : Goto(t, to)
    /\ UNCHANGED <<setExecute, setDelay, sem, args, task, history>>

\* sem_wait_ms(&s_tsetexecuteSem, 1000), here and twice in the task.
Take(t, from, to) ==
    /\ At(t, from) /\ sem > 0
    /\ sem' = sem - 1
    /\ Goto(t, to)
    /\ UNCHANGED <<setExecute, setDelay, args, task, history>>

\* A timeout skips the stores but not the sem_post.
TimeOut(t, from, to) ==
    /\ At(t, from) /\ sem = 0 /\ timeOuts < MaxTimeOuts
    /\ timeOuts' = timeOuts + 1
    /\ Goto(t, to)
    /\ UNCHANGED <<setExecute, setDelay, sem, args, task, calls, owed, pending, late>>

Post(t, from, to) ==
    /\ At(t, from)
    /\ sem' = sem + 1
    /\ Goto(t, to)
    /\ UNCHANGED <<setExecute, setDelay, args, task, history>>

Wait(t) == Take(t, "wait", "store") \/ TimeOut(t, "wait", "post")

StoreExecute(t) ==
    /\ At(t, "store")
    /\ LET s == set[t] IN
       /\ setExecute' = [setExecute EXCEPT ![s] = val[t]]
       /\ pending' = [pending EXCEPT ![s] = val[t] > 0]
       /\ late' = [late EXCEPT ![s] = val[t] > 0 /\ CarryingOut(s)]
       /\ owed' = [owed EXCEPT ![s] = @ + (IF val[t] > 0 THEN 1 ELSE 0)]
    /\ Goto(t, "store2")
    /\ UNCHANGED <<setDelay, sem, args, task, calls, timeOuts>>

StoreDelay(t) ==
    /\ At(t, "store2")
    /\ \E d \in IF val[t] > 0 THEN SetDelays ELSE {0} :
          setDelay' = [setDelay EXCEPT ![set[t]] = d]
    /\ Goto(t, "post")
    /\ UNCHANGED <<setExecute, sem, args, task, history>>

\* Slip: the post belongs to the branch that stores.
PostNever(t) ==
    /\ At(t, "post")
    /\ Goto(t, Done(t))
    /\ UNCHANGED <<setExecute, setDelay, sem, args, task, history>>

PostLock(t) == Post(t, "post", Done(t))

Active(t) ==
    \/ Check(t) \/ ReadDelay(t) \/ Wait(t) \/ StoreExecute(t) \/ StoreDelay(t)
    \/ PostLock(t)

-----------------------------------------------------------------------------
(* s_set_execute_deal_task. *)

\* Slip: the loop stops one set early.
NextSetShort == cur' = IF cur >= NumSets - 1 THEN 1 ELSE cur + 1

NextSet == cur' = IF cur = NumSets THEN 1 ELSE cur + 1

Scan ==
    /\ At(Task, "scan")
    /\ IF setExecute[cur] = 1
       THEN Goto(Task, "look") /\ UNCHANGED cur
       ELSE NextSet /\ UNCHANGED pc
    /\ UNCHANGED <<setExecute, setDelay, sem, args, todo, history>>

\* The delay is read on its own.  When it is over set_active begins: it reads
\* the file and its members; without a file it does nothing.
Look ==
    /\ At(Task, "look")
    /\ IF setDelay[cur] > 0
       THEN Goto(Task, "tickwait") /\ UNCHANGED <<todo, owed, pending, late>>
       ELSE /\ todo' \in {{}, Members[cur]}
            /\ owed' = [owed EXCEPT ![cur] = @ - 1]
            /\ pending' = [pending EXCEPT ![cur] = FALSE]
            /\ late' = [late EXCEPT ![cur] = FALSE]
            /\ Goto(Task, "members")
    /\ UNCHANGED <<setExecute, setDelay, sem, args, cur, calls, timeOuts>>

TickWait == Take(Task, "tickwait", "tick") \/ TimeOut(Task, "tickwait", "done")

Tick ==
    /\ At(Task, "tick")
    /\ setDelay' = [setDelay EXCEPT ![cur] = (@ - 1) % SetWidth]
    /\ Goto(Task, "done")
    /\ UNCHANGED <<setExecute, sem, args, task, history>>

\* A member that starts or stops set m is carried out only if set_get_execute_state(
\* m - 1), which is the state of set m - 1, is 0; for m = 1 it is whatever lies
\* in front of the array.
Member(m) ==
    /\ At(Task, "members") /\ m \in todo
    /\ todo' = todo \ {m}
    /\ \/ /\ m > 1 => setExecute[m - 1] = 0
          /\ set' = [set EXCEPT ![Task] = m]
          /\ \E v \in Values : val' = [val EXCEPT ![Task] = v]
          /\ Goto(Task, "check")
       \/ /\ m > 1 => setExecute[m - 1] # 0
          /\ UNCHANGED <<set, val, pc>>
    /\ UNCHANGED <<setExecute, setDelay, sem, cur, history>>

MembersDone ==
    /\ At(Task, "members") /\ todo = {}
    /\ Goto(Task, "clearwait")
    /\ UNCHANGED <<setExecute, setDelay, sem, args, task, history>>

ClearWait == Take(Task, "clearwait", "clear") \/ TimeOut(Task, "clearwait", "done")

\* Slip: the state is left as it was.
ClearNothing ==
    /\ At(Task, "clear")
    /\ Goto(Task, "done")
    /\ UNCHANGED <<setExecute, setDelay, sem, args, task, history>>

\* Slip: the number is the one of the last member.
ClearMember ==
    /\ At(Task, "clear")
    /\ setExecute' = [setExecute EXCEPT ![set[Task]] = 0]
    /\ Goto(Task, "done")
    /\ UNCHANGED <<setDelay, sem, args, task, history>>

Clear ==
    /\ At(Task, "clear")
    /\ setExecute' = [setExecute EXCEPT ![cur] = 0]
    /\ Goto(Task, "done")
    /\ UNCHANGED <<setDelay, sem, args, task, history>>

\* sem_post, and on to the next set; after the last one a second of sleep.
TaskPost ==
    /\ At(Task, "done")
    /\ sem' = sem + 1
    /\ NextSet
    /\ Goto(Task, "scan")
    /\ UNCHANGED <<setExecute, setDelay, args, todo, history>>

TaskStep ==
    \/ Scan \/ Look \/ TickWait \/ Tick \/ MembersDone \/ ClearWait \/ Clear
    \/ TaskPost \/ \E m \in Sets : Member(m)

-----------------------------------------------------------------------------
Next ==
    \/ \E c \in Callers, s \in Sets, v \in Values : Call(c, s, v)
    \/ \E t \in Threads : Active(t)
    \/ TaskStep

\* Threads run; nobody has to call.
Fairness == \A t \in Threads : WF_vars(Active(t) \/ (t = Task /\ TaskStep))

Spec == Init /\ [][Next]_vars /\ Fairness

-----------------------------------------------------------------------------
(* Properties. *)

Places == {"idle", "check", "delay", "wait", "store", "store2", "post", "scan",
           "look", "tickwait", "tick", "members", "clearwait", "clear", "done"}

TypeOK ==
    /\ setExecute \in [Sets -> Values \cup {0, 1}]
    /\ setDelay \in [Sets -> 0..(SetWidth - 1)]
    /\ sem \in Nat
    /\ pc \in [Threads -> Places]
    /\ set \in [Threads -> Sets] /\ val \in [Threads -> Values \cup {0, 1}]
    /\ cur \in Sets /\ todo \in SUBSET Sets
    /\ calls \in 0..MaxCalls
    /\ owed \in [Sets -> Int] /\ pending \in [Sets -> BOOLEAN] /\ late \in [Sets -> BOOLEAN]
    /\ timeOuts \in 0..MaxTimeOuts

Holding == {"store", "store2", "post", "tick", "clear", "done"}

\* Until a wait times out, the lock is free exactly when nobody is between its
\* wait and its post.
LockExclusive ==
    timeOuts = 0 => Cardinality({t \in Threads : pc[t] \in Holding}) = 1 - sem

\* A timed-out wait posts what it never took, so several threads may hold the
\* lock afterwards; but it is never lost, whatever times out.
LockNeverLost == Cardinality({t \in Threads : pc[t] \in Holding}) + sem >= 1

\* One start leads to at most one execution, however starts, stops and the
\* task interleave (again until a wait times out: a clear that is skipped lets
\* the task execute the set once more).
ExecutedOnce ==
    timeOuts = 0 => \A s \in Sets : owed[s] >= 0

\* An accepted start is lost, cleared before it was begun, only if it was stored
\* while the task was carrying out an earlier start of that very set: no other
\* set's clear and no stop in between takes it away, and a start stored before
\* set_active begins is part of what begins (set.c:260 to 518).
LostOnlyLate == \A s \in Sets : pending[s] /\ setExecute[s] = 0 => late[s]

\* A set that waits for its delay or executes, which is what the value 1 says
\* (set.h:33), ends at some time, also when its delay was decremented below zero
\* or its file is gone.  A start with another value, which the interface does
\* not refuse, is never carried out and stays until it is stopped (set.c:500).
EverySetEnds == \A s \in Sets : (setExecute[s] = 1) ~> (setExecute[s] # 1)

\* A start is begun at some time, unless it is stopped first, or came while its
\* set was being carried out (it is then cleared with the old one, set.c:517),
\* or has a value above 1, or gets one from another start (set.c:500).
StartsBegin ==
    \A s \in Sets :
        (pending[s] /\ ~late[s]) ~> (~pending[s] \/ late[s] \/ setExecute[s] > 1)

\* s_tsetexecuteSem is one thread's until a wait times out, and never lost.
LockSound == LockExclusive /\ LockNeverLost

\* One start gives one execution at most, and none but a late one is lost; the
\* delay that a stop may take below zero stays in its width.
StartsSound == TypeOK /\ ExecutedOnce /\ LostOnlyLate
=============================================================================
