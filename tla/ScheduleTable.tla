----------------------------- MODULE ScheduleTable -----------------------------
(***************************************************************************)
(* schedule/schedule.c and database/schedule_data.c: the table of          *)
(* schedules, which is kept twice.                                         *)
(*                                                                         *)
(* A schedule is a file, and a slot of G_Schedule_Ram that the executor    *)
(* works with.  A call changes the file first, under s_tScheduleRomMutex,  *)
(* and then G_Schedule_Ram, under s_tScheduleRamDataSem; a call that gets  *)
(* no further than the mutex changes nothing.  The executor holds the      *)
(* semaphore for a whole round, in which it talks to devices.              *)
(*                                                                         *)
(* Of a schedule only "active", which sets, rules and other schedules      *)
(* write, and "time", which stands for repeat and time, are kept.  Requests *)
(* of the API come one after the other (api_deal.c), from caller Api.      *)
(***************************************************************************)
EXTENDS Integers, FiniteSets

CONSTANTS
    MaxNum,      \* MUI_SCHEDULE_DATA_NUM_MAX
    Times,       \* values of "time"
    Callers,     \* threads that call this module, its executor apart
    Api,         \* the caller that works for the API
    NumWidth,    \* ScheduleNum counts modulo NumWidth
    Often        \* bound: may more than one thing go wrong between two starts?

Ids == 1..MaxNum
Copied == MaxNum \div 2   \* memcpy takes MaxNum bytes, of a list of 16-bit numbers
File == [active : BOOLEAN, time : Times]
NoFile == [active |-> FALSE, time |-> 0]   \* the slot of no schedule, too

ASSUME TableAssumption ==
    /\ MaxNum \in Nat /\ NumWidth \in Nat \ {0} /\ MaxNum < NumWidth
    /\ 0 \notin Times /\ Api \in Callers /\ IsFiniteSet(Callers)
    /\ Often \in BOOLEAN

VARIABLES
    rom,         \* the files
    slot,        \* ScheduleRamData
    num, idList, \* ScheduleNum; the ids IdList got from the last copy
    sem,         \* s_tScheduleRamDataSem
    call,        \* what the callers are doing
    exec,        \* what the executor is doing
    late,        \* history: a wait has ended without what it waited for
    strange      \* history: a schedule that is not there was written to

scheduleVars == <<rom, slot, num, idList, sem, call, exec, late, strange>>

Stored == {i \in Ids : rom[i] # NoFile}

\* The first n of the ids in S, in ascending order (qsort).
First(n, S) == {i \in S : Cardinality({j \in S : j <= i}) <= n}

\* Until a wait times out or a schedule is written to that is not there.
Calm == ~late /\ ~strange
MayGoWrong == Calm \/ Often

NoCall == [pc |-> "idle"]
Calling(op, i, v) == [pc |-> "wait", op |-> op, id |-> i, val |-> v]

\* G_Schedule_Ram as schedule_RamData_init leaves it.
Loaded(n, l, s) ==
    /\ n = Cardinality(Stored) /\ l = First(Copied, Stored)
    /\ s = rom

ScheduleInit ==
    /\ rom \in [Ids -> File \cup {NoFile}]
    /\ Loaded(num, idList, slot)
    /\ sem = 1 /\ call = [c \in Callers |-> NoCall] /\ exec = NoCall
    /\ late = FALSE /\ strange = FALSE

-----------------------------------------------------------------------------
(* The first part of a call: the file. *)

\* schedule_data_assign_id: the lowest number that is free.
Lowest(i) == \A j \in Ids : j < i => j \in Stored

AddFile ==
    /\ call[Api] = NoCall
    /\ \E i \in Ids \ Stored, f \in File :
           /\ Lowest(i)
           /\ rom' = [rom EXCEPT ![i] = f]
           /\ call' = [call EXCEPT ![Api] = Calling("add", i, f.time)]
    /\ UNCHANGED <<slot, num, idList, sem, exec, late, strange>>

DeleteFile ==
    /\ call[Api] = NoCall
    /\ \E i \in Stored :
           /\ rom' = [rom EXCEPT ![i] = NoFile]
           /\ call' = [call EXCEPT ![Api] = Calling("del", i, 0)]
    /\ UNCHANGED <<slot, num, idList, sem, exec, late, strange>>

\* file_write opens with O_CREAT: where there is no file it makes one (if
\* the directory is there), with nothing but the field that is written.
Write(i, field, v) ==
    \/ i \in Stored /\ rom' = [rom EXCEPT ![i][field] = v] /\ strange' = strange
    \/ /\ MayGoWrong /\ i \notin Stored /\ Stored # {} /\ strange' = TRUE
       /\ \E f \in File : f[field] = v /\ rom' = [rom EXCEPT ![i] = f]

WriteActive(c) ==
    /\ call[c] = NoCall
    /\ \E i \in Ids, v \in BOOLEAN :
           Write(i, "active", v) /\ call' = [call EXCEPT ![c] = Calling("active", i, v)]
    /\ UNCHANGED <<slot, num, idList, sem, exec, late>>

WriteTime ==
    /\ call[Api] = NoCall
    /\ \E i \in Ids, v \in Times :
           Write(i, "time", v) /\ call' = [call EXCEPT ![Api] = Calling("time", i, v)]
    /\ UNCHANGED <<slot, num, idList, sem, exec, late>>

-----------------------------------------------------------------------------
(* The second part: G_Schedule_Ram. *)

Enter(c) ==
    /\ call[c].pc = "wait" /\ sem > 0
    /\ sem' = sem - 1
    /\ call' = [call EXCEPT ![c].pc = "in"]
    /\ UNCHANGED <<rom, slot, num, idList, exec, late, strange>>

\* The wait takes 10 s.  The functions that change a field post all the same.
TimeOut(c) ==
    /\ call[c].pc = "wait" /\ sem = 0
    /\ MayGoWrong /\ late' = TRUE
    /\ sem' = IF call[c].op \in {"add", "del"} THEN sem ELSE sem + 1
    /\ call' = [call EXCEPT ![c] = NoCall]
    /\ UNCHANGED <<rom, slot, num, idList, exec, strange>>

\* Slip: the section of a call is left without sem_post.
DoneKeeping(c) == sem' = sem /\ call' = [call EXCEPT ![c] = NoCall]

Done(c) == sem' = sem + 1 /\ call' = [call EXCEPT ![c] = NoCall]

\* The list of ids is read and, when it is as long as ScheduleNum now says,
\* copied.  It cannot be read while the mutex is not to be had.
Copy == num' = Cardinality(Stored) /\ idList' = First(Copied, Stored) /\ late' = late
NoCopy ==
    /\ idList' = idList
    /\ (num' # Cardinality(Stored) /\ late' = late) \/ (MayGoWrong /\ late' = TRUE)

\* schedule_ram_data_add does not set "active".
LeaveAdd(c) ==
    /\ call[c].pc = "in" /\ call[c].op = "add"
    /\ num' = (num + 1) % NumWidth
    /\ \/ Copy /\ slot' = [slot EXCEPT ![call[c].id].time = call[c].val]
       \/ NoCopy /\ slot' = slot
    /\ Done(c) /\ UNCHANGED <<rom, exec, strange>>

\* Slip: the list is left as it is.
LeaveDelListed(c) ==
    /\ call[c].pc = "in" /\ call[c].op = "del"
    /\ num' = (num + NumWidth - 1) % NumWidth
    /\ Done(c) /\ UNCHANGED <<rom, slot, idList, exec, late, strange>>

LeaveDel(c) ==
    /\ call[c].pc = "in" /\ call[c].op = "del"
    /\ num' = (num + NumWidth - 1) % NumWidth
    /\ Copy \/ NoCopy
    /\ Done(c) /\ UNCHANGED <<rom, slot, exec, strange>>

LeaveField(c) ==
    /\ call[c].pc = "in" /\ call[c].op \in {"active", "time"}
    /\ slot' = [slot EXCEPT ![call[c].id][call[c].op] = call[c].val]
    /\ Done(c) /\ UNCHANGED <<rom, num, idList, exec, late, strange>>

-----------------------------------------------------------------------------
(* The executor. *)

\* A round looks at the first ScheduleNum entries of IdList; the entries that
\* no copy reaches are 0, the number of no schedule.
Looked == First(num, idList)

Begin ==
    /\ exec = NoCall /\ sem > 0
    /\ sem' = sem - 1 /\ exec' = [pc |-> "in"]
    /\ UNCHANGED <<rom, slot, num, idList, call, late, strange>>

\* A schedule that is due has an output that switches a schedule:
\* schedule_write_active changes the file and waits for the semaphore, which
\* the executor has already.
Switch ==
    /\ MayGoWrong /\ exec.pc = "in" /\ \E s \in Looked : slot[s].active
    /\ \E i \in Ids, v \in BOOLEAN :
           Write(i, "active", v) /\ exec' = Calling("active", i, v)
    /\ UNCHANGED <<slot, num, idList, sem, call, late>>

\* The wait ends with the semaphore, if it was posted once too often, or
\* after 10 s without it.  sem_post follows in either case.
Switched ==
    /\ exec.pc = "wait"
    /\ \/ /\ sem > 0
          /\ slot' = [slot EXCEPT ![exec.id].active = exec.val]
          /\ sem' = sem /\ late' = late
       \/ sem = 0 /\ slot' = slot /\ sem' = 1 /\ late' = TRUE
    /\ exec' = [pc |-> "out"]
    /\ UNCHANGED <<rom, num, idList, call, strange>>

End ==
    /\ exec.pc \in {"in", "out"}
    /\ sem' = sem + 1 /\ exec' = NoCall
    /\ UNCHANGED <<rom, slot, num, idList, call, late, strange>>

-----------------------------------------------------------------------------
\* The program is started again: schedule_RamData_init reads the files.
Restart ==
    /\ rom' = rom
    /\ Loaded(num', idList', slot')
    /\ sem' = 1 /\ call' = [c \in Callers |-> NoCall] /\ exec' = NoCall
    /\ late' = FALSE /\ strange' = FALSE

Section(c) == Enter(c) \/ LeaveAdd(c) \/ LeaveDel(c) \/ LeaveField(c)
Executor == Begin \/ Switch \/ Switched \/ End

ScheduleNext ==
    \/ AddFile \/ DeleteFile \/ WriteTime
    \/ \E c \in Callers : WriteActive(c) \/ Section(c) \/ TimeOut(c)
    \/ Executor \/ Restart

\* Every thread runs, and one that waits for the semaphore gets it when it is
\* free again and again: between two rounds the executor sleeps for a second.
\* No wait has to time out.
ScheduleFairness ==
    /\ WF_scheduleVars(Executor)
    /\ \A c \in Callers : SF_scheduleVars(Section(c))

ScheduleSpec == ScheduleInit /\ [][ScheduleNext]_scheduleVars /\ ScheduleFairness

-----------------------------------------------------------------------------
(* Properties. *)

ScheduleTypeOK ==
    /\ rom \in [Ids -> File \cup {NoFile}]
    /\ slot \in [Ids -> [active : BOOLEAN, time : Times \cup {0}]]
    /\ num \in 0..(NumWidth - 1) /\ idList \subseteq Ids
    /\ sem \in Nat /\ {late, strange} \subseteq BOOLEAN

\* The threads that believe they have the semaphore.
Holders == {c \in Callers : call[c].pc = "in"}
Inside == Cardinality(Holders) + (IF exec = NoCall THEN 0 ELSE 1)

\* Until a wait times out, G_Schedule_Ram is one thread's at a time.
LockExclusive == ~late => sem + Inside = 1

\* However often it is posted without having been taken, it is never lost.
LockNeverLost == sem + Inside >= 1

\* Between two requests the executor's list is the one of the files, as far
\* as the copy reaches, and knows the time of each.
ListMirrors ==
    Calm /\ call[Api] = NoCall =>
        /\ num = Cardinality(Stored) /\ idList = First(Copied, Stored)
        /\ \A i \in Stored : slot[i].time = rom[i].time

\* A round looks at nothing but schedules that are stored, or being deleted.
RunsOnlyStored ==
    Calm /\ exec.pc = "in" =>
        \A i \in Looked \ Stored :
            call[Api] # NoCall /\ call[Api].op = "del" /\ call[Api].id = i

\* Every call comes to its end, also after waits that have timed out.
CallsEnd == \A c \in Callers : call[c].pc = "wait" ~> call[c] = NoCall

\* s_tScheduleRamDataSem is one thread's until a wait times out, and never lost.
LockSound == LockExclusive /\ LockNeverLost

\* The table in RAM is the one of the files, at rest and for a round, and its
\* number of schedules, which a delete may take below zero, stays in its width.
TableSound == ScheduleTypeOK /\ ListMirrors /\ RunsOnlyStored
=============================================================================
