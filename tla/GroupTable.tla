------------------------------ MODULE GroupTable ------------------------------
(***************************************************************************)
(* group/group.c over database/group_data.c: a group is a file with a list *)
(* of devices, and an entry in the group table of each of these devices,   *)
(* which the Zigbee network keeps.  A command to a group is one message on *)
(* the air; whoever has the entry obeys.  It waits in the queue of         *)
(* commands, like those to single devices (SceneTable sends them); what a  *)
(* device is asked about its group table does not.                         *)
(*                                                                         *)
(* Groups change by requests of the API, one after the other (ApiGate);    *)
(* executors command them at any time.  A device is added by a query to    *)
(* the device and then a write to the file, and removed in the same order: *)
(* a query may stay unanswered though the device has acted on it, a write  *)
(* may fail, and a crash may come between the two.                         *)
(*                                                                         *)
(* The file of a new group is written twice, first with whatever was on    *)
(* the stack.  What a task does with a record it has read from such a file *)
(* is undefined, and is not followed ("spoiled").                          *)
(***************************************************************************)
EXTENDS ApiGate

CONSTANTS
    Devs,        \* devices
    Groups,      \* ids a group may have, 1..n
    Scenes,      \* ids a scene may have, 1..n (module SceneTable)
    MemberMax,   \* MUI_DEV_NUM_MAX_PER_GROUP
    ListMax,     \* bound: devices in a request
    ActionMax    \* bound: actions in a request (module SceneTable)

ASSUME GroupAssumption ==
    /\ Groups \subseteq Nat /\ Scenes \subseteq Nat
    /\ MemberMax \in Nat /\ ListMax \in Nat /\ ActionMax \in Nat

VARIABLES
    known,       \* devices that are in the device table
    obeys,       \* per device: the groups in its own table
    state,       \* per device: what it shows
    group,       \* per id: the file, and the list in it
    queue,       \* s_sAtCmdRingBuf: commands that are not sent yet
    addrs, scene, holds, asked, upset,   \* see SceneTable
    strays       \* history: pairs of group and device that may disagree

groupVars == <<known, obeys, state, group, strays>>
sceneVars == <<addrs, queue, scene, holds, asked, upset>>

\* What a step within a request leaves alone of the gate.
Within == UNCHANGED <<gate, buf, users, ops, spoiled>>

Lists(S, max) == UNION {[1..n -> S] : n \in 0..max}
Values == {0, 1}

\* In the queue: what a device is told, or whoever obeys a group.
Actions == [dev: Devs, value: Values]
Casts == [group: Groups, value: Values]

\* In a job: add and del, devices that are still to be added or removed; won,
\* one was added; todo, commands or actions that are still to be carried out;
\* next, the place in addrs, or of the next table that is deleted.

NoFile == [is |-> "none", has |-> <<>>]
Raw == [is |-> "raw", has |-> <<>>]
File(list) == [is |-> "good", has |-> list]

\* What becomes of a query: the device acts and answers; acts, and the answer
\* is lost; or hears nothing (zigbee_query_repeat, at_cmd_answer_verify).
Outcomes == IF faults < MaxFaults THEN {"done", "lost", "deaf"} ELSE {"done"}
Acts(r) == r # "deaf"

-----------------------------------------------------------------------------
(* The files: group_data.c. *)

\* s_group_data_assign_id: the first id without a file
FreeGroups == {g \in Groups : group[g].is = "none"}

Readable(g) == group[g].is = "good"

\* s_group_data_add_member
MayList(g, d) ==
    /\ Len(group[g].has) < MemberMax
    /\ d \notin Range(group[g].has)

Listed(g, d) == Append(group[g].has, d)

\* s_group_data_del_member
Unlisted(g, d) == RemoveFirst(group[g].has, d)

\* An executor, or a request, reads a record that was never written as a whole.
ReadRaw(g) ==
    /\ ~spoiled /\ group[g].is = "raw" /\ ops < MaxOps
    /\ MayEnter \/ \E e \in Engines : job[e] = Idle
    /\ spoiled' = TRUE
    /\ UNCHANGED <<groupVars, sceneVars, gate, buf, users, job, ops, faults>>

-----------------------------------------------------------------------------
(* One device: group_dev_join and group_dev_del. *)

\* Tasks that are between the query about this pair and the write.
Between(place, g, d) ==
    {t \in Clients : At(t, place) /\ job[t].id = g
        /\ Head(IF place = "record" THEN job[t].add ELSE job[t].del) = d}

AddNext(t) == [job[t] EXCEPT !.at = "join", !.add = Tail(@)]
DelNext(t) == [job[t] EXCEPT !.at = "leave", !.del = Tail(@)]

JoinRefused(t) ==
    /\ At(t, "join") /\ job[t].add # <<>>
    /\ \/ group[job[t].id].is = "none"
       \/ /\ Readable(job[t].id)
          /\ \/ Head(job[t].add) \notin known
             \/ Len(group[job[t].id].has) >= MemberMax
    /\ Go(t, AddNext(t))
    /\ UNCHANGED <<groupVars, sceneVars, faults>> /\ Within

Join(t) ==
    /\ At(t, "join") /\ job[t].add # <<>> /\ Readable(job[t].id)
    /\ LET g == job[t].id  d == Head(job[t].add) IN
       /\ d \in known /\ Len(group[g].has) < MemberMax
       /\ \E r \in Outcomes :
             /\ Fault(r)
             /\ obeys' = IF Acts(r) THEN [obeys EXCEPT ![d] = @ \cup {g}] ELSE obeys
             /\ strays' = IF r = "lost" THEN strays \cup {<<g, d>>} ELSE strays
             /\ Go(t, IF r = "done" THEN [job[t] EXCEPT !.at = "record"] ELSE AddNext(t))
    /\ UNCHANGED <<known, state, group, sceneVars>> /\ Within

Record(t) ==
    /\ At(t, "record")
    /\ LET g == job[t].id  d == Head(job[t].add) IN
       \E w \in Writes :
          LET ok == Readable(g) /\ MayList(g, d) /\ w = "done" IN
          /\ Fault(w)
          /\ group' = IF ok THEN [group EXCEPT ![g] = File(Listed(g, d))] ELSE group
          /\ strays' = IF ok \/ (Readable(g) /\ d \in Range(group[g].has)) THEN strays
                       ELSE strays \cup {<<g, d>>}
          /\ Go(t, [AddNext(t) EXCEPT !.won = @ \/ ok])
    /\ UNCHANGED <<known, obeys, state, sceneVars>> /\ Within

LeaveRefused(t) ==
    /\ At(t, "leave") /\ job[t].del # <<>>
    /\ \/ group[job[t].id].is = "none"
       \/ /\ Readable(job[t].id)
          /\ Head(job[t].del) \notin known \/ group[job[t].id].has = <<>>
    /\ Go(t, DelNext(t))
    /\ UNCHANGED <<groupVars, sceneVars, faults>> /\ Within

\* Slip: the device is taken from the list whether it has answered or not.
AfterLeaveAnyway(r) == "unrecord"

AfterLeave(r) == IF r = "done" THEN "unrecord" ELSE "leave"

Leave(t) ==
    /\ At(t, "leave") /\ job[t].del # <<>> /\ Readable(job[t].id)
    /\ LET g == job[t].id  d == Head(job[t].del) IN
       /\ d \in known /\ group[g].has # <<>>
       /\ \E r \in Outcomes :
             /\ Fault(r)
             /\ obeys' = IF Acts(r) THEN [obeys EXCEPT ![d] = @ \ {g}] ELSE obeys
             /\ strays' = IF r = "lost" THEN strays \cup {<<g, d>>} ELSE strays
             /\ Go(t, IF AfterLeave(r) = "unrecord" THEN [job[t] EXCEPT !.at = "unrecord"]
                      ELSE DelNext(t))
    /\ UNCHANGED <<known, state, group, sceneVars>> /\ Within

Unrecord(t) ==
    /\ At(t, "unrecord")
    /\ LET g == job[t].id  d == Head(job[t].del) IN
       \E w \in Writes :
          LET ok == Readable(g) /\ w = "done" IN
          /\ Fault(w)
          /\ group' = IF ok THEN [group EXCEPT ![g] = File(Unlisted(g, d))] ELSE group
          /\ strays' = IF ok THEN strays ELSE strays \cup {<<g, d>>}
          /\ Go(t, DelNext(t))
    /\ UNCHANGED <<known, obeys, state, sceneVars>> /\ Within

-----------------------------------------------------------------------------
(* Requests about groups. *)

\* group_create: the first write
CreateGroup(t) ==
    /\ FreeGroups # {}
    /\ \E list \in Lists(Devs, ListMax) :
          LET g == CHOOSE g \in FreeGroups : \A h \in FreeGroups : g <= h IN
          /\ group' = [group EXCEPT ![g] = Raw]
          /\ Handle(t, "create_group",
                    [Idle EXCEPT !.at = "name", !.op = "create", !.id = g, !.add = list])
    /\ UNCHANGED <<known, obeys, state, strays, sceneVars, faults, spoiled>>

\* The second write; if it fails, the file stays as it is.
NameGroup(t) ==
    /\ At(t, "name")
    /\ \E w \in Writes :
          /\ Fault(w)
          /\ IF w = "done"
             THEN group' = [group EXCEPT ![job[t].id] = File(<<>>)]
                  /\ Go(t, [job[t] EXCEPT !.at = "join"])
             ELSE UNCHANGED group /\ Finish(t)
    /\ UNCHANGED <<known, obeys, state, strays, sceneVars>> /\ Within

\* All devices of the request were tried.  A new group without any is
\* deleted again.
Joined(t) ==
    /\ At(t, "join") /\ job[t].add = <<>>
    /\ CASE job[t].op = "set" -> Go(t, [job[t] EXCEPT !.at = "leave"])
         [] job[t].op = "create" /\ job[t].won -> Finish(t)
         [] job[t].op = "create" /\ ~job[t].won ->
              Go(t, [job[t] EXCEPT !.at = "leave", !.op = "delete",
                        !.del = group[job[t].id].has])
    /\ UNCHANGED <<groupVars, sceneVars, faults>> /\ Within

\* api_answer_set_group_attr: the list of the request against the one that
\* was read at the start
SetGroup(t, g) ==
    /\ Readable(g)
    /\ \E list \in Lists(Devs, ListMax) :
          Handle(t, "set_group",
                 [Idle EXCEPT !.at = "join", !.op = "set", !.id = g,
                    !.add = SelectSeq(list, LAMBDA d : d \notin Range(group[g].has)),
                    !.del = SelectSeq(group[g].has, LAMBDA d : d \notin Range(list))])
    /\ UNCHANGED <<groupVars, sceneVars, faults, spoiled>>

\* group_delete
DeleteGroup(t, g) ==
    /\ Readable(g)
    /\ Handle(t, "del_group",
              [Idle EXCEPT !.at = "leave", !.op = "delete", !.id = g, !.del = group[g].has])
    /\ UNCHANGED <<groupVars, sceneVars, faults, spoiled>>

SetDone(t) ==
    /\ At(t, "leave") /\ job[t].del = <<>> /\ job[t].op = "set"
    /\ Finish(t)
    /\ UNCHANGED <<groupVars, sceneVars, faults>> /\ Within

\* Those that obey a group in G, which will be another group or none.
Obeying(G) == {p \in G \X Devs : p[1] \in obeys[p[2]]}

\* The file goes, whether the devices have answered or not: who has not still
\* obeys, and will obey the next group with this id.
DropGroup(t) ==
    /\ At(t, "leave") /\ job[t].del = <<>> /\ job[t].op = "delete"
    /\ group' = [group EXCEPT ![job[t].id] = NoFile]
    /\ strays' = strays \cup Obeying({job[t].id})
    /\ Finish(t)
    /\ UNCHANGED <<known, obeys, state, sceneVars, faults>> /\ Within

\* Commands to a group, each by what it sends: those of a lamp, those of all,
\* and the ones of a shade, of which only the stop goes out once.
Lamp == {<<v>> : v \in Values}
Plain == {<<v>> : v \in Values}
Shade == {<<1>>, <<0, 0>>, <<1, 1>>}     \* stop, close, open
Sends == Lamp \cup Plain \cup Shade

\* api_answer_set_group_state, and the same calls of an executor: the
\* group's address is read.
CommandGroup(t, g) ==
    /\ Readable(g)
    /\ \E sends \in Sends :
          LET j == [Idle EXCEPT !.at = "cast", !.op = "command", !.id = g, !.todo = sends] IN
          \/ Handle(t, "command_group", j)
          \/ /\ t \in Engines /\ job[t] = Idle /\ ops < MaxOps /\ ops' = ops + 1
             /\ Go(t, j) /\ UNCHANGED <<gate, buf, users>>
    /\ UNCHANGED <<groupVars, sceneVars, faults, spoiled>>

\* The command goes into the queue, or finds it full.
QueueCast(t) ==
    /\ At(t, "cast")
    /\ \/ /\ queue' = Append(queue, [group |-> job[t].id, value |-> Head(job[t].todo)])
          /\ IF Len(job[t].todo) = 1 THEN Finish(t)
             ELSE Go(t, [job[t] EXCEPT !.todo = Tail(@)])
       \/ UNCHANGED queue /\ Finish(t)
    /\ UNCHANGED <<groupVars, addrs, scene, holds, asked, upset, faults>> /\ Within

\* group_warn_dev_state_warn_cfg prints a number as a string.
WarnGroup(g) ==
    /\ ~spoiled /\ Readable(g) /\ ops < MaxOps
    /\ MayEnter \/ \E e \in Engines : job[e] = Idle
    /\ spoiled' = TRUE
    /\ UNCHANGED <<groupVars, sceneVars, gate, buf, users, job, ops, faults>>

\* A device is deleted from the device table (del_dev), and from no group.
DeviceGone(t) ==
    /\ Handle(t, "del_dev", Answer(1))
    /\ \E d \in known : known' = known \ {d}
    /\ UNCHANGED <<obeys, state, group, strays, sceneVars, faults, spoiled>>

\* s_api_parse_del_user and config_factory_new: all users, groups and devices
\* are deleted, one table after the other, and nothing is told to a device.
\* The scenes stay.
DeleteAll(t) ==
    /\ \E h \in {"wipe", "factory"} :
          Handle(t, h, [Idle EXCEPT !.at = "wipe", !.op = h])
    /\ UNCHANGED <<groupVars, sceneVars, faults, spoiled>>

\* database_del_all; a table that cannot be deleted is passed over.
Wipe(t) ==
    /\ At(t, "wipe") /\ job[t].next <= 3
    /\ \E w \in Writes :
          LET gone(n) == w = "done" /\ job[t].next = n IN
          /\ Fault(w)
          /\ users' = IF gone(1) THEN {} ELSE users
          /\ group' = IF gone(2) THEN [g \in Groups |-> NoFile] ELSE group
          /\ strays' = IF gone(2) THEN strays \cup Obeying(Groups) ELSE strays
          /\ known' = IF gone(3) THEN {} ELSE known
    /\ Go(t, [job[t] EXCEPT !.next = @ + 1])
    /\ UNCHANGED <<obeys, state, sceneVars, gate, buf, ops, spoiled>>

Wiped(t) ==
    /\ At(t, "wipe") /\ job[t].next = 4 /\ job[t].op = "wipe" /\ Finish(t)
    /\ UNCHANGED <<groupVars, sceneVars, faults>> /\ Within

GroupRequest(t) ==
    \/ CreateGroup(t) \/ DeviceGone(t) \/ DeleteAll(t)
    \/ \E g \in Groups : SetGroup(t, g) \/ DeleteGroup(t, g) \/ CommandGroup(t, g)

GroupStep(t) ==
    \/ NameGroup(t) \/ JoinRefused(t) \/ Join(t) \/ Record(t) \/ Joined(t)
    \/ LeaveRefused(t) \/ Leave(t) \/ Unrecord(t) \/ SetDone(t) \/ DropGroup(t) \/ QueueCast(t)
    \/ Wipe(t) \/ Wiped(t)

-----------------------------------------------------------------------------
\* Groups of before, on which their devices agree.
Before == {File(s) : s \in {r \in Lists(Devs, MemberMax) : Cardinality(Range(r)) = Len(r)}}

GroupInit ==
    /\ known = Devs /\ state = [d \in Devs |-> 0]
    /\ group \in [Groups -> {NoFile} \cup Before]
    /\ obeys = [d \in Devs |-> {g \in Groups : d \in Range(group[g].has)}]
    /\ strays = {} /\ queue = <<>>

GroupTypeOK ==
    /\ known \subseteq Devs /\ obeys \in [Devs -> SUBSET Groups] /\ state \in [Devs -> Values]
    /\ queue \in Seq(Actions \cup Casts)
    /\ \A g \in Groups :
          /\ group[g].is \in {"none", "raw", "good"}
          /\ group[g].has \in Seq(Devs) /\ Len(group[g].has) <= MemberMax

\* A device is listed once in a group, also when a request names it twice
\* (group_data_add_member).
ListedOnce ==
    \A g \in Groups : Cardinality(Range(group[g].has)) = Len(group[g].has)

\* The list of a group and the tables of the devices say the same, but for
\* the pairs that a lost answer, a failed write, a crash or a deletion that
\* devices did not hear of has parted (group_dev_join, group_dev_del).
ListsAgree ==
    \A g \in Groups, d \in Devs :
        \/ <<g, d>> \in strays
        \/ Between("record", g, d) \cup Between("unrecord", g, d) # {}
        \/ (d \in Range(group[g].has)) = (g \in obeys[d])
=============================================================================
