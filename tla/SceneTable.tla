------------------------------ MODULE SceneTable ------------------------------
(***************************************************************************)
(* scene/scene.c over database/scene_data.c.  A scene is a file with a     *)
(* list of actions, and in each of its devices a picture of the state the  *)
(* device had when it was told to store the scene.                         *)
(*                                                                         *)
(* Creating one puts a command for each action into the queue of commands, *)
(* notes in SceneAtcmd the devices for which there was room, and in the    *)
(* end tells these to store.  SceneAtcmd is one variable without a lock:   *)
(* what keeps requests apart is ApiGate.  A task of its own sends what is  *)
(* in the queue, while the query to store goes past it; so a device may    *)
(* store what it shows before it has heard its action.  Executors command  *)
(* devices and groups meanwhile.                                           *)
(***************************************************************************)
EXTENDS GroupTable

None == 2     \* no picture of the scene, nothing asked

\* History.  asked: what the last action for a device that was taken asks
\* for; upset: devices that have not heard it, or something else after it, or
\* not in time, or the query to store.
NothingAsked == [d \in Devs |-> None]

\* The devices a list of actions is about.
DevsOf(acts) == {acts[k].dev : k \in DOMAIN acts}

-----------------------------------------------------------------------------
(* The files: scene_data.c. *)

\* s_scene_data_assign_id
FreeScenes == {s \in Scenes : scene[s].is = "none"}
SceneReadable(s) == scene[s].is = "good"

\* s_scene_data_add_member
ActionAdded(s, a) == File(Append(scene[s].has, a))

-----------------------------------------------------------------------------
(* A new scene: scene_create. *)

AddrsAtStart == <<>>

CreateScene(t) ==
    /\ FreeScenes # {}
    /\ addrs' = AddrsAtStart /\ asked' = NothingAsked /\ upset' = {}
    /\ \E acts \in Lists(Actions, ActionMax) :
          LET s == CHOOSE s \in FreeScenes : \A r \in FreeScenes : s <= r IN
          /\ scene' = [scene EXCEPT ![s] = File(<<>>)]
          /\ Handle(t, "create_scene",
                    [Idle EXCEPT !.at = IF acts = <<>> THEN "store" ELSE "state",
                       !.op = "scene", !.id = s, !.todo = acts])
    /\ UNCHANGED <<groupVars, queue, holds, faults, spoiled>>

\* Slip: only the first device is noted.
NotedFirst(d) == IF addrs = <<>> THEN <<d>> ELSE addrs

\* scene_devaddr_add
Noted(d) == IF d \in Range(addrs) THEN addrs ELSE Append(addrs, d)

\* set_dev_state_on and the like refuse, as for a device that is unknown, out
\* of reach or without such a state, or for want of room in the queue; or the
\* command waits, and the record of the device is written.
SetState(t) ==
    /\ At(t, "state")
    /\ LET a == Head(job[t].todo) IN
       \/ UNCHANGED <<addrs, queue, asked, upset, faults>>
       \/ /\ a.dev \in known /\ queue' = Append(queue, a)
          /\ asked' = [asked EXCEPT ![a.dev] = a.value]
          /\ \E w \in Writes :
                /\ Fault(w)
                /\ addrs' = IF w = "done" THEN Noted(a.dev) ELSE addrs
                /\ upset' = IF w = "done" THEN upset ELSE upset \cup {a.dev}
    /\ Go(t, [job[t] EXCEPT !.at = "action"])
    /\ UNCHANGED <<groupVars, scene, holds>> /\ Within

\* The action goes into the file; if it cannot, the scene stays half made.
AddAction(t) ==
    /\ At(t, "action")
    /\ LET s == job[t].id IN
       \E w \in Writes :
          /\ Fault(w)
          /\ IF SceneReadable(s) /\ w = "done"
             THEN /\ scene' = [scene EXCEPT ![s] = ActionAdded(s, Head(job[t].todo))]
                  /\ Go(t, [job[t] EXCEPT !.todo = Tail(@),
                              !.at = IF Len(job[t].todo) = 1 THEN "store" ELSE "state"])
             ELSE UNCHANGED scene /\ Finish(t)
    /\ UNCHANGED <<groupVars, addrs, queue, holds, asked, upset>> /\ Within

-----------------------------------------------------------------------------
(* The queue: zigbee_at_cmd_query_task. *)

\* Devices that wait for a command of their own.
Waiting(q) == {c.dev : c \in Range(q) \cap Actions}

\* Those of D whose picture is spoilt by what happens now.
Disturbed(D) == {d \in D : asked[d] # None /\ d \notin Waiting(Tail(queue))}

SendAction ==
    /\ queue # <<>> /\ Head(queue) \in Actions
    /\ LET a == Head(queue) IN
       \E r \in Outcomes :
          /\ Fault(r)
          /\ state' = IF Acts(r) THEN [state EXCEPT ![a.dev] = a.value] ELSE state
          /\ upset' = IF Acts(r) THEN upset ELSE upset \cup Disturbed({a.dev})

SendCast ==
    /\ queue # <<>> /\ Head(queue) \in Casts
    /\ LET c == Head(queue) IN
       \E heard \in SUBSET {d \in Devs : c.group \in obeys[d]} :
          /\ state' = [d \in Devs |-> IF d \in heard THEN c.value ELSE state[d]]
          /\ upset' = upset \cup Disturbed(heard)
    /\ UNCHANGED faults

SendNext ==
    /\ ~spoiled /\ (SendAction \/ SendCast)
    /\ queue' = Tail(queue)
    /\ UNCHANGED <<known, obeys, group, strays, addrs, scene, holds, asked, job>> /\ Within

\* A request about a device, or an executor, has a command for it.
CommandDevice(t) ==
    /\ \E a \in Actions :
          /\ a.dev \in known /\ queue' = Append(queue, a)
          /\ upset' = IF asked[a.dev] = None THEN upset ELSE upset \cup {a.dev}
    /\ \/ Handle(t, "elsewhere", Answer(1))
       \/ /\ ~spoiled /\ t \in Engines /\ job[t] = Idle /\ ops < MaxOps /\ ops' = ops + 1
          /\ UNCHANGED <<gate, buf, users, job>>
    /\ UNCHANGED <<groupVars, addrs, scene, holds, asked, faults, spoiled>>

-----------------------------------------------------------------------------
(* The pictures: scene_atcmd_send. *)

\* One of the devices noted stores what it shows.
StoreScene(t) ==
    /\ At(t, "store") /\ job[t].next <= Len(addrs)
    /\ LET d == addrs[job[t].next] IN
       IF d \notin known
       THEN UNCHANGED <<holds, upset, faults>>
       ELSE \E r \in Outcomes :
               /\ Fault(r)
               /\ holds' = IF Acts(r) THEN [holds EXCEPT ![d][job[t].id] = state[d]] ELSE holds
               /\ upset' = IF Acts(r) /\ d \notin Waiting(queue) THEN upset ELSE upset \cup {d}
    /\ Go(t, [job[t] EXCEPT !.next = @ + 1])
    /\ UNCHANGED <<groupVars, addrs, queue, scene, asked>> /\ Within

SceneStored(t) ==
    /\ At(t, "store") /\ job[t].next > Len(addrs)
    /\ addrs' = <<>> /\ asked' = NothingAsked /\ upset' = {} /\ Finish(t)
    /\ UNCHANGED <<groupVars, queue, scene, holds, faults>> /\ Within

-----------------------------------------------------------------------------
(* Recalling and deleting. *)

\* scene_active: a message to all, whether there is a file or not
RecallScene(t, s) ==
    /\ Handle(t, "recall_scene", Answer(1))
    /\ \E heard \in SUBSET {d \in Devs : holds[d][s] # None} :
          state' = [d \in Devs |-> IF d \in heard THEN holds[d][s] ELSE state[d]]
    /\ UNCHANGED <<known, obeys, group, strays, sceneVars, faults, spoiled>>

\* scene_del: the devices of the file are told to forget the scene, once for
\* each action; their answers are not looked at.
DeleteScene(t, s) ==
    /\ SceneReadable(s)
    /\ Handle(t, "del_scene",
              [Idle EXCEPT !.at = "forget", !.op = "drop", !.id = s,
                 !.del = [k \in DOMAIN scene[s].has |-> scene[s].has[k].dev]])
    /\ UNCHANGED <<groupVars, sceneVars, faults, spoiled>>

ForgetScene(t) ==
    /\ At(t, "forget") /\ job[t].del # <<>>
    /\ LET d == Head(job[t].del) IN
       IF d \notin known THEN UNCHANGED <<holds, faults>>
       ELSE \E r \in Outcomes :
               /\ Fault(r)
               /\ holds' = IF Acts(r) THEN [holds EXCEPT ![d][job[t].id] = None] ELSE holds
    /\ Go(t, [job[t] EXCEPT !.del = Tail(@)])
    /\ UNCHANGED <<groupVars, addrs, queue, scene, asked, upset>> /\ Within

DropScene(t) ==
    /\ At(t, "forget") /\ job[t].del = <<>>
    /\ scene' = [scene EXCEPT ![job[t].id] = NoFile]
    /\ Finish(t)
    /\ UNCHANGED <<groupVars, addrs, queue, holds, asked, upset, faults>> /\ Within

SceneRequest(t) ==
    \/ CreateScene(t)
    \/ \E s \in Scenes : RecallScene(t, s) \/ DeleteScene(t, s)

SceneStep(t) ==
    \/ SetState(t) \/ AddAction(t) \/ StoreScene(t) \/ SceneStored(t)
    \/ ForgetScene(t) \/ DropScene(t)

-----------------------------------------------------------------------------
\* The gateway stops and starts again: the files and the devices stay.
Restart ==
    /\ GateRestart
    /\ strays' = strays \cup
          {p \in Groups \X Devs : Between("record", p[1], p[2]) \cup Between("unrecord", p[1], p[2]) # {}}
    /\ addrs' = <<>> /\ queue' = <<>> /\ asked' = NothingAsked /\ upset' = {}
    /\ UNCHANGED <<known, obeys, state, group, scene, holds, users, ops, spoiled>>

Crash == ~spoiled /\ faults < MaxFaults /\ faults' = faults + 1 /\ Restart

\* config_factory_new ends with a restart.
Reboot(t) ==
    /\ ~spoiled /\ At(t, "wipe") /\ job[t].next = 4 /\ job[t].op = "factory"
    /\ Restart /\ UNCHANGED faults

Init ==
    /\ GateInit /\ GroupInit
    /\ addrs = <<>>
    /\ scene = [s \in Scenes |-> NoFile] /\ holds = [d \in Devs |-> [s \in Scenes |-> None]]
    /\ asked = NothingAsked /\ upset = {}

vars == <<gateVars, groupVars, sceneVars>>

\* What changes nothing but the gate.
GateStep(t) ==
    /\ \/ FullState(t) \/ AllDevs(t) \/ GetOne(t) \/ Elsewhere(t)
       \/ Refused(t) \/ CreateUser(t) \/ Answering(t)
    /\ UNCHANGED <<groupVars, sceneVars>>

\* A guard that each request has; it is looked at first.
Free(t) == job[t] = Idle /\ ops < MaxOps

Next ==
    \/ \E t \in Tasks :
          \/ GateStep(t) \/ Reboot(t) \/ GroupStep(t) \/ SceneStep(t)
          \/ Free(t) /\ (GroupRequest(t) \/ SceneRequest(t) \/ CommandDevice(t))
    \/ \E g \in Groups : ReadRaw(g) \/ WarnGroup(g)
    \/ SendNext \/ Crash

Spec == Init /\ [][Next]_vars

-----------------------------------------------------------------------------
(* Properties. *)

TypeOK ==
    /\ GateTypeOK /\ GroupTypeOK
    /\ addrs \in Seq(Devs) /\ Cardinality(Range(addrs)) = Len(addrs)
    /\ asked \in [Devs -> Values \cup {None}] /\ upset \subseteq Devs
    /\ holds \in [Devs -> [Scenes -> Values \cup {None}]]
    /\ \A s \in Scenes : scene[s].is \in {"none", "good"} /\ scene[s].has \in Seq(Actions)

\* A device is told to store a scene only if it has an action in it: what an
\* earlier request left in SceneAtcmd does not count (scene_create).
OnlyItsDevices ==
    [][\A t \in Clients :
         At(t, "store") /\ StoreScene(t) /\ SceneReadable(job[t].id) =>
            addrs[job[t].next] \in DevsOf(scene[job[t].id].has)]_vars

\* When a scene is made, each device that has taken an action holds what the
\* last one that it took asks for, unless its command was still in the queue
\* when it was told to store, it heard something else in between, or it did
\* not hear one of the two (scene_create, scene_atcmd_send).
PictureAsAsked ==
    [][\A t \in Clients :
         At(t, "store") /\ SceneStored(t) =>
            \A d \in known \ upset :
               asked[d] # None => holds[d][job[t].id] = asked[d]]_vars

\* The lists of groups name each device once, and are what the devices have.
ListsSound == TypeOK /\ ListedOnce /\ ListsAgree

\* A scene is stored by its own devices, with the states it asks for but where
\* the queue or the network says otherwise.
ScenesSound == OnlyItsDevices /\ PictureAsAsked
=============================================================================
