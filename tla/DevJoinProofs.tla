----------------------------- MODULE DevJoinProofs -----------------------------
(***************************************************************************)
(* Devices that join, move and are deleted, for any devices of any parts,  *)
(* any number of records, addresses, announcements and mishaps: a device   *)
(* is recorded whole and once, at the address it has, and its reports are  *)
(* entered for it, or for one that it has displaced.                       *)
(***************************************************************************)
EXTENDS DevJoin, FiniteSetTheorems, WellFoundedInduction, TLAPS

-----------------------------------------------------------------------------
(* The invariant, part by part. *)

Busy == ev.pc # "idle"

PartSet == [ep: Nat, type: DevTypes]
PartAt(i) == [ep |-> recs[i].ep, type |-> recs[i].type]

\* Announcements and reports: devices that have no part do not report.
Talkers == {m \in Models : Parts[m] # <<>>}
Announcement == [kind: {"newdev"}, model: Models, addr: Addrs]
PartReport == [kind: {"report"}, model: Talkers, addr: Addrs, ep: Nat,
               cluster: DOMAIN SearchOrder]

EvSteps == {"idle", "update", "rebind", "type", "conflict", "displace", "add", "leave"}
EvTask ==
    [pc: EvSteps, model: Models, addr: Addrs, list: SUBSET Ids, found: SUBSET Ids,
     from: Models, todo: SUBSET Nat]
DelTask == [pc: {"idle", "delete", "leave"}, model: Models, list: SUBSET Ids]

RecTypes == recs \in [DOMAIN recs -> Record] /\ DOMAIN recs \subseteq Ids

EventTypes == events \in Seq(Announcement \cup PartReport)

TaskTypes ==
    /\ ev \in EvTask \cup {[pc |-> "idle"]}
    /\ del \in DelTask \cup {[pc |-> "idle"]}

Types ==
    /\ RecTypes /\ EventTypes /\ TaskTypes
    /\ net \in [Models -> Addrs \cup {NoAddr}] /\ cmds \in Seq(Models)
    /\ excused \subseteq Models /\ strangers \subseteq Models

\* Where the two tasks are: a list that is gone through is not at its end, and
\* parts are left to add only from the answer of the device on.
TasksInv ==
    /\ del.pc = "delete" => del.list # {}
    /\ Busy =>
        /\ ev.pc \in {"update", "rebind", "displace"} => ev.list # {}
        /\ ev.pc = "update" => ev.found # {}
        /\ ev.pc = "add" => ev.todo # {}
        /\ ev.todo # {} => ev.pc \in {"conflict", "displace", "add"}
        /\ ev.todo \subseteq DOMAIN Parts[ev.from]

-----------------------------------------------------------------------------
(* Lists that are gone through from the least on. *)

LEMMA LeastExists ==
    ASSUME NEW S, S \subseteq Nat, S # {}, NEW R, IsWellFoundedOn(R, Nat),
           \A i, j \in Nat : j < i => <<j, i>> \in R
    PROVE  \E i \in S : \A j \in S : i <= j
<1>1. PICK i \in S : \A j \in S : ~ (<<j, i>> \in R)
  BY WFMin
<1>2. ASSUME NEW j \in S PROVE i <= j
  <2>1. ~(j < i) /\ i \in Nat /\ j \in Nat
    BY <1>1
  <2> QED BY <2>1
<1> QED BY <1>2

LEMMA LeastIn ==
    ASSUME NEW S, S \subseteq Nat, S # {}
    PROVE  Least(S) \in S /\ Rest(S) \subseteq S /\ Least(S) \notin Rest(S)
<1>1. IsWellFoundedOn(OpToRel(<, Nat), Nat)
  BY NatLessThanWellFounded
<1>2. \A i, j \in Nat : j < i => <<j, i>> \in OpToRel(<, Nat)
  BY DEF OpToRel
<1>3. \E i \in S : \A j \in S : i <= j
  BY <1>1, <1>2, LeastExists
<1> QED BY <1>3 DEF Least, Rest

LEMMA IdTypes == Ids \subseteq Nat /\ IsFiniteSet(Ids)
<1>1. IsFiniteSet(Ids)
  BY BoundAssumption, FS_Interval DEF Ids
<1> QED BY <1>1, BoundAssumption DEF Ids

-----------------------------------------------------------------------------
(* What the steps do to records, events and the event task. *)

\* Records are marked and moved, but stay records of the same parts.
SameParts ==
    /\ DOMAIN recs' = DOMAIN recs /\ recs' \in [DOMAIN recs -> Record]
    /\ \A i \in DOMAIN recs :
        recs'[i].model = recs[i].model /\ recs'[i].ep = recs[i].ep
            /\ recs'[i].type = recs[i].type

SameAddrs == \A i \in DOMAIN recs : recs'[i].addr = recs[i].addr

LEMMA Marks ==
    ASSUME Types, NEW i, NEW b \in BOOLEAN,
           recs' = [recs EXCEPT ![i].up = b]
    PROVE  SameParts /\ SameAddrs
<1>1. recs \in [DOMAIN recs -> Record]
  BY DEF Types, RecTypes
<1> QED BY <1>1 DEF SameParts, SameAddrs, Record

LEMMA Moves ==
    ASSUME Types, NEW i \in DOMAIN recs, NEW a \in Addrs,
           recs' = [recs EXCEPT ![i].up = TRUE, ![i].addr = a]
    PROVE  /\ SameParts
           /\ \A j \in DOMAIN recs : recs'[j].addr = IF j = i THEN a ELSE recs[j].addr
<1>1. recs \in [DOMAIN recs -> Record]
  BY DEF Types, RecTypes
<1> QED BY <1>1 DEF SameParts, Record

LEMMA Stays ==
    ASSUME Types, recs' = recs
    PROVE  SameParts /\ SameAddrs
BY DEF Types, RecTypes, SameParts, SameAddrs

\* The first event, and those that are left.
LEMMA FirstEvent ==
    ASSUME Types, events # <<>>
    PROVE  /\ Head(events) = events[1] /\ 1 \in 1..Len(events)
           /\ Head(events) \in Announcement \cup PartReport
           /\ Tail(events) \in Seq(Announcement \cup PartReport)
           /\ Len(Tail(events)) = Len(events) - 1 /\ Len(events) \in Nat
           /\ \A k \in 1..Len(Tail(events)) :
                Tail(events)[k] = events[k + 1] /\ k + 1 \in 1..Len(events)
<1>1. events \in Seq(Announcement \cup PartReport)
  BY DEF Types, EventTypes
<1> QED BY <1>1

LEMMA LastEvent ==
    ASSUME Types, NEW e \in Announcement \cup PartReport, events' = Append(events, e)
    PROVE  /\ events' \in Seq(Announcement \cup PartReport)
           /\ Len(events') = Len(events) + 1 /\ Len(events) \in Nat
           /\ \A k \in 1..Len(events) : events'[k] = events[k]
           /\ events'[Len(events) + 1] = e
<1>1. events \in Seq(Announcement \cup PartReport)
  BY DEF Types, EventTypes
<1> QED BY <1>1

\* The task goes on in its list, or on to pc.
LEMMA ListStep ==
    ASSUME Types, Busy, NEW pc \in EvSteps, NEW list \in SUBSET Ids, Next1(pc, list)
    PROVE  /\ ev' \in EvTask /\ ev \in EvTask
           /\ ev'.model = ev.model /\ ev'.addr = ev.addr /\ ev'.found = ev.found
           /\ ev'.from = ev.from /\ ev'.todo = ev.todo
           /\ \/ ev'.pc = ev.pc /\ ev'.list = Rest(ev.list) /\ ev'.list # {}
              \/ ev'.pc = pc /\ ev'.list = list /\ Rest(ev.list) = {}
<1>1. ev \in EvTask
  BY DEF Types, TaskTypes, Busy
<1>2. Rest(ev.list) \in SUBSET Ids
  BY <1>1 DEF EvTask, Rest
<1>3. CASE Rest(ev.list) # {}
  <2>1. ev' = [ev EXCEPT !.list = Rest(@)]
    BY <1>3 DEF Next1
  <2> QED BY <1>1, <1>2, <1>3, <2>1 DEF EvTask
<1>4. CASE Rest(ev.list) = {}
  <2>1. ev' = [ev EXCEPT !.pc = pc, !.list = list]
    BY <1>4 DEF Next1
  <2> QED BY <1>1, <1>4, <2>1 DEF EvTask
<1> QED BY <1>3, <1>4

-----------------------------------------------------------------------------
(* Types and tasks. *)

LEMMA EventsKept ==
    ASSUME Types, events' = events \/ (events # <<>> /\ events' = Tail(events))
    PROVE  EventTypes'
<1>1. CASE events' = events
  BY <1>1 DEF Types, EventTypes
<1>2. CASE events # <<>> /\ events' = Tail(events)
  <2>1. ASSUME NEW k \in 1..Len(events')
        PROVE  events'[k] = events[k + 1] /\ k + 1 \in 1..Len(events)
    BY <1>2, FirstEvent
  <2> QED BY <1>2, <2>1, FirstEvent DEF Types, EventTypes
<1> QED BY <1>1, <1>2

LEMMA EventsGrow ==
    ASSUME Types, NEW e \in Announcement \cup PartReport, events' = Append(events, e)
    PROVE  EventTypes'
BY LastEvent DEF EventTypes

LEMMA SomePart ==
    ASSUME NEW m \in Models
    PROVE  /\ Range(Parts[m]) \subseteq PartSet
           /\ DOMAIN Parts[m] \subseteq Nat /\ DOMAIN Parts[m] = 1..Len(Parts[m])
           /\ Len(Parts[m]) \in Nat
           /\ \A k \in DOMAIN Parts[m] : Parts[m][k] \in PartSet
<1>1. Parts[m] \in Seq(PartSet)
  BY PartAssumption DEF PartSet
<1>2. /\ DOMAIN Parts[m] = 1..Len(Parts[m]) /\ Len(Parts[m]) \in Nat
      /\ \A k \in 1..Len(Parts[m]) : Parts[m][k] \in PartSet
  BY <1>1
<1> QED BY <1>2 DEF Range

LEMMA ReportDoes ==
    ASSUME Types, NEW m \in Models, Report(m)
    PROVE  /\ net' = net /\ cmds' = cmds
           /\ \E e \in PartReport :
                e.model = m /\ e.addr = net[m] /\ events' = Append(events, e)
<1>1. net[m] \in Addrs /\ net' = net /\ cmds' = cmds
  BY DEF Report, Types
<1>2. PICK part \in Range(Parts[m]), c \in DOMAIN SearchOrder :
        events' = Append(events, [kind |-> "report", model |-> m, addr |-> net[m],
                                  ep |-> part.ep, cluster |-> c])
  BY DEF Report, Clusters
<1>3. part.ep \in Nat /\ m \in Talkers
  BY SomePart DEF PartSet, Talkers, Range
<1>4. [kind |-> "report", model |-> m, addr |-> net[m], ep |-> part.ep, cluster |-> c]
        \in PartReport
  BY <1>1, <1>3 DEF PartReport
<1> QED BY <1>1, <1>2, <1>4

\* The devices and the task that sends commands touch neither task.
LEMMA NetTypes ==
    ASSUME Types, TasksInv,
           (\E m \in Models : Join(m) \/ Drop(m) \/ Report(m)) \/ SendScan
    PROVE  Types' /\ TasksInv'
<1>1. UNCHANGED <<recs, ev, del, excused, strangers>>
  BY DEF Join, Drop, Report, SendScan
<1>7. TasksInv'
  BY <1>1 DEF TasksInv, Busy
<1>2. RecTypes' /\ TaskTypes' /\ excused' \subseteq Models /\ strangers' \subseteq Models
  BY <1>1 DEF Types, RecTypes, TaskTypes
<1>3. ASSUME NEW m \in Models, Join(m) PROVE Types'
  <2>1. PICK a \in Addrs :
            /\ net' = [net EXCEPT ![m] = a]
            /\ events' = Append(events, [kind |-> "newdev", model |-> m, addr |-> a])
    BY <1>3 DEF Join
  <2>2. [kind |-> "newdev", model |-> m, addr |-> a] \in Announcement
    BY DEF Announcement
  <2>3. cmds' = cmds
    BY <1>3 DEF Join
  <2> QED BY <1>2, <2>1, <2>2, <2>3, EventsGrow DEF Types
<1>4. ASSUME NEW m \in Models, Drop(m) PROVE Types'
  BY <1>2, <1>4, EventsKept DEF Drop, Types
<1>5. ASSUME NEW m \in Models, Report(m) PROVE Types'
  BY <1>2, <1>5, ReportDoes, EventsGrow DEF Types
<1>6. CASE SendScan
  <2>1. net' = net /\ cmds # <<>> /\ cmds' = Tail(cmds)
    BY <1>6 DEF SendScan
  <2>2. Head(cmds) \in Models /\ cmds' \in Seq(Models)
    BY <2>1 DEF Types
  <2>3. ASSUME events' = events PROVE EventTypes'
    BY <2>3, EventsKept
  <2>4. ASSUME net[Head(cmds)] # NoAddr,
               events' = Append(events, [kind |-> "newdev", model |-> Head(cmds),
                                         addr |-> net[Head(cmds)]])
        PROVE  EventTypes'
    <3>1. [kind |-> "newdev", model |-> Head(cmds), addr |-> net[Head(cmds)]] \in Announcement
      BY <2>2, <2>4 DEF Announcement, Types
    <3> QED BY <2>4, <3>1, EventsGrow
  <2>5. EventTypes'
    BY <1>6, <2>3, <2>4 DEF SendScan
  <2>6. net' \in [Models -> Addrs \cup {NoAddr}]
    BY <2>1 DEF Types
  <2> QED BY <1>2, <1>7, <2>2, <2>5, <2>6 DEF Types
<1> QED BY <1>3, <1>4, <1>5, <1>6, <1>7

LEMMA SomeIds ==
    ASSUME Types
    PROVE  /\ \A m : OfModel(m) \subseteq Ids /\ OfModel(m) \subseteq DOMAIN recs
           /\ \A a : AtAddr(a) \subseteq Ids
           /\ \A m : IsFiniteSet(OfModel(m)) /\ Cardinality(OfModel(m)) \in Nat
<1>1. /\ \A m : OfModel(m) \subseteq Ids /\ OfModel(m) \subseteq DOMAIN recs
      /\ \A a : AtAddr(a) \subseteq Ids
  BY DEF Types, RecTypes, OfModel, AtAddr
<1> QED BY <1>1, IdTypes, FS_Subset, FS_CardinalityType

\* An announcement is taken, and its device is looked for.
LEMMA NewDevTypes ==
    ASSUME Types, TasksInv, NewDev
    PROVE  Types' /\ TasksInv'
<1> DEFINE e == Head(events)
           list == FindByModel(e.model)
<1>1. /\ events # <<>> /\ e.kind = "newdev" /\ events' = Tail(events)
      /\ ev' = [pc |-> IF list = {} THEN "type" ELSE "update", model |-> e.model,
                addr |-> e.addr, list |-> list, found |-> list,
                from |-> e.model, todo |-> {}]
      /\ UNCHANGED <<net, recs, cmds, del, excused, strangers>>
  BY DEF NewDev
<1>2. e \in Announcement
  BY <1>1, FirstEvent DEF PartReport
<1>3. list \in SUBSET Ids
  BY SomeIds DEF FindByModel
<1>4. ev' \in EvTask /\ TaskTypes'
  BY <1>1, <1>2, <1>3 DEF EvTask, EvSteps, Announcement, Types, TaskTypes
<1>5. EventTypes'
  BY <1>1, EventsKept
<1>6. Types'
  BY <1>1, <1>4, <1>5 DEF Types, RecTypes
<1>7. TasksInv'
  BY <1>1 DEF TasksInv, Busy
<1> QED BY <1>6, <1>7

\* The task works through a list: records are marked or moved.
LEMMA WorkTypes ==
    ASSUME Types, TasksInv, Busy, ev.pc \in {"update", "rebind", "displace"},
           SameParts, NEW pc \in EvSteps, NEW list \in SUBSET Ids, Next1(pc, list),
           pc \in {"rebind", "conflict", "idle", "add"}, pc = "rebind" => list # {} /\ ev.todo = {},
           pc = "idle" => ev.todo = {}, pc = "add" => ev.todo # {},
           ev.todo # {} => ev.pc = "displace",
           cmds' \in Seq(Models), UNCHANGED <<net, events, del, excused, strangers>>
    PROVE  Types' /\ TasksInv'
<1>1. /\ ev' \in EvTask /\ ev \in EvTask
      /\ ev'.model = ev.model /\ ev'.addr = ev.addr /\ ev'.found = ev.found
      /\ ev'.from = ev.from /\ ev'.todo = ev.todo
      /\ \/ ev'.pc = ev.pc /\ ev'.list = Rest(ev.list) /\ ev'.list # {}
         \/ ev'.pc = pc /\ ev'.list = list /\ Rest(ev.list) = {}
  BY ListStep
<1>2. RecTypes' /\ EventTypes'
  BY EventsKept DEF SameParts, Types, RecTypes
<1>3. TaskTypes'
  BY <1>1 DEF Types, TaskTypes
<1>4. Types'
  BY <1>2, <1>3 DEF Types
<1>5. TasksInv'
  BY <1>1 DEF TasksInv, Busy
<1> QED BY <1>4, <1>5

-----------------------------------------------------------------------------
(* What each step of the two tasks comes to. *)

LEMMA UpdateAddrDoes ==
    ASSUME Types, UpdateAddr
    PROVE  /\ Busy /\ ev.pc = "update" /\ SameParts /\ Next1("rebind", ev.found)
           /\ \A j \in DOMAIN recs :
                recs'[j].addr = IF j = Least(ev.list) THEN ev.addr ELSE recs[j].addr
           /\ UNCHANGED <<net, events, cmds, del, excused, strangers>>
<1> DEFINE i == Least(ev.list)
<1>1. /\ ev.pc = "update" /\ Next1("rebind", ev.found)
      /\ recs' = IF i \in DOMAIN recs
                 THEN [recs EXCEPT ![i].up = TRUE, ![i].addr = ev.addr] ELSE recs
      /\ UNCHANGED <<net, events, cmds, del, excused, strangers>>
  BY DEF UpdateAddr
<1>2. ev.addr \in Addrs
  BY <1>1 DEF Types, TaskTypes, EvTask
<1>3. /\ SameParts
      /\ \A j \in DOMAIN recs :
            recs'[j].addr = IF j = i THEN ev.addr ELSE recs[j].addr
  <2>1. CASE i \in DOMAIN recs
    BY <1>1, <1>2, <2>1, Moves
  <2>2. CASE i \notin DOMAIN recs
    BY <1>1, <2>2, Stays DEF SameAddrs
  <2> QED BY <2>1, <2>2
<1> QED BY <1>1, <1>3 DEF Busy

LEMMA RebindDoes ==
    ASSUME Types, Rebind
    PROVE  /\ Busy /\ ev.pc = "rebind" /\ SameParts /\ SameAddrs /\ Next1("conflict", {})
           /\ UNCHANGED <<net, events, cmds, del, excused, strangers>>
<1>1. /\ ev.pc = "rebind" /\ Next1("conflict", {})
      /\ recs' = recs \/ recs' = [recs EXCEPT ![Least(ev.list)].up = TRUE]
      /\ UNCHANGED <<net, events, cmds, del, excused, strangers>>
  BY DEF Rebind
<1> QED BY <1>1, Marks, Stays DEF Busy

LEMMA DisplaceDoes ==
    ASSUME Types, Displace
    PROVE  /\ Busy /\ ev.pc = "displace" /\ SameParts /\ SameAddrs /\ Next1(After, {})
           /\ cmds' \in Seq(Models) /\ After \in {"idle", "add"}
           /\ UNCHANGED <<net, events, del, excused, strangers>>
<1>1. /\ ev.pc = "displace" /\ Next1(After, {})
      /\ recs' = recs \/ recs' = [recs EXCEPT ![Least(ev.list)].up = FALSE]
      /\ cmds' = cmds \/ cmds' = Append(cmds, ev.model)
      /\ UNCHANGED <<net, events, del, excused, strangers>>
  BY DEF Displace
<1>2. ev.model \in Models /\ cmds \in Seq(Models)
  BY <1>1 DEF Types, TaskTypes, EvTask
<1>3. cmds' \in Seq(Models)
  BY <1>1, <1>2
<1> QED BY <1>1, <1>3, Marks, Stays DEF Busy, After

LEMMA FoundIds ==
    ASSUME Types, NEW e, Found(e) # {}
    PROVE  /\ Least(Found(e)) \in Found(e) /\ Least(Found(e)) \in DOMAIN recs
           /\ recs[Least(Found(e))].addr = e.addr /\ recs[Least(Found(e))].model \in Models
<1>1. Found(e) \subseteq AtAddr(e.addr)
  BY DEF Found
<1>2. AtAddr(e.addr) \subseteq DOMAIN recs /\ DOMAIN recs \subseteq Nat
  BY IdTypes DEF AtAddr, Types, RecTypes
<1>3. Least(Found(e)) \in Found(e)
  BY <1>1, <1>2, LeastIn
<1> QED BY <1>1, <1>2, <1>3 DEF AtAddr, Types, RecTypes, Record

\* A report revives a record at its address; that of another device is noted.
LEMMA ReportedDoes ==
    ASSUME Types, Reported
    PROVE  /\ ~Busy /\ events # <<>> /\ events' = Tail(events) /\ SameParts /\ SameAddrs
           /\ Head(events).kind = "report" /\ Head(events) \in PartReport
           /\ \/ UNCHANGED <<recs, strangers>>
              \/ /\ Found(Head(events)) # {}
                 /\ LET i == Least(Found(Head(events)))
                    IN /\ recs' = [recs EXCEPT ![i].up = TRUE]
                       /\ strangers' = strangers
                                \cup ({recs[i].model} \ {Head(events).model})
           /\ UNCHANGED <<net, cmds, ev, del, excused, crowded>>
<1> DEFINE e == Head(events)
           i == Least(Found(e))
<1>1. /\ ev.pc = "idle" /\ events # <<>> /\ e.kind = "report" /\ events' = Tail(events)
      /\ \/ UNCHANGED <<recs, strangers>>
         \/ /\ Found(e) # {} /\ recs' = [recs EXCEPT ![i].up = TRUE]
            /\ strangers' = strangers \cup ({recs[i].model} \ {e.model})
      /\ UNCHANGED <<net, cmds, ev, del, excused, crowded>>
  BY DEF Reported
<1>2. SameParts /\ SameAddrs
  BY <1>1, Marks, Stays
<1>3. e \in PartReport
  BY <1>1, FirstEvent DEF Announcement
<1> QED BY <1>1, <1>2, <1>3 DEF Busy

\* The parts to add are of the device that has the address; all parts of the
\* device that is added, unless a query of it has failed.
LEMMA GetTypeDoes ==
    ASSUME Types, GetType
    PROVE  /\ Busy /\ ev.pc = "type" /\ excused \subseteq excused' /\ excused' \subseteq Models
           /\ \E from \in Models : \E todo \in SUBSET DOMAIN Parts[from] :
                /\ ev' = IF todo = {} THEN [ev EXCEPT !.pc = "leave"]
                         ELSE [ev EXCEPT !.pc = "conflict", !.from = from, !.todo = todo]
                /\ ev.model \notin excused' => from = ev.model /\ todo = DOMAIN Parts[from]
           /\ UNCHANGED <<net, recs, events, cmds, del, strangers>>
<1> DEFINE who == At(ev.addr)
           from == CHOOSE m \in who : TRUE
           parts == IF who = {} THEN <<>> ELSE Parts[from]
<1>1. ev.pc = "type" /\ UNCHANGED <<net, recs, events, cmds, del, strangers>>
  BY DEF GetType
<1>2. ev.model \in Models /\ excused \subseteq Models
  BY <1>1 DEF Types, TaskTypes, EvTask
<1>3. PICK silent \in SUBSET {p.ep : p \in Range(parts)} :
        LET todo == {k \in DOMAIN parts : parts[k].ep \notin silent}
        IN /\ ev' = IF todo = {} THEN [ev EXCEPT !.pc = "leave"]
                    ELSE [ev EXCEPT !.pc = "conflict", !.from = from, !.todo = todo]
           /\ excused' = IF silent # {} \/ who # {ev.model}
                         THEN excused \cup {ev.model} ELSE excused
  BY DEF GetType
<1> DEFINE todo == {k \in DOMAIN parts : parts[k].ep \notin silent}
<1>4. excused \subseteq excused' /\ excused' \subseteq Models
  BY <1>2, <1>3
<1>5. CASE who = {}
  <2>1. todo = {}
    BY <1>5
  <2>2. ev' = [ev EXCEPT !.pc = "leave"] /\ ev.model \in excused'
    BY <1>3, <1>5, <2>1
  <2>3. {} \in SUBSET DOMAIN Parts[ev.model]
    OBVIOUS
  <2> QED BY <1>1, <1>2, <1>4, <2>2, <2>3 DEF Busy
<1>6. CASE who # {}
  <2>1. from \in who /\ who \subseteq Models
    BY <1>6 DEF At
  <2>2. todo \in SUBSET DOMAIN Parts[from]
    BY <1>6
  <2>3. ev.model \notin excused' => silent = {} /\ who = {ev.model}
    BY <1>3
  <2>4. ev.model \notin excused' => from = ev.model /\ todo = DOMAIN Parts[from]
    BY <1>6, <2>1, <2>3
  <2> QED BY <1>1, <1>3, <1>4, <2>1, <2>2, <2>4 DEF Busy
<1> QED BY <1>5, <1>6

\* A part is recorded under the next free id, or the device is given up.
Recorded(i, k) ==
    /\ i \in Ids \ DOMAIN recs /\ k \in ev.todo
    /\ RecTypes' /\ DOMAIN recs' = DOMAIN recs \cup {i}
    /\ \A j \in DOMAIN recs : recs'[j] = recs[j]
    /\ recs'[i].model = ev.model /\ recs'[i].addr = ev.addr
    /\ PartAt(i)' = Parts[ev.from][k]
    /\ ev' = [ev EXCEPT !.todo = ev.todo \ {k},
                        !.pc = IF ev.todo \ {k} = {} THEN "idle" ELSE "add"]
    /\ excused' = excused

GivenUp ==
    /\ ev' = [ev EXCEPT !.pc = "leave", !.todo = {}]
    /\ recs' = recs /\ excused' = excused \cup {ev.model}

LEMMA RecsGrow ==
    ASSUME Types, NEW i \in Ids \ DOMAIN recs, NEW record \in Record,
           recs' = With(i, record)
    PROVE  /\ RecTypes' /\ DOMAIN recs' = DOMAIN recs \cup {i}
           /\ \A j \in DOMAIN recs : recs'[j] = recs[j]
           /\ recs'[i] = record
<1>1. recs \in [DOMAIN recs -> Record] /\ DOMAIN recs \subseteq Ids
  BY DEF Types, RecTypes
<1>2. /\ DOMAIN recs' = DOMAIN recs \cup {i}
      /\ recs' \in [DOMAIN recs \cup {i} -> Record]
      /\ \A j \in DOMAIN recs : recs'[j] = recs[j]
      /\ recs'[i] = record
  BY <1>1 DEF With
<1>3. DOMAIN recs' \subseteq Ids
  BY <1>1, <1>2
<1>4. recs' \in [DOMAIN recs' -> Record]
  BY <1>2
<1>5. RecTypes'
  BY <1>3, <1>4 DEF RecTypes
<1> QED BY <1>2, <1>5

LEMMA AddPartDoes ==
    ASSUME Types, TasksInv, AddPart
    PROVE  /\ Busy /\ ev.pc = "add"
           /\ (\E i, k : Recorded(i, k)) \/ GivenUp
           /\ UNCHANGED <<net, events, cmds, del, strangers>>
<1> DEFINE free == Ids \ DOMAIN recs
<1>4. PICK i, k : i = Least(free) /\ k = Least(ev.todo)
  OBVIOUS
<1> DEFINE p == Parts[ev.from][k]
           record == [model |-> ev.model, ep |-> p.ep, type |-> p.type, addr |-> ev.addr,
                      up |-> Add(p.type, Mode[ev.model]).reachable = 1]
<1>1. ev.pc = "add" /\ Busy /\ UNCHANGED <<net, events, cmds, del, strangers>>
  BY DEF AddPart, Busy
<1>2. \/ /\ free # {} /\ recs' = With(i, record)
         /\ ev' = [ev EXCEPT !.todo = Rest(@),
                             !.pc = IF Rest(ev.todo) = {} THEN "idle" ELSE @]
         /\ excused' = excused
      \/ GivenUp
  BY <1>4 DEF AddPart, GivenUp
<1>3. CASE /\ free # {} /\ recs' = With(i, record)
           /\ ev' = [ev EXCEPT !.todo = Rest(@),
                               !.pc = IF Rest(ev.todo) = {} THEN "idle" ELSE @]
           /\ excused' = excused
  <2>1. /\ ev \in EvTask /\ ev.todo # {} /\ ev.todo \subseteq DOMAIN Parts[ev.from]
        /\ ev.model \in Models /\ ev.addr \in Addrs /\ ev.from \in Models
        /\ ev.todo \subseteq Nat
    BY <1>1 DEF Types, TaskTypes, TasksInv, EvTask, Busy
  <2>2. k \in ev.todo
    BY <1>4, <2>1, LeastIn
  <2>3. i \in free
    BY <1>3, <1>4, IdTypes, LeastIn
  <2>4. p \in PartSet
    BY <2>1, <2>2, SomePart
  <2>5. record \in Record
    BY <2>1, <2>4 DEF Record, PartSet
  <2>6. /\ RecTypes' /\ DOMAIN recs' = DOMAIN recs \cup {i}
        /\ \A j \in DOMAIN recs : recs'[j] = recs[j]
        /\ recs'[i] = record
    BY <1>3, <2>3, <2>5, RecsGrow
  <2>7. [ep |-> p.ep, type |-> p.type] = p
    BY <2>4 DEF PartSet
  <2>8. PartAt(i)' = p /\ recs'[i].model = ev.model /\ recs'[i].addr = ev.addr
    BY <2>6, <2>7 DEF PartAt
  <2>9. ev' = [ev EXCEPT !.todo = ev.todo \ {k},
                         !.pc = IF ev.todo \ {k} = {} THEN "idle" ELSE "add"]
    BY <1>1, <1>3, <1>4, <2>1 DEF Rest, EvTask
  <2>10. Recorded(i, k)
    BY <1>3, <2>2, <2>3, <2>6, <2>8, <2>9 DEF Recorded
  <2> QED BY <1>1, <2>10
<1> QED BY <1>1, <1>2, <1>3

LEMMA LeaveDoes ==
    ASSUME Types, Leave
    PROVE  /\ Busy /\ ev.pc = "leave" /\ ev' = [pc |-> "idle"]
           /\ \/ net' = [net EXCEPT ![ev.model] = NoAddr] /\ excused' = excused
              \/ net' = net /\ excused' = excused \cup {ev.model}
           /\ ev.model \in Models
           /\ UNCHANGED <<recs, events, cmds, del, strangers>>
BY DEF Leave, Leaves, Busy, Types, TaskTypes, EvTask

LEMMA DeleteDoes ==
    ASSUME Types, Delete
    PROVE  /\ del.pc = "idle" /\ UNCHANGED <<net, recs, events, cmds, ev, strangers>>
           /\ \E m \in Models :
                /\ del' = IF FindByModel(m) = {} THEN del
                          ELSE [pc |-> "delete", model |-> m, list |-> FindByModel(m)]
                /\ excused' = IF Busy /\ ev.model = m THEN excused \cup {m} ELSE excused
<1>1. PICK i \in DOMAIN recs :
        /\ del' = IF FindByModel(recs[i].model) = {} THEN del
                  ELSE [pc |-> "delete", model |-> recs[i].model,
                        list |-> FindByModel(recs[i].model)]
        /\ excused' = IF Busy /\ ev.model = recs[i].model
                      THEN excused \cup {recs[i].model} ELSE excused
  BY DEF Delete, Busy
<1>2. recs[i].model \in Models
  BY DEF Types, RecTypes, Record
<1> QED BY <1>1, <1>2 DEF Delete

LEMMA DeleteOneDoes ==
    ASSUME Types, TasksInv, DeleteOne
    PROVE  /\ del.pc = "delete" /\ UNCHANGED <<net, events, cmds, ev, excused, strangers>>
           /\ DOMAIN recs' = DOMAIN recs \ {Least(del.list)} /\ RecTypes'
           /\ \A j \in DOMAIN recs' : recs'[j] = recs[j]
           /\ Least(del.list) \in del.list /\ del \in DelTask
           /\ del' = [del EXCEPT !.list = Rest(@),
                                 !.pc = IF Rest(del.list) = {} THEN "leave" ELSE @]
<1>1. /\ del.pc = "delete" /\ UNCHANGED <<net, events, cmds, ev, excused, strangers>>
      /\ recs' = [i \in DOMAIN recs \ {Least(del.list)} |-> recs[i]]
      /\ del' = [del EXCEPT !.list = Rest(@),
                            !.pc = IF Rest(del.list) = {} THEN "leave" ELSE @]
  BY DEF DeleteOne
<1>2. del \in DelTask /\ del.list # {} /\ del.list \subseteq Nat
  BY <1>1, IdTypes DEF Types, TaskTypes, TasksInv, DelTask
<1>3. Least(del.list) \in del.list
  BY <1>2, LeastIn
<1>4. RecTypes'
  BY <1>1 DEF Types, RecTypes
<1> QED BY <1>1, <1>2, <1>3, <1>4

LEMMA DeleteLeaveDoes ==
    ASSUME Types, DeleteLeave
    PROVE  /\ del.pc = "leave" /\ del' = [pc |-> "idle"] /\ del.model \in Models
           /\ \/ net' = [net EXCEPT ![del.model] = NoAddr] /\ excused' = excused
              \/ net' = net /\ excused' = excused \cup {del.model}
           /\ UNCHANGED <<recs, events, cmds, ev, strangers>>
BY DEF DeleteLeave, Leaves, Types, TaskTypes, DelTask

-----------------------------------------------------------------------------
(* Types and tasks, for every step. *)

LEMMA EvTypes ==
    ASSUME Types, TasksInv, EventTask
    PROVE  Types' /\ TasksInv'
<1>1. CASE NewDev
  BY <1>1, NewDevTypes
<1>2. CASE UpdateAddr
  <2>1. /\ Busy /\ ev.pc = "update" /\ SameParts /\ Next1("rebind", ev.found)
        /\ UNCHANGED <<net, events, cmds, del, excused, strangers>>
    BY <1>2, UpdateAddrDoes
  <2>2. ev.found \in SUBSET Ids /\ ev.found # {} /\ ev.todo = {} /\ cmds' \in Seq(Models)
    BY <2>1 DEF Types, TaskTypes, EvTask, TasksInv
  <2> QED BY <2>1, <2>2, WorkTypes DEF EvSteps
<1>3. CASE Rebind
  <2>1. /\ Busy /\ ev.pc = "rebind" /\ SameParts /\ Next1("conflict", {})
        /\ UNCHANGED <<net, events, cmds, del, excused, strangers>>
    BY <1>3, RebindDoes
  <2>2. ev.todo = {} /\ cmds' \in Seq(Models)
    BY <2>1 DEF Types, TaskTypes, EvTask, TasksInv
  <2> QED BY <2>1, <2>2, WorkTypes DEF EvSteps
<1>4. CASE Displace
  <2>1. /\ Busy /\ ev.pc = "displace" /\ SameParts /\ Next1(After, {})
        /\ cmds' \in Seq(Models) /\ After \in {"idle", "add"}
        /\ UNCHANGED <<net, events, del, excused, strangers>>
    BY <1>4, DisplaceDoes
  <2>2. (After = "idle") <=> (ev.todo = {})
    BY DEF After
  <2> QED BY <2>1, <2>2, WorkTypes DEF EvSteps
<1>5. CASE GetType
  <2>1. PICK from \in Models : \E todo \in SUBSET DOMAIN Parts[from] :
            ev' = IF todo = {} THEN [ev EXCEPT !.pc = "leave"]
                  ELSE [ev EXCEPT !.pc = "conflict", !.from = from, !.todo = todo]
    BY <1>5, GetTypeDoes
  <2>2. PICK todo \in SUBSET DOMAIN Parts[from] :
            ev' = IF todo = {} THEN [ev EXCEPT !.pc = "leave"]
                  ELSE [ev EXCEPT !.pc = "conflict", !.from = from, !.todo = todo]
    BY <2>1
  <2>0. /\ Busy /\ ev.pc = "type" /\ excused' \subseteq Models
        /\ UNCHANGED <<net, recs, events, cmds, del, strangers>>
    BY <1>5, GetTypeDoes
  <2>3. /\ ev \in EvTask /\ ev.pc = "type" /\ excused' \subseteq Models /\ ev.todo = {}
        /\ UNCHANGED <<net, recs, events, cmds, del, strangers>>
    BY <2>0 DEF Types, TaskTypes, TasksInv, Busy
  <2>4. todo \in SUBSET Nat
    BY SomePart
  <2>5. ev' \in EvTask
    BY <2>2, <2>3, <2>4 DEF EvTask, EvSteps
  <2>6. Types'
    BY <2>3, <2>5, EventsKept DEF Types, RecTypes, TaskTypes
  <2>7. TasksInv'
    BY <2>2, <2>3 DEF TasksInv, Busy, EvTask
  <2> QED BY <2>6, <2>7
<1>6. CASE Conflict
  <2>1. /\ ev.pc = "conflict" /\ ev \in EvTask /\ FindByAddr(ev.addr) \in SUBSET Ids
        /\ ev' = [ev EXCEPT !.pc = IF FindByAddr(ev.addr) = {} THEN After ELSE "displace",
                            !.list = FindByAddr(ev.addr)]
        /\ UNCHANGED <<net, recs, events, cmds, del, excused, strangers>>
    BY <1>6, SomeIds DEF Conflict, FindByAddr, Types, TaskTypes
  <2>2. ev' \in EvTask
    BY <2>1 DEF EvTask, EvSteps, After
  <2>3. Types'
    BY <2>1, <2>2, EventsKept DEF Types, RecTypes, TaskTypes
  <2>4. TasksInv'
    BY <2>1 DEF TasksInv, Busy, EvTask, After
  <2> QED BY <2>3, <2>4
<1>7. CASE AddPart
  <2>1. /\ ev.pc = "add" /\ Busy /\ ev \in EvTask
        /\ (\E i, k : Recorded(i, k)) \/ GivenUp
        /\ UNCHANGED <<net, events, cmds, del, strangers>>
    BY <1>7, AddPartDoes DEF Types, TaskTypes, Busy
  <2>2. ASSUME NEW i, NEW k, Recorded(i, k) PROVE Types' /\ TasksInv'
    <3>1. ev' \in EvTask
      BY <2>1, <2>2 DEF Recorded, EvTask, EvSteps
    <3>2. Types'
      BY <2>1, <2>2, <3>1, EventsKept DEF Recorded, Types, TaskTypes
    <3>3. TasksInv'
      BY <2>1, <2>2 DEF Recorded, TasksInv, Busy, EvTask
    <3> QED BY <3>2, <3>3
  <2>3. ASSUME GivenUp PROVE Types' /\ TasksInv'
    <3>1. ev' \in EvTask /\ ev.model \in Models
      BY <2>1, <2>3 DEF GivenUp, EvTask, EvSteps
    <3>2. Types'
      BY <2>1, <2>3, <3>1, EventsKept DEF GivenUp, Types, TaskTypes, RecTypes
    <3>3. TasksInv'
      BY <2>1, <2>3 DEF GivenUp, TasksInv, Busy, EvTask
    <3> QED BY <3>2, <3>3
  <2> QED BY <2>1, <2>2, <2>3
<1>8. CASE Leave
  <2>1. Types'
    BY <1>8, LeaveDoes, EventsKept DEF Types, TaskTypes, RecTypes
  <2>2. TasksInv'
    BY <1>8, LeaveDoes DEF TasksInv, Busy
  <2> QED BY <2>1, <2>2
<1>9. CASE Reported
  <2>1. /\ ~Busy /\ events # <<>> /\ events' = Tail(events) /\ SameParts
        /\ UNCHANGED <<net, cmds, ev, del, excused>>
    BY <1>9, ReportedDoes
  <2>3. strangers' \subseteq Models
    BY <1>9, ReportedDoes, FoundIds DEF Types
  <2>4. Types'
    BY <2>1, <2>3, EventsKept DEF Types, TaskTypes, RecTypes, SameParts
  <2>5. TasksInv'
    BY <2>1 DEF TasksInv, Busy
  <2> QED BY <2>4, <2>5
<1> QED BY <1>1, <1>2, <1>3, <1>4, <1>5, <1>6, <1>7, <1>8, <1>9 DEF EventTask

LEMMA TypeStep ==
    ASSUME Types, TasksInv, [Next]_vars
    PROVE  Types' /\ TasksInv'
<1>1. CASE (\E m \in Models : Join(m) \/ Drop(m) \/ Report(m)) \/ SendScan
  BY <1>1, NetTypes
<1>2. CASE EventTask
  BY <1>2, EvTypes
<1>3. CASE Delete
  <2>1. PICK m \in Models :
            /\ del' = IF FindByModel(m) = {} THEN del
                      ELSE [pc |-> "delete", model |-> m, list |-> FindByModel(m)]
            /\ excused' = IF Busy /\ ev.model = m THEN excused \cup {m} ELSE excused
    BY <1>3, DeleteDoes
  <2>2. FindByModel(m) \in SUBSET Ids
    BY SomeIds DEF FindByModel
  <2>3. TaskTypes' /\ excused' \subseteq Models
    BY <1>3, <2>1, <2>2, DeleteDoes DEF Types, TaskTypes, DelTask
  <2>4. Types'
    BY <1>3, <2>3, DeleteDoes, EventsKept DEF Types, RecTypes
  <2>5. TasksInv'
    BY <1>3, <2>1, DeleteDoes DEF TasksInv, Busy
  <2> QED BY <2>4, <2>5
<1>4. CASE DeleteOne
  <2>1. TaskTypes'
    BY <1>4, DeleteOneDoes DEF Types, TaskTypes, DelTask, Rest
  <2>2. Types'
    BY <1>4, <2>1, DeleteOneDoes, EventsKept DEF Types
  <2>3. TasksInv'
    BY <1>4, DeleteOneDoes DEF TasksInv, Busy, DelTask
  <2> QED BY <2>2, <2>3
<1>5. CASE DeleteLeave
  <2>1. Types'
    BY <1>5, DeleteLeaveDoes, EventsKept DEF Types, TaskTypes, RecTypes
  <2>2. TasksInv'
    BY <1>5, DeleteLeaveDoes DEF TasksInv, Busy
  <2> QED BY <2>1, <2>2
<1>6. CASE UNCHANGED vars
  BY <1>6 DEF vars, Types, RecTypes, EventTypes, TaskTypes, TasksInv, Busy
<1> QED BY <1>1, <1>2, <1>3, <1>4, <1>5, <1>6 DEF Next, ApiTask

-----------------------------------------------------------------------------
(* Every part is recorded once. *)

\* While the parts of a device are added, those to come are not on record; all
\* of its records came of one answer of a device, which has a place for each,
\* and so find_devs_by_modelid finds them.
OnceInv ==
    /\ OneRecordPerPart
    /\ \A m \in Models : Cardinality(OfModel(m)) <= MaxParts
    /\ Busy =>
        /\ ev.pc = "type" => OfModel(ev.model) = {}
        /\ \A k \in ev.todo : \A i \in OfModel(ev.model) : PartAt(i) # Parts[ev.from][k]
        /\ Cardinality(OfModel(ev.model)) + Cardinality(ev.todo) <= MaxParts

LEMMA SameRecords ==
    ASSUME Types, SameParts
    PROVE  /\ \A m : OfModel(m)' = OfModel(m)
           /\ \A i \in DOMAIN recs : PartAt(i)' = PartAt(i)
           /\ \A m : PartsOn(m)' = PartsOn(m)
           /\ OneRecordPerPart => OneRecordPerPart'
<1>1. \A m : OfModel(m)' = OfModel(m)
  BY DEF SameParts, OfModel
<1>2. \A i \in DOMAIN recs : PartAt(i)' = PartAt(i)
  BY DEF SameParts, PartAt
<1>3. ASSUME NEW m PROVE PartsOn(m)' = PartsOn(m)
  <2>1. \A i \in OfModel(m) : recs'[i].ep = recs[i].ep /\ recs'[i].type = recs[i].type
    BY DEF OfModel, SameParts
  <2> QED BY <1>1, <2>1 DEF PartsOn
<1>4. OneRecordPerPart => OneRecordPerPart'
  BY DEF OneRecordPerPart, SameParts
<1> QED BY <1>1, <1>2, <1>3, <1>4

\* The task is where it was, or somewhere before the parts or after them.
Carries ==
    Busy' => /\ Busy /\ ev'.model = ev.model /\ ev'.from = ev.from
             /\ ev'.todo = ev.todo \/ ev'.todo = {}
             /\ ev'.pc = "type" => ev.pc = "type"

LEMMA TodoTypes ==
    ASSUME Types, TasksInv, Busy
    PROVE  /\ ev.todo \subseteq DOMAIN Parts[ev.from] /\ IsFiniteSet(ev.todo)
           /\ Cardinality(ev.todo) \in Nat
           /\ ev.model \in Models /\ ev.from \in Models /\ ev \in EvTask
<1>1. ev \in EvTask /\ ev.todo \subseteq DOMAIN Parts[ev.from]
  BY DEF Types, TaskTypes, TasksInv, Busy
<1>2. ev.model \in Models /\ ev.from \in Models
  BY <1>1 DEF EvTask
<1>3. IsFiniteSet(DOMAIN Parts[ev.from])
  BY <1>2, SomePart, FS_Interval
<1> QED BY <1>1, <1>2, <1>3, FS_Subset, FS_CardinalityType

LEMMA OnceKept ==
    ASSUME Types, TasksInv, OnceInv, SameParts, Carries
    PROVE  OnceInv'
<1>1. OneRecordPerPart' /\ \A m : OfModel(m)' = OfModel(m)
  BY SameRecords DEF OnceInv
<1>2. \A m \in Models : Cardinality(OfModel(m)') <= MaxParts
  BY <1>1 DEF OnceInv
<1>3. ASSUME Busy'
      PROVE  (/\ ev.pc = "type" => OfModel(ev.model) = {}
              /\ \A k \in ev.todo : \A i \in OfModel(ev.model) : PartAt(i) # Parts[ev.from][k]
              /\ Cardinality(OfModel(ev.model)) + Cardinality(ev.todo) <= MaxParts)'
  <2>1. /\ Busy /\ ev'.model = ev.model /\ ev'.from = ev.from
        /\ ev'.todo = ev.todo \/ ev'.todo = {}
        /\ ev'.pc = "type" => ev.pc = "type"
    BY <1>3 DEF Carries
  <2>2. OfModel(ev.model)' = OfModel(ev.model)
    BY <1>1, <2>1 DEF OfModel
  <2>3. \A k \in ev'.todo : \A i \in OfModel(ev.model) : PartAt(i)' # Parts[ev'.from][k]
    BY <2>1, SameRecords, SomeIds DEF OnceInv
  <2>4. Cardinality(OfModel(ev.model)) + Cardinality(ev'.todo) <= MaxParts
    <3>1. /\ Cardinality(ev.todo) \in Nat /\ Cardinality(OfModel(ev.model)) \in Nat
          /\ Cardinality(OfModel(ev.model)) + Cardinality(ev.todo) <= MaxParts
          /\ MaxParts \in Nat
      BY <2>1, TodoTypes, SomeIds, BoundAssumption DEF OnceInv
    <3>2. Cardinality(ev'.todo) = Cardinality(ev.todo) \/ Cardinality(ev'.todo) = 0
      BY <2>1, FS_EmptySet
    <3> QED BY <3>1, <3>2
  <2> QED BY <2>1, <2>2, <2>3, <2>4 DEF OnceInv
<1> QED BY <1>1, <1>2, <1>3 DEF OnceInv

\* Most steps leave the parts on record and the parts to come alone.
LEMMA Quiescent ==
    ASSUME Types, TasksInv, [Next]_vars, ~NewDev, ~GetType, ~DeleteOne
    PROVE  (SameParts /\ Carries) \/ (AddPart /\ \E i, k : Recorded(i, k))
<1>1. CASE UNCHANGED <<recs, ev>>
  BY <1>1, Stays DEF Carries, Busy
<1>2. CASE UpdateAddr \/ Rebind \/ Displace
  <2>1. PICK pc \in EvSteps \ {"type"} : \E list \in SUBSET Ids :
            Busy /\ ev.pc # "type" /\ SameParts /\ Next1(pc, list)
    <3>1. CASE UpdateAddr
      <4>1. Busy /\ ev.pc = "update" /\ SameParts /\ Next1("rebind", ev.found)
        BY <3>1, UpdateAddrDoes
      <4>2. ev.found \in SUBSET Ids
        BY <4>1, TodoTypes DEF EvTask
      <4> QED BY <4>1, <4>2 DEF EvSteps
    <3>2. CASE Rebind
      BY <3>2, RebindDoes DEF EvSteps
    <3>3. CASE Displace
      BY <3>3, DisplaceDoes DEF EvSteps
    <3> QED BY <1>2, <3>1, <3>2, <3>3
  <2>2. PICK list \in SUBSET Ids : Busy /\ ev.pc # "type" /\ SameParts /\ Next1(pc, list)
    BY <2>1
  <2>3. /\ ev'.model = ev.model /\ ev'.from = ev.from /\ ev'.todo = ev.todo
        /\ ev'.pc = ev.pc \/ ev'.pc = pc
    BY <2>2, ListStep
  <2> QED BY <2>2, <2>3 DEF Carries
<1>3. CASE Conflict
  <2>1. /\ Busy /\ ev.pc = "conflict" /\ recs' = recs
        /\ ev' = [ev EXCEPT !.pc = IF FindByAddr(ev.addr) = {} THEN After ELSE "displace",
                            !.list = FindByAddr(ev.addr)]
    BY <1>3 DEF Conflict, Busy
  <2>2. ev \in EvTask
    BY <2>1, TodoTypes
  <2>3. /\ ev'.model = ev.model /\ ev'.from = ev.from /\ ev'.todo = ev.todo
        /\ ev'.pc # "type"
    BY <2>1, <2>2 DEF EvTask, After
  <2> QED BY <2>1, <2>3, Stays DEF Carries
<1>4. CASE AddPart
  <2>1. Busy /\ ((\E i, k : Recorded(i, k)) \/ GivenUp) /\ ev \in EvTask
    BY <1>4, AddPartDoes, TodoTypes
  <2>2. CASE GivenUp
    <3>1. /\ ev'.model = ev.model /\ ev'.from = ev.from /\ ev'.todo = {}
          /\ ev'.pc = "leave" /\ recs' = recs
      BY <2>1, <2>2 DEF GivenUp, EvTask
    <3> QED BY <2>1, <3>1, Stays DEF Carries
  <2> QED BY <1>4, <2>1, <2>2
<1>5. CASE Leave
  BY <1>5, LeaveDoes, Stays DEF Carries, Busy
<1>6. CASE Reported
  BY <1>6, ReportedDoes DEF Carries, Busy
<1>7. CASE EventTask
  BY <1>2, <1>3, <1>4, <1>5, <1>6, <1>7 DEF EventTask
<1>8. UNCHANGED <<recs, ev>> \/ EventTask
  BY DEF Next, ApiTask, Join, Drop, Report, SendScan, Delete, DeleteLeave, vars
<1> QED BY <1>1, <1>7, <1>8

LEMMA NewDevDoes ==
    ASSUME Types, NewDev
    PROVE  LET e == Head(events)
               list == FindByModel(e.model)
           IN /\ ~Busy /\ events # <<>> /\ e.kind = "newdev" /\ events' = Tail(events)
              /\ e \in Announcement
              /\ ev' = [pc |-> IF list = {} THEN "type" ELSE "update", model |-> e.model,
                        addr |-> e.addr, list |-> list, found |-> list,
                        from |-> e.model, todo |-> {}]
              /\ UNCHANGED <<net, recs, cmds, del, excused, strangers>>
<1>1. events # <<>> /\ Head(events).kind = "newdev"
  BY DEF NewDev
<1>2. Head(events) \in Announcement
  BY <1>1, FirstEvent DEF PartReport
<1> QED BY <1>1, <1>2 DEF NewDev, Busy

\* With OnceInv a model is looked up rightly.
LEMMA Lookup ==
    ASSUME Types, OnceInv, NEW m \in Models
    PROVE  FindByModel(m) = OfModel(m)
<1>1. Cardinality(OfModel(m)) \in Nat /\ MaxParts \in Nat /\ Cardinality(OfModel(m)) <= MaxParts
  BY SomeIds, BoundAssumption DEF OnceInv
<1> QED BY <1>1 DEF FindByModel

LEMMA OnceNewDev ==
    ASSUME Types, OnceInv, NewDev
    PROVE  OnceInv'
<1> DEFINE m == Head(events).model
<1>1. /\ m \in Models /\ recs' = recs
      /\ ev' = [pc |-> IF OfModel(m) = {} THEN "type" ELSE "update", model |-> m,
                addr |-> Head(events).addr, list |-> OfModel(m), found |-> OfModel(m),
                from |-> m, todo |-> {}]
  BY NewDevDoes, Lookup DEF Announcement
<1>2. ev'.model = m /\ ev'.todo = {} /\ (ev'.pc = "type" => OfModel(m) = {})
  BY <1>1
<1>3. OneRecordPerPart' /\ \A n : OfModel(n)' = OfModel(n)
  BY <1>1, Stays, SameRecords DEF OnceInv
<1>4. OfModel(ev.model)' = OfModel(m)
  BY <1>1, <1>2 DEF OfModel
<1>5. Cardinality(OfModel(m)) + Cardinality({}) <= MaxParts
  BY <1>1, FS_EmptySet, SomeIds, BoundAssumption DEF OnceInv
<1> QED BY <1>1, <1>2, <1>3, <1>4, <1>5 DEF OnceInv

LEMMA OnceGetType ==
    ASSUME Types, TasksInv, OnceInv, GetType
    PROVE  OnceInv'
<1>1. Busy /\ ev.pc = "type" /\ recs' = recs
  BY GetTypeDoes
<1>2. PICK from \in Models : \E todo \in SUBSET DOMAIN Parts[from] :
        ev' = IF todo = {} THEN [ev EXCEPT !.pc = "leave"]
              ELSE [ev EXCEPT !.pc = "conflict", !.from = from, !.todo = todo]
  BY GetTypeDoes
<1>3. PICK todo \in SUBSET DOMAIN Parts[from] :
        ev' = IF todo = {} THEN [ev EXCEPT !.pc = "leave"]
              ELSE [ev EXCEPT !.pc = "conflict", !.from = from, !.todo = todo]
  BY <1>2
<1>4. ev \in EvTask /\ ev.todo = {} /\ ev.model \in Models
  BY <1>1, TodoTypes DEF TasksInv
<1>5. /\ ev'.model = ev.model /\ ev'.todo = todo /\ ev'.pc # "type"
      /\ todo # {} => ev'.from = from
  BY <1>3, <1>4 DEF EvTask
<1>6. OneRecordPerPart' /\ \A n : OfModel(n)' = OfModel(n)
  BY <1>1, Stays, SameRecords DEF OnceInv
<1>7. OfModel(ev.model)' = {}
  BY <1>1, <1>5, <1>6 DEF OnceInv, OfModel
<1>8. IsFiniteSet(DOMAIN Parts[from]) /\ Cardinality(DOMAIN Parts[from]) <= MaxParts
      /\ Cardinality(DOMAIN Parts[from]) \in Nat
  <2>1. DOMAIN Parts[from] = 1..Len(Parts[from]) /\ Len(Parts[from]) \in Nat
        /\ Len(Parts[from]) <= MaxParts
    BY SomePart, PartAssumption
  <2>2. IsFiniteSet(1..Len(Parts[from])) /\ Cardinality(1..Len(Parts[from])) = Len(Parts[from])
    BY <2>1, FS_Interval
  <2> QED BY <2>1, <2>2
<1>9. Cardinality(todo) \in Nat /\ Cardinality(todo) <= MaxParts /\ Cardinality({}) = 0
  BY <1>8, FS_Subset, FS_CardinalityType, FS_EmptySet, BoundAssumption
<1> QED BY <1>5, <1>6, <1>7, <1>9 DEF OnceInv

LEMMA RecordedGrows ==
    ASSUME Types, Busy, NEW i, NEW k, Recorded(i, k)
    PROVE  /\ \A m : OfModel(m)' = IF m = ev.model THEN OfModel(m) \cup {i} ELSE OfModel(m)
           /\ \A m : i \notin OfModel(m)
           /\ \A j \in DOMAIN recs : PartAt(j)' = PartAt(j)
           /\ ev'.model = ev.model /\ ev'.from = ev.from /\ ev'.todo = ev.todo \ {k}
           /\ ev'.addr = ev.addr
           /\ ev'.pc = IF ev.todo \ {k} = {} THEN "idle" ELSE "add"
<1>1. /\ i \notin DOMAIN recs /\ DOMAIN recs' = DOMAIN recs \cup {i}
      /\ \A j \in DOMAIN recs : recs'[j] = recs[j]
      /\ recs'[i].model = ev.model
  BY DEF Recorded
<1>2. \A m : OfModel(m)' = IF m = ev.model THEN OfModel(m) \cup {i} ELSE OfModel(m)
  BY <1>1 DEF OfModel
<1>3. (\A m : i \notin OfModel(m)) /\ \A j \in DOMAIN recs : PartAt(j)' = PartAt(j)
  BY <1>1 DEF OfModel, PartAt
<1>4. ev \in EvTask
  BY DEF Types, TaskTypes, Busy
<1>5. /\ ev'.model = ev.model /\ ev'.from = ev.from /\ ev'.todo = ev.todo \ {k}
      /\ ev'.addr = ev.addr
      /\ ev'.pc = IF ev.todo \ {k} = {} THEN "idle" ELSE "add"
  BY <1>4 DEF Recorded, EvTask
<1> QED BY <1>2, <1>3, <1>5

LEMMA OnceAddPart ==
    ASSUME Types, TasksInv, OnceInv, Busy, NEW i, NEW k, Recorded(i, k)
    PROVE  OnceInv'
<1> DEFINE m == ev.model
<1>1. /\ \A n : OfModel(n)' = IF n = m THEN OfModel(n) \cup {i} ELSE OfModel(n)
      /\ i \notin OfModel(m)
      /\ \A j \in DOMAIN recs : PartAt(j)' = PartAt(j)
      /\ ev'.model = m /\ ev'.from = ev.from /\ ev'.todo = ev.todo \ {k}
      /\ ev'.pc # "type"
  BY RecordedGrows
<1>2. /\ i \notin DOMAIN recs /\ DOMAIN recs' = DOMAIN recs \cup {i} /\ k \in ev.todo
      /\ \A j \in DOMAIN recs : recs'[j] = recs[j]
      /\ recs'[i].model = m /\ PartAt(i)' = Parts[ev.from][k]
  BY DEF Recorded
<1>3. \A j \in OfModel(m) : PartAt(j) # Parts[ev.from][k]
  BY <1>2 DEF OnceInv
<1>4. OneRecordPerPart'
  <2>1. ASSUME NEW j \in DOMAIN recs, recs[j].model = m
        PROVE  ~(recs'[j].ep = recs'[i].ep /\ recs'[j].type = recs'[i].type)
    <3>1. j \in OfModel(m) /\ PartAt(j)' # PartAt(i)'
      BY <1>1, <1>2, <1>3, <2>1 DEF OfModel
    <3> QED BY <3>1 DEF PartAt
  <2>2. ASSUME NEW a \in DOMAIN recs', NEW b \in DOMAIN recs',
               recs'[a].model = recs'[b].model /\ recs'[a].ep = recs'[b].ep
                    /\ recs'[a].type = recs'[b].type
        PROVE  a = b
    <3>1. CASE a = i \/ b = i
      BY <1>2, <2>1, <2>2, <3>1
    <3>2. CASE a \in DOMAIN recs /\ b \in DOMAIN recs
      BY <1>2, <2>2, <3>2 DEF OnceInv, OneRecordPerPart
    <3> QED BY <1>2, <3>1, <3>2
  <2> QED BY <2>2 DEF OneRecordPerPart
<1>5. /\ Cardinality(OfModel(m) \cup {i}) = Cardinality(OfModel(m)) + 1
      /\ Cardinality(ev.todo \ {k}) = Cardinality(ev.todo) - 1
      /\ Cardinality(OfModel(m)) \in Nat /\ Cardinality(ev.todo) \in Nat
      /\ ev.from \in Models /\ m \in Models /\ ev.todo \subseteq DOMAIN Parts[ev.from]
      /\ Cardinality(ev.todo \ {k}) \in Nat
  BY <1>1, <1>2, SomeIds, TodoTypes, FS_AddElement, FS_RemoveElement, FS_CardinalityType
<1>6. Cardinality(OfModel(m)) + Cardinality(ev.todo) <= MaxParts /\ MaxParts \in Nat
  BY BoundAssumption DEF OnceInv
<1>7. ASSUME NEW n \in Models PROVE Cardinality(OfModel(n)') <= MaxParts
  <2>1. Cardinality(OfModel(m) \cup {i}) <= MaxParts
    BY <1>5, <1>6
  <2>2. Cardinality(OfModel(n)) <= MaxParts
    BY DEF OnceInv
  <2>3. OfModel(n)' = OfModel(m) \cup {i} \/ OfModel(n)' = OfModel(n)
    BY <1>1
  <2> QED BY <2>1, <2>2, <2>3
<1>8. OfModel(ev.model)' = OfModel(m) \cup {i}
  BY <1>1 DEF OfModel
<1>9. \A l \in ev.todo \ {k} : \A j \in OfModel(m) \cup {i} : PartAt(j)' # Parts[ev.from][l]
  <2>1. \A l \in ev.todo \ {k} : Parts[ev.from][k] # Parts[ev.from][l]
    BY <1>2, <1>5, PartAssumption
  <2>2. OfModel(m) \subseteq DOMAIN recs
    BY DEF OfModel
  <2> QED BY <1>1, <1>2, <2>1, <2>2 DEF OnceInv
<1> QED BY <1>1, <1>4, <1>5, <1>6, <1>7, <1>8, <1>9 DEF OnceInv

LEMMA DeletedShrinks ==
    ASSUME Types, TasksInv, DeleteOne
    PROVE  /\ \A m : OfModel(m)' = OfModel(m) \ {Least(del.list)}
           /\ \A j \in DOMAIN recs' : j \in DOMAIN recs /\ recs'[j] = recs[j]
           /\ \A j \in DOMAIN recs' : PartAt(j)' = PartAt(j)
<1>1. /\ DOMAIN recs' = DOMAIN recs \ {Least(del.list)}
      /\ \A j \in DOMAIN recs' : recs'[j] = recs[j]
  BY DeleteOneDoes
<1> QED BY <1>1 DEF OfModel, PartAt

LEMMA OnceDeleteOne ==
    ASSUME Types, TasksInv, OnceInv, DeleteOne
    PROVE  OnceInv'
<1>1. /\ \A m : OfModel(m)' \subseteq OfModel(m)
      /\ \A j \in DOMAIN recs' : j \in DOMAIN recs /\ recs'[j] = recs[j]
      /\ \A j \in DOMAIN recs' : PartAt(j)' = PartAt(j)
      /\ ev' = ev
  BY DeletedShrinks, DeleteOneDoes
<1>2. OneRecordPerPart'
  BY <1>1 DEF OnceInv, OneRecordPerPart
<1>3. ASSUME NEW m
      PROVE  /\ Cardinality(OfModel(m)') <= Cardinality(OfModel(m))
             /\ Cardinality(OfModel(m)') \in Nat /\ Cardinality(OfModel(m)) \in Nat
  <2>1. IsFiniteSet(OfModel(m)) /\ OfModel(m)' \in SUBSET OfModel(m)
    BY <1>1, SomeIds
  <2> QED BY <2>1, FS_Subset, FS_CardinalityType
<1>4. ASSUME NEW m \in Models PROVE Cardinality(OfModel(m)') <= MaxParts
  <2>1. Cardinality(OfModel(m)) <= MaxParts /\ MaxParts \in Nat
    BY BoundAssumption DEF OnceInv
  <2> QED BY <1>3, <2>1
<1>5. ASSUME Busy'
      PROVE  (/\ ev.pc = "type" => OfModel(ev.model) = {}
              /\ \A k \in ev.todo : \A i \in OfModel(ev.model) : PartAt(i) # Parts[ev.from][k]
              /\ Cardinality(OfModel(ev.model)) + Cardinality(ev.todo) <= MaxParts)'
  <2>1. Busy
    BY <1>1, <1>5 DEF Busy
  <2>2. PICK m : m = ev.model
    OBVIOUS
  <2>3. OfModel(ev.model)' = OfModel(m)' /\ OfModel(m)' \subseteq OfModel(m)
    BY <1>1, <2>2
  <2>4. /\ ev.pc = "type" => OfModel(m) = {}
        /\ \A k \in ev.todo : \A i \in OfModel(m) : PartAt(i) # Parts[ev.from][k]
        /\ Cardinality(OfModel(m)) + Cardinality(ev.todo) <= MaxParts
        /\ Cardinality(ev.todo) \in Nat /\ MaxParts \in Nat
    BY <2>1, <2>2, TodoTypes, BoundAssumption DEF OnceInv
  <2>5. \A i \in OfModel(m)' : i \in OfModel(m) /\ PartAt(i)' = PartAt(i)
    BY <1>1 DEF OfModel
  <2>6. Cardinality(OfModel(m)') + Cardinality(ev.todo) <= MaxParts
    BY <1>3, <2>4
  <2> QED BY <1>1, <2>3, <2>4, <2>5, <2>6
<1> QED BY <1>2, <1>4, <1>5 DEF OnceInv

LEMMA OnceStep ==
    ASSUME Types, TasksInv, OnceInv, [Next]_vars
    PROVE  OnceInv'
<1>1. CASE SameParts /\ Carries
  BY <1>1, OnceKept
<1>2. ASSUME AddPart, NEW i, NEW k, Recorded(i, k) PROVE OnceInv'
  BY <1>2, AddPartDoes, OnceAddPart
<1> QED BY <1>1, <1>2, OnceNewDev, OnceGetType, OnceDeleteOne, Quiescent

-----------------------------------------------------------------------------
(* A device is recorded whole. *)

\* A list that is deleted is of records of its device: of all of them, and
\* nobody adds to them, unless the device is excused.
DelsInv ==
    del.pc = "delete" =>
        /\ del.list \subseteq OfModel(del.model)
        /\ del.model \notin excused =>
            /\ OfModel(del.model) = del.list
            /\ Busy /\ ev.model = del.model => ev.todo = {} /\ ev.pc # "type"

\* Records are of parts of their device, and while it is added they are those
\* that are no longer to do.
AddsInv ==
    /\ \A i \in DOMAIN recs : recs[i].model \notin excused =>
            PartAt(i) \in Range(Parts[recs[i].model])
    /\ Busy /\ ev.todo # {} /\ ev.model \notin excused =>
        /\ ev.from = ev.model
        /\ PartsOn(ev.model) =
            {Parts[ev.model][k] : k \in (DOMAIN Parts[ev.model]) \ ev.todo}

Unfinished(m) ==
    \/ Busy /\ ev.model = m /\ ev.todo # {}
    \/ del.pc = "delete" /\ del.model = m

AllOrNone ==
    \A m \in Models \ excused :
        PartsOn(m) = {} \/ PartsOn(m) = Range(Parts[m]) \/ Unfinished(m)

Announced(m) ==
    \E k \in 1..Len(events) : events[k].kind = "newdev" /\ events[k].model = m

\* A device in the network is on record, or it will be, or it has to leave.
Known ==
    \A m \in Models \ excused : net[m] # NoAddr =>
        \/ OfModel(m) # {} \/ Announced(m)
        \/ Busy /\ ev.model = m /\ (ev.pc \in {"type", "leave"} \/ ev.todo # {})
        \/ del.pc = "leave" /\ del.model = m

\* The task goes on in what it does with a device that is known.
Works == UpdateAddr \/ Rebind \/ Conflict \/ Displace

LEMMA WorksDoes ==
    ASSUME Types, TasksInv, Works
    PROVE  /\ Busy /\ ev.pc \in {"update", "rebind", "conflict", "displace"} /\ SameParts
           /\ ev'.model = ev.model /\ ev'.from = ev.from /\ ev'.todo = ev.todo
           /\ ev'.addr = ev.addr /\ ev'.pc \notin {"type", "leave"}
           /\ ev'.pc = "update" => ev.pc = "update"
           /\ Busy' \/ ev.todo = {}
           /\ UNCHANGED <<net, events, del, excused, strangers>>
<1>1. CASE UpdateAddr
  <2>1. /\ Busy /\ ev.pc = "update" /\ SameParts /\ Next1("rebind", ev.found)
        /\ UNCHANGED <<net, events, del, excused, strangers>>
    BY <1>1, UpdateAddrDoes
  <2>2. ev.found \in SUBSET Ids /\ ev.todo = {}
    BY <2>1, TodoTypes DEF EvTask, TasksInv
  <2>3. /\ ev'.model = ev.model /\ ev'.from = ev.from /\ ev'.todo = ev.todo
        /\ ev'.addr = ev.addr /\ (ev'.pc = ev.pc \/ ev'.pc = "rebind")
    BY <2>1, <2>2, ListStep DEF EvSteps
  <2> QED BY <2>1, <2>2, <2>3
<1>2. CASE Rebind
  <2>1. /\ Busy /\ ev.pc = "rebind" /\ SameParts /\ Next1("conflict", {})
        /\ UNCHANGED <<net, events, del, excused, strangers>>
    BY <1>2, RebindDoes
  <2>2. /\ ev'.model = ev.model /\ ev'.from = ev.from /\ ev'.todo = ev.todo
        /\ ev'.addr = ev.addr /\ (ev'.pc = ev.pc \/ ev'.pc = "conflict")
    BY <2>1, ListStep DEF EvSteps
  <2> QED BY <2>1, <2>2 DEF Busy
<1>3. CASE Conflict
  <2>1. /\ Busy /\ ev.pc = "conflict" /\ recs' = recs
        /\ ev' = [ev EXCEPT !.pc = IF FindByAddr(ev.addr) = {} THEN After ELSE "displace",
                            !.list = FindByAddr(ev.addr)]
        /\ UNCHANGED <<net, events, del, excused, strangers>>
    BY <1>3 DEF Conflict, Busy
  <2>2. ev \in EvTask
    BY <2>1, TodoTypes
  <2>3. /\ ev'.model = ev.model /\ ev'.from = ev.from /\ ev'.todo = ev.todo
        /\ ev'.addr = ev.addr /\ (ev'.pc = "displace" \/ ev'.pc = After)
    BY <2>1, <2>2 DEF EvTask
  <2> QED BY <2>1, <2>3, Stays DEF Busy, After
<1>4. CASE Displace
  <2>1. /\ Busy /\ ev.pc = "displace" /\ SameParts /\ Next1(After, {})
        /\ UNCHANGED <<net, events, del, excused, strangers>>
    BY <1>4, DisplaceDoes
  <2>2. /\ ev'.model = ev.model /\ ev'.from = ev.from /\ ev'.todo = ev.todo
        /\ ev'.addr = ev.addr /\ (ev'.pc = ev.pc \/ ev'.pc = After)
    BY <2>1, ListStep, DisplaceDoes, <1>4 DEF EvSteps
  <2> QED BY <2>1, <2>2 DEF Busy, After
<1> QED BY <1>1, <1>2, <1>3, <1>4 DEF Works

Outside == (\E m \in Models : Join(m) \/ Drop(m) \/ Report(m)) \/ SendScan

LEMMA Kinds ==
    ASSUME [Next]_vars
    PROVE  \/ Outside \/ NewDev \/ Works \/ GetType \/ AddPart \/ Leave \/ Reported
           \/ Delete \/ DeleteOne \/ DeleteLeave \/ UNCHANGED vars
BY DEF Next, EventTask, ApiTask, Works, Outside

LEMMA OutsideDoes ==
    ASSUME Outside
    PROVE  UNCHANGED <<recs, ev, del, excused, strangers>>
BY DEF Outside, Join, Drop, Report, SendScan

LEMMA Forgiving ==
    ASSUME Types, TasksInv, [Next]_vars
    PROVE  excused \subseteq excused'
<1>1. CASE AddPart
  <2>1. (\E i, k : Recorded(i, k)) \/ GivenUp
    BY <1>1, AddPartDoes
  <2> QED BY <2>1 DEF Recorded, GivenUp
<1>2. CASE NewDev
  BY <1>2, NewDevDoes
<1> QED BY <1>1, <1>2, Kinds, OutsideDoes, WorksDoes, GetTypeDoes, LeaveDoes, ReportedDoes,
           DeleteDoes, DeleteOneDoes, DeleteLeaveDoes DEF vars

LEMMA DelsKept ==
    ASSUME Types, TasksInv, DelsInv, SameParts, Carries, del' = del, excused \subseteq excused'
    PROVE  DelsInv'
<1> SUFFICES ASSUME del.pc = "delete"
             PROVE  (/\ del.list \subseteq OfModel(del.model)
                     /\ del.model \notin excused =>
                        /\ OfModel(del.model) = del.list
                        /\ Busy /\ ev.model = del.model => ev.todo = {} /\ ev.pc # "type")'
  BY DEF DelsInv
<1>1. OfModel(del.model)' = OfModel(del.model)
  BY SameRecords DEF OfModel
<1> QED BY <1>1 DEF DelsInv, Carries

LEMMA DelsStep ==
    ASSUME Types, TasksInv, OnceInv, DelsInv, [Next]_vars
    PROVE  DelsInv'
<1>1. excused \subseteq excused'
  BY Forgiving
<1>2. CASE UNCHANGED <<recs, ev, del>>
  BY <1>1, <1>2, DelsKept, Stays DEF Carries, Busy
<1>3. CASE Works
  BY <1>1, <1>3, DelsKept, WorksDoes DEF Carries
<1>4. CASE NewDev
  <2> DEFINE m == Head(events).model
  <2>1. /\ m \in Models /\ recs' = recs /\ del' = del /\ excused' = excused
        /\ ev' = [pc |-> IF OfModel(m) = {} THEN "type" ELSE "update", model |-> m,
                  addr |-> Head(events).addr, list |-> OfModel(m), found |-> OfModel(m),
                  from |-> m, todo |-> {}]
    BY <1>4, NewDevDoes, Lookup DEF Announcement
  <2>2. /\ ev'.model = m /\ ev'.todo = {} /\ (ev'.pc = "type" => OfModel(m) = {})
    BY <2>1
  <2>3. OfModel(del.model)' = OfModel(del.model)
    BY <2>1 DEF OfModel
  <2> QED BY <2>1, <2>2, <2>3 DEF DelsInv, TasksInv
<1>5. CASE GetType
  <2>1. /\ Busy /\ ev.pc = "type" /\ UNCHANGED <<recs, del>>
    BY <1>5, GetTypeDoes
  <2>2. PICK from \in Models : \E todo \in SUBSET DOMAIN Parts[from] :
        ev' = IF todo = {} THEN [ev EXCEPT !.pc = "leave"]
              ELSE [ev EXCEPT !.pc = "conflict", !.from = from, !.todo = todo]
    BY <1>5, GetTypeDoes
  <2>3. ev'.model = ev.model
    BY <2>1, <2>2, TodoTypes DEF EvTask
  <2>4. OfModel(del.model)' = OfModel(del.model)
    BY <2>1 DEF OfModel
  <2> QED BY <1>1, <2>1, <2>3, <2>4 DEF DelsInv
<1>6. CASE AddPart
  <2>1. Busy /\ del' = del /\ ((\E i, k : Recorded(i, k)) \/ GivenUp)
    BY <1>6, AddPartDoes
  <2>2. ASSUME NEW i, NEW k, Recorded(i, k) PROVE DelsInv'
    <3>1. /\ \A n : OfModel(n)' = IF n = ev.model THEN OfModel(n) \cup {i} ELSE OfModel(n)
          /\ ev'.model = ev.model /\ excused' = excused /\ k \in ev.todo
      BY <2>1, <2>2, RecordedGrows DEF Recorded
    <3>2. OfModel(del.model)' = IF del.model = ev.model THEN OfModel(del.model) \cup {i}
                                ELSE OfModel(del.model)
      BY <2>1, <3>1 DEF OfModel
    <3> QED BY <2>1, <3>1, <3>2 DEF DelsInv
  <2>3. ASSUME GivenUp PROVE DelsInv'
    <3>1. /\ ev'.model = ev.model /\ ev'.from = ev.from /\ ev'.todo = {}
          /\ ev'.pc = "leave" /\ recs' = recs
      BY <2>1, <2>3, TodoTypes DEF GivenUp, EvTask
    <3> QED BY <1>1, <2>1, <3>1, Stays, DelsKept DEF Carries
  <2> QED BY <2>1, <2>2, <2>3
<1>7. CASE Leave
  <2>1. ~Busy' /\ recs' = recs /\ del' = del
    BY <1>7, LeaveDoes DEF Busy
  <2> QED BY <1>1, <2>1, Stays, DelsKept DEF Carries
<1>8. CASE Reported
  <2>1. SameParts /\ ev' = ev /\ del' = del
    BY <1>8, ReportedDoes
  <2> QED BY <1>1, <2>1, DelsKept DEF Carries, Busy
<1>9. CASE Delete
  <2>1. del.pc = "idle" /\ recs' = recs /\ ev' = ev
    BY <1>9, DeleteDoes
  <2>2. PICK m \in Models :
            /\ del' = IF OfModel(m) = {} THEN del
                      ELSE [pc |-> "delete", model |-> m, list |-> OfModel(m)]
            /\ excused' = IF Busy /\ ev.model = m THEN excused \cup {m} ELSE excused
    BY <1>9, DeleteDoes, Lookup
  <2>3. CASE OfModel(m) = {}
    BY <2>1, <2>2, <2>3 DEF DelsInv
  <2>4. CASE OfModel(m) # {}
    <3>1. del'.model = m /\ del'.list = OfModel(m)
      BY <2>2, <2>4
    <3>2. OfModel(del.model)' = OfModel(m)
      BY <2>1, <3>1 DEF OfModel
    <3>3. Busy' = Busy /\ (m \notin excused' => ~(Busy /\ ev.model = m))
      BY <2>1, <2>2 DEF Busy
    <3> QED BY <2>1, <3>1, <3>2, <3>3 DEF DelsInv
  <2> QED BY <2>3, <2>4
<1>10. CASE DeleteOne
  <2>1. /\ del.pc = "delete" /\ ev' = ev /\ excused' = excused
        /\ \A m : OfModel(m)' = OfModel(m) \ {Least(del.list)}
        /\ del'.model = del.model /\ del'.list = del.list \ {Least(del.list)}
    BY <1>10, DeletedShrinks, DeleteOneDoes DEF DelTask, Rest
  <2>2. OfModel(del.model)' = OfModel(del.model) \ {Least(del.list)}
    BY <2>1 DEF OfModel
  <2> QED BY <2>1, <2>2 DEF DelsInv, Busy
<1>11. CASE DeleteLeave
  BY <1>11, DeleteLeaveDoes DEF DelsInv
<1> QED BY <1>2, <1>3, <1>4, <1>5, <1>6, <1>7, <1>8, <1>9, <1>10, <1>11, Kinds, OutsideDoes DEF vars

LEMMA PartsOnAt ==
    ASSUME NEW m
    PROVE  PartsOn(m) = {PartAt(i) : i \in OfModel(m)}
BY DEF PartsOn, PartAt

LEMMA RecordedParts ==
    ASSUME Types, Busy, NEW i, NEW k, Recorded(i, k), NEW m
    PROVE  PartsOn(m)' = IF m = ev.model THEN PartsOn(m) \cup {Parts[ev.from][k]} ELSE PartsOn(m)
<1>1. /\ OfModel(m)' = IF m = ev.model THEN OfModel(m) \cup {i} ELSE OfModel(m)
      /\ \A j \in OfModel(m) : PartAt(j)' = PartAt(j)
  BY RecordedGrows DEF OfModel
<1>2. PartAt(i)' = Parts[ev.from][k]
  BY DEF Recorded
<1>3. PartsOn(m)' = {PartAt(j)' : j \in OfModel(m)'}
  BY DEF PartsOn, PartAt
<1>4. CASE m = ev.model
  <2>1. PartsOn(m)' = {PartAt(j)' : j \in OfModel(m)} \cup {PartAt(i)'}
    BY <1>1, <1>3, <1>4
  <2>2. {PartAt(j)' : j \in OfModel(m)} = PartsOn(m)
    BY <1>1, PartsOnAt
  <2> QED BY <1>2, <1>4, <2>1, <2>2
<1>5. CASE m # ev.model
  BY <1>1, <1>3, <1>5, PartsOnAt
<1> QED BY <1>4, <1>5

LEMMA DeletedParts ==
    ASSUME Types, TasksInv, DeleteOne, NEW m, Least(del.list) \notin OfModel(m)
    PROVE  OfModel(m)' = OfModel(m) /\ PartsOn(m)' = PartsOn(m)
<1>1. OfModel(m)' = OfModel(m) /\ \A j \in OfModel(m) : PartAt(j)' = PartAt(j)
  BY DeletedShrinks DEF OfModel
<1>2. PartsOn(m)' = {PartAt(j)' : j \in OfModel(m)'}
  BY DEF PartsOn, PartAt
<1> QED BY <1>1, <1>2, PartsOnAt

LEMMA AddsKept ==
    ASSUME Types, TasksInv, AddsInv, SameParts, Carries, excused \subseteq excused'
    PROVE  AddsInv'
<1>1. ASSUME NEW i \in DOMAIN recs', recs'[i].model \notin excused'
      PROVE  PartAt(i)' \in Range(Parts[recs'[i].model])
  <2>1. i \in DOMAIN recs /\ recs'[i].model = recs[i].model
    BY DEF SameParts
  <2> QED BY <1>1, <2>1, SameRecords DEF AddsInv
<1>2. ASSUME Busy', ev'.todo # {}, ev'.model \notin excused'
      PROVE  (/\ ev.from = ev.model
              /\ PartsOn(ev.model) =
                    {Parts[ev.model][k] : k \in (DOMAIN Parts[ev.model]) \ ev.todo})'
  <2>1. /\ Busy /\ ev'.model = ev.model /\ ev'.from = ev.from /\ ev'.todo = ev.todo
    BY <1>2 DEF Carries
  <2>2. PICK m : m = ev.model
    OBVIOUS
  <2>3. PartsOn(ev.model)' = PartsOn(m)'
    BY <2>1, <2>2 DEF PartsOn, OfModel
  <2>4. PartsOn(m)' = PartsOn(m)
    BY SameRecords
  <2> QED BY <1>2, <2>1, <2>2, <2>3, <2>4 DEF AddsInv
<1> QED BY <1>1, <1>2 DEF AddsInv

LEMMA AddsStep ==
    ASSUME Types, TasksInv, OnceInv, DelsInv, AddsInv, [Next]_vars
    PROVE  AddsInv'
<1>1. excused \subseteq excused'
  BY Forgiving
<1>3. CASE SameParts /\ Carries
  BY <1>1, <1>3, AddsKept
<1>4. CASE NewDev
  <2>1. recs' = recs /\ excused' = excused /\ ev'.todo = {}
    BY <1>4, NewDevDoes
  <2>2. \A i \in DOMAIN recs : PartAt(i)' = PartAt(i)
    BY <2>1, Stays, SameRecords
  <2> QED BY <2>1, <2>2 DEF AddsInv
<1>5. CASE GetType
  <2>1. /\ Busy /\ ev.pc = "type" /\ recs' = recs
    BY <1>5, GetTypeDoes
  <2>2. PICK from \in Models : \E todo \in SUBSET DOMAIN Parts[from] :
        /\ ev' = IF todo = {} THEN [ev EXCEPT !.pc = "leave"]
                 ELSE [ev EXCEPT !.pc = "conflict", !.from = from, !.todo = todo]
        /\ ev.model \notin excused' => from = ev.model /\ todo = DOMAIN Parts[from]
    BY <1>5, GetTypeDoes
  <2>3. PICK todo \in SUBSET DOMAIN Parts[from] :
        /\ ev' = IF todo = {} THEN [ev EXCEPT !.pc = "leave"]
                 ELSE [ev EXCEPT !.pc = "conflict", !.from = from, !.todo = todo]
        /\ ev.model \notin excused' => from = ev.model /\ todo = DOMAIN Parts[from]
    BY <2>2
  <2>4. ev \in EvTask /\ ev.todo = {} /\ OfModel(ev.model) = {}
    BY <2>1, TodoTypes DEF TasksInv, OnceInv
  <2>5. /\ ev'.model = ev.model /\ ev'.todo = todo
        /\ todo # {} => ev'.from = from
    BY <2>3, <2>4 DEF EvTask
  <2>6. PICK m : m = ev.model
    OBVIOUS
  <2>7. PartsOn(ev.model)' = {}
    BY <2>1, <2>4, <2>5 DEF PartsOn, OfModel
  <2>8. ASSUME todo # {}, m \notin excused'
        PROVE  ev'.from = m /\ (DOMAIN Parts[m]) \ todo = {}
    BY <2>3, <2>5, <2>6, <2>8
  <2>9. \A i \in DOMAIN recs : PartAt(i)' = PartAt(i)
    BY <2>1, Stays, SameRecords
  <2> QED BY <1>1, <2>1, <2>5, <2>6, <2>7, <2>8, <2>9 DEF AddsInv
<1>6. ASSUME AddPart, NEW i, NEW k, Recorded(i, k) PROVE AddsInv'
  <2>1. Busy /\ ev.pc = "add" /\ ev.todo # {} /\ ev.todo \subseteq DOMAIN Parts[ev.from]
    BY <1>6, AddPartDoes DEF TasksInv
  <2>2. PICK m : m = ev.model
    OBVIOUS
  <2>3. /\ DOMAIN recs' = DOMAIN recs \cup {i} /\ recs'[i].model = m
        /\ \A j \in DOMAIN recs : recs'[j] = recs[j]
        /\ PartAt(i)' = Parts[ev.from][k] /\ k \in ev.todo /\ excused' = excused
    BY <1>6, <2>2 DEF Recorded
  <2>4. /\ \A j \in DOMAIN recs : PartAt(j)' = PartAt(j)
        /\ ev'.model = m /\ ev'.from = ev.from /\ ev'.todo = ev.todo \ {k}
    BY <1>6, <2>1, <2>2, RecordedGrows
  <2>5. m \notin excused => /\ ev.from = m
                            /\ PartsOn(m) = {Parts[m][l] : l \in (DOMAIN Parts[m]) \ ev.todo}
    BY <2>1, <2>2 DEF AddsInv
  <2>6. ASSUME m \notin excused PROVE Parts[m][k] \in Range(Parts[m]) /\ k \in DOMAIN Parts[m]
    <3>1. ev.from = m
      BY <2>5, <2>6
    <3> QED BY <2>1, <2>3, <3>1 DEF Range
  <2>7. \A j \in DOMAIN recs' : recs'[j].model \notin excused' =>
            PartAt(j)' \in Range(Parts[recs'[j].model])
    BY <2>3, <2>4, <2>5, <2>6 DEF AddsInv
  <2>8. PartsOn(ev.model)' = PartsOn(m) \cup {Parts[ev.from][k]}
    <3>1. PartsOn(ev.model)' = PartsOn(m)'
      BY <2>4 DEF PartsOn, OfModel
    <3> QED BY <1>6, <2>1, <2>2, <3>1, RecordedParts
  <2>9. ASSUME m \notin excused
        PROVE  PartsOn(m) \cup {Parts[ev.from][k]} =
                    {Parts[m][l] : l \in (DOMAIN Parts[m]) \ (ev.todo \ {k})}
    <3>1. (DOMAIN Parts[m]) \ (ev.todo \ {k}) = ((DOMAIN Parts[m]) \ ev.todo) \cup {k}
      BY <2>3, <2>6, <2>9
    <3> QED BY <2>5, <2>9, <3>1
  <2> QED BY <2>3, <2>4, <2>5, <2>7, <2>8, <2>9 DEF AddsInv
<1>7. CASE DeleteOne
  <2>1. /\ ev' = ev /\ excused' = excused /\ del.pc = "delete" /\ Least(del.list) \in del.list
        /\ \A j \in DOMAIN recs' : j \in DOMAIN recs /\ recs'[j] = recs[j]
        /\ \A j \in DOMAIN recs' : PartAt(j)' = PartAt(j)
    BY <1>7, DeleteOneDoes, DeletedShrinks
  <2>2. \A j \in DOMAIN recs' : recs'[j].model \notin excused' =>
            PartAt(j)' \in Range(Parts[recs'[j].model])
    BY <2>1 DEF AddsInv
  <2>3. ASSUME Busy, ev.todo # {}, ev.model \notin excused
        PROVE  Least(del.list) \notin OfModel(ev.model)
    BY <2>1, <2>3 DEF DelsInv, OfModel
  <2>4. PICK m : m = ev.model
    OBVIOUS
  <2>5. PartsOn(ev.model)' = PartsOn(m)'
    BY <2>1, <2>4 DEF PartsOn, OfModel
  <2>6. Busy /\ ev.todo # {} /\ m \notin excused => PartsOn(m)' = PartsOn(m)
    BY <1>7, <2>3, <2>4, DeletedParts
  <2>7. Busy' = Busy
    BY <2>1 DEF Busy
  <2> QED BY <2>1, <2>2, <2>4, <2>5, <2>6, <2>7 DEF AddsInv
<1> QED BY <1>3, <1>4, <1>5, <1>6, <1>7, Quiescent

LEMMA WholeStep ==
    ASSUME Types, TasksInv, OnceInv, DelsInv, AddsInv, AllOrNone, [Next]_vars
    PROVE  AllOrNone'
<1> SUFFICES ASSUME NEW m \in Models, m \notin excused'
             PROVE  (PartsOn(m) = {} \/ PartsOn(m) = Range(Parts[m]) \/ Unfinished(m))'
  BY DEF AllOrNone
<1>1. /\ m \notin excused
      /\ PartsOn(m) = {} \/ PartsOn(m) = Range(Parts[m]) \/ Unfinished(m)
  BY Forgiving DEF AllOrNone
<1>2. ASSUME SameParts, Unfinished(m) => Unfinished(m)'
      PROVE  (PartsOn(m) = {} \/ PartsOn(m) = Range(Parts[m]) \/ Unfinished(m))'
  <2>1. PartsOn(m)' = PartsOn(m)
    BY <1>2, SameRecords
  <2> QED BY <1>1, <1>2, <2>1
<1>3. CASE UNCHANGED <<recs, ev, del>>
  BY <1>2, <1>3, Stays DEF Unfinished, Busy
<1>4. CASE Works
  BY <1>2, <1>4, WorksDoes DEF Unfinished
<1>5. CASE NewDev
  BY <1>2, <1>5, NewDevDoes, Stays DEF Unfinished
<1>6. CASE GetType
  <2>1. Busy /\ ev.pc = "type" /\ recs' = recs /\ del' = del
    BY <1>6, GetTypeDoes
  <2> QED BY <1>2, <2>1, Stays DEF Unfinished, TasksInv
<1>7. CASE AddPart
  <2>1. /\ Busy /\ del' = del /\ ev.todo # {} /\ ev.todo \subseteq DOMAIN Parts[ev.from]
        /\ (\E i, k : Recorded(i, k)) \/ GivenUp
    BY <1>7, AddPartDoes DEF TasksInv
  <2>2. ASSUME NEW i, NEW k, Recorded(i, k)
        PROVE  (PartsOn(m) = {} \/ PartsOn(m) = Range(Parts[m]) \/ Unfinished(m))'
    <3>1. /\ ev'.model = ev.model /\ ev'.todo = ev.todo \ {k} /\ k \in ev.todo
          /\ ev'.pc = IF ev.todo \ {k} = {} THEN "idle" ELSE "add"
          /\ PartsOn(m)' = IF m = ev.model THEN PartsOn(m) \cup {Parts[ev.from][k]}
                           ELSE PartsOn(m)
      BY <2>1, <2>2, RecordedGrows, RecordedParts DEF Recorded
    <3>2. CASE m = ev.model /\ ev.todo \ {k} = {}
      <4>1. /\ ev.from = m /\ ev.todo = {k} /\ k \in DOMAIN Parts[m]
            /\ PartsOn(m) = {Parts[m][l] : l \in (DOMAIN Parts[m]) \ ev.todo}
        BY <1>1, <2>1, <3>1, <3>2 DEF AddsInv
      <4>2. PartsOn(m)' = {Parts[m][l] : l \in (DOMAIN Parts[m]) \ {k}} \cup {Parts[m][k]}
        BY <3>1, <3>2, <4>1
      <4>3. PartsOn(m)' = Range(Parts[m])
        BY <4>1, <4>2 DEF Range
      <4> QED BY <4>3
    <3>3. CASE m = ev.model /\ ev.todo \ {k} # {}
      BY <3>1, <3>3 DEF Unfinished, Busy
    <3>4. CASE m # ev.model
      BY <1>1, <2>1, <3>1, <3>4 DEF Unfinished
    <3> QED BY <3>2, <3>3, <3>4
  <2>3. ASSUME GivenUp
        PROVE  (PartsOn(m) = {} \/ PartsOn(m) = Range(Parts[m]) \/ Unfinished(m))'
    <3>1. m # ev.model /\ recs' = recs
      BY <2>3 DEF GivenUp
    <3> QED BY <1>2, <2>1, <3>1, Stays DEF Unfinished
  <2> QED BY <2>1, <2>2, <2>3
<1>8. CASE Leave
  <2>1. Busy /\ ev.pc = "leave" /\ recs' = recs /\ del' = del
    BY <1>8, LeaveDoes
  <2> QED BY <1>2, <2>1, Stays DEF Unfinished, TasksInv
<1>9. CASE Reported
  <2>1. SameParts /\ ev' = ev /\ del' = del
    BY <1>9, ReportedDoes
  <2> QED BY <1>2, <2>1 DEF Unfinished, Busy
<1>10. CASE Delete \/ DeleteLeave
  <2>1. del.pc # "delete" /\ recs' = recs /\ ev' = ev
    BY <1>10, DeleteDoes, DeleteLeaveDoes
  <2> QED BY <1>2, <2>1, Stays DEF Unfinished, Busy
<1>11. CASE DeleteOne
  <2>1. /\ del.pc = "delete" /\ ev' = ev /\ Least(del.list) \in del.list
        /\ del'.model = del.model
        /\ del'.pc = IF Rest(del.list) = {} THEN "leave" ELSE "delete"
    BY <1>11, DeleteOneDoes DEF DelTask
  <2>2. CASE m # del.model
    <3>1. Least(del.list) \notin OfModel(m)
      BY <2>1, <2>2 DEF DelsInv, OfModel
    <3>2. PartsOn(m)' = PartsOn(m)
      BY <1>11, <3>1, DeletedParts
    <3> QED BY <1>1, <2>1, <2>2, <3>2 DEF Unfinished, Busy
  <2>3. CASE m = del.model
    <3>1. OfModel(m) = del.list
      BY <1>1, <2>1, <2>3 DEF DelsInv
    <3>2. OfModel(m)' = Rest(del.list)
      BY <1>11, <3>1, DeletedShrinks DEF Rest
    <3>3. CASE Rest(del.list) = {}
      BY <3>2, <3>3 DEF PartsOn
    <3>4. CASE Rest(del.list) # {}
      BY <2>1, <2>3, <3>4 DEF Unfinished
    <3> QED BY <3>3, <3>4
  <2> QED BY <2>2, <2>3
<1> QED BY <1>3, <1>4, <1>5, <1>6, <1>7, <1>8, <1>9, <1>10, <1>11, Kinds, OutsideDoes DEF vars

-----------------------------------------------------------------------------
(* A device in the network is known. *)

LEMMA StillAnnounced ==
    ASSUME Types, NEW m, Announced(m),
           \/ events' = events
           \/ \E e \in Announcement \cup PartReport : events' = Append(events, e)
           \/ /\ events # <<>> /\ events' = Tail(events)
              /\ ~(Head(events).kind = "newdev" /\ Head(events).model = m)
    PROVE  Announced(m)'
<1>1. PICK k \in 1..Len(events) : events[k].kind = "newdev" /\ events[k].model = m
  BY DEF Announced
<1>2. CASE events' = events
  BY <1>1, <1>2 DEF Announced
<1>3. ASSUME NEW e \in Announcement \cup PartReport, events' = Append(events, e)
      PROVE  Announced(m)'
  <2>1. k \in 1..Len(events') /\ events'[k] = events[k]
    BY <1>3, LastEvent
  <2> QED BY <1>1, <2>1 DEF Announced
<1>4. CASE /\ events # <<>> /\ events' = Tail(events)
           /\ ~(Head(events).kind = "newdev" /\ Head(events).model = m)
  <2>1. k # 1 /\ Len(events') = Len(events) - 1 /\ Len(events) \in Nat
    BY <1>1, <1>4, FirstEvent
  <2>2. k - 1 \in 1..Len(events')
    BY <2>1
  <2>3. events'[k - 1] = events[k]
    <3>1. events'[k - 1] = events[(k - 1) + 1]
      BY <1>4, <2>2, FirstEvent
    <3> QED BY <3>1
  <2> QED BY <1>1, <2>2, <2>3 DEF Announced
<1> QED BY <1>2, <1>3, <1>4

\* What the network does to a device: it is dropped, it announces itself, or
\* its address stays.
LEMMA NetDoes ==
    ASSUME Types, Outside, NEW m \in Models
    PROVE  /\ net'[m] = NoAddr \/ net'[m] = net[m] \/ Announced(m)'
           /\ \/ events' = events
              \/ \E e \in Announcement \cup PartReport : events' = Append(events, e)
<1>1. ASSUME NEW n \in Models, Join(n)
      PROVE  /\ net'[m] = net[m] \/ Announced(m)'
             /\ \E e \in Announcement : events' = Append(events, e)
  <2>1. PICK a \in Addrs :
            /\ net' = [net EXCEPT ![n] = a]
            /\ events' = Append(events, [kind |-> "newdev", model |-> n, addr |-> a])
    BY <1>1 DEF Join
  <2>2. [kind |-> "newdev", model |-> n, addr |-> a] \in Announcement
    BY DEF Announcement
  <2>3. /\ Len(events') = Len(events) + 1 /\ Len(events) \in Nat
        /\ events'[Len(events) + 1] = [kind |-> "newdev", model |-> n, addr |-> a]
    BY <2>1, <2>2, LastEvent
  <2>4. Len(events) + 1 \in 1..Len(events')
    BY <2>3
  <2>5. m = n => Announced(m)'
    BY <2>3, <2>4 DEF Announced
  <2>6. m # n => net'[m] = net[m]
    BY <2>1 DEF Types
  <2> QED BY <2>1, <2>2, <2>5, <2>6
<1>2. ASSUME NEW n \in Models, Drop(n)
      PROVE  (net'[m] = NoAddr \/ net'[m] = net[m]) /\ events' = events
  BY <1>2 DEF Drop, Types
<1>3. ASSUME NEW n \in Models, Report(n)
      PROVE  net' = net /\ \E e \in PartReport : events' = Append(events, e)
  BY <1>3, ReportDoes
<1>4. ASSUME SendScan
      PROVE  /\ net' = net
             /\ events' = events \/ \E e \in Announcement : events' = Append(events, e)
  <2>1. cmds # <<>> /\ net' = net
    BY <1>4 DEF SendScan
  <2>2. Head(cmds) \in Models
    BY <2>1 DEF Types
  <2>3. ASSUME net[Head(cmds)] # NoAddr
        PROVE  [kind |-> "newdev", model |-> Head(cmds), addr |-> net[Head(cmds)]]
                    \in Announcement
    BY <2>2, <2>3 DEF Announcement, Types
  <2> QED BY <1>4, <2>1, <2>3 DEF SendScan
<1> QED BY <1>1, <1>2, <1>3, <1>4 DEF Outside

LEMMA KnownStep ==
    ASSUME Types, TasksInv, OnceInv, DelsInv, Known, [Next]_vars
    PROVE  Known'
<1> DEFINE Queried(m) == Busy /\ ev.model = m /\ (ev.pc \in {"type", "leave"} \/ ev.todo # {})
           Asked(m) == del.pc = "leave" /\ del.model = m
<1> SUFFICES ASSUME NEW m \in Models, m \notin excused', net'[m] # NoAddr
             PROVE  (OfModel(m) # {} \/ Announced(m) \/ Queried(m) \/ Asked(m))'
  BY DEF Known
<1>1. /\ m \notin excused
      /\ net[m] # NoAddr => OfModel(m) # {} \/ Announced(m) \/ Queried(m) \/ Asked(m)
  BY Forgiving DEF Known
<1>2. CASE Outside
  <2>1. UNCHANGED <<recs, ev, del>>
    BY <1>2, OutsideDoes
  <2>2. /\ net'[m] = net[m] \/ Announced(m)'
        /\ Announced(m) => Announced(m)'
    BY <1>2, NetDoes, StillAnnounced
  <2>3. OfModel(m)' = OfModel(m) /\ Queried(m)' = Queried(m) /\ Asked(m)' = Asked(m)
    BY <2>1 DEF OfModel, Busy
  <2> QED BY <1>1, <2>2, <2>3
<1>3. ASSUME SameParts, net' = net, Queried(m) => Queried(m)', Asked(m) => Asked(m)',
             Announced(m) => Announced(m)'
      PROVE  (OfModel(m) # {} \/ Announced(m) \/ Queried(m) \/ Asked(m))'
  <2>1. OfModel(m)' = OfModel(m)
    BY <1>3, SameRecords
  <2> QED BY <1>1, <1>3, <2>1
<1>4. events' = events => (Announced(m) => Announced(m)')
  BY StillAnnounced
<1>5. CASE UNCHANGED vars
  BY <1>3, <1>4, <1>5, Stays DEF vars, Busy
<1>6. CASE NewDev
  <2>1. /\ ~Busy /\ events # <<>> /\ events' = Tail(events) /\ Head(events) \in Announcement
        /\ UNCHANGED <<net, recs, del>>
    BY <1>6, NewDevDoes
  <2>2. CASE Head(events).model = m
    <3>1. FindByModel(m) = OfModel(m)
      BY Lookup
    <3>2. ev'.model = m /\ ev'.pc = IF OfModel(m) = {} THEN "type" ELSE "update"
      BY <1>6, <2>2, <3>1, NewDevDoes
    <3>3. OfModel(m)' = OfModel(m)
      BY <2>1 DEF OfModel
    <3> QED BY <3>2, <3>3 DEF Busy
  <2>3. CASE Head(events).model # m
    BY <1>3, <2>1, <2>3, StillAnnounced, Stays
  <2> QED BY <2>2, <2>3
<1>7. CASE Works
  BY <1>3, <1>4, <1>7, WorksDoes
<1>8. CASE GetType
  <2>1. /\ Busy /\ ev.pc = "type" /\ UNCHANGED <<net, recs, events, del>>
    BY <1>8, GetTypeDoes
  <2>2. PICK from \in Models : \E todo \in SUBSET DOMAIN Parts[from] :
        ev' = IF todo = {} THEN [ev EXCEPT !.pc = "leave"]
              ELSE [ev EXCEPT !.pc = "conflict", !.from = from, !.todo = todo]
    BY <1>8, GetTypeDoes
  <2>5. PICK todo \in SUBSET DOMAIN Parts[from] :
        ev' = IF todo = {} THEN [ev EXCEPT !.pc = "leave"]
              ELSE [ev EXCEPT !.pc = "conflict", !.from = from, !.todo = todo]
    BY <2>2
  <2>6. ev \in EvTask
    BY <2>1, TodoTypes
  <2>3. /\ ev'.model = ev.model /\ ev'.pc \in {"leave", "conflict"}
        /\ ev'.pc = "conflict" => ev'.todo # {}
    BY <2>5, <2>6 DEF EvTask
  <2>4. Queried(m) => Queried(m)'
    BY <2>3 DEF Busy
  <2> QED BY <1>3, <1>4, <2>1, <2>4, Stays
<1>9. CASE AddPart
  <2>1. /\ Busy /\ UNCHANGED <<net, events, del>>
        /\ (\E i, k : Recorded(i, k)) \/ GivenUp
    BY <1>9, AddPartDoes
  <2>2. ASSUME NEW i, NEW k, Recorded(i, k)
        PROVE  (OfModel(m) # {} \/ Announced(m) \/ Queried(m) \/ Asked(m))'
    <3>1. OfModel(m)' = IF m = ev.model THEN OfModel(m) \cup {i} ELSE OfModel(m)
      BY <2>1, <2>2, RecordedGrows
    <3> QED BY <1>1, <1>4, <2>1, <3>1
  <2>3. ASSUME GivenUp
        PROVE  (OfModel(m) # {} \/ Announced(m) \/ Queried(m) \/ Asked(m))'
    <3>1. m # ev.model /\ recs' = recs
      BY <2>3 DEF GivenUp
    <3> QED BY <1>3, <1>4, <2>1, <3>1, Stays
  <2> QED BY <2>1, <2>2, <2>3
<1>10. CASE Leave
  <2>1. /\ UNCHANGED <<recs, events, del>> /\ ev.model \in Models
        /\ \/ net' = [net EXCEPT ![ev.model] = NoAddr]
           \/ net' = net /\ excused' = excused \cup {ev.model}
    BY <1>10, LeaveDoes
  <2>2. m # ev.model /\ net'[m] = net[m]
    BY <2>1 DEF Types
  <2>3. OfModel(m)' = OfModel(m)
    BY <2>1 DEF OfModel
  <2> QED BY <1>1, <1>4, <2>1, <2>2, <2>3
<1>11. CASE Reported
  <2>1. /\ SameParts /\ UNCHANGED <<net, ev, del>> /\ ~Busy
        /\ events # <<>> /\ events' = Tail(events) /\ Head(events).kind = "report"
    BY <1>11, ReportedDoes
  <2> QED BY <1>3, <2>1, StillAnnounced
<1>12. CASE Delete
  <2>1. /\ UNCHANGED <<net, recs, events, ev>> /\ del.pc = "idle"
    BY <1>12, DeleteDoes
  <2> QED BY <1>3, <1>4, <2>1, Stays DEF Busy
<1>13. CASE DeleteOne
  <2>1. /\ del.pc = "delete" /\ UNCHANGED <<net, events, ev>> /\ Least(del.list) \in del.list
        /\ del'.model = del.model
        /\ del'.pc = IF Rest(del.list) = {} THEN "leave" ELSE "delete"
    BY <1>13, DeleteOneDoes DEF DelTask
  <2>2. Queried(m)' = Queried(m)
    BY <2>1 DEF Busy
  <2>3. CASE m # del.model
    <3>1. Least(del.list) \notin OfModel(m)
      BY <2>1, <2>3 DEF DelsInv, OfModel
    <3>2. OfModel(m)' = OfModel(m)
      BY <1>13, <3>1, DeletedParts
    <3> QED BY <1>1, <1>4, <2>1, <2>2, <2>3, <3>2
  <2>4. CASE m = del.model
    <3>1. OfModel(m)' = Rest(del.list)
      BY <1>1, <1>13, <2>1, <2>4, DeletedShrinks DEF DelsInv, Rest
    <3> QED BY <2>1, <2>4, <3>1
  <2> QED BY <2>3, <2>4
<1>14. CASE DeleteLeave
  <2>1. /\ UNCHANGED <<recs, events, ev>> /\ del.model \in Models
        /\ \/ net' = [net EXCEPT ![del.model] = NoAddr]
           \/ net' = net /\ excused' = excused \cup {del.model}
    BY <1>14, DeleteLeaveDoes
  <2>2. m # del.model /\ net'[m] = net[m]
    BY <2>1 DEF Types
  <2>3. OfModel(m)' = OfModel(m) /\ Queried(m)' = Queried(m)
    BY <2>1 DEF OfModel, Busy
  <2> QED BY <1>1, <1>4, <2>1, <2>2, <2>3
<1> QED BY <1>2, <1>5, <1>6, <1>7, <1>8, <1>9, <1>10, <1>11, <1>12, <1>13, <1>14, Kinds

-----------------------------------------------------------------------------
(* Who has an address. *)

\* The network gives an address to one device at a time.
NetUnique ==
    \A m, n \in Models : net[m] # NoAddr /\ net[m] = net[n] => m = n

Claim(k, a) == events[k].kind = "newdev" /\ events[k].addr = a

\* The device n is heard of at address a: by a report in place l of the queue,
\* or by having it, after all of the queue.
Heard(l, n, a) ==
    \/ /\ l \in 1..Len(events) /\ events[l].kind = "report"
       /\ events[l].model = n /\ events[l].addr = a
    \/ l = Len(events) + 1 /\ net[n] = a

\* Before a device is heard of at an address that another has had, the address
\* is announced.
OrderInv ==
    \A n \in Models, a \in Addrs, l \in 1..(Len(events) + 1) : Heard(l, n, a) =>
        \A k \in 1..(l - 1) : events[k].addr = a /\ events[k].model # n =>
            \E j \in (k + 1)..(l - 1) : Claim(j, a)

\* What the steps do to the network and the queue.
Joined(m, a) ==
    /\ At(a) \subseteq {m} /\ net' = [net EXCEPT ![m] = a]
    /\ events' = Append(events, [kind |-> "newdev", model |-> m, addr |-> a])
Spoken(e) ==
    /\ net[e.model] = e.addr /\ net' = net /\ events' = Append(events, e)
Taken == ~Busy /\ net' = net /\ events # <<>> /\ events' = Tail(events)
Silent == events' = events /\ \A m \in Models : net'[m] = net[m] \/ net'[m] = NoAddr

LEMMA QueueDoes ==
    ASSUME Types, TasksInv, [Next]_vars
    PROVE  \/ Silent \/ Taken \/ (\E m \in Models, a \in Addrs : Joined(m, a))
           \/ \E e \in Announcement \cup PartReport : Spoken(e)
<1>1. ASSUME NEW m \in Models, Join(m) PROVE \E a \in Addrs : Joined(m, a)
  BY <1>1 DEF Join, Joined
<1>2. ASSUME NEW m \in Models, Drop(m) PROVE Silent
  BY <1>2 DEF Drop, Silent, Types
<1>3. ASSUME NEW m \in Models, Report(m)
      PROVE  \E e \in Announcement \cup PartReport : Spoken(e)
  BY <1>3, ReportDoes DEF Spoken
<1>4. ASSUME SendScan
      PROVE  Silent \/ \E e \in Announcement \cup PartReport : Spoken(e)
  <2>1. cmds # <<>> /\ net' = net
    BY <1>4 DEF SendScan
  <2>2. Head(cmds) \in Models
    BY <2>1 DEF Types
  <2>3. ASSUME net[Head(cmds)] # NoAddr
        PROVE  [kind |-> "newdev", model |-> Head(cmds), addr |-> net[Head(cmds)]]
                    \in Announcement
    BY <2>2, <2>3 DEF Announcement, Types
  <2>4. CASE net[Head(cmds)] = NoAddr
    BY <1>4, <2>1, <2>4 DEF SendScan, Silent
  <2>5. CASE net[Head(cmds)] # NoAddr
    BY <1>4, <2>1, <2>3, <2>5 DEF SendScan, Spoken
  <2> QED BY <2>4, <2>5
<1>5. CASE NewDev \/ Reported
  BY <1>5, NewDevDoes, ReportedDoes DEF Taken
<1>6. CASE Works \/ GetType \/ AddPart \/ Delete \/ DeleteOne \/ UNCHANGED vars
  <2>1. net' = net /\ events' = events
    BY <1>6, WorksDoes, GetTypeDoes, AddPartDoes, DeleteDoes, DeleteOneDoes DEF vars
  <2> QED BY <2>1 DEF Silent
<1>7. CASE Leave
  BY <1>7, LeaveDoes DEF Silent, Types
<1>8. CASE DeleteLeave
  BY <1>8, DeleteLeaveDoes DEF Silent, Types
<1> QED BY <1>1, <1>2, <1>3, <1>4, <1>5, <1>6, <1>7, <1>8, Kinds DEF Outside

LEMMA NetStep ==
    ASSUME Types, TasksInv, NetUnique, [Next]_vars
    PROVE  NetUnique'
<1>1. CASE Silent
  BY <1>1 DEF Silent, NetUnique
<1>2. CASE Taken
  BY <1>2 DEF Taken, NetUnique
<1>3. ASSUME NEW m \in Models, NEW a \in Addrs, Joined(m, a) PROVE NetUnique'
  <2>1. \A n \in Models \ {m} : net'[n] = net[n] /\ net[n] # a
    BY <1>3 DEF Joined, At, Types
  <2>2. net'[m] = a
    BY <1>3 DEF Joined, Types
  <2> QED BY <2>1, <2>2 DEF NetUnique
<1>4. ASSUME NEW e, Spoken(e) PROVE NetUnique'
  BY <1>4 DEF Spoken, NetUnique
<1> QED BY <1>1, <1>2, <1>3, <1>4, QueueDoes

\* In a queue whose first event is taken, all moves up by one.
LEMMA HeardMoves ==
    ASSUME Types, Taken
    PROVE  /\ Len(events') = Len(events) - 1 /\ Len(events) \in Nat \ {0}
           /\ \A k \in 1..Len(events') : events'[k] = events[k + 1]
           /\ \A n, a : \A l \in 1..(Len(events') + 1) : Heard(l, n, a)' => Heard(l + 1, n, a)
<1>1. /\ Len(events') = Len(events) - 1 /\ Len(events) \in Nat \ {0}
      /\ \A k \in 1..Len(events') : events'[k] = events[k + 1] /\ k + 1 \in 1..Len(events)
  BY FirstEvent DEF Taken
<1>2. ASSUME NEW n, NEW a, NEW l \in 1..(Len(events') + 1), Heard(l, n, a)'
      PROVE  Heard(l + 1, n, a)
  <2>1. CASE l \in 1..Len(events')
    BY <1>1, <1>2, <2>1 DEF Heard
  <2>2. CASE l = Len(events') + 1
    BY <1>1, <1>2, <2>2 DEF Heard, Taken
  <2> QED BY <2>1, <2>2
<1> QED BY <1>1, <1>2

\* Who takes the first event.
LEMMA TakenBy ==
    ASSUME Types, TasksInv, [Next]_vars, Taken
    PROVE  NewDev \/ Reported
<1> SUFFICES ASSUME ~NewDev, ~Reported PROVE FALSE
  OBVIOUS
<1>1. Len(events') = Len(events) - 1 /\ Len(events) \in Nat
  BY HeardMoves
<1>2. events' = events \/ Outside
  BY Kinds, WorksDoes, GetTypeDoes, AddPartDoes, LeaveDoes, DeleteDoes,
     DeleteOneDoes, DeleteLeaveDoes DEF vars
<1>3. Outside => events' = events \/ Len(events') = Len(events) + 1
  <2>1. ASSUME Outside, NEW m \in Models
        PROVE  events' = events \/ Len(events') = Len(events) + 1
    BY <2>1, NetDoes, LastEvent
  <2>2. SendScan => events' = events \/ Models # {}
    BY DEF SendScan, Types
  <2> QED BY <2>1, <2>2 DEF Outside
<1> QED BY <1>1, <1>2, <1>3

LEMMA OrderStep ==
    ASSUME Types, TasksInv, NetUnique, OrderInv, [Next]_vars
    PROVE  OrderInv'
<1> SUFFICES ASSUME NEW n \in Models, NEW a \in Addrs, NEW l \in 1..(Len(events') + 1),
                    Heard(l, n, a)', NEW k \in 1..(l - 1),
                    events'[k].addr = a, events'[k].model # n
             PROVE  \E j \in (k + 1)..(l - 1) : Claim(j, a)'
  BY DEF OrderInv
<1>1. CASE Silent
  <2>1. events' = events /\ Heard(l, n, a)
    BY <1>1, PartAssumption DEF Silent, Heard
  <2>2. \E j \in (k + 1)..(l - 1) : Claim(j, a)
    BY <2>1 DEF OrderInv
  <2> QED BY <2>1, <2>2 DEF Claim
<1>2. CASE Taken
  <2>1. /\ Len(events') = Len(events) - 1 /\ Len(events) \in Nat \ {0}
        /\ \A i \in 1..Len(events') : events'[i] = events[i + 1]
        /\ Heard(l + 1, n, a)
    BY <1>2, HeardMoves
  <2>2. /\ l + 1 \in 1..(Len(events) + 1) /\ k + 1 \in 1..((l + 1) - 1)
        /\ k \in 1..Len(events')
    BY <2>1
  <2>3. PICK j \in ((k + 1) + 1)..((l + 1) - 1) : Claim(j, a)
    BY <2>1, <2>2 DEF OrderInv
  <2>4. j - 1 \in (k + 1)..(l - 1) /\ j - 1 \in 1..Len(events') /\ (j - 1) + 1 = j
    BY <2>1, <2>3
  <2>5. events'[j - 1] = events[j]
    BY <2>1, <2>4
  <2> QED BY <2>3, <2>4, <2>5 DEF Claim
<1>3. ASSUME NEW e \in Announcement \cup PartReport, events' = Append(events, e),
             e.addr = a => l \in 1..Len(events) \/ e.model = n,
             l = Len(events) + 1 => Heard(Len(events) + 1, n, a) \/ e.kind = "newdev",
             l = Len(events) + 2 =>
                \/ Heard(Len(events) + 1, n, a)
                \/ e.kind = "newdev" /\ e.addr = a
      PROVE  \E j \in (k + 1)..(l - 1) : Claim(j, a)'
  <2>1. /\ Len(events') = Len(events) + 1 /\ Len(events) \in Nat
        /\ \A i \in 1..Len(events) : events'[i] = events[i]
        /\ events'[Len(events) + 1] = e
    BY <1>3, LastEvent
  <2>2. k \in 1..Len(events)
    <3>1. k \in 1..Len(events) \/ (k = Len(events) + 1 /\ l = Len(events) + 2)
      BY <2>1
    <3> QED BY <1>3, <2>1, <3>1
  <2>3. ASSUME NEW h \in 1..(Len(events) + 1), Heard(h, n, a), h <= l, k \in 1..(h - 1)
        PROVE  \E j \in (k + 1)..(l - 1) : Claim(j, a)'
    <3>1. PICK j \in (k + 1)..(h - 1) : Claim(j, a)
      BY <2>1, <2>2, <2>3 DEF OrderInv
    <3>2. j \in (k + 1)..(l - 1) /\ events'[j] = events[j]
      BY <2>1, <2>2, <2>3, <3>1
    <3> QED BY <3>1, <3>2 DEF Claim
  <2>4. CASE l \in 1..Len(events)
    <3>1. Heard(l, n, a)
      BY <2>1, <2>4 DEF Heard
    <3> QED BY <2>1, <2>3, <2>4, <3>1
  <2>5. CASE l = Len(events) + 1
    <3>1. events'[l].kind = "report"
      BY <2>1, <2>5 DEF Heard
    <3>2. Heard(Len(events) + 1, n, a)
      BY <1>3, <2>1, <2>5, <3>1
    <3> QED BY <2>1, <2>2, <2>3, <2>5, <3>2
  <2>6. CASE l = Len(events) + 2
    <3>1. CASE Heard(Len(events) + 1, n, a)
      BY <2>1, <2>2, <2>3, <2>6, <3>1
    <3>2. CASE e.kind = "newdev" /\ e.addr = a
      <4>1. Len(events) + 1 \in (k + 1)..(l - 1)
        BY <2>1, <2>2, <2>6
      <4> QED BY <2>1, <3>2, <4>1 DEF Claim
    <3> QED BY <1>3, <2>6, <3>1, <3>2
  <2> QED BY <2>1, <2>4, <2>5, <2>6
<1>4. ASSUME NEW m \in Models, NEW b \in Addrs, Joined(m, b)
      PROVE  \E j \in (k + 1)..(l - 1) : Claim(j, a)'
  <2> DEFINE e == [kind |-> "newdev", model |-> m, addr |-> b]
  <2>1. e \in Announcement /\ events' = Append(events, e)
    BY <1>4 DEF Joined, Announcement
  <2>2. /\ Len(events') = Len(events) + 1 /\ Len(events) \in Nat
        /\ events'[Len(events) + 1] = e
    BY <2>1, LastEvent
  <2>3. l \in 1..Len(events) \/ l = Len(events) + 1 \/ l = Len(events) + 2
    BY <2>2
  <2>4. l # Len(events) + 1
    BY <2>2 DEF Heard
  <2>5. ASSUME l = Len(events) + 2 PROVE net'[n] = a
    BY <2>2, <2>5 DEF Heard
  <2>6. /\ net'[m] = b /\ \A q \in Models \ {m} : net'[q] = net[q] /\ net[q] # b
    BY <1>4 DEF Joined, At, Types
  <2>7. e.addr = a => l \in 1..Len(events) \/ e.model = n
    BY <2>3, <2>4, <2>5, <2>6
  <2>8. l = Len(events) + 2 =>
            Heard(Len(events) + 1, n, a) \/ (e.kind = "newdev" /\ e.addr = a)
    BY <2>5, <2>6 DEF Heard
  <2> QED BY <1>3, <2>1, <2>4, <2>7, <2>8
<1>5. ASSUME NEW e \in Announcement \cup PartReport, Spoken(e)
      PROVE  \E j \in (k + 1)..(l - 1) : Claim(j, a)'
  <2>1. /\ Len(events') = Len(events) + 1 /\ Len(events) \in Nat
        /\ events'[Len(events) + 1] = e
    BY <1>5, LastEvent DEF Spoken
  <2>2. e.model \in Models /\ net[e.model] = e.addr /\ net' = net
    BY <1>5 DEF Spoken, Announcement, PartReport, Talkers
  <2>3. l \in 1..Len(events) \/ l = Len(events) + 1 \/ l = Len(events) + 2
    BY <2>1
  <2>4. ASSUME l = Len(events) + 1 PROVE e.kind = "report" /\ e.model = n /\ e.addr = a
    BY <2>1, <2>4 DEF Heard
  <2>5. ASSUME l = Len(events) + 2 PROVE net[n] = a
    BY <2>1, <2>2, <2>5 DEF Heard
  <2>6. e.addr = a => l \in 1..Len(events) \/ e.model = n
    BY <2>2, <2>3, <2>4, <2>5, PartAssumption DEF NetUnique
  <2>7. l = Len(events) + 1 \/ l = Len(events) + 2 => Heard(Len(events) + 1, n, a)
    BY <2>2, <2>4, <2>5 DEF Heard
  <2> QED BY <1>3, <1>5, <2>6, <2>7 DEF Spoken
<1> QED BY <1>1, <1>2, <1>4, <1>5, QueueDoes

-----------------------------------------------------------------------------
(* Lists of records that are moved and displaced. *)

LEMMA CrowdDoes ==
    ASSUME Types, [Next]_vars
    PROVE  (~Conflict => crowded' = crowded) /\ crowded \subseteq crowded'
           /\ (crowded \subseteq Addrs => crowded' \subseteq Addrs)
<1>1. ~Conflict => crowded' = crowded
  BY DEF Next, EventTask, ApiTask, Join, Drop, Report, SendScan, NewDev, UpdateAddr,
    Rebind, GetType, Displace, AddPart, Leave, Reported, Delete, DeleteOne, DeleteLeave, vars
<1>2. Conflict => ev.addr \in Addrs /\ crowded' \in {crowded, crowded \cup {ev.addr}}
  <2>1. Conflict => Busy
    BY DEF Conflict, Busy
  <2> QED BY <2>1 DEF Conflict, Busy, Types, TaskTypes, EvTask
<1> QED BY <1>1, <1>2

\* The records that are moved are of the device, and have its address once they
\* have been gone through.
MovesInv ==
    Busy =>
        /\ ev.pc \in {"update", "rebind"} =>
            /\ ev.list \subseteq ev.found
            /\ \A i \in DOMAIN recs : i \in ev.found => recs[i].model = ev.model
        /\ ev.pc = "update" => \A i \in DOMAIN recs :
            i \in ev.found /\ i \notin ev.list => recs[i].addr = ev.addr
        /\ ev.pc = "rebind" => \A i \in DOMAIN recs :
            i \in ev.list => recs[i].addr = ev.addr

\* No other device is reachable at the address, but for those on the list.
ClearInv ==
    Busy /\ ev.pc \in {"displace", "add"} /\ ev.addr \notin crowded =>
        \A i \in DOMAIN recs :
            recs[i].up /\ recs[i].addr = ev.addr /\ recs[i].model # ev.model
                => ev.pc = "displace" /\ i \in ev.list

Moved(i) ==
    IF i = Least(ev.list) THEN recs'[i].up = TRUE /\ recs'[i].addr = ev.addr
    ELSE recs'[i] = recs[i]

\* What the two steps that move records do to them.
LEMMA UpdateAddrMoves ==
    ASSUME Types, UpdateAddr
    PROVE  \A i \in DOMAIN recs : Moved(i)
<1> DEFINE l == Least(ev.list)
<1>1. recs' = IF l \in DOMAIN recs
              THEN [recs EXCEPT ![l].up = TRUE, ![l].addr = ev.addr] ELSE recs
  BY DEF UpdateAddr
<1>2. recs \in [DOMAIN recs -> Record]
  BY DEF Types, RecTypes
<1> QED BY <1>1, <1>2 DEF Moved, Record

LEMMA RebindMoves ==
    ASSUME Types, TasksInv, MovesInv, Rebind
    PROVE  \A i \in DOMAIN recs : recs'[i] = recs[i] \/ Moved(i)
<1> DEFINE l == Least(ev.list)
<1>1. recs' = recs \/ recs' = [recs EXCEPT ![l].up = TRUE]
  BY DEF Rebind
<1>2. recs \in [DOMAIN recs -> Record]
  BY DEF Types, RecTypes
<1>3. Busy /\ ev.pc = "rebind" /\ ev.list # {} /\ ev.list \subseteq Nat
  <2>1. Busy /\ ev.pc = "rebind"
    BY RebindDoes
  <2>2. ev.list \in SUBSET Ids /\ ev.list # {}
    BY <2>1, TodoTypes DEF EvTask, TasksInv
  <2> QED BY <2>1, <2>2, IdTypes
<1>4. l \in ev.list
  BY <1>3, LeastIn
<1>5. l \in DOMAIN recs => recs[l].addr = ev.addr
  BY <1>3, <1>4 DEF MovesInv
<1> QED BY <1>1, <1>2, <1>5 DEF Moved, Record

LEMMA DisplaceMarks ==
    ASSUME Types, TasksInv, Displace, NEW i \in DOMAIN recs, recs'[i].up
    PROVE  /\ recs'[i] = recs[i]
           /\ recs[i].model # ev.model => i # Least(ev.list)
<1> DEFINE l == Least(ev.list)
           other == l \in DOMAIN recs /\ recs[l].up /\ recs[l].model # ev.model
<1>1. recs' = IF other THEN [recs EXCEPT ![l].up = FALSE] ELSE recs
  BY DEF Displace
<1>2. recs \in [DOMAIN recs -> Record]
  BY DEF Types, RecTypes
<1> QED BY <1>1, <1>2 DEF Record

LEMMA MovesStep ==
    ASSUME Types, TasksInv, OnceInv, MovesInv, [Next]_vars
    PROVE  MovesInv'
<1>1. ASSUME DOMAIN recs' \subseteq DOMAIN recs, ev' = ev,
             \A i \in DOMAIN recs' : recs'[i].model = recs[i].model
                /\ recs'[i].addr = recs[i].addr
      PROVE  MovesInv'
  BY <1>1 DEF MovesInv, Busy
<1>2. ASSUME ~Busy' \/ ev'.pc \notin {"update", "rebind"} PROVE MovesInv'
  BY <1>2 DEF MovesInv
<1>3. CASE Outside \/ Delete \/ DeleteLeave \/ Reported \/ UNCHANGED vars
  <2>1. SameParts /\ SameAddrs /\ ev' = ev
    BY <1>3, OutsideDoes, DeleteDoes, DeleteLeaveDoes, ReportedDoes, Stays DEF vars
  <2> QED BY <1>1, <2>1 DEF SameParts, SameAddrs
<1>4. CASE DeleteOne
  BY <1>1, <1>4, DeleteOneDoes
<1>5. CASE NewDev
  <2> DEFINE m == Head(events).model
  <2>1. m \in Models /\ recs' = recs
        /\ ev'.pc \in {"type", "update"} /\ ev'.model = m
        /\ ev'.list = OfModel(m) /\ ev'.found = OfModel(m)
    BY <1>5, NewDevDoes, Lookup DEF Announcement
  <2> QED BY <2>1 DEF MovesInv, OfModel
<1>6. CASE UpdateAddr
  <2>1. /\ Busy /\ ev.pc = "update" /\ SameParts /\ Next1("rebind", ev.found)
        /\ \A i \in DOMAIN recs : Moved(i)
        /\ ev.found \in SUBSET Ids /\ ev.list \subseteq ev.found
        /\ \A i \in DOMAIN recs : i \in ev.found => recs[i].model = ev.model
        /\ \A i \in DOMAIN recs : i \in ev.found /\ i \notin ev.list => recs[i].addr = ev.addr
    BY <1>6, UpdateAddrDoes, UpdateAddrMoves, TodoTypes DEF EvTask, MovesInv
  <2>2. /\ ev'.model = ev.model /\ ev'.addr = ev.addr /\ ev'.found = ev.found
        /\ \/ ev'.pc = ev.pc /\ ev'.list = Rest(ev.list)
           \/ ev'.pc = "rebind" /\ ev'.list = ev.found /\ Rest(ev.list) = {}
    BY <2>1, ListStep DEF EvSteps
  <2>3. \A i \in DOMAIN recs : i \in ev.found /\ i \notin Rest(ev.list) => recs'[i].addr = ev.addr
    BY <2>1 DEF Moved, Rest
  <2>4. DOMAIN recs' = DOMAIN recs /\ \A i \in DOMAIN recs : recs'[i].model = recs[i].model
    BY <2>1 DEF SameParts
  <2>5. Rest(ev.list) \subseteq ev.found
    BY <2>1 DEF Rest
  <2> QED BY <2>1, <2>2, <2>3, <2>4, <2>5 DEF MovesInv
<1>7. CASE Rebind
  <2>1. /\ Busy /\ ev.pc = "rebind" /\ SameParts /\ SameAddrs /\ Next1("conflict", {})
        /\ ev.list \subseteq ev.found
    BY <1>7, RebindDoes DEF MovesInv
  <2>2. /\ ev'.model = ev.model /\ ev'.addr = ev.addr /\ ev'.found = ev.found
        /\ \/ ev'.pc = ev.pc /\ ev'.list = Rest(ev.list)
           \/ ev'.pc = "conflict"
    BY <2>1, ListStep DEF EvSteps
  <2>3. Rest(ev.list) \subseteq ev.list
    BY DEF Rest
  <2> QED BY <2>1, <2>2, <2>3 DEF MovesInv, SameParts, SameAddrs
<1>8. CASE Conflict
  <2>1. ev \in EvTask /\ ev' = [ev EXCEPT
            !.pc = IF FindByAddr(ev.addr) = {} THEN After ELSE "displace",
            !.list = FindByAddr(ev.addr)]
    BY <1>8, TodoTypes DEF Conflict, Busy
  <2>2. ev'.pc \notin {"update", "rebind"}
    BY <2>1 DEF EvTask, After
  <2> QED BY <1>2, <2>2
<1>9. CASE Displace
  <2>1. /\ Busy /\ ev.pc = "displace" /\ Next1(After, {}) /\ After \in EvSteps
        /\ After \in {"idle", "add"}
    BY <1>9, DisplaceDoes DEF EvSteps
  <2>2. ev'.pc = ev.pc \/ ev'.pc = After
    BY <2>1, ListStep
  <2> QED BY <1>2, <2>1, <2>2
<1>10. CASE GetType
  <2>1. Busy /\ ev \in EvTask
    BY <1>10, GetTypeDoes, TodoTypes
  <2>2. PICK from \in Models : \E todo \in SUBSET DOMAIN Parts[from] :
        ev' = IF todo = {} THEN [ev EXCEPT !.pc = "leave"]
              ELSE [ev EXCEPT !.pc = "conflict", !.from = from, !.todo = todo]
    BY <1>10, GetTypeDoes
  <2>3. ev'.pc \in {"leave", "conflict"}
    BY <2>1, <2>2 DEF EvTask
  <2> QED BY <1>2, <2>3
<1>11. CASE AddPart
  <2>1. Busy /\ ev \in EvTask /\ ((\E i, k : Recorded(i, k)) \/ GivenUp)
    BY <1>11, AddPartDoes, TodoTypes
  <2>2. ev'.pc \notin {"update", "rebind"}
    BY <2>1 DEF Recorded, GivenUp, EvTask
  <2> QED BY <1>2, <2>2
<1>12. CASE Leave
  BY <1>2, <1>12, LeaveDoes DEF Busy
<1> QED BY <1>3, <1>4, <1>5, <1>6, <1>7, <1>8, <1>9, <1>10, <1>11, <1>12, Kinds DEF Works

LEMMA ClearStep ==
    ASSUME Types, TasksInv, ClearInv, [Next]_vars
    PROVE  ClearInv'
<1>0. crowded \subseteq crowded'
  BY CrowdDoes
<1>1. ASSUME DOMAIN recs' \subseteq DOMAIN recs, ev' = ev,
             \A i \in DOMAIN recs' : recs'[i] = recs[i]
      PROVE  ClearInv'
  BY <1>0, <1>1 DEF ClearInv, Busy
<1>2. ASSUME ~Busy' \/ ev'.pc \notin {"displace", "add"} PROVE ClearInv'
  BY <1>2 DEF ClearInv
<1>3. CASE Outside \/ Delete \/ DeleteLeave \/ UNCHANGED vars
  BY <1>1, <1>3, OutsideDoes, DeleteDoes, DeleteLeaveDoes DEF vars
<1>4. CASE DeleteOne
  BY <1>1, <1>4, DeleteOneDoes
<1>5. CASE NewDev \/ Reported \/ Leave
  BY <1>2, <1>5, NewDevDoes, ReportedDoes, LeaveDoes DEF Busy
<1>6. CASE UpdateAddr \/ Rebind
  <2>1. PICK pc \in {"rebind", "conflict"} : \E list \in SUBSET Ids :
            Busy /\ ev.pc \in {"update", "rebind"} /\ Next1(pc, list)
    <3>1. CASE UpdateAddr
      <4>1. Busy /\ ev.pc = "update" /\ Next1("rebind", ev.found)
        BY <3>1, UpdateAddrDoes
      <4>2. ev.found \in SUBSET Ids
        BY <4>1, TodoTypes DEF EvTask
      <4> QED BY <4>1, <4>2
    <3>2. CASE Rebind
      BY <3>2, RebindDoes
    <3> QED BY <1>6, <3>1, <3>2
  <2>2. ev'.pc = ev.pc \/ ev'.pc = pc
    BY <2>1, ListStep DEF EvSteps
  <2> QED BY <1>2, <2>1, <2>2
<1>7. CASE Conflict
  <2>1. /\ ev \in EvTask /\ recs' = recs
        /\ ev' = [ev EXCEPT !.pc = IF FindByAddr(ev.addr) = {} THEN After ELSE "displace",
                            !.list = FindByAddr(ev.addr)]
        /\ crowded' = IF FindByAddr(ev.addr) # AtAddr(ev.addr)
                      THEN crowded \cup {ev.addr} ELSE crowded
    BY <1>7, TodoTypes DEF Conflict, Busy
  <2>2. /\ ev'.addr = ev.addr /\ ev'.list = FindByAddr(ev.addr)
        /\ FindByAddr(ev.addr) # {} => ev'.pc = "displace"
    BY <2>1 DEF EvTask
  <2>3. ASSUME ev.addr \notin crowded', NEW i \in DOMAIN recs, recs[i].addr = ev.addr
        PROVE  ev'.pc = "displace" /\ i \in ev'.list
    <3>1. FindByAddr(ev.addr) = AtAddr(ev.addr)
      BY <2>1, <2>3
    <3> QED BY <2>2, <2>3, <3>1 DEF AtAddr
  <2> QED BY <2>1, <2>2, <2>3 DEF ClearInv
<1>8. CASE Displace
  <2>1. /\ Busy /\ ev.pc = "displace" /\ SameParts /\ SameAddrs /\ Next1(After, {})
        /\ After \in EvSteps /\ crowded' = crowded
    BY <1>8, DisplaceDoes DEF EvSteps, Displace
  <2>2. /\ ev'.model = ev.model /\ ev'.addr = ev.addr
        /\ \/ ev'.pc = ev.pc /\ ev'.list = Rest(ev.list)
           \/ Rest(ev.list) = {}
    BY <2>1, ListStep
  <2>3. ASSUME NEW i \in DOMAIN recs, recs'[i].up, recs'[i].addr = ev.addr,
               recs'[i].model # ev.model, ev.addr \notin crowded
        PROVE  i \in Rest(ev.list)
    BY <1>8, <2>1, <2>3, DisplaceMarks DEF ClearInv, Rest
  <2>4. DOMAIN recs' = DOMAIN recs
    BY <2>1 DEF SameParts
  <2> QED BY <2>1, <2>2, <2>3, <2>4 DEF ClearInv
<1>9. CASE GetType
  <2>1. Busy /\ ev \in EvTask
    BY <1>9, GetTypeDoes, TodoTypes
  <2>2. PICK from \in Models : \E todo \in SUBSET DOMAIN Parts[from] :
        ev' = IF todo = {} THEN [ev EXCEPT !.pc = "leave"]
              ELSE [ev EXCEPT !.pc = "conflict", !.from = from, !.todo = todo]
    BY <1>9, GetTypeDoes
  <2>3. ev'.pc \in {"leave", "conflict"}
    BY <2>1, <2>2 DEF EvTask
  <2> QED BY <1>2, <2>3
<1>10. CASE AddPart
  <2>1. /\ Busy /\ ev \in EvTask /\ ev.pc = "add" /\ crowded' = crowded
        /\ (\E i, k : Recorded(i, k)) \/ GivenUp
    BY <1>10, AddPartDoes, TodoTypes DEF AddPart
  <2>2. ASSUME NEW i, NEW k, Recorded(i, k) PROVE ClearInv'
    <3>1. /\ DOMAIN recs' = DOMAIN recs \cup {i} /\ recs'[i].model = ev.model
          /\ \A j \in DOMAIN recs : recs'[j] = recs[j]
          /\ ev'.model = ev.model /\ ev'.addr = ev.addr
      BY <2>1, <2>2, RecordedGrows DEF Recorded
    <3> QED BY <2>1, <3>1 DEF ClearInv
  <2>3. GivenUp => ev'.pc = "leave"
    BY <2>1 DEF GivenUp, EvTask
  <2> QED BY <1>2, <2>1, <2>2, <2>3
<1> QED BY <1>3, <1>4, <1>5, <1>6, <1>7, <1>8, <1>9, <1>10, Kinds DEF Works

-----------------------------------------------------------------------------
(* Addresses are not shared. *)

\* A record at address a is reachable, and not of device n.
Stray(i, n, a) ==
    /\ recs[i].up /\ recs[i].addr = a /\ recs[i].model # n
    /\ recs[i].model \notin strangers /\ a \notin crowded

\* Two records at an address, of which one is reachable.
Clash(i, j) ==
    Stray(i, recs[j].model, recs[j].addr) /\ recs[j].model \notin strangers

ToDisplace(i) ==
    /\ Busy /\ recs[i].addr = ev.addr /\ recs[i].model # ev.model
    /\ \/ ev.pc \in {"update", "rebind", "type", "conflict"}
       \/ ev.pc = "displace" /\ i \in ev.list

\* A device that no query has failed of, or that is on record.
Here(n, a) ==
    \/ n \in Talkers /\ n \notin excused
    \/ \E j \in DOMAIN recs : recs[j].model = n /\ recs[j].addr = a

\* The device n has the address a: no other is reachable there, or the task is
\* about to displace it.
Took(n, a) ==
    /\ Busy /\ ev.addr = a => ev.model = n
    /\ Here(n, a) => \A i \in DOMAIN recs : Stray(i, n, a) => ToDisplace(i)

Unclaimed(l, a) == \A k \in 1..(l - 1) : ~Claim(k, a)

TookInv ==
    \A n \in Models, a \in Addrs, l \in 1..(Len(events) + 1) :
        Heard(l, n, a) /\ Unclaimed(l, a) => Took(n, a)

UpInv ==
    \A i, j \in DOMAIN recs : Clash(i, j) /\ recs[j].up =>
        \/ ToDisplace(i) /\ recs[j].model = ev.model
        \/ ToDisplace(j) /\ recs[i].model = ev.model

Shared == TookInv /\ UpInv

\* A step keeps who has which address.
Keeps ==
    /\ \A n \in Models, a \in Addrs : Took(n, a) => Took(n, a)'
    /\ UpInv'

\* Only a report makes a stranger, and no device is forgiven.
Steady == strangers' = strangers /\ excused \subseteq excused'

LEMMA StillHere ==
    ASSUME excused \subseteq excused', NEW n, NEW a, Here(n, a)',
           \A j \in DOMAIN recs' : recs'[j].model = n /\ recs'[j].addr = a =>
                j \in DOMAIN recs /\ recs[j].model = n /\ recs[j].addr = a
    PROVE  Here(n, a)
BY DEF Here

LEMMA ShrinkKeeps ==
    ASSUME Types, Steady, UpInv, DOMAIN recs' \subseteq DOMAIN recs, ev' = ev,
           crowded' = crowded, \A i \in DOMAIN recs' : recs'[i] = recs[i]
    PROVE  Keeps
<1>1. /\ \A i \in DOMAIN recs' : \A n, a : Stray(i, n, a)' <=> Stray(i, n, a)
      /\ \A i \in DOMAIN recs' : ToDisplace(i)' <=> ToDisplace(i)
      /\ \A i, j \in DOMAIN recs' : Clash(i, j)' <=> Clash(i, j)
  BY DEF Stray, Clash, ToDisplace, Busy, Steady
<1>2. \A n, a : Here(n, a)' => Here(n, a)
  BY StillHere DEF Steady
<1>3. \A n \in Models, a \in Addrs : Took(n, a) => Took(n, a)'
  BY <1>1, <1>2 DEF Took, Busy
<1>4. UpInv'
  BY <1>1 DEF UpInv
<1> QED BY <1>3, <1>4 DEF Keeps

\* The steps that move the records of the device.
LEMMA MoveKeeps ==
    ASSUME Types, TasksInv, Steady, MovesInv, UpInv, UpdateAddr \/ Rebind
    PROVE  Keeps
<1>1. /\ Busy /\ ev.pc \in {"update", "rebind"} /\ SameParts /\ crowded' = crowded
      /\ DOMAIN recs' = DOMAIN recs
      /\ \A i \in DOMAIN recs : recs'[i] = recs[i] \/ Moved(i)
  BY UpdateAddrDoes, RebindDoes, UpdateAddrMoves, RebindMoves
     DEF UpdateAddr, Rebind, SameParts
<1>2. /\ ev'.model = ev.model /\ ev'.addr = ev.addr
      /\ ev'.pc \in {"update", "rebind", "conflict"}
  <2>1. CASE UpdateAddr
    <3>1. Busy /\ ev.pc = "update" /\ Next1("rebind", ev.found)
      BY <2>1, UpdateAddrDoes
    <3>2. ev.found \in SUBSET Ids
      BY <3>1, TodoTypes DEF EvTask
    <3> QED BY <3>1, <3>2, ListStep DEF EvSteps
  <2>2. CASE Rebind
    <3>1. Busy /\ ev.pc = "rebind" /\ Next1("conflict", {})
      BY <2>2, RebindDoes
    <3> QED BY <3>1, ListStep DEF EvSteps
  <2> QED BY <2>1, <2>2
<1>3. Least(ev.list) \in ev.found /\ ev.list \subseteq ev.found
  <2>1. ev.list \in SUBSET Ids /\ ev.list # {}
    BY <1>1, TodoTypes DEF EvTask, TasksInv
  <2>2. Least(ev.list) \in ev.list
    BY <2>1, IdTypes, LeastIn
  <2> QED BY <1>1, <2>2 DEF MovesInv
<1>4. PICK h : h = Least(ev.list)
  OBVIOUS
<1>5. /\ \A i \in DOMAIN recs : i # h => recs'[i] = recs[i]
      /\ \A i \in DOMAIN recs : i = h =>
            /\ recs[i].model = ev.model
            /\ recs'[i] = recs[i] \/ recs'[i].addr = ev.addr
      /\ \A i \in DOMAIN recs : recs'[i].model = recs[i].model
  BY <1>1, <1>3, <1>4 DEF Moved, MovesInv, SameParts
<1>6. ASSUME NEW i \in DOMAIN recs, recs'[i].addr # ev.addr
      PROVE  recs'[i] = recs[i] /\ ~ToDisplace(i)
  BY <1>5, <1>6 DEF ToDisplace
<1>7. \A i \in DOMAIN recs : \A n, a : Stray(i, n, a)' /\ recs'[i] = recs[i] => Stray(i, n, a)
  BY <1>1 DEF Stray, Steady
<1>8. ASSUME NEW i \in DOMAIN recs, recs'[i].addr = ev.addr, recs'[i].model # ev.model
      PROVE  ToDisplace(i)'
  BY <1>2, <1>8 DEF ToDisplace, Busy
<1>9. ASSUME NEW n \in Models, NEW a \in Addrs, Took(n, a) PROVE Took(n, a)'
  <2>1. Busy' /\ ev'.addr = a => ev'.model = n
    BY <1>1, <1>2, <1>9 DEF Took
  <2>2. ASSUME Here(n, a)', NEW i \in DOMAIN recs, Stray(i, n, a)' PROVE ToDisplace(i)'
    <3>1. recs'[i].addr = a /\ recs'[i].model # n
      BY <2>2 DEF Stray
    <3>2. CASE a = ev.addr
      BY <1>1, <1>8, <1>9, <3>1, <3>2 DEF Took
    <3>3. CASE a # ev.addr
      <4>1. Here(n, a)
        BY <1>1, <1>6, <2>2, <3>3, StillHere DEF Steady
      <4>2. Stray(i, n, a) /\ ~ToDisplace(i)
        BY <1>6, <1>7, <2>2, <3>1, <3>3
      <4> QED BY <1>9, <4>1, <4>2 DEF Took
    <3> QED BY <3>2, <3>3
  <2> QED BY <1>1, <2>1, <2>2 DEF Took
<1>10. ASSUME NEW i \in DOMAIN recs, NEW j \in DOMAIN recs, Clash(i, j)', recs'[j].up
       PROVE  (\/ ToDisplace(i) /\ recs[j].model = ev.model
               \/ ToDisplace(j) /\ recs[i].model = ev.model)'
  <2>1. recs'[j].addr = recs'[i].addr /\ recs'[i].model # recs'[j].model
    BY <1>10 DEF Clash, Stray
  <2>2. ASSUME recs'[i] = recs[i], recs'[j] = recs[j]
        PROVE  /\ Clash(i, j) /\ recs[j].up
               /\ \/ ToDisplace(i) /\ recs[j].model = ev.model
                  \/ ToDisplace(j) /\ recs[i].model = ev.model
    <3>1. Clash(i, j) /\ recs[j].up
      BY <1>1, <1>10, <2>2 DEF Clash, Stray, Steady
    <3> QED BY <3>1 DEF UpInv
  <2>3. CASE recs'[i].addr # ev.addr
    BY <1>6, <2>1, <2>2, <2>3
  <2>4. CASE recs'[i].addr = ev.addr
    <3>1. recs'[i].model = ev.model \/ recs'[j].model = ev.model
      <4>1. SUFFICES ASSUME recs'[i].model # ev.model, recs'[j].model # ev.model
                     PROVE  FALSE
        OBVIOUS
      <4>2. recs'[i] = recs[i] /\ recs'[j] = recs[j]
        BY <1>5, <4>1
      <4> QED BY <2>2, <4>1, <4>2
    <3> QED BY <1>2, <1>8, <2>1, <2>4, <3>1
  <2> QED BY <2>3, <2>4
<1>11. UpInv'
  BY <1>1, <1>10 DEF UpInv
<1> QED BY <1>9, <1>11 DEF Keeps

LEMMA ConflictKeeps ==
    ASSUME Types, TasksInv, Steady, UpInv, Conflict
    PROVE  Keeps
<1>1. /\ Busy /\ ev.pc = "conflict" /\ ev \in EvTask /\ recs' = recs
      /\ ev' = [ev EXCEPT !.pc = IF FindByAddr(ev.addr) = {} THEN After ELSE "displace",
                          !.list = FindByAddr(ev.addr)]
      /\ crowded' = IF FindByAddr(ev.addr) # AtAddr(ev.addr)
                    THEN crowded \cup {ev.addr} ELSE crowded
  BY TodoTypes DEF Conflict, Busy
<1>2. /\ ev'.model = ev.model /\ ev'.addr = ev.addr /\ ev'.list = FindByAddr(ev.addr)
      /\ FindByAddr(ev.addr) # {} => ev'.pc = "displace"
  BY <1>1 DEF EvTask
<1>3. \A i, n, a : Stray(i, n, a)' => Stray(i, n, a) /\ a \notin crowded'
  BY <1>1 DEF Stray, Steady
<1>4. \A i, j : Clash(i, j)' => /\ Clash(i, j) /\ recs[i].addr = recs[j].addr
                                /\ recs[j].addr \notin crowded'
  BY <1>1, <1>3 DEF Clash, Stray, Steady
<1>5. ASSUME NEW i \in DOMAIN recs, recs[i].addr \notin crowded', ToDisplace(i)
      PROVE  ToDisplace(i)'
  <2>1. i \in AtAddr(ev.addr) /\ recs[i].addr = ev.addr /\ recs[i].model # ev.model
    BY <1>5 DEF AtAddr, ToDisplace
  <2>2. FindByAddr(ev.addr) = AtAddr(ev.addr)
    BY <1>1, <1>5, <2>1
  <2>3. ev'.pc = "displace" /\ i \in ev'.list
    BY <1>2, <2>1, <2>2
  <2> QED BY <1>1, <1>2, <2>1, <2>3 DEF ToDisplace, Busy
<1>6. ASSUME NEW n \in Models, NEW a \in Addrs, Took(n, a) PROVE Took(n, a)'
  <2>1. Here(n, a)' => Here(n, a)
    BY <1>1, StillHere DEF Steady
  <2>2. Busy' /\ ev'.addr = a => ev'.model = n
    BY <1>1, <1>2, <1>6 DEF Took
  <2>3. ASSUME Here(n, a)', NEW i \in DOMAIN recs, Stray(i, n, a)' PROVE ToDisplace(i)'
    <3>1. ToDisplace(i) /\ recs[i].addr \notin crowded'
      BY <1>3, <1>6, <2>1, <2>3 DEF Took, Stray
    <3> QED BY <1>5, <3>1
  <2> QED BY <1>1, <2>2, <2>3 DEF Took
<1>7. UpInv'
  <2>1. SUFFICES ASSUME NEW i \in DOMAIN recs, NEW j \in DOMAIN recs, Clash(i, j)',
                        recs[j].up
                 PROVE  (\/ ToDisplace(i) /\ recs[j].model = ev.model
                         \/ ToDisplace(j) /\ recs[i].model = ev.model)'
    BY <1>1 DEF UpInv
  <2>2. \/ ToDisplace(i) /\ recs[j].model = ev.model
        \/ ToDisplace(j) /\ recs[i].model = ev.model
    BY <1>4, <2>1 DEF UpInv
  <2>3. recs[i].addr \notin crowded' /\ recs[j].addr \notin crowded'
    BY <1>4, <2>1
  <2> QED BY <1>1, <1>2, <1>5, <2>2, <2>3
<1> QED BY <1>6, <1>7 DEF Keeps

LEMMA DisplaceKeeps ==
    ASSUME Types, TasksInv, Steady, UpInv, Displace
    PROVE  Keeps
<1>1. /\ Busy /\ ev.pc = "displace" /\ SameParts /\ SameAddrs /\ Next1(After, {})
      /\ After \in EvSteps /\ crowded' = crowded /\ DOMAIN recs' = DOMAIN recs
  BY DisplaceDoes DEF EvSteps, Displace, SameParts
<1>2. /\ ev'.model = ev.model /\ ev'.addr = ev.addr
      /\ \/ ev'.pc = ev.pc /\ ev'.list = Rest(ev.list)
         \/ Rest(ev.list) = {}
  BY <1>1, ListStep
<1>3. /\ \A i \in DOMAIN recs : recs'[i].model = recs[i].model /\ recs'[i].addr = recs[i].addr
      /\ \A i \in DOMAIN recs : recs'[i].up =>
            recs[i].up /\ (recs[i].model # ev.model => i # Least(ev.list))
  BY <1>1, DisplaceMarks DEF SameParts, SameAddrs
<1>4. \A i \in DOMAIN recs : \A n, a : Stray(i, n, a)' => Stray(i, n, a) /\ recs'[i].up
  BY <1>1, <1>3 DEF Stray, Steady
<1>5. \A i, j \in DOMAIN recs : Clash(i, j)' => Clash(i, j) /\ recs'[i].up
  BY <1>3, <1>4 DEF Clash, Steady
<1>6. ASSUME NEW i \in DOMAIN recs, recs'[i].up, ToDisplace(i)
      PROVE  ToDisplace(i)'
  <2>1. i \in ev.list /\ i # Least(ev.list) /\ recs[i].model # ev.model
    BY <1>1, <1>3, <1>6 DEF ToDisplace
  <2>2. i \in Rest(ev.list)
    BY <2>1 DEF Rest
  <2> QED BY <1>1, <1>2, <1>3, <1>6, <2>1, <2>2 DEF ToDisplace, Busy
<1>7. ASSUME NEW n \in Models, NEW a \in Addrs, Took(n, a) PROVE Took(n, a)'
  <2>1. Busy' /\ ev'.addr = a => ev'.model = n
    BY <1>1, <1>2, <1>7 DEF Took
  <2>2. Here(n, a)' => Here(n, a)
    BY <1>1, <1>3, StillHere DEF Steady
  <2>3. ASSUME Here(n, a)', NEW i \in DOMAIN recs, Stray(i, n, a)' PROVE ToDisplace(i)'
    BY <1>4, <1>6, <1>7, <2>2, <2>3 DEF Took
  <2> QED BY <1>1, <2>1, <2>3 DEF Took
<1>8. ASSUME NEW i \in DOMAIN recs, NEW j \in DOMAIN recs, Clash(i, j)', recs'[j].up
      PROVE  (\/ ToDisplace(i) /\ recs[j].model = ev.model
              \/ ToDisplace(j) /\ recs[i].model = ev.model)'
  <2>1. Clash(i, j) /\ recs[j].up /\ recs'[i].up
    BY <1>3, <1>5, <1>8
  <2>2. \/ ToDisplace(i) /\ recs[j].model = ev.model
        \/ ToDisplace(j) /\ recs[i].model = ev.model
    BY <2>1 DEF UpInv
  <2> QED BY <1>2, <1>3, <1>6, <1>8, <2>1, <2>2
<1>9. UpInv'
  BY <1>1, <1>8 DEF UpInv
<1> QED BY <1>7, <1>9 DEF Keeps

\* A device that is asked to leave without a look at who has its address has had
\* a query fail, or has no part.
LEMMA GetTypeKeeps ==
    ASSUME Types, TasksInv, Steady, OnceInv, UpInv, GetType
    PROVE  Keeps
<1>1. /\ Busy /\ ev.pc = "type" /\ ev \in EvTask /\ recs' = recs /\ crowded' = crowded
      /\ OfModel(ev.model) = {}
  BY GetTypeDoes, TodoTypes DEF GetType, OnceInv
<1>2. PICK from \in Models : \E todo \in SUBSET DOMAIN Parts[from] :
        /\ ev' = IF todo = {} THEN [ev EXCEPT !.pc = "leave"]
                 ELSE [ev EXCEPT !.pc = "conflict", !.from = from, !.todo = todo]
        /\ ev.model \notin excused' => from = ev.model /\ todo = DOMAIN Parts[from]
  BY GetTypeDoes
<1>3. /\ ev'.model = ev.model /\ ev'.addr = ev.addr
      /\ ev'.pc = "conflict" \/ ev.model \in excused' \/ ev.model \notin Talkers
  <2>1. ev.model \in Talkers => DOMAIN Parts[ev.model] # {}
    <3>1. ASSUME ev.model \in Talkers PROVE DOMAIN Parts[ev.model] # {}
      <4>1. /\ Parts[ev.model] # <<>> /\ DOMAIN Parts[ev.model] = 1..Len(Parts[ev.model])
            /\ Parts[ev.model] \in Seq([ep: Nat, type: DevTypes])
        BY <3>1, SomePart, PartAssumption DEF Talkers
      <4>2. PICK t : t = Parts[ev.model]
        OBVIOUS
      <4>3. Len(t) \in Nat /\ Len(t) # 0
        BY <4>1, <4>2
      <4>4. 1 \in 1..Len(t) /\ DOMAIN t = 1..Len(t)
        BY <4>1, <4>2, <4>3
      <4>5. DOMAIN t # {}
        BY <4>4
      <4> QED BY <4>2, <4>5
    <3> QED BY <3>1
  <2> QED BY <1>1, <1>2, <2>1 DEF EvTask
<1>4. \A i \in DOMAIN recs : recs[i].model # ev.model
  BY <1>1 DEF OfModel
<1>5. /\ \A i, n, a : Stray(i, n, a)' <=> Stray(i, n, a)
      /\ \A i, j : Clash(i, j)' <=> Clash(i, j)
  BY <1>1 DEF Stray, Clash, Steady
<1>6. ASSUME NEW n \in Models, NEW a \in Addrs, Took(n, a) PROVE Took(n, a)'
  <2>1. Busy' /\ ev'.addr = a => ev'.model = n
    BY <1>1, <1>3, <1>6 DEF Took
  <2>2. ASSUME Here(n, a)', NEW i \in DOMAIN recs, Stray(i, n, a) PROVE ToDisplace(i)'
    <3>1. Here(n, a)
      BY <1>1, <2>2, StillHere DEF Steady
    <3>2. ToDisplace(i) /\ recs[i].addr = a
      BY <1>6, <2>2, <3>1 DEF Took, Stray
    <3>3. ev.addr = a /\ ev.model = n
      BY <1>1, <1>6, <3>2 DEF Took, ToDisplace
    <3>4. ev.model \in Talkers /\ ev.model \notin excused'
      BY <1>1, <1>4, <2>2, <3>3 DEF Here
    <3>5. ev'.pc = "conflict"
      BY <1>3, <3>4
    <3> QED BY <1>1, <1>3, <3>2, <3>5 DEF ToDisplace, Busy
  <2> QED BY <1>1, <1>5, <2>1, <2>2 DEF Took
<1>7. UpInv'
  BY <1>1, <1>4, <1>5 DEF UpInv
<1> QED BY <1>6, <1>7 DEF Keeps

LEMMA AddPartKeeps ==
    ASSUME Types, TasksInv, Steady, ClearInv, UpInv, AddPart
    PROVE  Keeps
<1>1. /\ Busy /\ ev.pc = "add" /\ ev \in EvTask /\ crowded' = crowded
      /\ (\E i, k : Recorded(i, k)) \/ GivenUp
  BY AddPartDoes, TodoTypes DEF AddPart
<1>2. \A i : ~ToDisplace(i)
  BY <1>1 DEF ToDisplace
<1>3. ASSUME NEW h, NEW k, Recorded(h, k) PROVE Keeps
  <2>1. /\ h \notin DOMAIN recs /\ DOMAIN recs' = DOMAIN recs \cup {h}
        /\ recs'[h].model = ev.model /\ recs'[h].addr = ev.addr
        /\ \A j \in DOMAIN recs : recs'[j] = recs[j]
        /\ ev'.model = ev.model /\ ev'.addr = ev.addr
    BY <1>1, <1>3, RecordedGrows DEF Recorded
  <2>2. \A i \in DOMAIN recs : \A n, a : Stray(i, n, a)' <=> Stray(i, n, a)
    BY <1>1, <2>1 DEF Stray, Steady
  \* No other is reachable at the address by now.
  <2>3. \A i \in DOMAIN recs : ~Stray(i, ev.model, ev.addr)
    BY <1>1 DEF ClearInv, Stray
  <2>4. ASSUME NEW n \in Models, NEW a \in Addrs, Took(n, a) PROVE Took(n, a)'
    <3>1. Busy' /\ ev'.addr = a => ev'.model = n
      BY <1>1, <2>1, <2>4 DEF Took
    <3>2. ASSUME Here(n, a)', NEW i \in DOMAIN recs', Stray(i, n, a)' PROVE FALSE
      <4>1. i # h
        BY <1>1, <2>1, <2>4, <3>2 DEF Took, Stray
      <4>2. i \in DOMAIN recs /\ Stray(i, n, a)
        BY <2>1, <2>2, <3>2, <4>1
      <4>3. CASE n = ev.model /\ a = ev.addr
        BY <2>3, <4>2, <4>3
      <4>4. CASE ~(n = ev.model /\ a = ev.addr)
        <5>1. \A j \in DOMAIN recs' : recs'[j].model = n /\ recs'[j].addr = a =>
                j \in DOMAIN recs /\ recs[j].model = n /\ recs[j].addr = a
          BY <2>1, <4>4
        <5>2. Here(n, a)
          BY <3>2, <5>1, StillHere DEF Steady
        <5> QED BY <1>2, <2>4, <4>2, <5>2 DEF Took
      <4> QED BY <4>3, <4>4
    <3> QED BY <3>1, <3>2 DEF Took
  <2>5. ASSUME NEW i \in DOMAIN recs', NEW j \in DOMAIN recs', Clash(i, j)', recs'[j].up
        PROVE  FALSE
    <3>1. /\ recs'[i].up /\ recs'[i].addr = recs'[j].addr /\ recs'[i].model # recs'[j].model
          /\ recs'[i].model \notin strangers /\ recs'[j].model \notin strangers
          /\ recs'[j].addr \notin crowded
      BY <1>1, <2>5 DEF Clash, Stray, Steady
    <3>2. CASE i = h
      BY <2>1, <2>3, <2>5, <3>1, <3>2 DEF Stray
    <3>3. CASE j = h
      BY <2>1, <2>3, <3>1, <3>3 DEF Stray
    <3>4. CASE i # h /\ j # h
      <4>1. i \in DOMAIN recs /\ j \in DOMAIN recs /\ Clash(i, j) /\ recs[j].up
        BY <2>1, <2>5, <3>1, <3>4 DEF Clash, Stray
      <4> QED BY <1>2, <4>1 DEF UpInv
    <3> QED BY <3>2, <3>3, <3>4
  <2>6. UpInv'
    BY <2>5 DEF UpInv
  <2> QED BY <2>4, <2>6 DEF Keeps
<1>4. ASSUME GivenUp PROVE Keeps
  <2>1. recs' = recs /\ ev'.model = ev.model /\ ev'.addr = ev.addr
    BY <1>1, <1>4 DEF GivenUp, EvTask
  <2>2. /\ \A i, n, a : Stray(i, n, a)' <=> Stray(i, n, a)
        /\ \A i, j : Clash(i, j)' <=> Clash(i, j)
        /\ \A n, a : Here(n, a)' => Here(n, a)
    BY <1>1, <2>1, StillHere DEF Stray, Clash, Steady
  <2>3. \A n \in Models, a \in Addrs : Took(n, a) => Took(n, a)'
    BY <1>1, <1>2, <2>1, <2>2 DEF Took
  <2>4. UpInv'
    BY <1>2, <2>1, <2>2 DEF UpInv
  <2> QED BY <2>3, <2>4 DEF Keeps
<1> QED BY <1>1, <1>3, <1>4

LEMMA LeaveKeeps ==
    ASSUME Types, Steady, UpInv, Leave
    PROVE  Keeps
<1>1. /\ ev.pc = "leave" /\ recs' = recs /\ ~Busy' /\ crowded' = crowded
  BY LeaveDoes DEF Leave, Busy
<1>2. /\ \A i, n, a : Stray(i, n, a)' <=> Stray(i, n, a)
      /\ \A i, j : Clash(i, j)' <=> Clash(i, j)
      /\ \A n, a : Here(n, a)' => Here(n, a)
      /\ \A i : ~ToDisplace(i)
  BY <1>1, StillHere DEF Stray, Clash, ToDisplace, Steady
<1>3. \A n \in Models, a \in Addrs : Took(n, a) => Took(n, a)'
  BY <1>1, <1>2 DEF Took
<1>4. UpInv'
  BY <1>1, <1>2 DEF UpInv
<1> QED BY <1>3, <1>4 DEF Keeps

LEMMA QueueTook ==
    ASSUME Types, TookInv, \A n \in Models, a \in Addrs : Took(n, a) => Took(n, a)',
           \/ Silent \/ (\E m \in Models, a \in Addrs : Joined(m, a))
           \/ \E e \in Announcement \cup PartReport : Spoken(e)
    PROVE  TookInv'
<1> SUFFICES ASSUME NEW n \in Models, NEW a \in Addrs, NEW l \in 1..(Len(events') + 1),
                    Heard(l, n, a)', Unclaimed(l, a)'
             PROVE  Took(n, a)
  BY DEF TookInv
<1>0. PICK z \in Nat : z = Len(events)
  BY DEF Types, EventTypes
<1>1. CASE Silent
  <2>1. Heard(l, n, a) /\ Unclaimed(l, a) /\ l \in 1..(Len(events) + 1)
    BY <1>1, PartAssumption DEF Silent, Heard, Unclaimed, Claim
  <2> QED BY <2>1 DEF TookInv
<1>2. ASSUME NEW e \in Announcement \cup PartReport, events' = Append(events, e),
             Heard(z + 1, n, a)' => Heard(z + 1, n, a),
             Heard(z + 2, n, a)' =>
                Heard(z + 1, n, a) \/ (e.kind = "newdev" /\ e.addr = a)
      PROVE  Took(n, a)
  <2>1. /\ Len(events') = Len(events) + 1 /\ Len(events) \in Nat
        /\ \A i \in 1..Len(events) : events'[i] = events[i]
        /\ events'[Len(events) + 1] = e
    BY <1>2, LastEvent
  <2>2. ASSUME NEW h \in 1..(Len(events) + 1), Heard(h, n, a), h <= l
        PROVE  Took(n, a)
    <3>1. \A k \in 1..(h - 1) : k \in 1..(l - 1) /\ events'[k] = events[k]
      BY <2>1, <2>2
    <3>2. Unclaimed(h, a)
      BY <3>1 DEF Unclaimed, Claim
    <3> QED BY <2>2, <3>2 DEF TookInv
  <2>3. CASE l \in 1..Len(events)
    <3>1. Heard(l, n, a)
      BY <2>1, <2>3 DEF Heard
    <3> QED BY <2>1, <2>2, <2>3, <3>1
  <2>4. CASE l = Len(events) + 1
    BY <1>0, <1>2, <2>1, <2>2, <2>4
  <2>5. CASE l = Len(events) + 2
    <3>1. Len(events) + 1 \in 1..(l - 1)
      BY <2>1, <2>5
    <3>2. ~(e.kind = "newdev" /\ e.addr = a)
      BY <2>1, <3>1 DEF Unclaimed, Claim
    <3> QED BY <1>0, <1>2, <2>1, <2>2, <2>5, <3>2
  <2> QED BY <2>1, <2>3, <2>4, <2>5
<1>3. ASSUME NEW m \in Models, NEW b \in Addrs, Joined(m, b) PROVE Took(n, a)
  <2> DEFINE e == [kind |-> "newdev", model |-> m, addr |-> b]
  <2>1. e \in Announcement /\ events' = Append(events, e)
    BY <1>3 DEF Joined, Announcement
  <2>2. /\ Len(events') = Len(events) + 1 /\ Len(events) \in Nat
        /\ events'[Len(events) + 1] = e
    BY <2>1, LastEvent
  <2>3. ~Heard(z + 1, n, a)'
    BY <1>0, <2>2 DEF Heard
  <2>4. Heard(z + 2, n, a)' => net'[n] = a
    BY <1>0, <2>2 DEF Heard
  <2>5. /\ net'[m] = b /\ \A q \in Models \ {m} : net'[q] = net[q]
    BY <1>3 DEF Joined, Types
  <2>6. Heard(z + 2, n, a)' =>
            Heard(z + 1, n, a) \/ (e.kind = "newdev" /\ e.addr = a)
    BY <1>0, <2>4, <2>5 DEF Heard
  <2> QED BY <1>2, <2>1, <2>3, <2>6
<1>4. ASSUME NEW e \in Announcement \cup PartReport, Spoken(e) PROVE Took(n, a)
  <2>1. /\ Len(events') = Len(events) + 1 /\ Len(events) \in Nat
        /\ events'[Len(events) + 1] = e
    BY <1>4, LastEvent DEF Spoken
  <2>2. net[e.model] = e.addr /\ net' = net
    BY <1>4 DEF Spoken
  <2>3. Heard(z + 1, n, a)' => Heard(z + 1, n, a)
    BY <1>0, <2>1, <2>2 DEF Heard
  <2>4. Heard(z + 2, n, a)' => Heard(z + 1, n, a)
    BY <1>0, <2>1, <2>2 DEF Heard
  <2> QED BY <1>2, <1>4, <2>3, <2>4 DEF Spoken
<1> QED BY <1>1, <1>3, <1>4

\* After the first event has been taken, who is heard of at its address is who
\* it was about.
LEMMA TakenTook ==
    ASSUME Types, OrderInv, TookInv, Taken, NEW n \in Models, NEW a \in Addrs,
           NEW l \in 1..(Len(events') + 1), Heard(l, n, a)', Unclaimed(l, a)'
    PROVE  /\ Head(events).addr = a => Head(events).model = n
           /\ Head(events).kind = "report" \/ Head(events).addr # a => Took(n, a)
<1>1. /\ Len(events') = Len(events) - 1 /\ Len(events) \in Nat \ {0}
      /\ \A k \in 1..Len(events') : events'[k] = events[k + 1]
      /\ Heard(l + 1, n, a) /\ Head(events) = events[1]
  BY HeardMoves, FirstEvent DEF Taken
<1>2. l + 1 \in 1..(Len(events) + 1) /\ 1 \in 1..((l + 1) - 1)
  BY <1>1
<1>3. ASSUME NEW j \in 2..l PROVE ~Claim(j, a)
  <2>1. j - 1 \in 1..(l - 1) /\ j - 1 \in 1..Len(events') /\ (j - 1) + 1 = j
    BY <1>1
  <2>2. events'[j - 1] = events[j] /\ ~Claim(j - 1, a)'
    BY <1>1, <2>1 DEF Unclaimed
  <2> QED BY <2>2 DEF Claim
<1>4. Head(events).addr = a => Head(events).model = n
  BY <1>1, <1>2, <1>3 DEF OrderInv
<1>5. ASSUME Head(events).kind = "report" \/ Head(events).addr # a PROVE Took(n, a)
  <2>1. ~Claim(1, a)
    BY <1>1, <1>5 DEF Claim
  <2>2. \A k \in 1..((l + 1) - 1) : k = 1 \/ k \in 2..l
    OBVIOUS
  <2>3. Unclaimed(l + 1, a)
    BY <1>3, <2>1, <2>2 DEF Unclaimed
  <2> QED BY <1>1, <1>2, <2>3 DEF TookInv
<1> QED BY <1>4, <1>5

LEMMA SharedNewDev ==
    ASSUME Types, OrderInv, Shared, NewDev
    PROVE  Shared'
<1>0. PICK q, b : q = Head(events).model /\ b = Head(events).addr
  OBVIOUS
<1>1. /\ ~Busy /\ Taken /\ recs' = recs
      /\ crowded' = crowded /\ strangers' = strangers /\ excused' = excused
      /\ Busy' /\ ev'.model = q /\ ev'.addr = b /\ ev'.pc \in {"type", "update"}
  BY <1>0, NewDevDoes DEF Taken, Busy, NewDev
<1>2. /\ \A i, n, a : Stray(i, n, a)' <=> Stray(i, n, a)
      /\ \A i, j : Clash(i, j)' <=> Clash(i, j)
      /\ \A n, a : Here(n, a)' <=> Here(n, a)
      /\ \A i : ~ToDisplace(i)
  BY <1>1 DEF Stray, Clash, Here, ToDisplace
<1>3. UpInv'
  BY <1>1, <1>2 DEF Shared, UpInv
<1>4. ASSUME NEW n \in Models, NEW a \in Addrs, b # a, Took(n, a) PROVE Took(n, a)'
  BY <1>1, <1>2, <1>4 DEF Took
<1>5. Took(q, b)'
  <2>1. ASSUME NEW i, Stray(i, q, b)' PROVE ToDisplace(i)'
    BY <1>1, <2>1 DEF ToDisplace, Stray
  <2> QED BY <1>1, <2>1 DEF Took
<1>6. ASSUME NEW n \in Models, NEW a \in Addrs, NEW l \in 1..(Len(events') + 1),
             Heard(l, n, a)', Unclaimed(l, a)'
      PROVE  Took(n, a)'
  <2>1. (b = a => q = n) /\ (b # a => Took(n, a))
    BY <1>0, <1>1, <1>6, TakenTook DEF Shared
  <2> QED BY <1>4, <1>5, <2>1
<1>7. TookInv'
  BY <1>6 DEF TookInv
<1> QED BY <1>3, <1>7 DEF Shared

\* Who has sent the first event, a report, has the address it was sent from.
LEMMA SenderTook ==
    ASSUME Types, TookInv, events # <<>>, Head(events).kind = "report"
    PROVE  /\ Head(events).model \in Talkers /\ Head(events).model \in Models
           /\ Head(events).addr \in Addrs
           /\ Took(Head(events).model, Head(events).addr)
<1>1. /\ Head(events).model \in Talkers /\ Head(events).model \in Models
      /\ Head(events).addr \in Addrs
  BY FirstEvent DEF PartReport, Announcement, Talkers
<1>2. PICK q, b : q = Head(events).model /\ b = Head(events).addr
  OBVIOUS
<1>3. /\ Head(events) = events[1] /\ 1 \in 1..Len(events) /\ Len(events) \in Nat
      /\ 1 \in 1..(Len(events) + 1)
  BY FirstEvent
<1>4. Heard(1, q, b) /\ Unclaimed(1, b)
  BY <1>2, <1>3 DEF Heard, Unclaimed
<1>5. Took(q, b)
  BY <1>1, <1>2, <1>3, <1>4 DEF TookInv
<1> QED BY <1>1, <1>2, <1>5

\* A report revives a record of the device that sent it, which has displaced the
\* others, or makes a stranger.
LEMMA SharedReported ==
    ASSUME Types, OrderInv, Shared, Reported
    PROVE  Shared'
<1>0. PICK q, b, h : /\ q = Head(events).model /\ b = Head(events).addr
                     /\ h = Least(Found(Head(events)))
  OBVIOUS
<1>1. /\ ~Busy /\ Taken /\ ev' = ev /\ crowded' = crowded /\ excused' = excused
      /\ SameParts /\ SameAddrs /\ DOMAIN recs' = DOMAIN recs
      /\ events # <<>> /\ Head(events).kind = "report"
  BY ReportedDoes DEF Taken, SameParts
<1>2. Took(q, b)
  BY <1>0, <1>1, SenderTook DEF Shared
<1>3. /\ \A i : ~ToDisplace(i)
      /\ \A i \in DOMAIN recs : recs'[i].model = recs[i].model /\ recs'[i].addr = recs[i].addr
      /\ \A n, a : Here(n, a)' <=> Here(n, a)
  BY <1>1 DEF ToDisplace, SameParts, SameAddrs, Here
<1>4. /\ strangers \subseteq strangers'
      /\ \A i \in DOMAIN recs : recs'[i] # recs[i] =>
            recs[i].addr = b /\ (recs[i].model = q \/ recs[i].model \in strangers')
  <2>1. CASE UNCHANGED <<recs, strangers>>
    BY <2>1
  <2>2. CASE /\ Found(Head(events)) # {} /\ recs' = [recs EXCEPT ![h].up = TRUE]
             /\ strangers' = strangers \cup ({recs[h].model} \ {q})
    <3>1. recs[h].addr = b
      BY <1>0, <2>2, FoundIds
    <3>2. \A i \in DOMAIN recs : recs'[i] # recs[i] => i = h
      BY <2>2
    <3> QED BY <2>2, <3>1, <3>2
  <2> QED BY <1>0, <2>1, <2>2, ReportedDoes
<1>5. ASSUME NEW i \in DOMAIN recs, NEW n, NEW a, Stray(i, n, a)',
             a = b => n = q
      PROVE  Stray(i, n, a)
  <2>1. recs'[i] = recs[i]
    BY <1>3, <1>4, <1>5 DEF Stray
  <2> QED BY <1>1, <1>4, <1>5, <2>1 DEF Stray
<1>6. ASSUME NEW n \in Models, NEW a \in Addrs, b = a => q = n, Took(n, a)
      PROVE  Took(n, a)'
  <2>1. ASSUME Here(n, a)', NEW i \in DOMAIN recs, Stray(i, n, a)' PROVE FALSE
    BY <1>3, <1>5, <1>6, <2>1 DEF Took
  <2> QED BY <1>1, <2>1 DEF Took, Busy
<1>7. ASSUME NEW i \in DOMAIN recs, NEW j \in DOMAIN recs, Clash(i, j)', recs'[j].up
      PROVE  FALSE
  <2>1. /\ recs'[i].up /\ recs[i].addr = recs[j].addr /\ recs[i].model # recs[j].model
        /\ recs[i].model \notin strangers' /\ recs[j].model \notin strangers'
        /\ recs[j].addr \notin crowded
    BY <1>1, <1>3, <1>7 DEF Clash, Stray
  <2>2. recs[i].model \notin strangers /\ recs[j].model \notin strangers
    BY <1>4, <2>1
  \* Who sent the report is on record there: then no other is reachable.
  <2>3. ASSUME NEW x \in DOMAIN recs, NEW y \in DOMAIN recs, recs[x].addr = b,
               recs[x].model = q, recs[y].addr = b, recs[y].model # q, recs[y].up,
               recs[y].model \notin strangers, b \notin crowded
        PROVE  FALSE
    <3>1. Here(q, b) /\ Stray(y, q, b)
      BY <2>3 DEF Here, Stray
    <3> QED BY <1>2, <1>3, <3>1 DEF Took
  <2>4. CASE recs'[i] = recs[i] /\ recs'[j] = recs[j]
    <3>1. Clash(i, j) /\ recs[j].up
      BY <1>7, <2>1, <2>2, <2>4 DEF Clash, Stray
    <3> QED BY <1>3, <3>1 DEF Shared, UpInv
  <2>5. CASE recs'[i] # recs[i]
    <3>1. recs[i].addr = b /\ recs[i].model = q
      BY <1>4, <2>1, <2>5
    <3>2. recs'[j] = recs[j]
      BY <1>4, <2>1, <3>1
    <3> QED BY <1>7, <2>1, <2>2, <2>3, <3>1, <3>2
  <2>6. CASE recs'[j] # recs[j]
    <3>1. recs[j].addr = b /\ recs[j].model = q
      BY <1>4, <2>1, <2>6
    <3>2. recs'[i] = recs[i]
      BY <1>4, <2>1, <3>1
    <3> QED BY <2>1, <2>2, <2>3, <3>1, <3>2
  <2> QED BY <2>4, <2>5, <2>6
<1>8. UpInv'
  BY <1>1, <1>7 DEF UpInv
<1>9. ASSUME NEW n \in Models, NEW a \in Addrs, NEW l \in 1..(Len(events') + 1),
             Heard(l, n, a)', Unclaimed(l, a)'
      PROVE  Took(n, a)'
  <2>1. (b = a => q = n) /\ Took(n, a)
    BY <1>0, <1>1, <1>9, TakenTook DEF Shared
  <2> QED BY <1>6, <2>1
<1>10. TookInv'
  BY <1>9 DEF TookInv
<1> QED BY <1>8, <1>10 DEF Shared

LEMMA Steadiness ==
    ASSUME Types, TasksInv, [Next]_vars, ~Reported
    PROVE  Steady
<1>1. strangers' = strangers
  BY DEF Next, EventTask, ApiTask, Join, Drop, Report, SendScan, NewDev, UpdateAddr,
      Rebind, GetType, Conflict, Displace, AddPart, Leave, Delete, DeleteOne, DeleteLeave, vars
<1> QED BY <1>1, Forgiving DEF Steady

LEMMA SharedStep ==
    ASSUME Types, TasksInv, OnceInv, MovesInv, ClearInv, OrderInv, Shared, [Next]_vars
    PROVE  Shared'
<1>1. CASE NewDev
  BY <1>1, SharedNewDev
<1>2. CASE Reported
  BY <1>2, SharedReported
<1>3. CASE ~NewDev /\ ~Reported
  <2>0. Steady
    BY <1>3, Steadiness
  <2>1. Keeps
    <3>1. CASE Outside \/ Delete \/ DeleteOne \/ DeleteLeave \/ UNCHANGED vars
      <4>1. /\ DOMAIN recs' \subseteq DOMAIN recs /\ ev' = ev
            /\ \A i \in DOMAIN recs' : recs'[i] = recs[i]
        BY <3>1, OutsideDoes, DeleteDoes, DeleteOneDoes, DeleteLeaveDoes DEF vars
      <4>2. crowded' = crowded
        BY <3>1 DEF Outside, Join, Drop, Report, SendScan, Delete, DeleteOne, DeleteLeave, vars
      <4> QED BY <2>0, <4>1, <4>2, ShrinkKeeps DEF Shared
    <3> QED BY <1>3, <2>0, <3>1, Kinds, MoveKeeps, ConflictKeeps, DisplaceKeeps,
               GetTypeKeeps, AddPartKeeps, LeaveKeeps DEF Works, Shared
  <2>2. Taken => NewDev \/ Reported
    BY TakenBy
  <2>3. TookInv'
    BY <1>3, <2>1, <2>2, QueueDoes, QueueTook DEF Keeps, Shared
  <2> QED BY <2>1, <2>3 DEF Keeps, Shared
<1> QED BY <1>1, <1>2, <1>3

-----------------------------------------------------------------------------
(* The address on record is the one the device has. *)

Own(k, m, a) == Claim(k, a) /\ events[k].model = m

\* The last that a device announces is the address it has.
LastInv ==
    \A m \in Models : net[m] # NoAddr =>
        \A k \in 1..Len(events) :
            events[k].kind = "newdev" /\ events[k].model = m /\ events[k].addr # net[m] =>
                \E l \in (k + 1)..Len(events) : Own(l, m, net[m])

Settled(m, a) ==
    /\ Busy /\ ev.model = m => ev.addr = a
    /\ \A i \in OfModel(m) :
        \/ recs[i].addr = a
        \/ Busy /\ ev.pc = "update" /\ ev.model = m /\ i \in ev.list

\* Once it is announced, it is on record, or about to be.
SettledInv ==
    \A m \in Models :
        net[m] # NoAddr /\ (\A k \in 1..Len(events) : ~Own(k, m, net[m]))
            => Settled(m, net[m])

LEMMA LastStep ==
    ASSUME Types, TasksInv, LastInv, [Next]_vars
    PROVE  LastInv'
<1> SUFFICES ASSUME NEW m \in Models, net'[m] # NoAddr, NEW k \in 1..Len(events'),
                    events'[k].kind = "newdev", events'[k].model = m,
                    events'[k].addr # net'[m], NEW a, a = net'[m]
             PROVE  \E l \in (k + 1)..Len(events') : Own(l, m, a)'
  BY DEF LastInv, Own, Claim
<1>1. CASE Silent
  <2>1. net[m] = a /\ events' = events
    BY <1>1 DEF Silent
  <2>2. \E l \in (k + 1)..Len(events) : Own(l, m, a)
    BY <2>1 DEF LastInv
  <2> QED BY <2>1, <2>2 DEF Own, Claim
<1>2. CASE Taken
  <2>1. /\ Len(events') = Len(events) - 1 /\ Len(events) \in Nat \ {0} /\ net[m] = a
        /\ \A i \in 1..Len(events') : events'[i] = events[i + 1]
    BY <1>2, HeardMoves DEF Taken
  <2>2. k + 1 \in 1..Len(events) /\ events'[k] = events[k + 1]
    BY <2>1
  <2>3. PICK l \in ((k + 1) + 1)..Len(events) : Own(l, m, a)
    BY <2>1, <2>2 DEF LastInv
  <2>4. l - 1 \in (k + 1)..Len(events') /\ l - 1 \in 1..Len(events') /\ (l - 1) + 1 = l
    BY <2>1, <2>3
  <2>5. events'[l - 1] = events[l]
    BY <2>1, <2>4
  <2> QED BY <2>3, <2>4, <2>5 DEF Own, Claim
<1>3. ASSUME NEW e \in Announcement \cup PartReport, events' = Append(events, e),
             e.kind = "newdev" /\ e.model = m => e.addr = a,
             \/ net[m] = a
             \/ e.kind = "newdev" /\ e.model = m /\ e.addr = a
      PROVE  \E l \in (k + 1)..Len(events') : Own(l, m, a)'
  <2>1. /\ Len(events') = Len(events) + 1 /\ Len(events) \in Nat
        /\ \A i \in 1..Len(events) : events'[i] = events[i]
        /\ events'[Len(events) + 1] = e
    BY <1>3, LastEvent
  <2>2. k \in 1..Len(events)
    <3>1. k \in 1..Len(events) \/ k = Len(events) + 1
      BY <2>1
    <3> QED BY <1>3, <2>1, <3>1
  <2>3. CASE net[m] = a
    <3>1. PICK l \in (k + 1)..Len(events) : Own(l, m, a)
      BY <2>1, <2>2, <2>3 DEF LastInv
    <3>2. l \in (k + 1)..Len(events') /\ events'[l] = events[l]
      BY <2>1, <2>2, <3>1
    <3> QED BY <3>1, <3>2 DEF Own, Claim
  <2>4. CASE e.kind = "newdev" /\ e.model = m /\ e.addr = a
    <3>1. Len(events') \in (k + 1)..Len(events') /\ events'[Len(events')] = e
      BY <2>1, <2>2
    <3> QED BY <2>4, <3>1 DEF Own, Claim
  <2> QED BY <1>3, <2>3, <2>4
<1>4. ASSUME NEW n \in Models, NEW b \in Addrs, Joined(n, b)
      PROVE  \E l \in (k + 1)..Len(events') : Own(l, m, a)'
  <2> DEFINE e == [kind |-> "newdev", model |-> n, addr |-> b]
  <2>1. e \in Announcement /\ events' = Append(events, e)
    BY <1>4 DEF Joined, Announcement
  <2>2. /\ net'[n] = b /\ \A q \in Models \ {n} : net'[q] = net[q]
    BY <1>4 DEF Joined, Types
  <2> QED BY <1>3, <2>1, <2>2
<1>5. ASSUME NEW e \in Announcement \cup PartReport, Spoken(e)
      PROVE  \E l \in (k + 1)..Len(events') : Own(l, m, a)'
  BY <1>3, <1>5 DEF Spoken
<1> QED BY <1>1, <1>2, <1>4, <1>5, QueueDoes

\* A step of a task keeps where a device is, unless it takes an announcement.
LEMMA TaskSettles ==
    ASSUME Types, TasksInv, MovesInv, [Next]_vars, ~NewDev,
           NEW m \in Models, NEW a, Settled(m, a)
    PROVE  Settled(m, a)'
<1>1. ASSUME DOMAIN recs' \subseteq DOMAIN recs,
             \A i \in DOMAIN recs' :
                recs'[i].model = recs[i].model /\ recs'[i].addr = recs[i].addr,
             Busy' => Busy /\ ev'.model = ev.model /\ ev'.addr = ev.addr,
             ev' = ev \/ ev.pc # "update"
      PROVE  Settled(m, a)'
  <2>1. ASSUME NEW i \in OfModel(m)'
        PROVE  i \in OfModel(m) /\ recs'[i].addr = recs[i].addr
    BY <1>1, <2>1 DEF OfModel
  <2>2. CASE ev' = ev
    BY <1>1, <2>1, <2>2 DEF Settled, Busy
  <2>3. CASE ev.pc # "update"
    BY <1>1, <2>1, <2>3 DEF Settled
  <2> QED BY <1>1, <2>2, <2>3
<1>2. CASE Outside \/ Delete \/ DeleteLeave \/ Reported \/ UNCHANGED vars
  <2>1. SameParts /\ SameAddrs /\ ev' = ev
    BY <1>2, OutsideDoes, DeleteDoes, DeleteLeaveDoes, ReportedDoes, Stays DEF vars
  <2> QED BY <1>1, <2>1 DEF SameParts, SameAddrs, Busy
<1>3. CASE DeleteOne
  BY <1>1, <1>3, DeleteOneDoes DEF Busy
<1>4. CASE Rebind \/ Conflict \/ Displace
  <2>1. SameParts /\ Busy /\ ev'.model = ev.model /\ ev'.addr = ev.addr
    BY <1>4, WorksDoes DEF Works
  <2>2. SameAddrs /\ ev.pc # "update"
    BY <1>4, RebindDoes, DisplaceDoes, Stays DEF Conflict
  <2> QED BY <1>1, <2>1, <2>2 DEF SameParts, SameAddrs
<1>5. CASE GetType
  <2>1. Busy /\ ev.pc = "type" /\ ev \in EvTask /\ recs' = recs
    BY <1>5, GetTypeDoes, TodoTypes
  <2>2. PICK from \in Models : \E todo \in SUBSET DOMAIN Parts[from] :
        ev' = IF todo = {} THEN [ev EXCEPT !.pc = "leave"]
              ELSE [ev EXCEPT !.pc = "conflict", !.from = from, !.todo = todo]
    BY <1>5, GetTypeDoes
  <2>3. ev'.model = ev.model /\ ev'.addr = ev.addr
    BY <2>1, <2>2 DEF EvTask
  <2> QED BY <1>1, <2>1, <2>3
<1>6. CASE AddPart
  <2>1. /\ Busy /\ ev \in EvTask /\ ev.pc = "add"
        /\ (\E i, k : Recorded(i, k)) \/ GivenUp
    BY <1>6, AddPartDoes, TodoTypes
  <2>2. ASSUME NEW h, NEW k, Recorded(h, k) PROVE Settled(m, a)'
    <3>1. /\ DOMAIN recs' = DOMAIN recs \cup {h} /\ recs'[h].model = ev.model
          /\ recs'[h].addr = ev.addr /\ \A j \in DOMAIN recs : recs'[j] = recs[j]
          /\ ev'.model = ev.model /\ ev'.addr = ev.addr
      BY <2>1, <2>2, RecordedGrows DEF Recorded
    <3>2. \A i \in OfModel(m)' : recs'[i].addr = a
      BY <2>1, <3>1 DEF OfModel, Settled
    <3> QED BY <2>1, <3>1, <3>2 DEF Settled
  <2>3. ASSUME GivenUp PROVE Settled(m, a)'
    <3>1. recs' = recs /\ ev'.model = ev.model /\ ev'.addr = ev.addr
      BY <2>1, <2>3 DEF GivenUp, EvTask
    <3> QED BY <1>1, <2>1, <3>1
  <2> QED BY <2>1, <2>2, <2>3
<1>7. CASE Leave
  <2>1. recs' = recs /\ ~Busy' /\ ev.pc # "update"
    BY <1>7, LeaveDoes DEF Busy
  <2> QED BY <1>1, <2>1
<1>8. CASE UpdateAddr
  <2>1. /\ Busy /\ ev.pc = "update" /\ SameParts /\ Next1("rebind", ev.found)
        /\ \A i \in DOMAIN recs : Moved(i)
        /\ ev.found \in SUBSET Ids /\ ev.list \subseteq ev.found
        /\ \A i \in DOMAIN recs : i \in ev.found => recs[i].model = ev.model
    BY <1>8, UpdateAddrDoes, UpdateAddrMoves, TodoTypes DEF EvTask, MovesInv
  <2>2. /\ ev'.model = ev.model /\ ev'.addr = ev.addr
        /\ \/ ev'.pc = ev.pc /\ ev'.list = Rest(ev.list)
           \/ Rest(ev.list) = {}
    BY <2>1, ListStep DEF EvSteps
  <2>3. Least(ev.list) \in ev.found
    <3>1. ev.list \subseteq Nat /\ ev.list # {}
      BY <2>1, IdTypes DEF TasksInv
    <3> QED BY <2>1, <3>1, LeastIn
  <2>4. ASSUME NEW i \in OfModel(m)'
        PROVE  recs'[i].addr = a \/ (Busy' /\ ev'.pc = "update" /\ ev'.model = m /\ i \in ev'.list)
    <3>1. i \in OfModel(m) /\ Moved(i) /\ recs[i].model = m /\ i \in DOMAIN recs
      BY <2>1, <2>4 DEF OfModel, SameParts
    <3>2. CASE i = Least(ev.list)
      <4>1. ev.model = m
        BY <2>1, <2>3, <3>1, <3>2
      <4> QED BY <2>1, <3>1, <3>2, <4>1 DEF Settled, Moved
    <3>3. CASE i # Least(ev.list)
      <4>1. recs'[i].addr = recs[i].addr
        BY <3>1, <3>3 DEF Moved
      <4>2. recs[i].addr = a \/ (ev.model = m /\ i \in Rest(ev.list))
        BY <3>1, <3>3 DEF Settled, Rest
      <4> QED BY <2>1, <2>2, <4>1, <4>2 DEF Busy
    <3> QED BY <3>2, <3>3
  <2>5. Busy' /\ ev'.model = m => ev'.addr = a
    BY <2>1, <2>2 DEF Settled
  <2> QED BY <2>4, <2>5 DEF Settled
<1> QED BY <1>2, <1>3, <1>4, <1>5, <1>6, <1>7, <1>8, Kinds DEF Works

LEMMA SettledStep ==
    ASSUME Types, TasksInv, OnceInv, MovesInv, LastInv, SettledInv, [Next]_vars
    PROVE  SettledInv'
<1> SUFFICES ASSUME NEW m \in Models, net'[m] # NoAddr,
                    \A k \in 1..Len(events') : ~Own(k, m, net[m])'
             PROVE  Settled(m, net[m])'
  BY DEF SettledInv
<1>0. PICK a : a = net'[m]
  OBVIOUS
<1>1. \A k \in 1..Len(events') : ~(Own(k, m, a))'
  BY <1>0 DEF Own, Claim
<1> SUFFICES Settled(m, a)'
  BY <1>0 DEF Settled
<1>2. ASSUME net[m] = a, \A k \in 1..Len(events) : ~Own(k, m, a) PROVE Settled(m, a)
  BY <1>0, <1>2 DEF SettledInv
<1>3. CASE NewDev
  <2>1. PICK q, b : q = Head(events).model /\ b = Head(events).addr
    OBVIOUS
  <2>2. /\ ~Busy /\ Taken /\ net' = net /\ recs' = recs /\ q \in Models
        /\ ev'.pc = IF OfModel(q) = {} THEN "type" ELSE "update"
        /\ ev'.model = q /\ ev'.addr = b /\ ev'.list = OfModel(q)
        /\ Head(events).kind = "newdev"
    BY <1>3, <2>1, NewDevDoes, Lookup DEF Taken, Announcement
  <2>3. /\ Len(events') = Len(events) - 1 /\ Len(events) \in Nat \ {0}
        /\ \A k \in 1..Len(events') : events'[k] = events[k + 1]
        /\ Head(events) = events[1]
    BY <2>2, HeardMoves, FirstEvent DEF Taken
  <2>4. ASSUME NEW k \in 2..Len(events) PROVE ~Own(k, m, a)
    <3>1. k - 1 \in 1..Len(events') /\ (k - 1) + 1 = k
      BY <2>3
    <3>2. events'[k - 1] = events[k] /\ ~(Own(k - 1, m, a))'
      BY <1>1, <2>3, <3>1
    <3> QED BY <3>2 DEF Own, Claim
  <2>5. CASE q = m
    <3>1. b = a
      <4>1. SUFFICES ASSUME b # a PROVE FALSE
        OBVIOUS
      <4>2. \E l \in (1 + 1)..Len(events) : Own(l, m, a)
        BY <1>0, <2>1, <2>2, <2>3, <2>5, <4>1 DEF LastInv
      <4> QED BY <2>4, <4>2
    <3>2. OfModel(m)' = OfModel(m)
      BY <2>2 DEF OfModel
    <3> QED BY <2>2, <2>5, <3>1, <3>2 DEF Settled, Busy
  <2>6. CASE q # m
    <3>1. \A k \in 1..Len(events) : k = 1 \/ k \in 2..Len(events)
      BY <2>3
    <3>2. \A k \in 1..Len(events) : ~Own(k, m, a)
      BY <2>1, <2>3, <2>4, <2>6, <3>1 DEF Own
    <3>3. Settled(m, a)
      BY <1>0, <1>2, <2>2, <3>2
    <3>4. OfModel(m)' = OfModel(m)
      BY <2>2 DEF OfModel
    <3> QED BY <2>2, <2>6, <3>3, <3>4 DEF Settled
  <2> QED BY <2>5, <2>6
<1>4. CASE ~NewDev
  <2>1. net[m] = a /\ \A k \in 1..Len(events) : ~Own(k, m, a)
    <3>1. CASE Silent
      BY <1>0, <1>1, <3>1 DEF Silent, Own, Claim
    <3>2. CASE Taken
      <4>1. /\ Len(events') = Len(events) - 1 /\ Len(events) \in Nat \ {0}
            /\ \A k \in 1..Len(events') : events'[k] = events[k + 1]
            /\ Head(events) = events[1] /\ net' = net
        BY <3>2, HeardMoves, FirstEvent DEF Taken
      <4>2. Head(events).kind # "newdev"
        <5>1. Reported \/ NewDev
          BY <3>2, TakenBy
        <5> QED BY <1>4, <5>1, ReportedDoes
      <4>3. ASSUME NEW k \in 1..Len(events) PROVE ~Own(k, m, a)
        <5>1. k = 1 \/ (k - 1 \in 1..Len(events') /\ (k - 1) + 1 = k)
          BY <4>1
        <5>2. CASE k = 1
          BY <4>1, <4>2, <5>2 DEF Own, Claim
        <5>3. CASE k - 1 \in 1..Len(events') /\ (k - 1) + 1 = k
          <6>1. events'[k - 1] = events[k] /\ ~(Own(k - 1, m, a))'
            BY <1>1, <4>1, <5>3
          <6> QED BY <6>1 DEF Own, Claim
        <5> QED BY <5>1, <5>2, <5>3
      <4> QED BY <1>0, <4>1, <4>3
    <3>3. ASSUME NEW e \in Announcement \cup PartReport, events' = Append(events, e)
          PROVE  \A k \in 1..Len(events) : ~Own(k, m, a)
      <4>1. /\ Len(events') = Len(events) + 1 /\ Len(events) \in Nat
            /\ \A i \in 1..Len(events) : events'[i] = events[i]
        BY <3>3, LastEvent
      <4>2. \A k \in 1..Len(events) : k \in 1..Len(events')
        BY <4>1
      <4> QED BY <1>1, <4>1, <4>2 DEF Own, Claim
    <3>4. ASSUME NEW n \in Models, NEW b \in Addrs, Joined(n, b)
          PROVE  net[m] = a /\ \A k \in 1..Len(events) : ~Own(k, m, a)
      <4> DEFINE e == [kind |-> "newdev", model |-> n, addr |-> b]
      <4>1. e \in Announcement /\ events' = Append(events, e)
        BY <3>4 DEF Joined, Announcement
      <4>2. /\ Len(events') \in 1..Len(events') /\ events'[Len(events')] = e
        BY <4>1, LastEvent
      <4>3. /\ net'[n] = b /\ \A q \in Models \ {n} : net'[q] = net[q]
        BY <3>4 DEF Joined, Types
      <4>4. n # m
        BY <1>0, <1>1, <4>2, <4>3 DEF Own, Claim
      <4> QED BY <1>0, <3>3, <4>1, <4>3, <4>4
    <3>5. ASSUME NEW e \in Announcement \cup PartReport, Spoken(e)
          PROVE  net[m] = a /\ \A k \in 1..Len(events) : ~Own(k, m, a)
      BY <1>0, <3>3, <3>5 DEF Spoken
    <3> QED BY <3>1, <3>2, <3>4, <3>5, QueueDoes
  <2> QED BY <1>2, <1>4, <2>1, TaskSettles
<1> QED BY <1>3, <1>4

-----------------------------------------------------------------------------
(* The theorems. *)

Inv ==
    /\ Types /\ TasksInv /\ OnceInv /\ DelsInv /\ AddsInv /\ AllOrNone /\ Known
    /\ crowded \subseteq Addrs

Whereabouts ==
    NetUnique /\ OrderInv /\ MovesInv /\ ClearInv /\ LastInv /\ SettledInv

LEMMA InvStart == Init => Inv
<1> SUFFICES ASSUME Init PROVE Inv
  OBVIOUS
<1>1. /\ net = [m \in Models |-> NoAddr] /\ recs = <<>> /\ DOMAIN recs = {}
      /\ events = <<>> /\ cmds = <<>> /\ ev = [pc |-> "idle"] /\ del = [pc |-> "idle"]
      /\ excused = {} /\ strangers = {} /\ crowded = {}
  BY DEF Init
<1>2. Types /\ TasksInv
  <2>1. RecTypes
    BY <1>1 DEF RecTypes
  <2>2. EventTypes /\ TaskTypes /\ TasksInv
    BY <1>1 DEF EventTypes, TaskTypes, TasksInv, Busy
  <2> QED BY <1>1, <2>1, <2>2 DEF Types
<1>3. ~Busy /\ \A m : OfModel(m) = {} /\ PartsOn(m) = {}
  BY <1>1 DEF Busy, OfModel, PartsOn
<1>4. OnceInv
  <2>1. Cardinality({}) <= MaxParts
    BY FS_EmptySet, BoundAssumption
  <2>2. OneRecordPerPart
    BY <1>1 DEF OneRecordPerPart
  <2> QED BY <1>3, <2>1, <2>2 DEF OnceInv
<1>5. DelsInv /\ AddsInv /\ AllOrNone /\ Known
  BY <1>1, <1>3 DEF DelsInv, AddsInv, AllOrNone, Known
<1> QED BY <1>1, <1>2, <1>4, <1>5 DEF Inv

LEMMA InvStep == Inv /\ [Next]_vars => Inv'
BY TypeStep, OnceStep, DelsStep, AddsStep, WholeStep, KnownStep, CrowdDoes DEF Inv

LEMMA WhereStart == Init => Whereabouts /\ Shared
<1> SUFFICES ASSUME Init PROVE Whereabouts /\ Shared
  OBVIOUS
<1>1. /\ net = [m \in Models |-> NoAddr] /\ recs = <<>> /\ DOMAIN recs = {}
      /\ events = <<>> /\ Len(events) = 0 /\ ev.pc = "idle"
  BY DEF Init
<1>2. /\ ~Busy
      /\ \A n \in Models, a \in Addrs : \A l \in 1..(Len(events) + 1) : ~Heard(l, n, a)
  BY <1>1, PartAssumption DEF Busy, Heard
<1>3. NetUnique /\ OrderInv /\ MovesInv /\ ClearInv
  BY <1>1, <1>2 DEF NetUnique, OrderInv, MovesInv, ClearInv
<1>4. LastInv /\ SettledInv
  BY <1>1 DEF LastInv, SettledInv
<1>5. TookInv /\ UpInv
  BY <1>1, <1>2 DEF TookInv, UpInv
<1> QED BY <1>3, <1>4, <1>5 DEF Whereabouts, Shared

LEMMA WhereStep == Inv /\ Whereabouts /\ [Next]_vars => Whereabouts'
<1> SUFFICES ASSUME Inv, Whereabouts, [Next]_vars PROVE Whereabouts'
  OBVIOUS
<1>1. NetUnique' /\ OrderInv'
  BY NetStep, OrderStep DEF Inv, Whereabouts
<1>2. MovesInv' /\ ClearInv'
  BY MovesStep, ClearStep DEF Inv, Whereabouts
<1>3. LastInv' /\ SettledInv'
  BY LastStep, SettledStep DEF Inv, Whereabouts
<1> QED BY <1>1, <1>2, <1>3 DEF Whereabouts

LEMMA WhereTrue == Inv /\ Whereabouts => AddressTrue
<1> SUFFICES ASSUME Inv, Whereabouts, Quiet, NEW i \in DOMAIN recs
             PROVE  net[recs[i].model] \in {NoAddr, recs[i].addr}
  BY DEF AddressTrue
<1>1. PICK m \in Models : m = recs[i].model
  BY DEF Inv, Types, RecTypes, Record
<1>2. ~Busy /\ Len(events) = 0
  BY DEF Quiet, Busy
<1>3. net[m] # NoAddr => Settled(m, net[m])
  BY <1>2 DEF Whereabouts, SettledInv
<1>4. net[m] # NoAddr => recs[i].addr = net[m]
  BY <1>1, <1>2, <1>3 DEF Settled, OfModel
<1> QED BY <1>1, <1>4

LEMMA SharedUnique == Shared => AddressUnique
<1> SUFFICES ASSUME Shared, Quiet, NEW i \in DOMAIN recs, NEW j \in DOMAIN recs,
                    recs[i].up, recs[j].up, recs[i].addr = recs[j].addr,
                    recs[i].model # recs[j].model, recs[i].addr \notin crowded,
                    {recs[i].model, recs[j].model} \cap strangers = {}
             PROVE  FALSE
  BY DEF AddressUnique
<1>1. Clash(i, j) /\ ~ToDisplace(i) /\ ~ToDisplace(j)
  BY DEF Clash, Stray, ToDisplace, Busy, Quiet
<1> QED BY <1>1 DEF Shared, UpInv

LEMMA SharedReports == Types /\ Shared => ReportsOwn
<1> DEFINE e == Head(events)
           i == Least(Found(e))
<1> SUFFICES ASSUME Types, Shared, ev.pc = "idle", events # <<>>, e.kind = "report",
                    Found(e) # {}, recs[i].model # e.model, recs[i].up,
                    recs[i].model \notin strangers, e.model \notin excused,
                    e.addr \notin crowded
             PROVE  FALSE
  BY DEF ReportsOwn
<1>1. i \in DOMAIN recs /\ recs[i].addr = e.addr
  BY FoundIds
<1>2. Took(e.model, e.addr) /\ e.model \in Talkers
  BY SenderTook DEF Shared
<1>3. Here(e.model, e.addr) /\ Stray(i, e.model, e.addr) /\ ~ToDisplace(i)
  BY <1>1, <1>2 DEF Here, Stray, ToDisplace, Busy
<1> QED BY <1>1, <1>2, <1>3 DEF Took

LEMMA InvWhole == Inv => PartsSound
<1> SUFFICES ASSUME Inv PROVE PartsSound
  OBVIOUS
<1>1. /\ Types /\ TasksInv /\ OneRecordPerPart /\ AllOrNone /\ Known
      /\ crowded \subseteq Addrs
  BY DEF Inv, OnceInv
<1>2. TypeOK
  <2>1. recs \in [DOMAIN recs -> Record] /\ DOMAIN recs \subseteq Ids
    BY <1>1 DEF Types, RecTypes
  <2>2. ev.pc \in EvSteps /\ del.pc \in {"idle", "delete", "leave"}
    BY <1>1 DEF Types, TaskTypes, EvTask, DelTask, EvSteps
  <2> QED BY <1>1, <2>1, <2>2 DEF TypeOK, Types, TasksInv, Busy, EvSteps
<1>3. ASSUME Quiet, NEW m \in Models \ excused
      PROVE  PartsOn(m) \in {{}, Range(Parts[m])} /\ (net[m] # NoAddr => PartsOn(m) # {})
  <2>1. events = <<>> /\ ~Busy /\ del.pc = "idle"
    BY <1>3 DEF Quiet, Busy
  <2>2. PartsOn(m) = {} \/ PartsOn(m) = Range(Parts[m])
    BY <1>1, <2>1 DEF AllOrNone, Unfinished
  <2>3. ~Announced(m)
    BY <2>1 DEF Announced
  <2>4. net[m] # NoAddr => OfModel(m) # {}
    BY <1>1, <2>1, <2>3 DEF Known
  <2>5. OfModel(m) # {} => PartsOn(m) # {}
    BY DEF PartsOn
  <2> QED BY <2>2, <2>4, <2>5
<1>4. WholeDevice
  BY <1>3 DEF WholeDevice
<1> QED BY <1>1, <1>2, <1>4 DEF PartsSound

\* Whatever joins, comes back, moves, is dropped or deleted, in whatever order
\* and although announcements wait behind the queries of others: no part is
\* recorded twice, and once the announcements are dealt with a device is
\* recorded with all its parts or with none, with all if it is in the network;
\* except for the ones of which a query failed, for which there was no room, or
\* that were deleted or replaced while they were added.
THEOREM PartsWhole == Spec => []PartsSound
<1>1. Init => Inv
  BY InvStart
<1>2. Inv /\ [Next]_vars => Inv'
  BY InvStep
<1>3. Inv => PartsSound
  BY InvWhole
<1> QED BY <1>1, <1>2, <1>3, PTL DEF Spec

\* Once the announcements are dealt with, the address on record is the one the
\* device has, although it may have got it while its earlier announcement was
\* worked on or was still to be (update_devs_nwkaddr_by_type_modelid).
THEOREM AddressKept == Spec => []AddressTrue
<1>1. Init => Inv /\ Whereabouts
  BY InvStart, WhereStart
<1>2. (Inv /\ Whereabouts) /\ [Next]_vars => (Inv /\ Whereabouts)'
  BY InvStep, WhereStep
<1>3. Inv /\ Whereabouts => AddressTrue
  BY WhereTrue
<1> QED BY <1>1, <1>2, <1>3, PTL DEF Spec

LEMMA WhoStart == Init => Inv /\ Whereabouts /\ Shared
BY InvStart, WhereStart

LEMMA WhoStep ==
    Inv /\ Whereabouts /\ Shared /\ [Next]_vars => (Inv /\ Whereabouts /\ Shared)'
<1>1. Inv /\ Whereabouts /\ Shared /\ [Next]_vars => Shared'
  BY SharedStep DEF Inv, Whereabouts
<1> QED BY <1>1, InvStep, WhereStep

\* And no two devices that are both reachable have the same address on record:
\* but where there were more records of the address than find_devs_by_nwkaddr
\* takes, and but for a device that had the report of another.
THEOREM AddressesKept == Spec => []AddressesSound
<1>1. Init => Inv /\ Whereabouts /\ Shared
  BY WhoStart
<1>2. (Inv /\ Whereabouts /\ Shared) /\ [Next]_vars => (Inv /\ Whereabouts /\ Shared)'
  BY WhoStep
<1>3. Inv /\ Whereabouts /\ Shared => AddressesSound
  BY WhereTrue, SharedUnique DEF AddressesSound
<1> QED BY <1>1, <1>2, <1>3, PTL DEF Spec

\* The record that a report of another device is entered for has been marked by
\* then, whatever types and clusters the two have: the sender was announced at
\* the address first, and has displaced whoever had it (zigbee_report_deal).
\* Except for a device that had such a report before, for a sender of which a
\* query failed, and where there were more records of the address than fit.
THEOREM ReportsSafe == Spec => []ReportsOwn
<1>1. Init => Inv /\ Whereabouts /\ Shared
  BY WhoStart
<1>2. (Inv /\ Whereabouts /\ Shared) /\ [Next]_vars => (Inv /\ Whereabouts /\ Shared)'
  BY WhoStep
<1>3. Inv /\ Whereabouts /\ Shared => ReportsOwn
  BY SharedReports DEF Inv
<1> QED BY <1>1, <1>2, <1>3, PTL DEF Spec

=============================================================================
