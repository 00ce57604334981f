------------------------------- MODULE DevJoin -------------------------------
(***************************************************************************)
(* Devices that join, come back with another address, and are deleted:     *)
(* zigbee_manage.c, with the functions of dev_if.c that go through all     *)
(* devices of a model id or of an address.                                 *)
(*                                                                         *)
(* A physical device is known by its model id.  It has one or more parts,  *)
(* each at an endpoint, and a record is kept of each part.  The event task *)
(* works through the announcements one after the other and waits for the   *)
(* answers to its queries; the API deletes devices meanwhile.              *)
(*                                                                         *)
(* Queries go to an address: who has it by then answers.                   *)
(***************************************************************************)
EXTENDS DevIf, SequencesExt

CONSTANTS
    Models,        \* model ids of devices
    Parts,         \* per model: a sequence of parts [ep, type], as it has them
    Mode,          \* per model: its colour or control mode
    Addrs,         \* network addresses
    MaxRecs,       \* MUI_LOGIC_DEV_NUM_MAX
    MaxParts,      \* MUI_AT_DEV_EP_NUM_MAX, the size of asEpList and asDevIdx
    MaxJoins,      \* bound: devices that join or come back
    MaxMishaps,    \* bound: devices switched off or deleted, queries unanswered
    MaxReports     \* bound: reports of devices

NoAddr == "none"

\* No device has two parts that are the same, and none has more than there is
\* room for: four, of a switch or a panel, the comments at asDevIdx say.
ASSUME PartAssumption ==
    /\ \A m \in Models :
        /\ Parts[m] \in Seq([ep: Nat, type: DevTypes]) /\ Len(Parts[m]) <= MaxParts
        /\ \A k, l \in DOMAIN Parts[m] : Parts[m][k] = Parts[m][l] => k = l
    /\ NoAddr \notin Addrs
ASSUME BoundAssumption ==
    /\ MaxRecs \in Nat \ {0} /\ MaxParts \in Nat \ {0} /\ MaxJoins \in Nat
    /\ MaxMishaps \in Nat /\ MaxReports \in Nat

VARIABLES
    net,           \* addresses that devices have in the network
    recs,          \* records, by id
    events,        \* events not yet dealt with
    cmds,          \* devices to search for, as commands queued
    ev,            \* the event task
    del,           \* the API's deletion
    used,          \* joins, mishaps and reports so far
    excused,       \* history: devices of which a query failed, or that changed
                   \* hands or were deleted while they were added
    strangers,     \* history: devices whose records had the report of another device
    crowded        \* history: addresses with more records than fit, at a conflict

vars == <<net, recs, events, cmds, ev, del, used, excused, strangers, crowded>>

Ids == 1..MaxRecs

\* Lists of records and of endpoints are in ascending order: they are kept as
\* sets, of which the least is taken first.
Least(ids) == CHOOSE i \in ids : \A j \in ids : i <= j
Rest(ids) == ids \ {Least(ids)}

Init ==
    /\ net = [m \in Models |-> NoAddr] /\ recs = <<>>
    /\ events = <<>> /\ cmds = <<>>
    /\ ev = [pc |-> "idle"] /\ del = [pc |-> "idle"]
    /\ used = [joins |-> 0, mishaps |-> 0, reports |-> 0]
    /\ excused = {} /\ strangers = {} /\ crowded = {}

Use(what) == used' = [used EXCEPT ![what] = @ + 1]

\* A query may always go unanswered; it does if nobody has the address.
MayFail(who) == who = {} \/ used.mishaps < MaxMishaps
Fail(who) == IF who = {} THEN UNCHANGED used ELSE Use("mishaps")
At(addr) == {m \in Models : net[m] = addr}
OnNet(m) == IF net[m] = NoAddr THEN {} ELSE {m}

-----------------------------------------------------------------------------
(* The devices, and the task that sends commands.                           *)

\* The coordinator gives no address twice at a time.
Join(m) ==
    /\ used.joins < MaxJoins /\ Use("joins")
    /\ \E a \in Addrs :
        /\ At(a) \subseteq {m}
        /\ net' = [net EXCEPT ![m] = a]
        /\ events' = Append(events, [kind |-> "newdev", model |-> m, addr |-> a])
    /\ UNCHANGED <<recs, cmds, ev, del, excused, strangers, crowded>>

Drop(m) ==
    /\ net[m] # NoAddr
    /\ used.mishaps < MaxMishaps /\ Use("mishaps")
    /\ net' = [net EXCEPT ![m] = NoAddr]
    /\ UNCHANGED <<recs, events, cmds, ev, del, excused, strangers, crowded>>

\* What a part reports: the clusters that it is bound for, or that are known of
\* its type.
Clusters(t, mode) ==
    {c \in DOMAIN SearchOrder : c \in Bound(t, mode) \/ t \in Range(SearchOrder[c])}

\* A report names the address, the endpoint and the cluster, not the type.
Report(m) ==
    /\ net[m] # NoAddr
    /\ used.reports < MaxReports /\ Use("reports")
    /\ \E p \in Range(Parts[m]) : \E c \in Clusters(p.type, Mode[m]) :
        events' = Append(events, [kind |-> "report", model |-> m, addr |-> net[m],
                                  ep |-> p.ep, cluster |-> c])
    /\ UNCHANGED <<net, recs, cmds, ev, del, excused, strangers, crowded>>

\* SCAN: the device, if it is there, announces itself again.
SendScan ==
    /\ cmds # <<>>
    /\ events' = LET m == Head(cmds)
                 IN IF net[m] = NoAddr THEN events
                    ELSE Append(events, [kind |-> "newdev", model |-> m, addr |-> net[m]])
    /\ cmds' = Tail(cmds)
    /\ UNCHANGED <<net, recs, ev, del, used, excused, strangers, crowded>>

-----------------------------------------------------------------------------
(* dev_if.c: all records of a model, all records at an address.             *)

OfModel(m) == {i \in DOMAIN recs : recs[i].model = m}
AtAddr(a) == {i \in DOMAIN recs : recs[i].addr = a}

\* find_devs_by_modelid: more than fit are an error, as are none.
FindByModel(m) ==
    IF Cardinality(OfModel(m)) > MaxParts THEN {} ELSE OfModel(m)

\* find_devs_by_nwkaddr: so are as many as fit.
FindByAddr(a) ==
    IF Cardinality(AtAddr(a)) >= MaxParts THEN {} ELSE AtAddr(a)

-----------------------------------------------------------------------------
(* zigbee_new_dev_deal.                                                     *)

NewDev ==
    /\ ev.pc = "idle" /\ events # <<>> /\ Head(events).kind = "newdev"
    /\ LET e == Head(events)
           list == FindByModel(e.model)
       IN ev' = [pc |-> IF list = {} THEN "type" ELSE "update", model |-> e.model,
                 addr |-> e.addr, list |-> list, found |-> list,
                 from |-> e.model, todo |-> {}]
    /\ events' = Tail(events)
    /\ UNCHANGED <<net, recs, cmds, del, used, excused, strangers, crowded>>

\* The next of the list, or, at its end, pc.
Next1(pc, list) ==
    ev' = IF Rest(ev.list) # {} THEN [ev EXCEPT !.list = Rest(@)]
          ELSE [ev EXCEPT !.pc = pc, !.list = list]

\* Slip: only a device that was given up gets its new address.
UpdateAddrIfDown ==
    /\ ev.pc = "update"
    /\ LET i == Least(ev.list)
       IN recs' = IF i \in DOMAIN recs /\ ~recs[i].up
                  THEN [recs EXCEPT ![i].up = TRUE, ![i].addr = ev.addr] ELSE recs
    /\ Next1("rebind", ev.found)
    /\ UNCHANGED <<net, events, cmds, del, used, excused, strangers, crowded>>

\* update_devs_nwkaddr_by_type_modelid, for one record.
UpdateAddr ==
    /\ ev.pc = "update"
    /\ LET i == Least(ev.list)
       IN recs' = IF i \in DOMAIN recs
                  THEN [recs EXCEPT ![i].up = TRUE, ![i].addr = ev.addr] ELSE recs
    /\ Next1("rebind", ev.found)
    /\ UNCHANGED <<net, events, cmds, del, used, excused, strangers, crowded>>

\* Slip: a device that is back at an address is not in conflict with anyone.
RebindNoConflict ==
    /\ ev.pc = "rebind"
    /\ LET i == Least(ev.list)
           bound == i \in DOMAIN recs /\ Bound(recs[i].type, Mode[ev.model]) # {}
       IN \/ recs' = (IF bound /\ OnNet(ev.model) # {}
                      THEN [recs EXCEPT ![i].up = TRUE] ELSE recs)
             /\ UNCHANGED used
          \/ bound /\ MayFail(OnNet(ev.model)) /\ Fail(OnNet(ev.model)) /\ UNCHANGED recs
    /\ Next1("idle", {})
    /\ UNCHANGED <<net, events, cmds, del, excused, strangers, crowded>>

\* rebind_dev, for one record: whether it works is not looked at.
Rebind ==
    /\ ev.pc = "rebind"
    /\ LET i == Least(ev.list)
           bound == i \in DOMAIN recs /\ Bound(recs[i].type, Mode[ev.model]) # {}
       IN \/ recs' = (IF bound /\ OnNet(ev.model) # {}
                      THEN [recs EXCEPT ![i].up = TRUE] ELSE recs)
             /\ UNCHANGED used
          \/ bound /\ MayFail(OnNet(ev.model)) /\ Fail(OnNet(ev.model)) /\ UNCHANGED recs
    /\ Next1("conflict", {})
    /\ UNCHANGED <<net, events, cmds, del, excused, strangers, crowded>>

\* zigbee_get_dev_type: endpoints that do not answer are left out; a device
\* without any, and one that does not answer, is asked to leave.
GetType ==
    /\ ev.pc = "type"
    /\ LET who == At(ev.addr)
           from == CHOOSE m \in who : TRUE
           parts == IF who = {} THEN <<>> ELSE Parts[from]
       IN \E silent \in SUBSET {p.ep : p \in Range(parts)} :
            LET todo == {k \in DOMAIN parts : parts[k].ep \notin silent}
            IN /\ silent # {} => used.mishaps < MaxMishaps
               /\ IF silent # {} THEN Use("mishaps") ELSE UNCHANGED used
               /\ ev' = IF todo = {} THEN [ev EXCEPT !.pc = "leave"]
                        ELSE [ev EXCEPT !.pc = "conflict", !.from = from, !.todo = todo]
               /\ excused' = IF silent # {} \/ who # {ev.model}
                             THEN excused \cup {ev.model} ELSE excused
    /\ UNCHANGED <<net, recs, events, cmds, del, strangers, crowded>>

\* check_confilct_zb_nwkaddr.
After == IF ev.todo = {} THEN "idle" ELSE "add"

Conflict ==
    /\ ev.pc = "conflict"
    /\ LET list == FindByAddr(ev.addr)
       IN /\ ev' = [ev EXCEPT !.pc = IF list = {} THEN After ELSE "displace", !.list = list]
          /\ crowded' = IF list # AtAddr(ev.addr) THEN crowded \cup {ev.addr} ELSE crowded
    /\ UNCHANGED <<net, recs, events, cmds, del, used, excused, strangers>>

\* Slip: the other device is searched for but not marked.
DisplaceUnmarked ==
    /\ ev.pc = "displace"
    /\ LET i == Least(ev.list)
           other == i \in DOMAIN recs /\ recs[i].up /\ recs[i].model # ev.model
       IN cmds' = IF other THEN Append(cmds, ev.model) ELSE cmds
    /\ Next1(After, {})
    /\ UNCHANGED <<net, recs, events, del, used, excused, strangers, crowded>>

\* What is searched for is the device that has just announced itself.
Displace ==
    /\ ev.pc = "displace"
    /\ LET i == Least(ev.list)
           other == i \in DOMAIN recs /\ recs[i].up /\ recs[i].model # ev.model
       IN /\ recs' = IF other THEN [recs EXCEPT ![i].up = FALSE] ELSE recs
          /\ cmds' = IF other THEN Append(cmds, ev.model) ELSE cmds
    /\ Next1(After, {})
    /\ UNCHANGED <<net, events, del, used, excused, strangers, crowded>>

With(i, record) == [j \in DOMAIN recs \cup {i} |-> IF j = i THEN record ELSE recs[j]]

\* Slip: a part that cannot be added is passed over.
AddPartOrSkip ==
    /\ ev.pc = "add"
    /\ LET p == Parts[ev.from][Least(ev.todo)]
           add == Add(p.type, Mode[ev.model])
           free == Ids \ DOMAIN recs
       IN \/ /\ free # {}
             /\ recs' = With(Least(free), [model |-> ev.model, ep |-> p.ep, type |-> p.type,
                                          addr |-> ev.addr, up |-> add.reachable = 1])
             /\ UNCHANGED <<used, excused>>
          \/ UNCHANGED <<recs, used, excused>>
    /\ ev' = [ev EXCEPT !.todo = Rest(@), !.pc = IF Rest(ev.todo) = {} THEN "idle" ELSE @]
    /\ UNCHANGED <<net, events, cmds, del, strangers, crowded>>

\* add_dev, for one part: the device is asked for its version and to join
\* groups, which may fail, and its clusters are bound, which may not; then there
\* must be room.
AddPart ==
    /\ ev.pc = "add"
    /\ LET p == Parts[ev.from][Least(ev.todo)]
           add == Add(p.type, Mode[ev.model])
           free == Ids \ DOMAIN recs
       IN \/ /\ add.binds = {} \/ OnNet(ev.model) # {}
             /\ free # {}
             /\ recs' = With(Least(free), [model |-> ev.model, ep |-> p.ep, type |-> p.type,
                                          addr |-> ev.addr, up |-> add.reachable = 1])
             /\ ev' = [ev EXCEPT !.todo = Rest(@),
                            !.pc = IF Rest(ev.todo) = {} THEN "idle" ELSE @]
             /\ UNCHANGED <<used, excused>>
          \/ /\ \/ add.binds # {} /\ MayFail(OnNet(ev.model)) /\ Fail(OnNet(ev.model))
                \/ free = {} /\ UNCHANGED used
             /\ ev' = [ev EXCEPT !.pc = "leave", !.todo = {}]
             /\ excused' = excused \cup {ev.model}
             /\ UNCHANGED recs
    /\ UNCHANGED <<net, events, cmds, del, strangers, crowded>>

\* zigbee_dev_del: the device is asked to leave, by its model id.
Leaves(m) ==
    \/ net' = [net EXCEPT ![m] = NoAddr] /\ UNCHANGED <<used, excused>>
    \/ /\ OnNet(m) # {} /\ MayFail(OnNet(m)) /\ Fail(OnNet(m))
       /\ excused' = excused \cup {m}
       /\ UNCHANGED net

Leave ==
    /\ ev.pc = "leave"
    /\ Leaves(ev.model)
    /\ ev' = [pc |-> "idle"]
    /\ UNCHANGED <<recs, events, cmds, del, strangers, crowded>>

-----------------------------------------------------------------------------
(* zigbee_report_deal, as far as it finds and revives a device.             *)

\* search_dev_by_type_nwkaddr_ep: whether a record is reachable is not looked at.
Search(type, addr, ep) ==
    {i \in AtAddr(addr) : recs[i].type = type /\ recs[i].ep = ep}

\* The types that have the cluster are tried one after the other.
Found(e) ==
    {i \in AtAddr(e.addr) :
        \E k \in DOMAIN SearchOrder[e.cluster] :
            /\ i \in Search(SearchOrder[e.cluster][k], e.addr, e.ep)
            /\ \A l \in 1..(k - 1) : Search(SearchOrder[e.cluster][l], e.addr, e.ep) = {}}

\* update_<type>_state_<field>: only that of the power of a humidity sensor is
\* given up when the sensor is not reachable.
Field(cluster) == IF cluster \in {"onoff", "occ", "bin"} THEN "on" ELSE cluster
Takes(i, e) == recs[i].up \/ UpdateState[recs[i].type][Field(e.cluster)].revives

Reported ==
    /\ ev.pc = "idle" /\ events # <<>> /\ Head(events).kind = "report"
    /\ LET e == Head(events)
           i == Least(Found(e))
       IN IF Found(e) # {} /\ Takes(i, e)
          THEN /\ recs' = [recs EXCEPT ![i].up = TRUE]
               /\ strangers' = strangers \cup ({recs[i].model} \ {e.model})
          ELSE UNCHANGED <<recs, strangers>>
    /\ events' = Tail(events)
    /\ UNCHANGED <<net, cmds, ev, del, used, excused, crowded>>

-----------------------------------------------------------------------------
(* The API: del_<type>, del_devs_data_by_modelid.                           *)

\* All parts of the device go, whichever was named.
Delete ==
    /\ del.pc = "idle"
    /\ used.mishaps < MaxMishaps /\ Use("mishaps")
    /\ \E i \in DOMAIN recs :
        LET m == recs[i].model
            list == FindByModel(m)
        IN /\ del' = IF list = {} THEN del ELSE [pc |-> "delete", model |-> m, list |-> list]
           /\ excused' = IF ev.pc # "idle" /\ ev.model = m THEN excused \cup {m} ELSE excused
    /\ UNCHANGED <<net, recs, events, cmds, ev, strangers, crowded>>

DeleteOne ==
    /\ del.pc = "delete"
    /\ recs' = [i \in DOMAIN recs \ {Least(del.list)} |-> recs[i]]
    /\ del' = [del EXCEPT !.list = Rest(@), !.pc = IF Rest(del.list) = {} THEN "leave" ELSE @]
    /\ UNCHANGED <<net, events, cmds, ev, used, excused, strangers, crowded>>

DeleteLeave ==
    /\ del.pc = "leave"
    /\ Leaves(del.model)
    /\ del' = [pc |-> "idle"]
    /\ UNCHANGED <<recs, events, cmds, ev, strangers, crowded>>

-----------------------------------------------------------------------------

EventTask ==
    \/ NewDev \/ UpdateAddr \/ Rebind \/ GetType \/ Conflict \/ Displace \/ AddPart
    \/ Leave \/ Reported
ApiTask == DeleteOne \/ DeleteLeave

Next ==
    \/ \E m \in Models : Join(m) \/ Drop(m) \/ Report(m)
    \/ SendScan \/ EventTask \/ Delete \/ ApiTask

\* The tasks are threads of their own, and no query waits for ever.
Spec ==
    Init /\ [][Next]_vars /\ WF_vars(SendScan) /\ WF_vars(EventTask) /\ WF_vars(ApiTask)

-----------------------------------------------------------------------------
(* Properties.                                                              *)

Record == [model: Models, ep: Nat, type: DevTypes, addr: Addrs, up: BOOLEAN]

TypeOK ==
    /\ net \in [Models -> Addrs \cup {NoAddr}]
    /\ DOMAIN recs \subseteq Ids /\ \A i \in DOMAIN recs : recs[i] \in Record
    /\ ev.pc \in {"idle", "update", "rebind", "type", "conflict", "displace", "add", "leave"}
    /\ del.pc \in {"idle", "delete", "leave"}
    /\ ev.pc \in {"update", "rebind", "displace"} => ev.list # {}
    /\ ev.pc = "add" => ev.todo # {}
    /\ excused \subseteq Models /\ strangers \subseteq Models /\ crowded \subseteq Addrs

Quiet == events = <<>> /\ cmds = <<>> /\ ev.pc = "idle" /\ del.pc = "idle"

\* Two devices that are both reachable never have the same address, once the
\* announcements are dealt with: commands for one would be carried out by the
\* other (check_confilct_zb_nwkaddr).  Except for a device that had the report
\* of another, which revives its record, and for an address of which there were
\* more records than find_devs_by_nwkaddr takes.
AddressUnique ==
    Quiet => \A i, j \in DOMAIN recs :
        recs[i].up /\ recs[j].up /\ recs[i].addr = recs[j].addr
            => \/ recs[i].model = recs[j].model \/ recs[i].addr \in crowded
               \/ {recs[i].model, recs[j].model} \cap strangers # {}

\* The address on record is the one the device has, whatever it had before, and
\* although announcements queue up behind the queries of others.
AddressTrue ==
    Quiet => \A i \in DOMAIN recs : net[recs[i].model] \in {NoAddr, recs[i].addr}

PartsOn(m) == {[ep |-> recs[i].ep, type |-> recs[i].type] : i \in OfModel(m)}

\* A device is recorded with all its parts or with none, and with all if it is
\* in the network: unless a query failed, there was no room, or it was deleted
\* or replaced in the middle of it.
WholeDevice ==
    Quiet => \A m \in Models \ excused :
        /\ PartsOn(m) \in {{}, Range(Parts[m])}
        /\ net[m] # NoAddr => PartsOn(m) # {}

\* No part is recorded twice, however often its device comes back.
OneRecordPerPart ==
    \A i, j \in DOMAIN recs :
        recs[i].model = recs[j].model /\ recs[i].ep = recs[j].ep
            /\ recs[i].type = recs[j].type => i = j

\* A report that is about to be entered for another device than the one that
\* sent it finds that one marked: by the time its report is dealt with the
\* sender has displaced whoever was at its address (zigbee_report_deal does not
\* look at reachable, nor for the sender).  Except for a device that had such a
\* report before, for a sender that could not be added, and for an address of
\* which there were more records than find_devs_by_nwkaddr takes.
ReportsOwn ==
    ev.pc = "idle" /\ events # <<>> /\ Head(events).kind = "report"
        => LET e == Head(events)
               i == Least(Found(e))
           IN Found(e) = {} \/ recs[i].model = e.model \/ ~recs[i].up
                \/ recs[i].model \in strangers \/ e.model \in excused
                \/ e.addr \in crowded

\* The searches that conflicts cause do not go on for ever.
Settles == <>[](cmds = <<>>)

\* Addresses on record are right and not shared.
AddressesSound == AddressUnique /\ AddressTrue

\* Devices are recorded whole and once.
PartsSound == TypeOK /\ WholeDevice /\ OneRecordPerPart
=============================================================================
