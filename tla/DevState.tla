------------------------------ MODULE DevState -------------------------------
(***************************************************************************)
(* The state of devices: what the gateway has on record, what the devices  *)
(* do, and what clients are told.  dev_if/, with the threads around it:    *)
(*                                                                         *)
(*   callers        set a state: queue a command, write the record, and    *)
(*                  (the JSON API only) report                             *)
(*   command task   sends the queued commands; failures count against the  *)
(*                  device, which is given up and searched for             *)
(*   event task     finds the device an event is from, compares with the   *)
(*                  record, writes and reports what has changed            *)
(*                                                                         *)
(* The record is written before the command is sent.  The files, the       *)
(* records and the queues are taken one access at a time; their own        *)
(* interleavings are those of DevTable and RingBuffer.                     *)
(***************************************************************************)
EXTENDS DevIf, SequencesExt

CONSTANTS
    Sites,         \* devices that are there together: types, each with its mode
    Callers,       \* threads that set states
    Api,           \* those that answer the API; the others are rules and sets
    ScanLimit,     \* MUI_DEV_AT_ERR_SCAN_LIMIT
    MaxSets,       \* bound: states set
    MaxFails,      \* bound: commands without an answer
    MaxInputs      \* bound, by site: of these, of changes of devices and of changerpt

Modes(t) ==
    CASE t = "light" -> {"ct", "xy"}
      [] t = "switch" -> {"on_off", "level", "multi"}
      [] t \notin {"light", "switch"} -> {"none"}

ASSUME SiteAssumption ==
    /\ \A s \in Sites :
        DOMAIN s \subseteq DevTypes /\ \A t \in DOMAIN s : s[t] \in Modes(t)
    /\ Api \subseteq Callers
ASSUME LimitAssumption ==
    /\ ScanLimit \in Nat \ {0, 1}
    /\ MaxSets \in Nat /\ MaxFails \in Nat
    /\ MaxInputs \in [{DOMAIN m : m \in Sites} -> Nat]

VARIABLES
    site,          \* the devices that are there, one of a type
    ram, file,     \* records and files
    phys,          \* what the devices do
    job,           \* per caller: the state it sets, and how far it is
    cmds,          \* commands queued
    scan,          \* the device the command task is about to give up, or "none"
    events,        \* events received
    upd,           \* the event dealt with
    seen,          \* what clients were last told
    used,          \* sets, failures and inputs so far, and the first tick
    failed,        \* history: failed commands per device
    stray,         \* history: fields whose record may rightly be wrong
    unseen,        \* history: fields that clients may rightly see wrong
    hushed,        \* history: fields last written by one who does not report
    rises          \* history: how often a device went on

vars == <<site, ram, file, phys, job, cmds, scan, events, upd, seen, used,
          failed, stray, unseen, hushed, rises>>

-----------------------------------------------------------------------------
(* Devices.                                                                 *)

Mode(t) == IF "colormode" \in DOMAIN ram[t] THEN ram[t].colormode ELSE "none"

\* A temperature and humidity sensor is two devices at one endpoint.
Endpoint(t) == IF t = "hum_sensor" THEN "temp_sensor" ELSE t
At(t, f) ==
    IF f = "power" /\ Endpoint(t) \in site THEN phys[Endpoint(t)].power ELSE phys[t][f]

Cluster(t, f) ==
    CASE f = "on" /\ t = "bin_sensor" -> "bin"
      [] f = "on" /\ t = "occ_sensor" -> "occ"
      [] f = "on" /\ t \notin {"bin_sensor", "occ_sensor"} -> "onoff"
      [] f \in {"level", "power", "temp", "hum"} -> f
      [] f \in {"play", "volume"} -> "sonos"
      [] OTHER -> "none"

\* The state of a device, without what only the record has.
Fields(t) ==
    DOMAIN Default(t, "none")
        \ {"reachable", "count", "colormode", "consumption", "alert", "effect", "sat", "hue"}

\* The fields of its mode.
Working(t) ==
    {f \in Fields(t) :
        /\ t = "switch" /\ Mode(t) = "on_off" => f # "level"
        /\ t = "switch" /\ Mode(t) = "level" => f # "on"
        /\ t = "light" /\ f \in {"ct", "xy"} => Mode(t) = f}

\* Whose event search_dev_by_type_nwkaddr_ep takes it for: the first's that is
\* there, or nobody's.
Receivers(cluster, ep) ==
    LET order == SearchOrder[cluster]
        fits == {i \in DOMAIN order : order[i] \in site /\ Endpoint(order[i]) = ep}
    IN IF cluster \in DOMAIN SearchOrder
       THEN {order[i] : i \in {k \in fits : \A l \in fits : k <= l}} ELSE {}
Heard(t, f) ==
    Cluster(t, f) = "sonos" \/ t \in Receivers(Cluster(t, f), Endpoint(t))

\* A device tells of the clusters it was bound for; lights and players are not
\* asked to.
Tells(t, f) ==
    \/ Cluster(t, f) \in Bound(t, Mode(t)) \cup {"sonos"}
    \/ t = "light" /\ Cluster(t, f) = "onoff"

\* The devices that have the same f.
Sharing(t, f) == {u \in site : u = t \/ (f = "power" /\ Endpoint(u) = Endpoint(t))}

\* What device t does becomes vals, by command or by itself.
Become(t, vals) ==
    LET new == {f \in DOMAIN vals \cap Fields(t) : vals[f] # At(t, f)}
        ep == Endpoint(t)
    IN /\ phys' = [u \in site |->
            [f \in Fields(u) |->
                IF f \in new /\ u \in Sharing(t, f)
                THEN vals[f] ELSE phys[u][f]]]
       /\ events' = events \o
            SetToSeq({[cluster |-> Cluster(t, f), ep |-> ep, field |-> f, val |-> vals[f]] :
                        f \in {g \in new : Tells(t, g)}})

-----------------------------------------------------------------------------
(* Records, files and reports.                                              *)

ReadFrom == [t \in DevTypes |-> Over(ReadAttr[t], ReadState[t])]
WriteTo == [t \in DevTypes |-> Over(WriteAttr[t], WriteState[t])]

Read(t, f) == IF ReadFrom[t][f] = "ram" THEN ram[t][f] ELSE file[t][f]

Stored(store, place, t, vals) ==
    [store EXCEPT ![t] =
        Over([f \in {g \in DOMAIN vals : place \in Range(WriteTo[t][g])} |-> vals[f]], @)]
Write(t, vals) ==
    /\ ram' = Stored(ram, "ram", t, vals)
    /\ file' = Stored(file, "file", t, vals)

Told(t, vals) == [seen EXCEPT ![t] = Over(vals, @)]

\* No add_<type> sets at_err_tick: it starts as it happens to; the values are
\* those next to the limit.
Init ==
    /\ \E m \in Sites, rubbish \in {ScanLimit - 2, ScanLimit - 1} :
        /\ site = DOMAIN m
        /\ ram = [t \in site |->
                    Over([at_err_tick |-> rubbish, reachable |-> Add(t, m[t]).reachable],
                         Default(t, m[t]))]
        /\ file = [t \in site |-> [changerpt |-> Add(t, m[t]).changerpt]]
        /\ used = [sets |-> 0, fails |-> 0, inputs |-> 0, tick |-> rubbish]
    /\ \E other \in BOOLEAN :
        phys = [t \in site |-> [f \in Fields(t) |->
                    IF other THEN 1 - Limited(ram[t][f]) ELSE ram[t][f]]]
    /\ seen = [t \in site |-> [f \in Fields(t) |-> ram[t][f]]]
    /\ job = [c \in Callers |-> [pc |-> "idle"]]
    /\ cmds = <<>> /\ scan = "none" /\ events = <<>> /\ upd = [pc |-> "idle"]
    /\ failed = [t \in site |-> 0] /\ rises = [t \in site |-> 0]
    /\ stray = [t \in site |-> {f \in Fields(t) : phys[t][f] # ram[t][f]}]
    /\ unseen = [t \in site |-> {}] /\ hushed = [t \in site |-> {}]

Use(what) ==
    /\ used.inputs < MaxInputs[site]
    /\ used' = [f \in DOMAIN used |->
                    IF f \in what \cup {"inputs"} THEN used[f] + 1 ELSE used[f]]

-----------------------------------------------------------------------------
(* Setting a state: set_<type>_state_<field>.                               *)

Vals(f) ==
    CASE f = "action" -> Values
      [] f \in {"level", "ct", "volume"} -> {0, 2}
      [] f \notin {"action", "level", "ct", "volume"} -> {0, 1}

\* Another caller is between taking what it sets and reporting it.
Meeting(c, t, fields) ==
    {d \in Callers \ {c} : job[d].pc # "idle" /\ job[d].type = t
        /\ (DOMAIN job[d].vals \cup job[d].carried) \cap fields # {}}

\* What is set: the value, and for a warn_cfg and a url_id what goes with it.
\* json_parse_set_dev_state takes both parts of a warn_cfg from its first node.
Wanted(c, t, f, v, w) ==
    [g \in SetState[t][f].fields |->
        IF g = f \/ g = "warn_mode" \/ (f = "warn_cfg" /\ c \in Api) THEN v
        ELSE IF f = "url_id" THEN 1 ELSE w]

\* Reachability and mode are looked at, and what the command carries is read.
\* The API takes changerpt before that.
Begin(c) ==
    /\ job[c].pc = "idle" /\ used.sets < MaxSets
    /\ \E r \in {q \in Requests : q[1] \in site} :
        LET t == r[1]
            f == r[2]
            s == SetState[t][f]
            touched == s.fields \cup s.carries
        IN /\ Read(t, "reachable") = 1 /\ (Mode(t) = "none" \/ Mode(t) \in s.modes)
           /\ \E v \in Vals(f), w \in {0, 1} :
                /\ w # 0 => f = "warn_cfg" /\ c \notin Api
                /\ LET met == Meeting(c, t, touched)
                   IN job' = [d \in Callers |->
                        IF d = c
                        THEN [pc |-> IF s.queued THEN "queue" ELSE "write",
                              type |-> t, field |-> f, vals |-> Wanted(c, t, f, v, w),
                              carried |-> s.carries,
                              cmd |-> [g \in s.carries |-> Read(t, g)],
                              report |-> c \in Api /\ Read(t, "changerpt") # 0,
                              late |-> met # {}]
                        ELSE IF d \in met THEN [job[d] EXCEPT !.late = TRUE] ELSE job[d]]
    /\ Use({"sets"})
    /\ UNCHANGED <<site, ram, file, phys, cmds, scan, events, upd, seen, failed,
                   stray, unseen, hushed, rises>>

Setting(c) == SetState[job[c].type][job[c].field]

\* What the command tells the device, and what the record is to have.
Command(c) ==
    Over([g \in DOMAIN job[c].vals |->
            IF "command" \in Setting(c).limits
            THEN Limited(job[c].vals[g]) ELSE job[c].vals[g]],
         job[c].cmd)
Recorded(c) ==
    [g \in DOMAIN job[c].vals |->
        IF "record" \in Setting(c).limits THEN Limited(job[c].vals[g]) ELSE job[c].vals[g]]

Queue(c) ==
    /\ job[c].pc = "queue"
    /\ LET t == job[c].type
           sent == Range(job[c].vals) \subseteq Setting(c).sent
       IN /\ cmds' = IF sent
                     THEN Append(cmds, [to |-> t, charge |-> Setting(c).charge,
                                        vals |-> Command(c)])
                     ELSE cmds
          /\ job' = [job EXCEPT ![c].pc = "write", ![c].late = @ \/ ~sent]
    /\ UNCHANGED <<site, ram, file, phys, scan, events, upd, seen, used, failed,
                   stray, unseen, hushed, rises>>

\* What its report is about.
Asked(c) ==
    IF job[c].field = "warn_cfg" THEN DOMAIN job[c].vals ELSE {job[c].field}

\* A player started by a new track, a value that is limited, and what is written
\* while changerpt is off are not seen.
WriteRecord(c) ==
    /\ job[c].pc = "write"
    /\ LET j == job[c]
           t == j.type
           fields == DOMAIN j.vals
           told == {f \in fields \cap Asked(c) :
                        j.report /\ ~j.late /\ Recorded(c)[f] = j.vals[f]}
       IN /\ Write(t, Recorded(c))
          /\ stray' = [stray EXCEPT ![t] =
                IF j.late THEN @ \cup fields \cup j.carried ELSE @ \ fields]
          /\ IF c \in Api
             THEN /\ unseen' = [unseen EXCEPT ![t] = (@ \cup fields) \ told]
                  /\ hushed' = [hushed EXCEPT ![t] = @ \ told]
             ELSE /\ unseen' = [unseen EXCEPT ![t] =
                        IF j.late \/ Read(t, "changerpt") = 0 THEN @ \cup fields ELSE @]
                  /\ hushed' = [hushed EXCEPT ![t] = @ \cup fields]
          /\ job' = [job EXCEPT ![c].pc =
                IF ~Setting(c).queued THEN "drive" ELSE IF j.report THEN "report" ELSE "idle"]
    /\ UNCHANGED <<site, phys, cmds, scan, events, upd, seen, used, failed, rises>>

\* A Sonos player is told at once; whether it heard is not looked at.
Drive(c) ==
    /\ job[c].pc = "drive"
    /\ \E ok \in BOOLEAN :
        /\ IF ok
           THEN Become(job[c].type, Command(c)) /\ UNCHANGED <<used, stray>>
           ELSE /\ used.fails < MaxFails /\ Use({"fails"})
                /\ stray' = [stray EXCEPT ![job[c].type] = @ \cup DOMAIN job[c].vals]
                /\ UNCHANGED <<phys, events>>
    /\ job' = [job EXCEPT ![c].pc = IF job[c].report THEN "report" ELSE "idle"]
    /\ UNCHANGED <<site, ram, file, cmds, scan, upd, seen, failed, unseen, hushed, rises>>

\* Slip: the report has what was on record.
ReportOld(c) ==
    /\ job[c].pc = "report"
    /\ seen' = seen
    /\ job' = [job EXCEPT ![c] = [pc |-> "idle"]]
    /\ UNCHANGED <<site, ram, file, phys, cmds, scan, events, upd, used, failed,
                   stray, unseen, hushed, rises>>

\* api_answer_set_dev_state reports what was asked for.
ReportSet(c) ==
    /\ job[c].pc = "report"
    /\ LET j == job[c]
       IN /\ seen' = Told(j.type, [f \in Asked(c) |-> j.vals[f]])
          /\ unseen' = [unseen EXCEPT ![j.type] = IF j.late THEN @ \cup Asked(c) ELSE @]
    /\ job' = [job EXCEPT ![c] = [pc |-> "idle"]]
    /\ UNCHANGED <<site, ram, file, phys, cmds, scan, events, upd, used, failed,
                   stray, hushed, rises>>

\* api_answer_set_dev_attr of "changerpt".
SetChangeRpt(c) ==
    /\ c \in Api /\ job[c].pc = "idle"
    /\ \E t \in site : Write(t, [changerpt |-> 1 - Read(t, "changerpt")])
    /\ Use({})
    /\ UNCHANGED <<site, phys, job, cmds, scan, events, upd, seen, failed, stray,
                   unseen, hushed, rises>>

-----------------------------------------------------------------------------
(* The command task: zigbee_cmd_event_deal_task, deal_dev_at_result.        *)

\* Callers who have begun to set one of the fields have not noticed what happens.
Overtaken(t, fields) ==
    [c \in Callers |->
        IF job[c].pc # "idle" /\ job[c].type = t
           /\ fields \cap (DOMAIN job[c].vals \cup job[c].carried) # {}
        THEN [job[c] EXCEPT !.late = TRUE] ELSE job[c]]

\* Of a command that is answered nothing is noted.
Answered ==
    /\ cmds # <<>> /\ scan = "none"
    /\ IF Head(cmds).to \in site
       THEN Become(Head(cmds).to, Head(cmds).vals) ELSE UNCHANGED <<phys, events>>
    /\ cmds' = Tail(cmds)
    /\ UNCHANGED <<site, ram, file, job, scan, upd, seen, used, failed, stray,
                   unseen, hushed, rises>>

Ticked(tick) == tick + 1

\* Slip: given up one failure early.
GivenUpEarly(tick) == tick >= ScanLimit - 1
GivenUp(tick) == tick >= ScanLimit

\* One that is not may have been carried out all the same.
Unanswered ==
    /\ cmds # <<>> /\ scan = "none" /\ Head(cmds).to \in site
    /\ used.fails < MaxFails /\ Use({"fails"})
    /\ LET cmd == Head(cmds)
           t == cmd.charge
       IN /\ \/ Become(cmd.to, cmd.vals) /\ UNCHANGED <<stray, job>>
             \/ /\ stray' = [stray EXCEPT ![cmd.to] = @ \cup DOMAIN cmd.vals]
                /\ job' = Overtaken(cmd.to, DOMAIN cmd.vals)
                /\ UNCHANGED <<phys, events>>
          /\ failed' = [failed EXCEPT ![cmd.to] = @ + 1]
          /\ IF t \in site
             THEN LET tick == Ticked(Read(t, "at_err_tick"))
                  IN /\ Write(t, [at_err_tick |-> tick])
                     /\ scan' = IF GivenUp(tick) THEN t ELSE "none"
             ELSE UNCHANGED <<ram, file, scan>>
    /\ cmds' = Tail(cmds)
    /\ UNCHANGED <<site, upd, seen, unseen, hushed, rises>>

GiveUp ==
    /\ scan # "none"
    /\ Write(scan, [reachable |-> 0])
    /\ cmds' = Append(cmds, [to |-> "all", charge |-> "none", vals |-> <<>>])
    /\ scan' = "none"
    /\ UNCHANGED <<site, phys, job, events, upd, seen, used, failed, stray, unseen,
                   hushed, rises>>

-----------------------------------------------------------------------------
(* The devices, and the event task.                                         *)

\* A device changes by itself.  Whether anybody hears of it is another matter.
Change ==
    /\ Use({})
    /\ \E t \in site : \E f \in Working(t), v \in {0, 1} :
        /\ v # At(t, f)
        /\ Become(t, [g \in {f} |-> v])
        /\ stray' = [u \in site |->
            IF u \in Sharing(t, f) /\ ~Heard(u, f) THEN stray[u] \cup {f} ELSE stray[u]]
        /\ job' = IF Heard(t, f) THEN job ELSE Overtaken(t, {f})
        /\ rises' = [rises EXCEPT ![t] =
            IF f = "on" /\ At(t, f) = 0 /\ v # 0 THEN @ + 1 ELSE @]
    /\ UNCHANGED <<site, ram, file, cmds, scan, upd, seen, failed, unseen, hushed>>

Receiver(e) == Receivers(e.cluster, e.ep)

\* A device that was given up is there again, if its update says so.
Receive ==
    /\ events # <<>> /\ upd.pc = "idle"
    /\ Head(events).ep # "sonos"
    /\ events' = Tail(events)
    /\ LET e == Head(events)
       IN \/ Receiver(e) = {} /\ UNCHANGED <<ram, file, upd, stray>>
          \/ \E t \in Receiver(e) :
               LET back == Read(t, "reachable") = 0
               IN IF back /\ ~UpdateState[t][e.field].revives
                  THEN /\ stray' = [stray EXCEPT ![t] = @ \cup {e.field}]
                       /\ UNCHANGED <<ram, file, upd>>
                  ELSE /\ IF back THEN Write(t, [reachable |-> 1])
                          ELSE UNCHANGED <<ram, file>>
                       /\ upd' = [pc |-> "compare", type |-> t, field |-> e.field,
                                  val |-> e.val, changed |-> back]
                       /\ UNCHANGED stray
    /\ UNCHANGED <<site, phys, job, cmds, scan, seen, used, failed, unseen, hushed, rises>>

Compare ==
    /\ upd.pc = "compare"
    /\ LET new == Read(upd.type, upd.field) # upd.val
       IN upd' = [upd EXCEPT !.pc = IF new THEN "put" ELSE IF upd.changed THEN "tell" ELSE "idle"]
    /\ job' = Overtaken(upd.type, {upd.field})
    /\ stray' = [stray EXCEPT ![upd.type] = @ \ {upd.field}]
    /\ UNCHANGED <<site, ram, file, phys, cmds, scan, events, seen, used, failed,
                   unseen, hushed, rises>>

\* write_<type>_state_<field>, which for two sensors also counts.
Counts(t, f, old, new) ==
    \/ t = "bin_sensor" /\ f = "on" /\ BinSensorCounts(old, new)
    \/ t = "occ_sensor" /\ f = "on" /\ OccSensorCounts(old, new)

Put ==
    /\ upd.pc = "put"
    /\ LET t == upd.type
           f == upd.field
           counted == IF Counts(t, f, ram[t][f], upd.val)
                      THEN [count |-> ram[t].count + 1] ELSE <<>>
       IN Write(t, Over([g \in {f} |-> upd.val], counted))
    /\ upd' = [upd EXCEPT !.pc = "tell"]
    /\ job' = Overtaken(upd.type, {upd.field})
    /\ UNCHANGED <<site, phys, cmds, scan, events, seen, used, failed, stray, unseen,
                   hushed, rises>>

\* The report has the state of the record by then.
Tell ==
    /\ upd.pc = "tell"
    /\ LET t == upd.type
           f == upd.field
       IN IF Read(t, "changerpt") # 0
          THEN /\ seen' = Told(t, [g \in {f} |-> Read(t, f)])
               /\ unseen' = [unseen EXCEPT ![t] = @ \ {f}]
               /\ hushed' = [hushed EXCEPT ![t] = @ \ {f}]
          ELSE /\ unseen' = [unseen EXCEPT ![t] = @ \cup {f}]
               /\ UNCHANGED <<seen, hushed>>
    /\ upd' = [pc |-> "idle"]
    /\ UNCHANGED <<site, ram, file, phys, job, cmds, scan, events, used, failed,
                   stray, rises>>

\* sonos_drv_get_synchrogena_state: what a player does is written, not reported.
Notified ==
    /\ events # <<>> /\ Head(events).ep = "sonos"
    /\ LET e == Head(events)
       IN /\ Write("sonos", [g \in {e.field} |-> e.val])
          /\ job' = Overtaken("sonos", {e.field})
          /\ stray' = [stray EXCEPT !.sonos = @ \ {e.field}]
          /\ unseen' = [unseen EXCEPT !.sonos =
                IF ram.sonos[e.field] # e.val THEN @ \cup {e.field} ELSE @]
    /\ events' = Tail(events)
    /\ UNCHANGED <<site, phys, cmds, scan, upd, seen, used, failed, hushed, rises>>

Next ==
    \/ \E c \in Callers :
        \/ Begin(c) \/ Queue(c) \/ WriteRecord(c) \/ Drive(c) \/ ReportSet(c)
        \/ SetChangeRpt(c)
    \/ Answered \/ Unanswered \/ GiveUp
    \/ Change \/ Receive \/ Compare \/ Put \/ Tell \/ Notified

Spec == Init /\ [][Next]_vars

-----------------------------------------------------------------------------
(* Properties.                                                              *)

TypeOK ==
    /\ \E s \in Sites : site = DOMAIN s
    /\ DOMAIN ram = site /\ DOMAIN file = site
    /\ \A t \in site :
        /\ ram[t].reachable \in {0, 1} /\ ram[t].at_err_tick \in 0..(ScanLimit - 1 + MaxFails)
        /\ \A f \in Fields(t) : {ram[t][f], phys[t][f], seen[t][f]} \subseteq Values
        /\ file[t].changerpt \in {0, 1}
        /\ stray[t] \cup unseen[t] \cup hushed[t] \subseteq Fields(t)
    /\ \A c \in Callers : job[c].pc \in {"idle", "queue", "write", "drive", "report"}
    /\ \A k \in DOMAIN cmds : cmds[k].to \in site \cup {"all"}
    /\ scan \in site \cup {"none"}
    /\ upd.pc \in {"idle", "compare", "put", "tell"}

Quiet ==
    /\ \A c \in Callers : job[c].pc = "idle"
    /\ cmds = <<>> /\ scan = "none" /\ events = <<>> /\ upd.pc = "idle"

\* A level is sent limited and recorded as it was.
Same(t, f) ==
    \/ ram[t][f] = At(t, f)
    \/ f = "level" /\ Limited(ram[t][f]) = At(t, f)

\* When nothing is under way, a device does what is on record, although the
\* record is written ahead of the command and by two tasks: except a field whose
\* last command failed, that two callers or a caller and an event met on, or
\* that has changed with nobody to hear of it.
RecordTrue ==
    Quiet => \A t \in site : \A f \in Working(t) \ stray[t] : Same(t, f)

\* And what clients were last told is what is on record: except what was
\* written by rules and sets, changed while changerpt was off, or was met on.
SeenTrue ==
    Quiet => \A t \in site : \A f \in Fields(t) \ (unseen[t] \cup hushed[t]) :
                seen[t][f] = ram[t][f]

\* A sensor's count is the number of times it went on, however its events and
\* those of others are interleaved.
CountsRises ==
    events = <<>> /\ upd.pc = "idle" =>
        \A t \in site \cap {"bin_sensor", "occ_sensor"} : ram[t].count = rises[t]

\* A device is given up for failures of its own commands, counted from what its
\* tick happened to start with; a switch also for those of the panel.
GivenUpForItsOwn ==
    \A t \in site :
        ram[t].reachable < Add(t, Mode(t)).reachable =>
            used.tick + failed[t]
                + (IF t = "switch" /\ "panel" \in site THEN failed["panel"] ELSE 0)
            >= ScanLimit

\* Counters of devices: a sensor's count, and the failures of each, are those
\* of its own events and commands.
CountersSound == TypeOK /\ CountsRises /\ GivenUpForItsOwn
=============================================================================
