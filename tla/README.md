# beeSAM gateway: TLA+ models and proofs

beeSAM is the firmware of a smart-home gateway: a Linux program in C (pthreads,
POSIX semaphores) that talks AT commands to a Zigbee module over a serial line,
JSON to phones on the local network and to a cloud server over a websocket,
and runs sets, schedules and rules over the devices it knows. There is no
written specification; comments (in Chinese) beside the functions, `linux/help.txt`
and `test/TestToll.c` are all the documentation. This directory holds TLA+
modules of its core, the TLC runs that check them, and TLAPS proofs.

Paths below are relative to `src/beeSAM2-plus/beeSAM/`.

## 1. Inventory

`linux/beeSAM_main.c` checks its parameters, initialises the database and the
configuration (and starts from an empty database if that fails), starts set,
schedule and rule engines, the API, the report tasks, the Zigbee manager, the
network manager and the cloud connection, and then waits for a quit request.
Every one of these owns threads; they meet in the API layer (one mutex), in the
report rings, in the databases (one mutex each) and in the semaphores of the
engines.

| component | state it keeps | operations | what is hard about it | what makes it correct |
|---|---|---|---|---|
| `ring_buffer`, `report/report.c` | start, end, head, tail; cells; length-prefixed records | init, write, assembled write, read, drop, remain | no lock between reader and writer; wrap and full boundary; several writers on one ring | unread bytes are never overwritten, records come out whole and in order |
| `report/remote_report.c` | receive ring, send ring, one semaphore | receive, report, answer, deal task | one semaphore for two rings; answers without a post; full rings | nothing accepted stays behind while the task sleeps |
| `report/local_report.c`, `auto_report.c` | table of local subscribers; per-attribute filters | send a report to all, periodic check | connection closed while a report is sent | a report goes to the sockets that are open |
| `at_port` | query mutex, answer semaphore, lent answer buffer, availability, error count | query, reset, listen, block write | late and lost answers, timeouts, stale tokens | one query at a time, no write into a buffer given back, every query returns |
| `zigbee_manage` | command queue, event queue, ready semaphore | announce, join, leave, report, search, command task, event task | addresses change hands while announcements queue up; queries fail half way | devices are recorded whole, once, with their own address |
| `dev_if` | per type: where each field is kept, what is sent, what is heard | set, read, update, add, rebind, delete | the record is written before the command is sent, by callers and by the event task | record, device and clients agree when all is quiet |
| `database/dev_data.c` | sorted table in RAM, a file per device, a backup in blocks | add, delete, swap, write, sync, start | two mutexes with time-outs, crashes between files and table and between blocks | table, files and backup agree; a start mixes no two backups |
| `database/user_data.c` | sorted file of users, cache of those seen last | verify, add, remove, remove all | positions in the cache move with the file; updates entry by entry | the list is the set of users, in order, also after a crash |
| `config`, `database/config_data.c` | one record of configuration with a CRC | read and write each field, start | read-modify-write without a lock over both; a torn or unreadable record wipes everything | a write changes its own field only, a start keeps what it can read |
| `group`, `scene` | files with member lists; tables in the devices | create, change, command, recall, delete | the network and the file change one after the other | lists and devices agree |
| `set` | `Set_Execute_State[255]`, one semaphore, executor thread | activate, stop, state | state tested outside the lock, delay counted down by the executor, posts after a timed-out wait | a set that was started is executed, once |
| `schedule` | RAM mirror of the schedule files, output queue, one semaphore, executor thread | add, delete, write active/repeat/time, execute | files and RAM updated in two steps, posts after a timed-out wait, executor waits for its own semaphore | RAM mirrors the files, the lock is exclusive |
| `rule` | RAM mirror of the rule files, one semaphore, executor thread | the same, conditions and outputs | counters of delay and duration under changes, restarts every second | commands leave in the second they are due |
| `json_deal`, `api_deal` | answer buffer, API mutex (5 s) | parse, dispatch, segmented answer | local and remote requests share the buffer; overflow of the buffer | one request at a time, its own answer for each |
| `wsclient`, cloud daemon | websocket, `send_lock`, list of fragments | connect, upgrade, send, receive, helper, close | five senders; control frames between fragments; failed handshakes, frames that come with the 101 | frames are whole, messages complete and in order |
| `net_manage`, `multicast`, `ssdp`, `ntp` | sockets, connection table | accept, receive, send, discover, set time | connection closed while in use, table full | a slot belongs to one connection |
| `sonos_drv`, `ip_camera`, `ftp_update`, `uzipupgrade_xmoedm` | drivers and updates | discovery, control, transfer | network failures | see 8 |
| `common`, `dbg_linux`, `sys_time`, `misc`, `cJSON` | helpers, trace, clock, vendored parser | `sem_wait_ms` and others | a timed wait may fail | modelled where used |

`PROJECT.json` lists the hazards of this code, each at the line where it bites,
with the properties that would catch it going wrong.

## 2. Plan

The order puts first what every other part rests on (bytes that cross threads),
then the parts that act without anybody watching (sets, rules, schedules), then
what is kept about devices, users and the network, then the way in from outside.

Done, in this order: `RingBuffer` with the abstract `ByteFifo` and `MsgFifo`,
`RemoteReport`, `AtPort`, `SetExec`, `RuleExec`, `ScheduleTable`; then `DevTable`,
the device interface (`DevKinds` to `DevIf`) with `DevState` and `DevJoin` over it,
`UserTable` with the abstract `UserSet`, `ConfigStore` and `CloudLink`, and
`ApiGate` with `GroupTable` and `SceneTable`.

To come:

1. `ScheduleExec`: one schedule under its executor (the second that must be hit,
   delay, duration, the queue of 40), with a timed command as the abstract
   specification that it and `RuleExec` are compared with.
2. `EngineLocks`: set, rule and schedule executors that write each other's
   `active` from within their own sections, with the 10 s waits that end it.
3. `LogicCal`: the evaluation of a rule's expression against the usual meaning
   of a Boolean expression.
4. The loop of `zigbee_manage` that prepares the network after a reset, composed
   with the availability of `AtPort`.

## 3. Modules and code

| module | models | state | actions |
|---|---|---|---|
| `RingBuffer` | `ring_buffer.c`, `msg_ring_buf_wr/rd` of `report.c` | control block (`head`, `tail`), cells, the private copies of writer and reader | snapshot, one action per unit written, publish; read of head and tail, copy before and after the wrap, store, drop |
| `ByteFifo`, `MsgFifo` | what the ring promises | a sequence of bytes; of messages | append, take; a message longer than the reader's buffer is cut |
| `RemoteReport` | `remote_report.c`, `remote_api_deal` | both rings as queues, `s_tRemoteApiSem`, where each thread is | write and post of receivers and reporters, the three steps of the deal task |
| `AtPort` | `at_port_linux.c`: query, reset, listener | query mutex, answer semaphore, lent buffer, availability, error count; what is still on the line | one per lock, store, wait and time-out of `at_cmd_imd_query`; the listener's copy and post |
| `SetExec` | `set.c`: `set_execute_active`, executor, `set_active` | `Set_Execute_State`, the semaphore, the place of every thread | one per access to shared state |
| `RuleExec` | `rule.c`: the executor for one rule | the rule, execute, the states of its two lists, counters, the queue of a round | start of a round, one output, end of a list, sending; the API between rounds |
| `ScheduleTable` | `schedule.c`, `schedule_data.c`, `file_linux.c` | files, slots, number and list of ids, semaphore, calls | file part and RAM part of every call, time-out, executor round, restart |
| `DevTable` | `dev_data.c` | table, files, backup, both mutexes, the place of every worker and of the saver | one per lock, file and record of add, delete, delete all, swap, write; one per block of the backup; crash and start |
| `DevKinds`, `DevLamps`, `DevActuators`, `DevSensors`, `DevIf` | the thirteen types of `dev_if/` | none: tables of what each function of a type does | none: `DevState` and `DevJoin` use them |
| `DevState` | `dev_if.c`, the command and event tasks of `zigbee_manage.c`, setting by API and engines | records and files, the devices themselves, queues, what clients were told | begin, queue, write, report of a set; answer or failure of a command, giving up; receive, compare, write and tell of an event |
| `DevJoin` | `zigbee_new_dev_deal`, `zigbee_report_deal`, deletion | the network, records, announcements, searches | one per query and per record of joining, coming back, displacing, deleting |
| `UserSet` | what the list of users promises | a set of names | ask, admit, expel, failures |
| `UserTable` | `user_data.c` | the file's entries and count, the cache | one per write to the file, failed accesses, crash |
| `ConfigStore` | `config.c`, `config_data.c` | the record and whether its CRC is right, writers | start, read, write of a field; crash and the next start, of a program of any version |
| `CloudLink` | `wsclient.c`, daemon and senders of the cloud connection | threads, client, socket, `send_lock`, fragments | one per step of a thread that another can see; the server, whose frames may come with its 101 |
| `ApiGate` | `api_deal.c` | the mutex, the answer buffer, users, requests under way | entry, choice of a handler, parts of an answer, errors, end |
| `GroupTable`, `SceneTable` | `group.c`, `scene.c` and their files, `zigbee_manage.c` | member lists, what devices keep, the queue of commands, `SceneAtcmd` | one per query to a device, per command queued or sent and per write to a file |

Theorems are in modules of their own: `RingBufferProofs` (with `RemoteReport`),
`LinkProofs` (`AtPort`, `ConfigStore`, `CloudLink`), `ExecProofs` (`SetExec`,
`RuleExec`), `SceneTableProofs` (with `ApiGate` and `GroupTable`), `UserTableProofs` (with
`ScheduleTable`), `DevTableProofs`, `DevJoinProofs` and `DevStateProofs`; section 6 says
what they show.

Names are the source's where TLA+ allows; `map` in `PROJECT.json` gives the lines
of every definition. Operators with a comment "Slip" are plausible mistakes in
the definition after them. They are not part of any specification; putting one
in the place of its neighbour makes a checked property fail, which shows that
the property depends on that line of the code.

How the modules fit together. `RingBuffer` shows that a ring with one writer is
a queue; `RemoteReport`, `DevState` and `DevJoin` use a queue. `DevState` and
`DevJoin` extend the tables of `DevIf`: the first has devices that stay and whose
state changes, the second devices that come, go and change their addresses; both
take an access to `DevTable` as one step, because `DevTable` has the steps
inside it. `SceneTable` extends `GroupTable`, which extends `ApiGate`: a request
passes the gate and then takes the steps of its handler, while executors call the
same functions without the gate; the users the gate asks for are the abstract
set that `UserTable` implements. `CloudLink` extends `ConfigStore`, whose record
tells the daemon if and where to connect. `AtPort`'s action `Ready` is
`zigbee_module_ready` of the event task. A member of a set that switches a
schedule is a caller of `ScheduleTable`; the schedule executor that starts a set
is a caller of `SetExec`.

Granularity: an action covers what runs between two accesses to state that
another thread, or a crash, can reach. In `ScheduleTable` and `RuleExec` that is
a whole section under the semaphore, in `SetExec` and `RingBuffer` every load and
store, in the tables every write to a file. Data is abstracted to what the
properties tell apart: a schedule to its flag and one time, a device record to
its address and one value in `DevTable` but to all its fields in `DevState`, a
message to its name, a rule's condition and clock to a free choice in each round.

The tables of a type in `DevLamps`, `DevActuators` and `DevSensors` replace some
forty functions each. They list per field where it is read from and written to
(record or file, in which order), what is sent when it is set, what is done when
the device reports it, what is bound and asked when it joins. Functions that only
return `DEV_IF_ERR_UNSUPPORT` are fields missing from the table.

Excused histories. Where the code does lose something, a history variable notes
it and the property leaves that case out, so that it says exactly how far the
code goes: `stray`, `unseen` and `hushed` in `DevState` (a command failed, two
callers met on a field, a field written by an engine or while `changerpt` is off),
`excused`, `crowded` and `strangers` in `DevJoin` (a query failed; a conflict met more
records than its list takes; a device had the report of another), `torn`, `suspect` and `moved` in `DevTable`,
`torn` and `stale` in `UserTable`, `raced` and `start` in `ConfigStore`,
`cut` and `from` in `CloudLink`, `strays`, `upset` and
`spoiled` behind the gate, `cut` in an answer, `late` and `strange` in
`ScheduleTable`, `timeOuts` in `SetExec`. Each is set by a step of the code or its
environment, never by the property.

## 4. Runs

The properties named `...Sound` and `RecordKept` are conjunctions of the named
parts above them in the module; the type invariant is one of the parts.

| run | instance | shows |
|---|---|---|
| `ring_buffer` | 8 cells, messages of 1 to 3 bytes, reader's buffer 2 | neither side touches what is the other's; the ring refines `ByteFifo` and `MsgFifo` |
| `remote_report` | 3 requests, 2 reports, rings of 2 | no record is left behind with the task asleep; all records leave |
| `at_port` | 2 callers, 3 commands, late and lost answers | one query at a time, the buffer is written only while lent, every query returns; until an answer comes late a query that is woken finds its own |
| `set_exec` | 2 sets, one starts or stops the other, 2 callers, 3 calls with the values 0, 1 and 2, 1 time-out | until the time-out an exclusive lock, and one start gives at most one execution; the lock is never lost, execution ends, every start of value 1 is begun, unless stopped or replaced, or stored while its own set is carried out: the only start that is lost |
| `rule_exec` | lists of 2 and 1 outputs, delays 0-1, duration 1, all day or window, any change by the API between rounds | commands leave in the round they are due; lists come to rest |
| `schedule_table` | 2 ids, API, a set, the executor, restarts, one wait that times out or one write to a schedule that is gone between two starts | exclusive lock, RAM follows the files, no round looks at a schedule that is gone, the lock is never lost, every call ends |
| `dev_table` | 2 types, up to 3 devices, 2 threads, 2 operations, 1 crash, backup in 2 blocks | locks are given back, the table is searchable and backed by files, addresses agree, a start mixes no two backups |
| `dev_state` | each type alone, and those that share an endpoint or an id; 2 callers, 2 sets, 1 failure, 3 inputs (2 with a switch) | record, device and clients agree when all is quiet; counters count |
| `dev_join` | a switch of 2 endpoints and a plug of the same cluster, 2 addresses, 3 announcements, 2 mishaps (switched off, deleted, a query unanswered), 1 report | addresses are right and not shared but for devices that a report of another revived, devices are whole and single, a report reaches its own device or one that is displaced, searches end |
| `user_table` | 4 names, 3 users, cache of 2, 1 fault at any access | the file stays in order, the cache points to its users, no time of use is lost; the table refines `UserSet` |
| `cloud_link` | 4 fields, 2 writes, 1 crash, 2 versions of the databases; 2 messages of up to 3 fragments, 2 frames under way, 2 to send | a field's write changes that field, a start keeps a record it can read; frames are whole, and the messages that begin after the handshake; nothing is sent before the upgrade; a server is reached |
| `api` | local and cloud client, one executor, 2 requests, 2 devices, 1 group, 1 scene of up to 2 actions, 1 fault or crash | each client gets its own answer, only users act, lists and devices agree, a scene is stored by its devices as asked, unless they were told to store too early |

Bounds, and why they are enough:

- `RingBuffer`: eight cells let two records in, fill the ring to the last usable
  cell, wrap in every field of a record and refuse a third; larger rings add
  positions, not cases, and the theorems hold for every size.
- `RemoteReport`: with three requests and two reports on rings of two each kind
  of record meets a full ring while the task is in each of its places.
- `AtPort`: three commands are two late answers and a query they can hit;
  `MaxCmds` bounds the commands, after which callers rest.
- `SetExec`: `MaxCalls` of 3 are a start, a stop and a new start, or a start by
  each caller; the counter has `Width` 3, so that a decrement below 0 wraps. A
  delay of 1 is counted down once, and 0 is what a task sees that reads too
  early. `MaxTimeOuts` of 1 is enough for two threads in the section at once. The
  value 2 stands for all above 1, which the API lets through (`json_deal.c:3537`).
- `RuleExec`: `Width` 3 is above every delay and duration plus one. Two outputs
  in a list with delays 0 and 1 finish in different rounds. `Old` stops the
  history variable `age` once every output is over.
- `ScheduleTable`: two ids are the fewest with a list longer than its copied
  half; `NumWidth` is above the count, so that it wraps only downwards. `Often` is
  FALSE: between two starts of the program one thing goes wrong, a time-out or a
  write to a schedule that is gone. With more the semaphore grows without limit;
  the theorems hold with `Often` TRUE too.
- `DevTable`: two operations are enough for two threads that meet in every pair
  of steps, and for a swap or an addition on either side of a backup and of a
  crash. Two types make the index of the second move with the first; two devices of
  the first type are there at the start, so that a removal closes a gap.
- `DevState`: a field is 0, 1 or beyond its limit. Two sets are two callers on
  one field; a third input is a change of the device in between or the switch of
  `changerpt`. `ScanLimit` 3 with a tick that starts one or two below lets one
  failure give a device up, or not.
- `DevJoin`: two addresses and two devices change hands; the third announcement
  is that of a device coming back to an address taken meanwhile. `MaxRecs` is the
  number of parts of both devices. `MaxParts` 3 lets `find_devs_by_modelid` find either
  device, but not `find_devs_by_nwkaddr` three records at one address: `crowded` is reached.
  Plug and switch both report on/off at endpoint 1, where the plug is looked for first: one
  report is enough to revive a plug that the switch has displaced (`strangers`). Sensors, of
  which the humidity sensor is not revived by its power, held in runs aside of three reports.
- `UserTable`: three places and a cache of two let a user leave the cache, come
  back and be moved by an insertion and a removal in front.
- `CloudLink`: once the daemon has the address it reads no more of the record
  than the device id; writes of the record and the life of a connection come one
  after the other (`Quiet`, and the first disjunct of `Next`), which keeps two
  independent halves from being multiplied. `MaxTalks` 1 for the same reason: after a
  write or a crash no more frames are followed, which do not depend on the record; a crash
  leaves the connection as it was in the beginning. `MaxDown` 2 lets one frame come with
  the 101 and one after it, or a control frame between two fragments; the order of more is
  TCP's. Of the fields one is the portal switch, one of the network, one of the
  module, one the version.
- `ApiGate` and above: two requests are a change and a deletion of a group of before,
  or the making of one and its change, or a scene with a request or a command of the executor beside it.
  `ActionMax` 2 is two devices of a scene, or one that is named twice. `BufMax` 3 with answers of
  up to three parts and a head reaches the full buffer. The run starts with a full
  group or none (`FullOrNone`): all others are made by one request, and the theorems hold from
  every group of before (`Before`). The devices are alike, so symmetry is used;
  that run has no liveness property.

Deadlock is not checked where a bounded number of messages, calls or operations
runs out (all runs but `ring_buffer`, `set_exec`, `rule_exec` and `schedule_table`).
In `set_exec` and `schedule_table` the executors go on for ever, so that deadlock
freedom says little there and `EverySetEnds` and `CallsEnd` are the properties that matter.

## 5. Fairness

Every thread is weakly fair as a whole: it runs unless it waits. Only
`ScheduleTable` asks for strong fairness, of a call that waits for the semaphore
which the executor takes and posts again and again: the executor sleeps for a
second between rounds, and other callers are the API (one request at a time) and
the other executors, so that the semaphore is free for long stretches. No
fairness is asked of time-outs there: calls end without them. In `SetExec` calls
are finite in number and so are time-outs, and weak fairness does. In `AtPort` it
is that of the listener and of every query: a wait ends by a time-out of the
code. In `DevJoin` the command task, the event task and the API task run, and
no query waits for ever (its outcome, answer or failure, is free). In `CloudLink`
the daemon runs, writes of the record end, an attempt to connect succeeds in the
end (the handshake thread retries every five seconds) and is answered, be it by
a refusal or by the end of the connection, and the thread then goes on; `Connects` says what follows if the network does its part. Otherwise
nothing is assumed about devices, the Zigbee module or the cloud, nor that the
API is ever called. `DevTable`, `DevState`, `UserTable` and the API have no
liveness property: their steps end or time out one by one, nothing waits in a circle.

## 6. Proofs

| theorem | states | for |
|---|---|---|
| `RingSafety` | `CursorsSound` | every ring size, message set and buffer; one writer |
| `RingImplementsByteFifo` | the ring implements `ByteFifo` | the same |
| `RingImplementsMsgFifo` | ring and framing implement `MsgFifo` | the same |
| `NoRecordStranded` | `RingsSound` | all requests, reports, capacities |
| `BufferSafety` | `LineSound` | all callers, limits, late answers |
| `SetRunsOnce` | `StartsSound` | all sets, callers, delays, time-outs |
| `SetLockKept` | `LockSound` of `SetExec` | the same |
| `RuleOnTime` | `RoundsSound` | all lists, delays, durations, widths; any change between rounds |
| `TableFollows` | `TableSound` of `ScheduleTable` | all numbers of ids, callers, times; any number of time-outs and strange writes |
| `OneAtATime` | `LockSound` of `ScheduleTable` | the same |
| `AnswersMatch` | `OwnAnswer` | all callers, limits; until an answer came late or twice |
| `WireSafety`, `NoFrameEarly` | `FramesSound`, `UpgradeFirst` | all numbers of messages, fragments, frames; failures of the helper |
| `Delivery` | `MessagesWhole` | the same, control frames between, connections lost, frames lost with the 101 |
| `RecordSafety` | `RecordKept` | all fields, writers, crashes, versions, unreadable files |
| `OneAnswer`, `UsersOnly` | `AnswerWhole`, `OnlyUsersAct` | all clients, executors, answers, buffer sizes |
| `GroupsAgree` | `ListsSound` | all devices, groups, capacities, faults |
| `PicturesTrue` | `ScenesSound` | all scenes, actions, contents of the queue, executors |
| `LocksReturnHolds` | `LocksReturn` | all threads, types, ids, operations, crashes |
| `TableSoundHolds` | `TableSound` of `DevTable` | the same, all contents of an incomplete file |
| `RestoreExactHolds` | `RestoreExact` | the same, all sizes of a block of the backup |
| `AddressAgreesHolds` | `AddressAgrees` | the same |
| `PartsWhole` | `PartsSound` | all devices, parts, records, addresses, announcements, mishaps |
| `ReportsSafe` | `ReportsOwn` | the same, all types, endpoints and clusters |
| `AddressKept` | `AddressTrue`, a part of `AddressesSound` | as `PartsWhole` |
| `AddressesKept` | `AddressesSound` | as `ReportsSafe` |
| `DevStateCounters` | `CountersSound` | all devices, callers, fields, limits, lengths of the queues, failures |
| `DevStateSeen` | `SeenTrue` | the same |
| `DevStateRecord` | `RecordTrue` | the same |
| `UserSafety` | `ListSound` | all names, sizes of list and cache, crashes, failed accesses |
| `UserImplements` | `KeepsPromise`: the table implements `UserSet` | the same |
| `LastSeenKept` | `SeenKept` | the same, as long as no access failed and no update was cut short |

Assumptions are the ones on the constants, which TLC evaluates in every run; where
a theorem needs another, it is a hypothesis of that theorem. The
proofs of `RemoteReport` stand behind those of `RingBuffer`, in `RingBufferProofs`, those of
`ScheduleTable` behind those of `UserTable`.

- *Ring.* Between the snapshot and the publication the writer's private head and
  tail are old. The invariant says that the reader's tail has only moved away
  from them (`StaysClear`) and that the room found is still there
  (`StillFits`); on the other side, that the bytes the reader has copied are the
  ones at the front of `Contents`. With the room computed from the old tail the
  bytes written lie outside the unread ones, so publishing appends exactly them.
  For the messages, `Framed` gives every message not yet returned the offset of its record
  in `Contents`; that of the first is negative when a part of it has been read. A reader's
  call wants no more than the rest of that record (`WantIsThere`), so it is never cut short;
  what the writer has copied before it publishes is the start of the record (`WriterMsg`).
- *Remote report.* Records in the rings and the answer owed are at most the
  tokens, the threads between write and post, and the turn that is running; a
  conjunct for the receive ring alone (`RecvMatched`) is needed because a turn
  may take a record from one ring and find the other empty.
- *AT port.* The mutex counts the callers in `Locked`, at most one; the buffer
  lent belongs to that caller and only in the places `Lending`.
- *Sets.* Each start gives one credit: in the store that is under way, in the
  flag or in the run. `Credits` adds them up; it fails when waits time out,
  where the clear that takes the credit back may be skipped. `LateStarts` says which start
  a clear may take: one stored between the beginning of `set_active` and that clear, for
  the same set. It has to speak of the whole of that time, the flag still being set. The lock counts its
  holders: a step goes in with a token or with a time-out, or comes out with a
  post, and nothing else moves the border of a section (`LockStays`, `LockEntered`,
  `LockLeft`). Since also a thread that timed out posts, tokens and holders are
  never fewer than one, and exactly one until a wait has timed out.
- *Rules.* `Timing` relates the counters of an output to the rounds since they
  were set: before the delay is over `delay_count` is `age + 1`, afterwards
  `duration_count` is `age - delay + 1`, and a finished output has both 0. The
  outputs before the one at work are a round ahead of those after it.
- *Schedules.* `Follows` says what number and list are while an addition or a
  deletion has changed the files and not yet RAM: those of the files before it
  (`Before`). Requests of the API come one at a time, so there is one at most. The
  lock is counted as that of the sets (`LInv`), the executor being one holder more.
  For the types, a call must carry a value of the kind its field has (`ValuesOK`).

- *Cloud connection.* Who is in the middle of a frame holds `send_lock`, and it
  is the only one; what the server has accepted follows from where the handshake
  thread is. For messages, the payloads collected in the client's list are the fragments
  of the message under way, in order and from its first one, whatever control frames
  come between; a lost connection empties list and message together. `from` is the part
  the run thread must get first; what the handshake thread reads moves it, and `Base` counts
  messages from there. In the sender's half the helper may be in the middle of a message
  without the lock, but only after its program could not be read (`Abandoned`).
- *Configuration.* A writer has read the record before it writes it: its copy agrees
  with the file but for its own field unless somebody wrote in between, which the
  model notes. A start finds the file torn only if a writer was in it; and whatever the
  program's version, what it compares is its own (`NeverOutdated`), so that a record which
  can be read and has its CRC is kept.
- *API, groups and scenes.* One request is worked on at a time (`GateInv`): the lock has
  one holder until a wait times out. What the answer buffer holds is said for each place
  of the request (`AnswerSound`). Between the query to a device and the write of
  the list one pair of group and device may differ, and only the one of the request under
  way (`PairSound`, `MatchedBut`). Of a device in a scene the last command in the queue
  is what it was asked, or there is none left and it shows that (`Kept`); so a picture
  taken when none is left is right, and one taken before is noted in `upset`. The place of
  an entry is the least index that qualifies, from the well-foundedness of `Nat`.
- *Device table.* Where a thread is, and for which operation, says which of the two
  locks it has (`HasRom`, `HasRam`); the operation must be one that can be at that place
  (`RightPlace`), on which every early return relies. For the table, `SearchFinds` and
  `SearchComplete` say that the binary search returns the record of a device if there
  is one, for a section of every length up to `MaxDevs`; `PasteExact` and `CutExact`
  that an insertion at a fitting place and a removal keep the order of the records, the indices
  of the types and all other records. What a thread has found out and relies on later
  (the free id and its place, that a record is there) is in `Found`; which record has no
  file at this instant, in `Lacks`. Both survive the steps of other threads because these
  have not the lock.
- The merge at a start is a loop over types with two loops inside. Half merged, the table
  is not in order: the indices of the types done count files, the others are those of the
  backup. `Merging` says so: below type t the table lists just the files, and the record
  of a device is the one of the backup or made from the file. `RestoredExact` follows if no file has
  a name with "~". For a torn swap `RestoredFormed` says what is left: indices in
  range, which the search needs to end. `SaveInv` relates the blocks of the backup to the table
  that its CRC is of: they agree when nobody writes, and up to `block` they agree with the
  table in memory, which nobody changes while the writer has the lock.
- An address in a file is `Good` if it is the one of the record or of the job that
  will write the record next, or if the device is in `suspect`; `SwapGood` follows the two
  files through their renaming. `MovedInv` says the same of the backup, for the next start.
- *Devices that join.* While a device is added, its records are those of the parts no
  longer to do (`AddsInv`), and there is room for the others in what a search by model
  takes (`OnceInv`): so a device that has records is always found again, and never added
  twice. A device in the network is on record, or announced, or being worked on, or about
  to be asked to leave (`Known`). For addresses the queue of events is a history: before a
  device is heard of at an address that another had, its own announcement stands in the
  queue (`OrderInv`), and the last announcement of a device carries the address it has
  (`LastInv`); what is announced no more is on record (`SettledInv`). Two reachable
  records of different devices at one address are possible only while the later device
  is announced or worked on: `UpInv` allows them while one of the two is on the list to be
  displaced, `TookInv` says that the device heard of at an address has displaced all others.
- A report names an address, an endpoint and a cluster; the first type of the cluster that
  has a record there takes it, be it marked or not. `TookInv` holds of every sender (`Heard`
  at place 1 of the queue), on record yet or not, unless a query of it failed: so a record
  that takes the report of another has been marked (`ReportsSafe`), or was revived by such a
  report before. A revived record of another device is in `strangers`; `Stray` and `Clash` speak
  of the rest, which only their own announcements and reports make reachable.
- *States of devices.* `Shape` types what is under way: every job, command and event is
  about a device, a field and a value that its type has in its mode. The error counter of a
  device is at most where it started and the failures charged to it, and it is given up, or
  about to be, only with a counter at the limit (`TicksOK`). For the counts of sensors the
  queue of events is a history: `Rising` walks through the events of a sensor, counts a rise
  wherever "on" follows "off", and ends at the value the device has and the number of rises it
  had; so every rise is counted once, whatever stands between its events (`RisesOK`).
- What clients were told of a field is what is on record, or somebody is about to tell them
  (`SeenOK`): the event task (`Telling`), or a caller that still has to report and has set the
  value on record, or was met on the field. The report of a caller that nobody met carries
  what it has written itself (`ReportOK`), for two callers that set the same field both know
  (`Late`). A step of one caller or task leaves the jobs of the others as they are but for that
  mark (`Stays`), or takes its own a place further (`Goes`).
- For what devices do there are two histories. If clients hear of a field, the last event on
  its way that concerns it says what the device does (`HeardInv`), so `Will` asks for the value
  on record only when no event is pending and no command queued would change the device; an
  event that is pending puts the record right. If nobody hears of it, the record can only
  follow the commands: `Ends` says what those queued will make of the device. `RecordInv` says that a field
  is excused (`stray`), about to be written by a caller, or on record with the value its device will
  have; a caller about to write has queued its command already (`WriteOK`), and what a command
  carries of other fields was on record when it was made and still is (`CarryOK`). A caller
  that was met on a field promises nothing, which is why both speak of callers that are not
  late. A player is told directly and not through the queue, and never says which track list it
  plays, so it has an invariant of its own (`PlayerInv`).
- *Users.* `Base` is the list before the update until the count is written. While the
  entries move, each of them is the one of `Base` at its place or one further (`Moving`,
  `Grown`, `Closing`), so the file is in order at every instant. The search is a loop:
  `LoopEnds` says that a recursive function on a finite or infinite set of windows has a
  value when every call shrinks a measure, `LoopKeeps` that what a step hands on holds
  of every window; both by a least counterexample. With them `SearchRight` says what the
  binary search returns for a list of every length. For `UserSet` an update cut short
  leaves all names but one and adds at most one (`UpdateNear`). For the time a user was last seen
  (`SeenKept`), a name that stands twice while the entries move stands there with one time (`Twins`),
  and no time kept is in the future (`SeenInv`); so a step that moves an entry, brings
  it into the cache or writes it back finds the old time or a later one (`Later`).

Only model-checked: everything under fairness (`CallReturns`, `RecordsLeave`,
`EverySetEnds`, `StartsBegin`, `ListEnds`, `CallsEnd`, `Settles`, `Connects`), which is outside the
reach of the provers. Every other property of a run is stated by a theorem above.

## 7. Where code and text part

Met while modelling. The models contain this behaviour; the properties are stated
so as to exclude exactly it (see "Excused histories"), and no run is about it.

- `report/remote_report.c:242`: several threads report on one send ring without a
  lock; their records are mangled. `RingBuffer` with two `Writers` shows it.
- `at_port/at_port_linux.c:698`: the terminator is stored at the length a late
  answer may change meanwhile, while the comment at 630 has the answer end in 0. Two late
  answers leave a token that the single `sem_trywait` does not remove.
- `set/set.c:517`: a start that comes during an execution is cleared with the old
  one (`late` notes it). The comment at `set.h:33` gives the field the values 1 and 0
  only; `json_deal.c:3537` passes any, and at 500 one above 1 is not executed: it stays,
  and keeps further starts out, until it is stopped. `EverySetEnds` and `StartsBegin`
  say nothing of such a set. At 271 flag and delay are stored one after the other.
- `rule/rule.c:1204`: a list counts as finished by the number of outputs that
  ended ("all outputs executed"), but at 1163 the counters are set anew every second
  the condition holds, so that one output may end twice and another never; at 1058 and 1068 a rule with one input reads another entry of `LogicBuf`; at 833
  the queue that rules share is filled without a look at its size.
- `schedule/schedule.c:1009` with `file_linux.c:487`: a write to a deleted schedule
  makes a file of one field, which later additions count; 1013 copies half of
  `IdList`; 1311 asks for the very second: a round that comes late misses the time.
- `database/dev_data.c:1591`: after a swap torn by a crash `xxxxxxxx.dat~` is taken
  for a device, and the table may get more records than `data_common.h:65` allows. 342
  inserts without a look at the size: a start with a full backup and other files writes
  behind `asRecord` for a moment. At 1148 a swap between the two writes of a
  re-addressing puts the new address into the record of the other device.
- `dev_if/plug.c:970`: the record is written when the command is queued, so that the
  device's own event looks like no change: what rules, sets and schedules set is
  not reported, though `data_common.h:369` says "Report when changed". At
  `panel.c:1060` a panel's level command is charged to the switch of the same number.
- `dev_if/dev_if.c:3632`: four records at an address are an error here (`>=`), at the
  search by model id they are not (`>`), and 3818 takes the error for no conflict. The
  records of a four-part device are never marked unreachable when another device gets
  its address: commands for it go to the other. `crowded` notes these addresses; without
  that exception TLC finds `AddressUnique` violated.
- `dev_if/dev_if.c:3656`, `zigbee_manage/zigbee_manage.c:1787`: a report is entered for the
  first record at its address and endpoint of the types of its cluster, tried in a fixed order;
  `reachable` is not looked at. A displaced plug takes the on/off reports of the switch that has
  its address now, and is reachable again there, beside the switch; so is a device displaced by
  one of its own type, if its id is the lower. It stays so until one of the two announces itself
  again. The run has such devices: without `strangers` TLC finds `AddressUnique` violated.
- `group/group.c:311` with `group_data.c`: a new group is written first with what
  lies on the stack. At 893 a number is printed with `%s`.
- `scene/scene.c:318`: a device is asked to store a scene past the queue in which its
  state command still waits (`light.c:972`, since `AT_PORT_UNQUEUE_QUERY` is commented out in
  `common.h:51`): it stores what it showed before, and the scene recalls that.
- `config/user.c:152`: a user built into the program passes the check without being
  in the list, and also after all users were deleted.
- `api_deal/api_deal.c:2263`: the closing brace of a full answer is stored one
  behind the buffer.
- `wsclient/wsclient.c:824`: what the server sends right behind its 101 is read by the
  handshake thread and dropped, as the comment at 820 admits. Whole frames are missing then;
  of a frame cut in half the rest is taken for the next frame (`Misread`). `from` says where
  the run thread's reading begins.
- `wsclient/wsclient.c:612`: when reading from the helper's program fails, the loop ends
  without the last fragment and `send_lock` is given back: the next frame comes inside an
  unfinished message (`cut`). Pieces written while the client is connecting are dropped, the
  first one with the flag that starts the message too.
- `config/config.c:666`: a file that cannot be read at the start is treated as one with a
  wrong CRC: the record is replaced, and every database deleted. At 730 the version of the
  databases is compared; `read_config_info` has just set it to the program's own (164), so
  the branch, and the deletion that is meant for a new version, is never taken. The
  version in the file is that of the program that wrote the defaults. A crash between the
  new record and the deletion (`beeSAM_main.c:98`) leaves the databases; that instant is
  inside the step `Restart`.
- `wsclient/wsclient.c:131`: the client is freed by the thread that reads while
  other threads still send with it.
- `zigbee_manage/zigbee_manage.c:877`: the branch that would clear the failure count
  after an answered command is commented out: failures add up over the whole run and
  the third gives a device up. `dev_if.c:3837`: the scan after a conflict is sent for the
  model of the device that has just announced itself, not for the one displaced.
- `ring_buffer/ring_buffer.c:298` loads `pvHead` twice in one test.

What the checks do not see: loads and stores of aligned words are taken as atomic
and in program order, as the builds (`-Os`, one core) make them. Time is a
free choice: a wait may time out at any moment, a round takes a round. One rule
and one connection at a time are modelled. After a step whose result C leaves
undefined (a freed client, an uninitialised record) the models stop following.

## 8. Not modelled

`PROJECT.json` gives the reason for each component, also for what is left out of
those that are modelled in part. Parsing and printing (JSON, HTTP, AT answers) has
no state that outlives a call. The network manager's slots depend on what
descriptor 0 is at the time, which no model of this code settles. Automatic
reports keep a clock and numeric filters; local reports write to the network
manager's sockets. `ssdp`, `multicast` and `ntp` are exchanges with other machines;
of `sonos_drv` only what a notification does to a record is modelled. The files of
sets, rules and extended attributes are read and written as those of schedules
are. `ftp_update` and `uzipupgrade_xmoedm` start programs and move a file.
`ip_camera` is in no Makefile; `schdu_handel.c` is compiled and not called; `cJSON`
and `sha1.c` are by others.
