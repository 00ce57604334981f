------------------------------ MODULE DevTable -------------------------------
(***************************************************************************)
(* database/dev_data.c: the table of devices in memory, the file of each   *)
(* device, and the backup of the table.                                    *)
(*                                                                         *)
(*   add, del, swap, del_all --both locks--> file of the device, record    *)
(*   rom_write               --ROM lock----> file of the device            *)
(*   ram_write               --RAM lock----> state in the record           *)
(*   dev_data_state_sync     --RAM lock----> backup: blocks, then CRC      *)
(*                                                                         *)
(* The table is sorted by type and id; first[t] is the index of the first  *)
(* record of type t.  A crash loses the table; dev_data_init takes it from *)
(* the backup if its CRC is right and makes it agree with the files.       *)
(*                                                                         *)
(* The address of a device (zb_attr) is kept twice, in its file and in its *)
(* record, which is where commands take it from.                           *)
(***************************************************************************)
EXTENDS Integers, FiniteSets, SequencesExt

CONSTANTS
    NumTypes,      \* device types are 0..NumTypes-1
    MaxDevs,       \* MUI_LOGIC_DEV_NUM_MAX; ids are 1..MaxDevs
    MaxOf,         \* data_num_max_get_by_type
    Addrs,         \* addresses of devices
    Installed,     \* devices of before
    Workers,       \* threads that change devices
    Events,        \* the one of them that deals with Zigbee events
    PerBlock,      \* records in a block of the backup
    MaxOps,        \* bound: operations started
    MaxCrashes     \* bound: crashes

Types == 0..(NumTypes - 1)
Ids == 1..MaxDevs
Devs == Types \X Ids
NoAddr == "none"
Levels == {0, 1}      \* the rest of a device's state; 1 is the default

ASSUME SizeAssumption ==
    NumTypes \in Nat \ {0} /\ MaxDevs \in Nat \ {0} /\ MaxOf \in [Types -> 0..MaxDevs]
ASSUME BoundAssumption ==
    /\ Installed \subseteq Devs /\ Events \in Workers
    /\ NoAddr \notin Addrs /\ PerBlock \in Nat \ {0}
    /\ MaxOps \in Nat /\ MaxCrashes \in Nat

Record == [dev: Devs, addr: Addrs \cup {NoAddr}, level: Levels]
Empty == [addr |-> NoAddr, whole |-> FALSE]
Blank == [dev |-> <<0, 0>>, addr |-> NoAddr, level |-> 0]
Slots == 0..(2 * MaxDevs)     \* asRecord, and what lies behind it
Blocks == 0..((MaxDevs - 1) \div PerBlock)
EmptyTable ==
    [first |-> [t \in 0..NumTypes |-> 0], total |-> 0,
     recs |-> [k \in Slots |-> Blank]]

VARIABLES
    table,         \* s_sDevStateData
    files,         \* per device: the address in its file, and if it is complete
    tmp,           \* the same of files whose name ends in "~"
    backup,        \* blocks of the backup, and the table its CRC is of
    phase,         \* "up", "down", or "boot" while dev_data_init writes
    ram, rom,      \* s_tDevRamMutex, s_tDevRomMutex
    pc, job,       \* per worker: place, and operation with its arguments
    saver, block,  \* writer of the backup: place and next block
    dirty,         \*     whether a block differed
    ops, crashes,  \* counts
    moved,         \* history: devices whose backup has another address
    suspect,       \* history: devices whose record may have another address
    synced,        \* history: states in the last complete backup
    torn           \* history: a crash has left a swap half done

disk == <<files, tmp, backup>>
saves == <<saver, block, dirty>>
history == <<ops, crashes, moved, suspect, synced, torn>>
vars == <<table, disk, phase, ram, rom, pc, job, saves, history>>

-----------------------------------------------------------------------------
(* The table. *)

Put(f, k, v) == [x \in DOMAIN f \cup {k} |-> IF x = k THEN v ELSE f[x]]
Drop(f, k) == [x \in DOMAIN f \ {k} |-> f[x]]

Before(d, e) == d[1] < e[1] \/ (d[1] = e[1] /\ d[2] < e[2])

\* s_dev_ram_search: a binary search among the records of the type; the index
\* of the record, or -1.  The section is halved until its middle stays the same.
Half(tab, d, w) ==
    LET m == (w.lo + w.hi) \div 2
        e == tab.recs[m].dev
    IN  CASE w.at # -1 \/ m = w.last -> w
          [] w.at = -1 /\ m # w.last /\ e = d -> [w EXCEPT !.at = m]
          [] w.at = -1 /\ m # w.last /\ e # d /\ Before(e, d) -> [w EXCEPT !.lo = m, !.last = m]
          [] OTHER -> [w EXCEPT !.hi = m, !.last = m]

Search(tab, d) ==
    LET end == tab.first[d[1] + 1]
        look[n \in 0..(MaxDevs + 1)] ==
            IF n = 0 THEN [lo |-> tab.first[d[1]], hi |-> end, last |-> end, at |-> -1]
            ELSE Half(tab, d, look[n - 1])
    IN  look[MaxDevs + 1].at

\* s_dev_data_assign_id_by_type: the smallest free id and the index for it.
FreeIndex(tab, t) ==
    CHOOSE k \in tab.first[t]..tab.first[t + 1] :
        /\ k < tab.first[t + 1] => k - tab.first[t] + 1 < tab.recs[k].dev[2]
        /\ \A m \in tab.first[t]..(k - 1) :
               m - tab.first[t] + 1 >= tab.recs[m].dev[2]

Paste(tab, at, r) ==
    LET k0 == IF at < tab.total THEN at ELSE tab.total
        t0 == r.dev[1]
    IN  [first |-> [t \in 0..NumTypes |-> tab.first[t] + (IF t > t0 THEN 1 ELSE 0)],
         total |-> tab.total + 1,
         recs |-> [k \in Slots |-> IF k = k0 THEN r
                                   ELSE IF k0 < k /\ k <= tab.total THEN tab.recs[k - 1]
                                   ELSE tab.recs[k]]]

\* The last slot keeps its old content.
Cut(tab, t0, at) ==
    [first |-> [t \in 0..NumTypes |-> tab.first[t] - (IF t > t0 THEN 1 ELSE 0)],
     total |-> tab.total - 1,
     recs |-> [k \in Slots |-> IF at <= k /\ k < tab.total - 1 /\ k + 1 \in Slots
                               THEN tab.recs[k + 1] ELSE tab.recs[k]]]

\* The part of the table in block b of the backup.
Block(tab, b) ==
    [head |-> IF b = 0 THEN <<tab.first, tab.total>> ELSE <<>>,
     recs |-> [k \in {k \in 0..(MaxDevs - 1) : k \div PerBlock = b} |-> tab.recs[k]]]

Records(tab) == {tab.recs[k] : k \in 0..(tab.total - 1)}
Listed(tab) == {r.dev : r \in Records(tab)}

-----------------------------------------------------------------------------
(* dev_data_init. *)

\* data_id_scan_by_type takes "xxxxxxxx.dat~" for "xxxxxxxx.dat": the ids it
\* finds, and how many it counts.
OfType(S, t) == {d \in S : d[1] = t}
Scan(t) == {d[2] : d \in OfType(DOMAIN files \cup DOMAIN tmp, t)}
Count(t) == Cardinality(OfType(DOMAIN files, t)) + Cardinality(OfType(DOMAIN tmp, t))

\* s_dev_data_state_checkout
Checkout ==
    IF backup.exists /\ \A b \in Blocks : backup.blocks[b] = Block(backup.crc, b)
    THEN backup.crc ELSE EmptyTable

\* Slip: a record is looked at by its type only.
PruneType(t, ids, acc) ==
    LET at == acc.tab.first[t] + acc.j
    IN  IF acc.tab.recs[at].dev[1] = t THEN [acc EXCEPT !.j = @ + 1]
        ELSE [acc EXCEPT !.tab = Cut(acc.tab, t, at)]

\* Of the records of a type, one of another type, or whose id is not in the
\* list, is removed: one turn of the loop, j records being kept so far.
PruneOne(t, ids, acc) ==
    LET at == acc.tab.first[t] + acc.j
        d == acc.tab.recs[at].dev
    IN  IF d[1] = t /\ d[2] \in ids THEN [acc EXCEPT !.j = @ + 1]
        ELSE [acc EXCEPT !.tab = Cut(acc.tab, t, at)]

Prune(tab, t, ids) ==
    LET old == tab.first[t + 1] - tab.first[t]
        look[n \in 0..old] ==
            IF n = 0 THEN [tab |-> tab, j |-> 0] ELSE PruneOne(t, ids, look[n - 1])
    IN  IF old > 0 THEN look[old] ELSE [tab |-> tab, j |-> old]

\* init_dev_ram_data: an incomplete file leaves the state as it happens to be.
Fresh(d, rubbish) ==
    [dev |-> d, level |-> 1,
     addr |-> IF files[d].addr # NoAddr THEN files[d].addr ELSE rubbish]

\* A file without a record gets one, before the first with a greater id.  A listed
\* id with neither record nor file stops the start of the program.
FillOne(t, rubbish, acc, id) ==
    LET from == acc.tab.first[t]
        ge == {k \in from..(from + acc.j - 1) : acc.tab.recs[k].dev[2] >= id}
        at == IF ge # {} THEN CHOOSE k \in ge : \A m \in ge : k <= m
              ELSE IF acc.j > 0 THEN from + acc.j ELSE from
    IN  IF ge # {} /\ acc.tab.recs[at].dev[2] = id THEN acc
        ELSE IF <<t, id>> \in DOMAIN files
             THEN [acc EXCEPT !.tab = Paste(@, at, Fresh(<<t, id>>, rubbish)), !.j = @ + 1]
             ELSE [acc EXCEPT !.ok = FALSE]

Fill(acc, t, ids, rubbish) ==
    LET add[id \in 0..MaxDevs] ==
            IF id = 0 THEN acc
            ELSE IF id \in ids THEN FillOne(t, rubbish, add[id - 1], id) ELSE add[id - 1]
    IN  add[MaxDevs]

\* One type after the other; the index of a type is the number of files before.
OneType(acc, t, rubbish) ==
    LET kept == Prune([acc.tab EXCEPT !.first[t] = acc.n], t, Scan(t))
        full == Fill([tab |-> kept.tab, j |-> kept.j, ok |-> acc.ok], t, Scan(t), rubbish)
    IN  [tab |-> full.tab, n |-> acc.n + Count(t), ok |-> full.ok]

Restored(rubbish) ==
    LET done[n \in 0..NumTypes] ==
            IF n = 0 THEN [tab |-> Checkout, n |-> 0, ok |-> TRUE]
            ELSE OneType(done[n - 1], n - 1, rubbish)
        all == done[NumTypes]
    IN  [all EXCEPT !.tab.first[NumTypes] = all.n, !.tab.total = all.n]

\* More files than asRecord has room for: what lies behind it is overwritten.
Overflows == Cardinality(DOMAIN files) + Cardinality(DOMAIN tmp) > MaxDevs

States(tab) == [d \in Listed(tab) |->
                   (CHOOSE r \in Records(tab) : r.dev = d).level]
AddrOf(tab, d) == (CHOOSE r \in Records(tab) : r.dev = d).addr

Wrong(tab) == {d \in Listed(tab) \cap DOMAIN files :
                   files[d].addr \notin {NoAddr, AddrOf(tab, d)}}

\* The program is off; there are devices of before, and no backup.
Init ==
    /\ table = EmptyTable
    /\ files \in [Installed -> [addr : Addrs, whole : {TRUE}]]
    /\ tmp = [d \in {} |-> Empty]
    /\ backup = [exists |-> FALSE, crc |-> EmptyTable,
                 blocks |-> [b \in Blocks |-> Block(EmptyTable, b)]]
    /\ phase = "down"
    /\ ram = 1 /\ rom = 1
    /\ pc = [w \in Workers |-> "idle"]
    /\ job = [w \in Workers |-> [op |-> "none"]]
    /\ saver = "idle" /\ block = 0 /\ dirty = FALSE
    /\ ops = 0 /\ crashes = 0
    /\ moved = {} /\ suspect = {} /\ synced = [d \in {} |-> 0]
    /\ torn = FALSE

-----------------------------------------------------------------------------
(* Operations of the workers: the locks. *)

At(w, place) == phase = "up" /\ pc[w] = place
Goto(w, place) == pc' = [pc EXCEPT ![w] = place]
Op(w) == job[w].op

\* The requests: add and re-addressing come from Zigbee events, the others
\* from the API.  One thread deals with the events.
Jobs(w) ==
    IF w = Events
    THEN [op : {"add"}, type : Types, addr : Addrs]
         \cup [op : {"readdress"}, dev : Listed(table) \cap Devs, addr : Addrs]
    ELSE [op : {"rename", "level", "del"}, dev : Devs]
         \cup {j \in [op : {"swap"}, dev : Devs, with : Devs] :
                  j.dev[1] = j.with[1] /\ j.dev # j.with}
         \cup [op : {"delall"}, k : {0}]

Start(w, j) ==
    /\ At(w, "idle") /\ ops < MaxOps
    /\ job' = [job EXCEPT ![w] = j]
    /\ ops' = ops + 1
    /\ Goto(w, IF j.op = "level" THEN "ram" ELSE "rom")
    /\ UNCHANGED <<table, disk, phase, ram, rom, saves, crashes, moved, suspect, synced, torn>>

\* A new name and the first half of a new address need the file only, a level
\* and the second half the record only.
RomOnly(w) == Op(w) \in {"rename", "readdress"}
RamOnly(w) == Op(w) \in {"level", "readdress"}

TakeRom(w) ==
    /\ At(w, "rom") /\ rom > 0
    /\ rom' = rom - 1
    /\ Goto(w, IF RomOnly(w) THEN "file" ELSE "ram")
    /\ UNCHANGED <<table, disk, phase, ram, job, saves, history>>

TakeRam(w) ==
    /\ At(w, "ram") /\ ram > 0
    /\ ram' = ram - 1
    /\ Goto(w, IF RamOnly(w) THEN "record" ELSE "both")
    /\ UNCHANGED <<table, disk, phase, rom, job, saves, history>>

\* A wait of 3 s ends without the lock.
GiveUpRom(w) ==
    /\ At(w, "rom") /\ rom = 0
    /\ Goto(w, "idle")
    /\ UNCHANGED <<table, disk, phase, ram, rom, job, saves, history>>

\* Slip: the lock on the files is kept.
GiveUpRamKeep(w) ==
    /\ At(w, "ram") /\ ram = 0
    /\ Goto(w, "idle")
    /\ UNCHANGED <<table, disk, phase, ram, rom, job, saves, history>>

GiveUpRam(w) ==
    /\ At(w, "ram") /\ ram = 0
    /\ rom' = IF RamOnly(w) THEN rom ELSE rom + 1
    /\ suspect' = IF Op(w) = "readdress" THEN suspect \cup {job[w].dev} ELSE suspect
    /\ Goto(w, "idle")
    /\ UNCHANGED <<table, disk, phase, ram, job, saves, ops, crashes, moved, synced, torn>>

\* The posts at the end of an operation that had both.
Leave(w) ==
    /\ At(w, "leave")
    /\ ram' = ram + 1 /\ rom' = rom + 1
    /\ Goto(w, "idle")
    /\ UNCHANGED <<table, disk, phase, job, saves, history>>

-----------------------------------------------------------------------------
(* Operations with one lock. *)

\* dev_data_rom_write: open creates a missing file if its directory is there,
\* that is, if another file of the type is.
WriteFile(w) ==
    /\ At(w, "file")
    /\ LET d == job[w].dev
           dir == \E e \in DOMAIN files \cup DOMAIN tmp : e[1] = d[1]
           old == IF d \in DOMAIN files THEN files[d] ELSE Empty
           new == IF Op(w) = "readdress" THEN [old EXCEPT !.addr = job[w].addr] ELSE old
       IN  /\ files' = IF dir THEN Put(files, d, new) ELSE files
           /\ moved' = IF Op(w) = "readdress" THEN moved \cup {d} ELSE moved
           /\ rom' = rom + 1
           /\ Goto(w, IF Op(w) = "readdress" /\ dir THEN "ram" ELSE "idle")
    /\ UNCHANGED <<table, tmp, backup, phase, ram, job, saves, ops, crashes, suspect, synced, torn>>

\* dev_data_ram_write.  If the device was swapped since the file was written, the
\* record gets the address of the other one.
WriteRecord(w) ==
    /\ At(w, "record")
    /\ LET d == job[w].dev
           k == Search(table, d)
           agrees == d \in DOMAIN files /\ files[d].addr = job[w].addr
       IN
       /\ table' = CASE k = -1 -> table
                     [] k # -1 /\ Op(w) = "level" ->
                           [table EXCEPT !.recs[k].level = 1 - @]
                     [] k # -1 /\ Op(w) = "readdress" ->
                           [table EXCEPT !.recs[k].addr = job[w].addr]
       /\ suspect' = IF Op(w) = "readdress" /\ agrees THEN suspect \ {d} ELSE suspect
    /\ ram' = ram + 1
    /\ Goto(w, "idle")
    /\ UNCHANGED <<disk, phase, rom, job, saves, ops, crashes, moved, synced, torn>>

-----------------------------------------------------------------------------
(* s_dev_data_add *)

\* The table or the type is full, or a file is created for a free id.
Create(w) ==
    /\ At(w, "both") /\ Op(w) = "add"
    /\ LET t == job[w].type
           n == table.first[t + 1] - table.first[t]
           at == FreeIndex(table, t)
           d == <<t, at - table.first[t] + 1>>
       IN  IF table.total >= MaxDevs \/ n >= MaxOf[t]
           THEN Goto(w, "leave") /\ UNCHANGED <<files, job>>
           ELSE /\ files' = IF d \in DOMAIN files THEN files ELSE Put(files, d, Empty)
                /\ job' = [job EXCEPT ![w] = [op |-> "add", addr |-> job[w].addr,
                                              dev |-> d, at |-> at]]
                /\ Goto(w, "fill")
    /\ UNCHANGED <<table, tmp, backup, phase, ram, rom, saves, history>>

FillFile(w) ==
    /\ At(w, "fill")
    /\ files' = Put(files, job[w].dev, [addr |-> job[w].addr, whole |-> TRUE])
    /\ moved' = moved \cup {job[w].dev}
    /\ Goto(w, "insert")
    /\ UNCHANGED <<table, tmp, backup, phase, ram, rom, job, saves, ops, crashes, suspect, synced, torn>>

AddRecord(w) ==
    /\ At(w, "insert")
    /\ table' = Paste(table, job[w].at,
                       [dev |-> job[w].dev, addr |-> job[w].addr, level |-> 1])
    /\ suspect' = suspect \ {job[w].dev}
    /\ Goto(w, "leave")
    /\ UNCHANGED <<disk, phase, ram, rom, job, saves, ops, crashes, moved, synced, torn>>

-----------------------------------------------------------------------------
(* s_dev_data_del, s_dev_data_del_all *)

DelFile(w) ==
    /\ At(w, "both") /\ Op(w) = "del"
    /\ LET d == job[w].dev IN
       IF Search(table, d) # -1 /\ d \in DOMAIN files
       THEN files' = Drop(files, d) /\ Goto(w, "unlist")
       ELSE Goto(w, "leave") /\ UNCHANGED files
    /\ UNCHANGED <<table, tmp, backup, phase, ram, rom, job, saves, history>>

DelRecord(w) ==
    /\ At(w, "unlist")
    /\ LET d == job[w].dev IN table' = Cut(table, d[1], Search(table, d))
    /\ Goto(w, "leave")
    /\ UNCHANGED <<disk, phase, ram, rom, job, saves, history>>

\* File after file in the order of the table, up to the first that is missing.
DelAllFile(w) ==
    /\ At(w, "both") /\ Op(w) = "delall"
    /\ job[w].k < table.total
    /\ LET d == table.recs[job[w].k].dev IN
       IF d \in DOMAIN files
       THEN /\ files' = Drop(files, d)
            /\ job' = [job EXCEPT ![w].k = @ + 1]
            /\ UNCHANGED pc
       ELSE Goto(w, "leave") /\ UNCHANGED <<files, job>>
    /\ UNCHANGED <<table, tmp, backup, phase, ram, rom, saves, history>>

\* memset, then s_dev_data_state_del.
DelAllRecords(w) ==
    /\ At(w, "both") /\ Op(w) = "delall" /\ job[w].k >= table.total
    /\ table' = EmptyTable
    /\ backup' = [backup EXCEPT !.exists = FALSE]
    /\ synced' = [d \in {} |-> 0]
    /\ Goto(w, "leave")
    /\ UNCHANGED <<files, tmp, phase, ram, rom, job, saves, ops, crashes, moved, suspect, torn>>

-----------------------------------------------------------------------------
(* s_dev_data_swap_id and file_name_swap *)

\* Both ids need a record; the file of the first becomes "~".
SwapAway(w) ==
    /\ At(w, "both") /\ Op(w) = "swap"
    /\ LET d == job[w].dev IN
       IF /\ Search(table, d) # -1 /\ Search(table, job[w].with) # -1
          /\ d \in DOMAIN files
       THEN /\ tmp' = Put(tmp, d, files[d]) /\ files' = Drop(files, d)
            /\ Goto(w, "swap2")
       ELSE Goto(w, "leave") /\ UNCHANGED <<files, tmp>>
    /\ UNCHANGED <<table, backup, phase, ram, rom, job, saves, history>>

SwapOver(w) ==
    /\ At(w, "swap2")
    /\ LET d == job[w].dev
           e == job[w].with
       IN  IF e \in DOMAIN files
           THEN files' = Put(Drop(files, e), d, files[e]) /\ Goto(w, "swap3")
           ELSE Goto(w, "leave") /\ UNCHANGED files
    /\ UNCHANGED <<table, tmp, backup, phase, ram, rom, job, saves, history>>

SwapBack(w) ==
    /\ At(w, "swap3")
    /\ LET d == job[w].dev IN
       /\ files' = Put(files, job[w].with, tmp[d])
       /\ tmp' = Drop(tmp, d)
    /\ moved' = moved \cup {job[w].dev, job[w].with}
    /\ Goto(w, "swap4")
    /\ UNCHANGED <<table, backup, phase, ram, rom, job, saves, ops, crashes, suspect, synced, torn>>

\* Devices whose new address is in the file and not yet in the record.
Between(d) == \E w \in Workers : pc[w] \in {"ram", "record"} /\ Op(w) = "readdress"
                                  /\ job[w].dev = d

\* Slip: the states stay where they are.
SwapFilesOnly(w) ==
    /\ At(w, "swap4")
    /\ Goto(w, "leave")
    /\ UNCHANGED <<table, disk, phase, ram, rom, job, saves, history>>

SwapRecords(w) ==
    /\ At(w, "swap4")
    /\ LET k == Search(table, job[w].dev)
           m == Search(table, job[w].with)
           both == {job[w].dev, job[w].with}
           state(n, o) == [table.recs[o] EXCEPT !.dev = table.recs[n].dev]
       IN  /\ table' = [table EXCEPT !.recs[k] = state(k, m), !.recs[m] = state(m, k)]
           /\ suspect' = IF both \cap suspect # {} \/ \E d \in both : Between(d)
                         THEN suspect \cup both ELSE suspect
    /\ Goto(w, "leave")
    /\ UNCHANGED <<disk, phase, ram, rom, job, saves, ops, crashes, moved, synced, torn>>

-----------------------------------------------------------------------------
(* s_dev_data_state_sync, every 300 s, and the backup at the end of
   dev_data_init. *)

\* Without a backup there is nothing to open.
SyncStart ==
    /\ phase = "up" /\ saver = "idle" /\ ram > 0 /\ backup.exists
    /\ ram' = ram - 1
    /\ saver' = "blocks" /\ block' = 0 /\ dirty' = FALSE
    /\ UNCHANGED <<table, disk, phase, rom, pc, job, history>>

\* Slip: the CRC comes before the blocks.
SaveBlockAndCrc ==
    /\ saver = "blocks" /\ block \in Blocks
    /\ backup' = [backup EXCEPT !.blocks[block] = Block(table, block), !.exists = TRUE,
                                !.crc = [table EXCEPT !.recs = [k \in Slots |->
                                    IF k \div PerBlock <= block THEN table.recs[k]
                                    ELSE backup.crc.recs[k]]]]
    /\ dirty' = TRUE
    /\ block' = block + 1
    /\ UNCHANGED <<table, files, tmp, phase, ram, rom, pc, job, saver, history>>

SaveBlock ==
    /\ saver = "blocks" /\ block \in Blocks
    /\ backup' = [backup EXCEPT !.blocks[block] = Block(table, block)]
    /\ dirty' = (dirty \/ backup.blocks[block] # Block(table, block))
    /\ block' = block + 1
    /\ UNCHANGED <<table, files, tmp, phase, ram, rom, pc, job, saver, history>>

\* The CRC is written if a block was.  A new file is complete only then.
SaveCrc ==
    /\ saver = "blocks" /\ block \notin Blocks
    /\ backup' = IF dirty THEN [backup EXCEPT !.crc = table, !.exists = TRUE] ELSE backup
    /\ moved' = Wrong(table)
    /\ synced' = States(table)
    /\ saver' = "idle"
    /\ ram' = ram + 1
    /\ phase' = "up"
    /\ UNCHANGED <<table, files, tmp, rom, pc, job, block, dirty, ops, crashes, suspect, torn>>

-----------------------------------------------------------------------------
(* Crash and start. *)

Swapping == \E w \in Workers : pc[w] \in {"swap2", "swap3"}

Crash ==
    /\ phase # "down" /\ crashes < MaxCrashes
    /\ crashes' = crashes + 1
    /\ torn' = (torn \/ Swapping)
    /\ phase' = "down"
    /\ table' = EmptyTable
    /\ ram' = 1 /\ rom' = 1
    /\ pc' = [w \in Workers |-> "idle"]
    /\ job' = [w \in Workers |-> [op |-> "none"]]
    /\ saver' = "idle" /\ block' = 0 /\ dirty' = FALSE
    /\ suspect' = suspect \cup moved
    /\ UNCHANGED <<disk, ops, moved, synced>>

Boot ==
    /\ phase = "down" /\ ~Overflows
    /\ \E rubbish \in Addrs \cup {NoAddr} :
          Restored(rubbish).ok /\ table' = Restored(rubbish).tab
    /\ phase' = "boot"
    /\ saver' = "blocks" /\ block' = 0 /\ dirty' = TRUE
    /\ ram' = 0
    /\ UNCHANGED <<disk, rom, pc, job, history>>

Next ==
    \/ \E w \in Workers :
          \/ \E j \in Jobs(w) : Start(w, j)
          \/ TakeRom(w) \/ TakeRam(w) \/ GiveUpRom(w) \/ GiveUpRam(w) \/ Leave(w)
          \/ WriteFile(w) \/ WriteRecord(w)
          \/ Create(w) \/ FillFile(w) \/ AddRecord(w)
          \/ DelFile(w) \/ DelRecord(w) \/ DelAllFile(w) \/ DelAllRecords(w)
          \/ SwapAway(w) \/ SwapOver(w) \/ SwapBack(w) \/ SwapRecords(w)
    \/ SyncStart \/ SaveBlock \/ SaveCrc \/ Crash \/ Boot

Spec == Init /\ [][Next]_vars
-----------------------------------------------------------------------------
(* Properties. *)

Places == {"idle", "rom", "ram", "both", "file", "record", "fill", "insert",
           "unlist", "swap2", "swap3", "swap4", "leave"}

Tables == [first : [0..NumTypes -> Nat], total : Nat,
           recs : [Slots -> [dev : Devs \cup {<<0, 0>>},
                             addr : Addrs \cup {NoAddr}, level : Levels]]]

TypeOK ==
    /\ table \in Tables
    /\ DOMAIN files \subseteq Devs /\ Range(files) \subseteq [addr : Addrs \cup {NoAddr}, whole : BOOLEAN]
    /\ DOMAIN tmp \subseteq Devs /\ backup.crc \in Tables
    /\ phase \in {"up", "down", "boot"}
    /\ ram \in {0, 1} /\ rom \in {0, 1}
    /\ pc \in [Workers -> Places]
    /\ saver \in {"idle", "blocks"} /\ block \in Nat /\ dirty \in BOOLEAN
    /\ ops \in 0..MaxOps /\ crashes \in 0..MaxCrashes
    /\ moved \subseteq Devs /\ suspect \subseteq Devs

HasRom(w) == pc[w] \in Places \ {"idle", "rom", "record"}
                /\ ~(pc[w] = "ram" /\ RamOnly(w))
HasRam(w) == pc[w] \in Places \ {"idle", "rom", "ram", "file"}

\* Whatever times out, each lock is free or with one thread: no path, of the
\* many with an early return, loses or posts a lock it should not.
LocksReturn ==
    phase = "up" =>
        /\ rom + Cardinality({w \in Workers : HasRom(w)}) = 1
        /\ ram + Cardinality({w \in Workers : HasRam(w)})
                + (IF saver = "idle" THEN 0 ELSE 1) = 1

\* The records are in ascending order and the index of each type is right,
\* which is what the binary search relies on; also after dev_data_init has
\* merged a backup with files that have changed since.  Only a swap that was torn
\* apart by a crash breaks it: "xxxxxxxx.dat~" is listed as a device.
TableExact ==
    (phase # "down" /\ ~torn) =>
        /\ \A k \in 0..(table.total - 2) :
               Before(table.recs[k].dev, table.recs[k + 1].dev)
        /\ \A t \in 0..NumTypes :
               table.first[t] = Cardinality({d \in Listed(table) : d[1] < t})
        /\ table.total = table.first[NumTypes]

\* "No such ID found, the data must be deleted" and "... must be added"
\* (dev_data.c:1545, 1583): a record has a file and a complete file a record,
\* while nobody has the lock on the files.
RecordsBacked ==
    (phase # "down" /\ rom = 1 /\ ~torn) =>
        /\ Listed(table) \subseteq DOMAIN files
        /\ {d \in DOMAIN files : files[d].whole} \subseteq Listed(table)

\* The address commands are sent to is the one in the file, except while it is
\* being changed, after a swap or a timeout at that moment, and after a crash for
\* devices that were added, swapped or re-addressed since the last backup.
AddressAgrees ==
    (phase = "up" /\ ram = 1 /\ rom = 1 /\ ~torn) =>
        \A d \in Wrong(table) : Between(d) \/ d \in suspect

\* After a start every device has the state of the last complete backup or the
\* default one: never a mixture of two backups, however far one had come.
RestoreExact ==
    [][Boot /\ ~torn => \A d \in Listed(table') :
           States(table')[d] \in {1} \cup {synced[e] : e \in DOMAIN synced \cap {d}}]_vars

\* The table in memory is one that dev_data_find can search, and has the
\* devices that have a file.
TableSound == TypeOK /\ TableExact /\ RecordsBacked
=============================================================================
