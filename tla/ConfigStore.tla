----------------------------- MODULE ConfigStore ------------------------------
(***************************************************************************)
(* config/config.c over database/config_data.c: one record in one file,    *)
(* with a CRC over the whole of it.                                        *)
(*                                                                         *)
(* A write of one field reads the record, changes the field and writes the *)
(* whole record back.  The ROM semaphore is held for the read and for the  *)
(* write, and given back in between.  The Zigbee task writes, and the task *)
(* that has the API, of which there is one at a time (see ApiGate).        *)
(*                                                                         *)
(* At the start, a record that cannot be read, or whose CRC is wrong, is   *)
(* replaced by the default one, and main then deletes every database.      *)
(***************************************************************************)
EXTENDS Integers, FiniteSets, Sequences

CONSTANTS
    Fields,      \* the fields of this instance
    Writers,     \* who has the API, and the Zigbee task
    Versions,    \* versions of the databases of the programs that get installed
    MaxWrites,   \* bound: writes of a field
    MaxCrashes   \* bound: crashes

\* Fields by the way they are written.  Those of the network are left alone
\* when they have the value already; the others are always written.
PlainFields ==
    {"name", "uzipver", "uzipmac", "uzipsn", "swupdate", "proxyaddr", "proxyport",
     "portalservices", "devid", "passwd", "databasever"}
NetFields == {"ipaddr", "netmask", "gwipaddr", "dhcp"}

\* The Zigbee task writes what the module says of itself, the API the rest.
OfModule == {"uzipver", "uzipmac", "uzipsn"}
OfApi == NetFields \cup {"name", "proxyaddr", "proxyport", "portalservices", "devid", "passwd"}
MayWrite(t) == IF t = "zigbee" THEN OfModule ELSE OfApi

ASSUME ConfigAssumption ==
    /\ Fields \subseteq PlainFields \cup NetFields
    /\ Writers \subseteq {"api", "zigbee"}
    /\ Versions \subseteq {0, 1}

Values == {0, 1}     \* 0 is "off" or the empty string
Records == [Fields -> Values]
Default == [f \in Fields |-> IF f = "dhcp" THEN 0 ELSE 1]

VARIABLES
    record, sound,   \* S_ConfigAttrData in the file, and whether its CRC is right
    busy,            \* the writer that is in file_write, or "none"
    step, edit,      \* per writer: place, and the write it is at
    raced,           \* history: another write ended since the record was read
    start,           \* history: "kept", "wiped" or "unread", what the last start
                     \* did: wiped a record it could read, or one it could not
    writes, crashes

configVars == <<record, sound, busy, step, edit, raced, start,
                writes, crashes>>

NoEdit == [field |-> "none", value |-> 0, seen |-> Default]

-----------------------------------------------------------------------------
ConfigInit ==
    /\ record = Default /\ sound = TRUE /\ busy = "none"
    /\ step = [t \in Writers |-> "idle"] /\ edit = [t \in Writers |-> NoEdit]
    /\ raced = [t \in Writers |-> FALSE]
    /\ start = "kept" /\ writes = 0 /\ crashes = 0

\* read_config_info_portal_services and the like: a reader waits while the
\* file is written.
CanRead == busy = "none"

\* write_config_info_name and the like, and the fields of the network
StartWrite(t, f, v) ==
    /\ step[t] = "idle" /\ f \in MayWrite(t) /\ writes < MaxWrites
    /\ step' = [step EXCEPT ![t] = "read"]
    /\ edit' = [edit EXCEPT ![t] = [field |-> f, value |-> v, seen |-> Default]]
    /\ writes' = writes + 1
    /\ UNCHANGED <<record, sound, busy, raced, start, crashes>>

AsItIs(t) == edit[t].field \in NetFields /\ record[edit[t].field] = edit[t].value

ReadRecord(t) ==
    /\ step[t] = "read" /\ CanRead /\ ~AsItIs(t)
    /\ step' = [step EXCEPT ![t] = "write"]
    /\ edit' = [edit EXCEPT ![t].seen = record]
    /\ raced' = [raced EXCEPT ![t] = FALSE]
    /\ UNCHANGED <<record, sound, busy, start, writes, crashes>>

NothingToWrite(t) ==
    /\ step[t] = "read" /\ CanRead /\ AsItIs(t)
    /\ step' = [step EXCEPT ![t] = "idle"]
    /\ edit' = [edit EXCEPT ![t] = NoEdit]
    /\ UNCHANGED <<record, sound, busy, raced, start, writes, crashes>>

\* Slip: the record is built from the defaults.
EditedFresh(t) == [Default EXCEPT ![edit[t].field] = edit[t].value]

\* write_config_info: the record and its CRC, under the semaphore.
Edited(t) == [edit[t].seen EXCEPT ![edit[t].field] = edit[t].value]

WriteBegins(t) ==
    /\ step[t] = "write" /\ busy = "none"
    /\ busy' = t /\ sound' = FALSE
    /\ UNCHANGED <<record, step, edit, raced, start, writes, crashes>>

WriteEnds(t) ==
    /\ busy = t
    /\ record' = Edited(t) /\ sound' = TRUE /\ busy' = "none"
    /\ step' = [step EXCEPT ![t] = "idle"] /\ edit' = [edit EXCEPT ![t] = NoEdit]
    /\ raced' = [u \in Writers |-> step[u] = "write" /\ u # t]
    /\ UNCHANGED <<start, writes, crashes>>

\* The semaphore was not free for three seconds.
WriteFails(t) ==
    /\ step[t] \in {"read", "write"} /\ busy \notin {"none", t}
    /\ step' = [step EXCEPT ![t] = "idle"] /\ edit' = [edit EXCEPT ![t] = NoEdit]
    /\ raced' = [raced EXCEPT ![t] = FALSE]
    /\ UNCHANGED <<record, sound, busy, start, writes, crashes>>

\* config_init: the file cannot be read, or s_config_verify finds the CRC
\* wrong.
NeedsDefaults(read, ok) == ~read \/ ~ok

\* The record with the version of the databases that a program has.
OfVersion(rec, v) == [f \in Fields |-> IF f = "databasever" THEN v ELSE rec[f]]

\* s_revise_config_info, by which read_config_info lays the program's own
\* version over the one in the file
Revised(rec, v) == OfVersion(rec, v)

\* config_init compares what read_config_info gave it with the program's
\* version.
Outdated(rec, v) ==
    "databasever" \in Fields /\ Revised(rec, v)["databasever"] # v

\* A crash, and the start after it, perhaps of a program with another version
\* of the databases.  The write that was under way is done, not done or half
\* done.  When the record is replaced or brought up to the version, main
\* deletes every database and starts over.  A start that cannot write the
\* record ends without a change, and is not a step.
Restart ==
    /\ crashes < MaxCrashes /\ crashes' = crashes + 1
    /\ \E read \in BOOLEAN, ok \in {TRUE, sound}, v \in Versions :
       \E rec \in {record} \cup {Edited(t) : t \in {u \in Writers : busy = u}} :
          \/ /\ NeedsDefaults(read, ok)
             /\ record' = OfVersion(Default, v)
             /\ start' = IF read THEN "wiped" ELSE "unread"
          \/ /\ ~NeedsDefaults(read, ok) /\ Outdated(rec, v)
             /\ record' = OfVersion(rec, v) /\ start' = "wiped"
          \/ /\ ~NeedsDefaults(read, ok) /\ ~Outdated(rec, v)
             /\ record' = rec /\ start' = "kept"
    /\ sound' = TRUE /\ busy' = "none"
    /\ step' = [t \in Writers |-> "idle"] /\ edit' = [t \in Writers |-> NoEdit]
    /\ raced' = [t \in Writers |-> FALSE]
    /\ UNCHANGED writes

ConfigNext ==
    \E t \in Writers :
        \/ \E f \in Fields, v \in Values : StartWrite(t, f, v)
        \/ ReadRecord(t) \/ NothingToWrite(t)
        \/ WriteBegins(t) \/ WriteEnds(t) \/ WriteFails(t)

-----------------------------------------------------------------------------
ConfigTypeOK ==
    /\ record \in Records /\ sound \in BOOLEAN /\ busy \in Writers \cup {"none"}
    /\ step \in [Writers -> {"idle", "read", "write"}]
    /\ edit \in [Writers -> [field: Fields \cup {"none"}, value: Values, seen: Records]]
    /\ start \in {"kept", "wiped", "unread"}

\* A write changes the field it is for and no other, unless another write
\* ended between its read and its write (write_config_info_name and the like).
OnlyItsField ==
    [][crashes' = crashes =>
         \A f \in Fields : record'[f] # record[f] =>
            busy \in Writers /\ (edit[busy].field = f \/ raced[busy])]_configVars

\* A start loses the record or the databases only if the crash before it fell
\* into a write of the record, or if it cannot read the file (config_init,
\* beeSAM_main.c:98).  A program with another version of the databases keeps
\* both.
LostOnlyIfTorn ==
    [][crashes' # crashes /\ (start' = "wiped" \/ (start' = "kept" /\ record' # record)) =>
         busy # "none"]_configVars

\* The record loses nothing but what a crash in a write of it, or a file that
\* cannot be read, destroys.
RecordKept == OnlyItsField /\ LostOnlyIfTorn
=============================================================================
