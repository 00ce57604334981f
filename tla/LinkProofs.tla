------------------------------ MODULE LinkProofs ------------------------------
(***************************************************************************)
(* The gateway's two lines.  To the cloud, for any number of messages,     *)
(* fragments and frames under way: frames are whole, none goes out before  *)
(* the upgrade, messages are handed over as they were sent; and the record *)
(* of config.c, for any set of its fields: a write changes its own field,  *)
(* and only a torn write, or a file that cannot be read, costs the record  *)
(* and the databases.  To the Zigbee module, for any number of callers and *)
(* commands and however late it answers: the serial line is used by one    *)
(* query at a time, and the listener copies only into the buffer of a      *)
(* query in progress.                                                      *)
(***************************************************************************)
EXTENDS CloudLink, AtPort, FiniteSetTheorems, TLAPS

-----------------------------------------------------------------------------
(* The invariant, part by part. *)

\* Whoever is in file_write holds a record it has read, and the file is torn
\* as long as it is there.  A writer whose read no other write has overtaken
\* holds the record of the file.
RecordInv ==
    /\ ConfigTypeOK
    /\ raced \in [Writers -> BOOLEAN] /\ crashes \in Nat
    /\ busy # "none" => step[busy] = "write"
    /\ ~sound => busy # "none"
    /\ \A t \in Writers : step[t] = "write" /\ ~raced[t] => edit[t].seen = record

\* The places of the threads.  Without a client there is no thread but the
\* daemon, and nothing to read.
ThreadsInv ==
    /\ daemon \in {"portal", "addr", "new", "callbacks", "run", "join", "start", "beat"}
    /\ handshake \in {"none", "connect", "reply", "101", "open", "hello", "done", "failed"}
    /\ run \in {"none", "read", "answer", "end"} /\ helper \in {"none", "accept", "recv"}
    /\ client \in {"none", "live", "freed", "used"} /\ connecting \in BOOLEAN
    /\ sends \in 0..MaxSends
    /\ daemon \in {"portal", "addr", "new"} =>
          handshake = "none" /\ run = "none" /\ client = "none" /\ socket = "none"
    /\ handshake = "connect" => socket = "none"
    /\ client = "none" => daemon \in {"portal", "addr", "new"}
    /\ handshake \in {"connect", "reply", "101"} =>
          connecting /\ daemon \in {"callbacks", "run", "join"}
    /\ daemon # "beat" => run = "none"

\* Nothing is read before the thread that reads is there.
ReadInv == run = "none" => frames = <<>> /\ got = <<>>

\* A frame that is half sent has the lock, and so has the program that the
\* helper serves, between its fragments too; all but the message of a program
\* that could not be read to its end.
LockInv ==
    /\ send \in [Senders -> {"no", "wait", "half"}] /\ lock \in Senders \cup {"none"}
    /\ send["helper"] # "wait"
    /\ \A x \in Senders \ Abandoned : send[x] = "half" => lock = x
    /\ helper = "recv" => lock = "helper"

\* Whatever lets a frame out comes after the upgrade, or after a handshake
\* that failed: the end of CLIENT_CONNECTING, and a frame of the server.
Admitted == upgraded \/ handshake = "failed"

UpgradeInv ==
    /\ handshake \in {"101", "open", "hello", "done"} => upgraded
    /\ client # "none" /\ ~connecting => Admitted
    /\ down # <<>> => upgraded
    /\ \A x \in Senders : send[x] # "no" => Admitted

\* Where a stream of fragments has got to: the message and the number of the
\* fragment that comes next.
Points == [msg: Nat, part: Nat]
Base == IF got = <<>> THEN from.part - 1 ELSE 0
Received == Point(from.msg + Len(got), Base + Len(frames) + 1)

\* The frames under way lead from what is received to what is sent: w is the
\* point before and after each of them.  Control frames lead nowhere, and
\* what a lost connection has under way does not lead to the end.
Leads(w) ==
    /\ w[0] = Received
    /\ socket \in {"none", "open"} => w[Len(down)] = After(sent)
    /\ \A i \in 1..Len(down) :
          IF down[i] \in Part
          THEN Point(down[i].msg, down[i].part) = w[i - 1]
               /\ w[i] = After(down[i])
               /\ (down[i].part = MaxParts => down[i].fin)
          ELSE w[i] = w[i - 1]

StreamTypes ==
    /\ down \in Seq(Frames) /\ Len(down) <= MaxDown
    /\ sent \in [msg: Nat, part: Nat, fin: BOOLEAN]
    /\ from \in [msg: Nat, part: Nat \ {0}] \cup {Nowhere}
    /\ frames \in Seq(Frames) /\ got \in Seq(Seq(Frames)) /\ Len(frames) < MaxParts

\* Without a point where the reading begins, nothing comes any more.
StreamInv ==
    /\ StreamTypes
    /\ from = Nowhere => down = <<>>
    /\ from # Nowhere =>
          /\ \A p \in DOMAIN frames :
                frames[p] = [msg |-> from.msg + Len(got), part |-> Base + p, fin |-> FALSE]
          /\ MessagesWhole
          /\ \E w \in [0..Len(down) -> Points] : Leads(w)

Inv == RecordInv /\ ThreadsInv /\ ReadInv /\ LockInv /\ UpgradeInv /\ StreamInv

-----------------------------------------------------------------------------
(* The record. *)

LEMMA RecordTypes ==
    ASSUME RecordInv, NEW t \in Writers
    PROVE  /\ record \in Records /\ edit[t].seen \in Records
           /\ edit[t].value \in Values /\ Edited(t) \in Records
           /\ NoEdit \in [field: Fields \cup {"none"}, value: Values, seen: Records]
           /\ t # "none"
<1>1. record \in Records /\ edit[t] \in [field: Fields \cup {"none"}, value: Values, seen: Records]
  BY DEF RecordInv, ConfigTypeOK
<1>2. Edited(t) \in Records
  BY <1>1 DEF Edited, Records
<1>3. Default \in Records
  BY DEF Default, Records, Values
<1> QED BY <1>1, <1>2, <1>3, ConfigAssumption DEF NoEdit, Values

LEMMA RecordStep ==
    ASSUME RecordInv, ConfigNext PROVE RecordInv'
<1>1. PICK t \in Writers :
        \/ \E f \in Fields, v \in Values : StartWrite(t, f, v)
        \/ ReadRecord(t) \/ NothingToWrite(t)
        \/ WriteBegins(t) \/ WriteEnds(t) \/ WriteFails(t)
  BY DEF ConfigNext
<1>2. /\ record \in Records /\ Edited(t) \in Records /\ Default \in Records
      /\ NoEdit \in [field: Fields \cup {"none"}, value: Values, seen: Records]
  BY RecordTypes DEF Default, Records, Values
<1> USE DEF RecordInv, ConfigTypeOK
<1>3. CASE \E f \in Fields, v \in Values : StartWrite(t, f, v)
  BY <1>2, <1>3 DEF StartWrite
<1>4. CASE ReadRecord(t)
  BY <1>2, <1>4 DEF ReadRecord, CanRead
<1>5. CASE NothingToWrite(t)
  BY <1>2, <1>5 DEF NothingToWrite
<1>6. CASE WriteBegins(t)
  BY <1>2, RecordTypes, <1>6 DEF WriteBegins
<1>7. CASE WriteEnds(t)
  BY <1>2, <1>7 DEF WriteEnds
<1>8. CASE WriteFails(t)
  BY <1>2, <1>8 DEF WriteFails
<1> QED BY <1>1, <1>3, <1>4, <1>5, <1>6, <1>7, <1>8

\* The comparison of the versions comes after the one has been laid over the
\* other, and finds no difference.
LEMMA NeverOutdated ==
    ASSUME NEW rec, NEW v \in Versions PROVE ~Outdated(rec, v)
BY DEF Outdated, Revised, OfVersion

LEMMA RecordRestart ==
    ASSUME RecordInv, Restart
    PROVE  /\ RecordInv' /\ crashes' # crashes
           /\ start' = "wiped" \/ (start' = "kept" /\ record' # record) => busy # "none"
<1>1. PICK read \in BOOLEAN, ok \in {TRUE, sound}, v \in Versions,
           rec \in {record} \cup {Edited(t) : t \in {u \in Writers : busy = u}} :
         \/ /\ NeedsDefaults(read, ok)
            /\ record' = OfVersion(Default, v)
            /\ start' = IF read THEN "wiped" ELSE "unread"
         \/ /\ ~NeedsDefaults(read, ok) /\ Outdated(rec, v)
            /\ record' = OfVersion(rec, v) /\ start' = "wiped"
         \/ /\ ~NeedsDefaults(read, ok) /\ ~Outdated(rec, v)
            /\ record' = rec /\ start' = "kept"
  BY Zenon DEF Restart
<1>2. /\ Default \in Records /\ record \in Records
      /\ \A t \in Writers : Edited(t) \in Records
  BY RecordTypes DEF Default, Records, Values, RecordInv, ConfigTypeOK
<1>3. rec \in Records /\ OfVersion(Default, v) \in Records
  <2>1. \A f \in Fields : OfVersion(Default, v)[f] \in Values
    BY <1>2, ConfigAssumption DEF OfVersion, Records, Values
  <2>2. OfVersion(Default, v) = [f \in Fields |-> OfVersion(Default, v)[f]]
    BY DEF OfVersion
  <2> QED BY <1>2, <2>1, <2>2 DEF Records
<1>4. ~Outdated(rec, v)
  BY NeverOutdated
<1>5. record' \in Records /\ start' \in {"kept", "wiped", "unread"}
  BY <1>1, <1>3, <1>4
<1>6. NoEdit \in [field: Fields \cup {"none"}, value: Values, seen: Records]
  BY <1>2 DEF NoEdit, Values
<1>7. RecordInv' /\ crashes' # crashes
  BY <1>5, <1>6 DEF Restart, RecordInv, ConfigTypeOK
<1>8. start' = "wiped" => busy # "none"
  <2>1. start' = "wiped" => ok = FALSE
    BY <1>1, <1>4 DEF NeedsDefaults, RecordInv, ConfigTypeOK
  <2> QED BY <2>1 DEF RecordInv, ConfigTypeOK
<1>9. start' = "kept" /\ record' # record => busy # "none"
  <2>1. start' = "kept" => record' = rec
    BY <1>1
  <2>2. rec # record => busy \in Writers
    OBVIOUS
  <2> QED BY <2>1, <2>2, RecordTypes
<1> QED BY <1>7, <1>8, <1>9

LEMMA RecordStays ==
    ASSUME RecordInv, UNCHANGED configVars PROVE RecordInv'
BY DEF RecordInv, ConfigTypeOK, configVars

\* The steps that write the record, or delete the databases.
LEMMA RecordWrites ==
    ASSUME RecordInv, [ConfigNext \/ Restart]_configVars
    PROVE  /\ crashes' = crashes =>
                \A f \in Fields : record'[f] # record[f] =>
                    busy \in Writers /\ (edit[busy].field = f \/ raced[busy])
           /\ crashes' # crashes /\ (start' = "wiped" \/ (start' = "kept" /\ record' # record)) =>
                busy # "none"
<1>1. CASE ConfigNext
  <2>1. PICK t \in Writers :
        \/ \E f \in Fields, v \in Values : StartWrite(t, f, v)
        \/ ReadRecord(t) \/ NothingToWrite(t)
        \/ WriteBegins(t) \/ WriteEnds(t) \/ WriteFails(t)
    BY <1>1 DEF ConfigNext
  <2>2. CASE WriteEnds(t)
    <3>1. busy = t /\ step[t] = "write" /\ record' = Edited(t) /\ crashes' = crashes
      BY <2>2, RecordTypes DEF WriteEnds, RecordInv
    <3>2. ASSUME NEW f \in Fields, record'[f] # record[f], ~raced[t]
          PROVE  edit[t].field = f
      <4>1. edit[t].seen = record
        BY <3>1, <3>2 DEF RecordInv
      <4> QED BY <3>1, <3>2, <4>1, RecordTypes DEF Edited, Records
    <3> QED BY <3>1, <3>2
  <2>3. CASE ~WriteEnds(t)
    <3>1. record' = record /\ crashes' = crashes
      BY <2>1, <2>3 DEF StartWrite, ReadRecord, NothingToWrite, WriteBegins, WriteFails
    <3> QED BY <3>1
  <2> QED BY <2>2, <2>3
<1>2. CASE Restart
  BY <1>2, RecordRestart
<1>3. CASE UNCHANGED configVars
  BY <1>3 DEF configVars
<1> QED BY <1>1, <1>2, <1>3

-----------------------------------------------------------------------------
(* The threads, the lock and the upgrade. *)

\* The steps of the connection, without writes of the record and crashes.
LinkNext ==
    \/ DaemonNext \/ Beat \/ ReportSent \/ HandshakeNext \/ SendNext \/ HelperNext
    \/ RunNext \/ ServerUpgrades \/ ServerSends \/ ServerControls \/ ServerEnds \/ UseFreed

LEMMA NextCases ==
    Next <=> \/ daemon \in {"portal", "addr", "new"} /\ ConfigNext /\ UNCHANGED linkVars
             \/ LinkNext \/ Crash
BY DEF Next, LinkNext

LEMMA LinkKeepsRecord ==
    ASSUME LinkNext PROVE UNCHANGED configVars
<1>1. CASE DaemonNext
  BY <1>1 DEF DaemonNext, ReadPortal, ReadAddr, NewClient, SetCallbacks, RunChecks,
              RunJoins, RunStarts, ThreadVars
<1>2. CASE HandshakeNext
  BY <1>2 DEF HandshakeNext, Connected, NotConnected, Rejected, Answered, Swallow, SwallowHalf, Accepted, Opened,
              Introduced, HandshakeVars
<1>3. CASE SendNext
  BY <1>3 DEF SendNext, FirstBytes, LastBytes
<1>4. CASE HelperNext
  BY <1>4 DEF HelperNext, HelperAccepts, HelperFragment, HelperEnds, HelperFails, HelperVars
<1>5. CASE RunNext
  BY <1>5 DEF RunNext, InData, DispatchMessage, CloseFrame, CloseAnswered, OtherControl,
              Misread, RunEnds, RunVars
<1>6. CASE Beat \/ ReportSent
  BY <1>6 DEF Beat, ReportSent
<1>7. CASE ServerUpgrades \/ ServerSends \/ ServerControls \/ ServerEnds
  BY <1>7 DEF ServerUpgrades, ServerSends, ServerControls, ServerEnds, ServerVars
<1>8. CASE UseFreed
  BY <1>8 DEF UseFreed, RunVars
<1> QED BY <1>1, <1>2, <1>3, <1>4, <1>5, <1>6, <1>7, <1>8 DEF LinkNext

LEMMA ThreadsStep ==
    ASSUME ThreadsInv, LinkNext PROVE ThreadsInv'
<1> USE DEF ThreadsInv
<1>1. CASE DaemonNext
  BY <1>1 DEF DaemonNext, ReadPortal, ReadAddr, NewClient, SetCallbacks, RunChecks,
              RunJoins, RunStarts, ThreadVars
<1>2. CASE HandshakeNext
  BY <1>2 DEF HandshakeNext, Connected, NotConnected, AfterFailure, Rejected, Answered,
              Swallow, SwallowHalf, Accepted,
              Opened, Introduced, HandshakeVars
<1>3. CASE SendNext
  BY <1>3 DEF SendNext, FirstBytes, LastBytes
<1>4. CASE HelperNext
  BY <1>4, LinkAssumption
     DEF MoreSends, HelperNext, HelperAccepts, HelperFragment, HelperEnds, HelperFails, HelperVars
<1>5. CASE RunNext
  BY <1>5 DEF RunNext, Frame, InData, DispatchMessage, CloseFrame, CloseAnswered,
              OtherControl, Misread, RunEnds, RunVars
<1>6. CASE Beat \/ ReportSent
  BY <1>6, LinkAssumption DEF Beat, ReportSent, MoreSends
<1>7. CASE ServerUpgrades \/ ServerSends \/ ServerControls \/ ServerEnds
  BY <1>7 DEF ServerUpgrades, ServerSends, ServerControls, ServerEnds, ServerVars
<1>8. CASE UseFreed
  BY <1>8 DEF UseFreed, RunVars
<1> QED BY <1>1, <1>2, <1>3, <1>4, <1>5, <1>6, <1>7, <1>8 DEF LinkNext

LEMMA ReadStep ==
    ASSUME ThreadsInv, ReadInv, LinkNext PROVE ReadInv'
<1> USE DEF ThreadsInv, ReadInv
<1>1. CASE DaemonNext
  BY <1>1 DEF DaemonNext, ReadPortal, ReadAddr, NewClient, SetCallbacks, RunChecks,
              RunJoins, RunStarts, ThreadVars
<1>2. CASE HandshakeNext
  BY <1>2 DEF HandshakeNext, Connected, NotConnected, Rejected, Answered, Swallow,
              SwallowHalf, Accepted, Opened, Introduced, HandshakeVars
<1>3. CASE SendNext
  BY <1>3 DEF SendNext, FirstBytes, LastBytes
<1>4. CASE HelperNext
  BY <1>4 DEF HelperNext, HelperAccepts, HelperFragment, HelperEnds, HelperFails,
              HelperVars
<1>5. CASE RunNext
  BY <1>5 DEF RunNext, Frame, InData, DispatchMessage, CloseFrame, CloseAnswered,
              OtherControl, Misread, RunEnds, RunVars
<1>6. CASE Beat \/ ReportSent
  BY <1>6 DEF Beat, ReportSent
<1>7. CASE ServerUpgrades \/ ServerSends \/ ServerControls \/ ServerEnds
  BY <1>7 DEF ServerUpgrades, ServerSends, ServerControls, ServerEnds, ServerVars
<1>8. CASE UseFreed
  BY <1>8 DEF UseFreed, RunVars
<1> QED BY <1>1, <1>2, <1>3, <1>4, <1>5, <1>6, <1>7, <1>8 DEF LinkNext

LEMMA LockStep ==
    ASSUME LockInv, LinkNext PROVE LockInv'
<1> USE DEF LockInv, Senders, Abandoned
<1>1. CASE DaemonNext
  BY <1>1 DEF DaemonNext, ReadPortal, ReadAddr, NewClient, SetCallbacks, RunChecks,
              RunJoins, RunStarts, ThreadVars
<1>2. CASE HandshakeNext
  BY <1>2 DEF HandshakeNext, Connected, NotConnected, Rejected, Answered, Swallow, SwallowHalf, Accepted, Opened, Offer,
              Introduced, HandshakeVars
<1>3. CASE SendNext
  BY <1>3 DEF SendNext, FirstBytes, FreeToSend, LastBytes
<1>4. CASE HelperNext
  BY <1>4 DEF HelperNext, HelperAccepts, HelperFragment, HelperEnds, HelperFails, HelperVars
<1>5. CASE RunNext
  BY <1>5 DEF RunNext, InData, DispatchMessage, CloseFrame, CloseAnswered, OtherControl,
              Misread, RunEnds, RunVars
<1>6. CASE Beat \/ ReportSent
  BY <1>6 DEF Beat, ReportSent, Offer
<1>7. CASE ServerUpgrades \/ ServerSends \/ ServerControls \/ ServerEnds
  BY <1>7 DEF ServerUpgrades, ServerSends, ServerControls, ServerEnds, ServerVars
<1>8. CASE UseFreed
  BY <1>8 DEF UseFreed, RunVars
<1> QED BY <1>1, <1>2, <1>3, <1>4, <1>5, <1>6, <1>7, <1>8 DEF LinkNext

LEMMA UpgradeStep ==
    ASSUME ThreadsInv, LockInv, UpgradeInv, down \in Seq(Frames), LinkNext
    PROVE  UpgradeInv'
<1> USE DEF UpgradeInv, Admitted
<1>1. CASE DaemonNext
  BY <1>1 DEF DaemonNext, ReadPortal, ReadAddr, NewClient, SetCallbacks, RunChecks,
              RunJoins, RunStarts, ThreadVars, ThreadsInv
<1>2. CASE HandshakeNext
  BY <1>2 DEF HandshakeNext, Connected, NotConnected, AfterFailure, Rejected, Answered,
              Swallow, SwallowHalf, Accepted,
              Opened, Offer, Introduced, HandshakeVars, ThreadsInv, LockInv
<1>3. CASE SendNext
  BY <1>3 DEF SendNext, FirstBytes, LastBytes, LockInv
<1>4. CASE HelperNext
  BY <1>4 DEF HelperNext, HelperAccepts, HelperFragment, HelperEnds, HelperFails, HelperVars, LockInv
<1>5. CASE RunNext
  <2>1. ASSUME NEW f, Frame(f) PROVE upgraded
    BY <2>1 DEF Frame
  <2>2. CASE \E f \in Part : InData(f) \/ DispatchMessage(f)
    BY <2>1, <2>2 DEF InData, DispatchMessage, RunVars
  <2>3. CASE CloseFrame
    BY <2>1, <2>3 DEF CloseFrame, RunVars, LockInv
  <2>4. CASE CloseAnswered \/ OtherControl \/ Misread
    BY <2>1, <2>4 DEF CloseAnswered, OtherControl, Misread, RunVars
  <2>5. CASE RunEnds
    BY <2>5 DEF RunEnds, RunVars, ThreadsInv
  <2> QED BY <1>5, <2>2, <2>3, <2>4, <2>5 DEF RunNext
<1>6. CASE Beat \/ ReportSent
  BY <1>6 DEF Beat, ReportSent, Offer, LockInv
<1>7. CASE ServerUpgrades \/ ServerSends \/ ServerControls \/ ServerEnds
  BY <1>7 DEF ServerUpgrades, ServerSends, ServerControls, MaySend, ServerEnds, ServerVars
<1>8. CASE UseFreed
  BY <1>8 DEF UseFreed, RunVars
<1> QED BY <1>1, <1>2, <1>3, <1>4, <1>5, <1>6, <1>7, <1>8 DEF LinkNext

-----------------------------------------------------------------------------
(* Messages. *)

\* What the parts of a message have to do with each other and with the
\* bounds.
LEMMA PartTypes ==
    ASSUME NEW f \in Part
    PROVE  /\ f \in Frames /\ f = [msg |-> f.msg, part |-> f.part, fin |-> f.fin]
           /\ f.msg \in Nat \ {0} /\ f.part \in 1..MaxParts /\ f.fin \in BOOLEAN
           /\ After(f) \in Points
BY LinkAssumption DEF Part, Frames, After, Point, Points

LEMMA ControlTypes ==
    Close \in Frames \ Part /\ Other \in Frames \ Part
BY LinkAssumption DEF Close, Other, Frames, Part

\* Taking the first frame: what is left leads from the point after it.
LEMMA TakeFirst ==
    ASSUME StreamInv, down # <<>>, down' = Tail(down), sent' = sent, socket' = socket,
           IF Head(down) \in Part THEN Received' = After(Head(down))
           ELSE Received' = Received
    PROVE  /\ down' \in Seq(Frames) /\ Len(down') <= MaxDown
           /\ (\E w \in [0..Len(down) -> Points] : Leads(w))'
<1>1. /\ down \in Seq(Frames) /\ Len(down) <= MaxDown /\ Len(down) \in Nat \ {0}
      /\ Head(down) = down[1]
  BY DEF StreamInv, StreamTypes
<1>2. /\ down' \in Seq(Frames) /\ Len(down') = Len(down) - 1
      /\ \A i \in 1..Len(down') : down'[i] = down[i + 1]
  BY <1>1
<1>3. PICK w \in [0..Len(down) -> Points] : Leads(w)
  BY DEF StreamInv
<1>4. PICK v \in [0..Len(down') -> Points] :
             \A i \in 0..Len(down') : v[i] = w[i + 1]
  <2> DEFINE u == [i \in 0..Len(down') |-> w[i + 1]]
  <2>1. u \in [0..Len(down') -> Points]
    BY <1>1, <1>2
  <2> QED BY <2>1
<1>5. v[0] = Received'
  <2>1. v[0] = w[1] /\ w[0] = Received
    BY <1>1, <1>2, <1>3, <1>4 DEF Leads
  <2>2. IF down[1] \in Part THEN w[1] = After(down[1]) ELSE w[1] = w[0]
    <3>1. 1 \in 1..Len(down) /\ 1 - 1 = 0
      BY <1>1
    <3>2. IF down[1] \in Part THEN w[1] = After(down[1]) ELSE w[1] = w[1 - 1]
      BY <1>3, <3>1, Zenon DEF Leads
    <3> QED BY <3>1, <3>2
  <2> QED BY <1>1, <2>1, <2>2
<1>6. socket' \in {"none", "open"} => v[Len(down')] = After(sent')
  <2>1. v[Len(down')] = w[Len(down)]
    BY <1>1, <1>2, <1>4
  <2> QED BY <1>3, <2>1 DEF Leads, After
<1>7. ASSUME NEW i \in 1..Len(down')
      PROVE  IF down'[i] \in Part
             THEN Point(down'[i].msg, down'[i].part) = v[i - 1]
                  /\ v[i] = After(down'[i])
                  /\ (down'[i].part = MaxParts => down'[i].fin)
             ELSE v[i] = v[i - 1]
  <2>1. i + 1 \in 1..Len(down) /\ v[i] = w[i + 1] /\ v[i - 1] = w[(i + 1) - 1]
        /\ down'[i] = down[i + 1]
    BY <1>1, <1>2, <1>4
  <2> QED BY <1>3, <2>1 DEF Leads
<1>8. Leads(v)'
  BY <1>5, <1>6, <1>7 DEF Leads
<1> QED BY <1>1, <1>2, <1>4, <1>8, LinkAssumption

\* A frame of the server: a part that follows what it has sent, or a control
\* frame.
LEMMA AddLast ==
    ASSUME StreamInv, from # Nowhere, NEW f \in Frames, Len(down) < MaxDown,
           socket = "open", socket' = socket,
           down' = Append(down, f), Received' = Received,
           sent' \in [msg: Nat, part: Nat, fin: BOOLEAN],
           IF f \in Part
           THEN /\ Point(f.msg, f.part) = After(sent) /\ sent' = f
                /\ f.part = MaxParts => f.fin
           ELSE sent' = sent
    PROVE  /\ down' \in Seq(Frames) /\ Len(down') <= MaxDown
           /\ (\E w \in [0..Len(down) -> Points] : Leads(w))'
<1>1. down \in Seq(Frames) /\ Len(down) \in Nat /\ MaxDown \in Nat
  BY LinkAssumption DEF StreamInv, StreamTypes
<1>2. /\ down' \in Seq(Frames) /\ Len(down') = Len(down) + 1
      /\ \A i \in 1..Len(down) : down'[i] = down[i]
      /\ down'[Len(down')] = f
  BY <1>1
<1>3. PICK w \in [0..Len(down) -> Points] : Leads(w)
  BY DEF StreamInv
<1>4. After(sent') \in Points
  BY DEF After, Point, Points
<1>5. PICK v \in [0..Len(down') -> Points] :
             \A i \in 0..Len(down') : v[i] = IF i = Len(down') THEN After(sent') ELSE w[i]
  <2> DEFINE u == [i \in 0..Len(down') |-> IF i = Len(down') THEN After(sent') ELSE w[i]]
  <2>1. u \in [0..Len(down') -> Points]
    BY <1>1, <1>2, <1>4
  <2> QED BY <2>1
<1>6. v[0] = Received' /\ v[Len(down')] = After(sent')
  BY <1>1, <1>2, <1>3, <1>5 DEF Leads
<1>7. ASSUME NEW i \in 1..Len(down')
      PROVE  IF down'[i] \in Part
             THEN Point(down'[i].msg, down'[i].part) = v[i - 1]
                  /\ v[i] = After(down'[i])
                  /\ (down'[i].part = MaxParts => down'[i].fin)
             ELSE v[i] = v[i - 1]
  <2>1. CASE i \in 1..Len(down)
    <3>1. /\ Len(down) \in Nat /\ Len(down') = Len(down) + 1
          /\ i \in 0..Len(down') /\ i - 1 \in 0..Len(down')
          /\ i # Len(down') /\ i - 1 # Len(down')
      BY <1>1, <1>2, <2>1
    <3>2. v[i] = w[i] /\ v[i - 1] = w[i - 1]
      BY <1>5, <3>1
    <3>3. down'[i] = down[i]
      BY <1>1, <2>1
    <3>4. v[i] = w[i] /\ v[i - 1] = w[i - 1] /\ down'[i] = down[i]
      BY <3>2, <3>3
    <3> QED BY <1>3, <2>1, <3>4 DEF Leads
  <2>2. CASE i = Len(down')
    <3>1. v[i] = After(sent') /\ v[i - 1] = w[Len(down)] /\ down'[i] = f
      BY <1>1, <1>2, <1>5, <2>2
    <3>2. w[Len(down)] = After(sent)
      BY <1>3 DEF Leads
    <3> QED BY <3>1, <3>2 DEF After
  <2> QED BY <1>1, <1>2, <2>1, <2>2
<1>8. Leads(v)'
  BY <1>6, <1>7 DEF Leads, After
<1> QED BY <1>1, <1>2, <1>5, <1>8

LEMMA Appended ==
    ASSUME NEW S, NEW s \in Seq(S), NEW e \in S
    PROVE  /\ Append(s, e) \in Seq(S) /\ Len(Append(s, e)) = Len(s) + 1
           /\ DOMAIN Append(s, e) = DOMAIN s \cup {Len(s) + 1}
           /\ \A p \in DOMAIN s : Append(s, e)[p] = s[p]
           /\ Append(s, e)[Len(s) + 1] = e
OBVIOUS

\* The part that comes first under way is the next of its message.
LEMMA FirstIsNext ==
    ASSUME StreamInv, NEW f \in Part, Frame(f)
    PROVE  /\ from # Nowhere
           /\ f.msg = from.msg + Len(got) /\ f.part = Base + Len(frames) + 1
           /\ f.part = MaxParts => f.fin
<1>1. down \in Seq(Frames) /\ down # <<>> /\ Head(down) = f /\ 1 \in 1..Len(down)
      /\ down[1] = f /\ 1 - 1 = 0
  BY DEF StreamInv, StreamTypes, Frame
<1>2. from # Nowhere
  BY <1>1 DEF StreamInv
<1>3. PICK w \in [0..Len(down) -> Points] : Leads(w)
  BY <1>2 DEF StreamInv
<1>4. w[0] = Received
  BY <1>3 DEF Leads
<1>5. /\ Point(down[1].msg, down[1].part) = w[1 - 1]
      /\ down[1].part = MaxParts => down[1].fin
  BY <1>1, <1>3, Zenon DEF Leads
<1>6. Point(f.msg, f.part) = Point(from.msg + Len(got), Base + Len(frames) + 1)
  BY <1>1, <1>4, <1>5 DEF Received
<1> QED BY <1>1, <1>2, <1>5, <1>6 DEF Point

\* Where the reading begins, in numbers.
LEMMA BaseTypes ==
    ASSUME StreamTypes, from # Nowhere
    PROVE  /\ from.msg \in Nat /\ from.part \in Nat \ {0} /\ Base \in Nat
           /\ got = <<>> => Base + 1 = from.part
           /\ got # <<>> => Base = 0
           /\ Len(got) \in Nat /\ Len(frames) \in Nat
           /\ (got = <<>>) <=> (Len(got) = 0)
BY DEF StreamTypes, Base

LEMMA InDataStep ==
    ASSUME StreamInv, NEW f \in Part, InData(f) PROVE StreamInv'
<1>1. /\ Frame(f) /\ ~f.fin /\ frames' = Append(frames, f) /\ got' = got /\ sent' = sent
      /\ from' = from /\ socket' = socket
      /\ down # <<>> /\ down' = Tail(down) /\ Head(down) = f
  BY DEF InData, MoreToCome, Frame, RunVars
<1>2. from # Nowhere /\ f.msg = from.msg + Len(got) /\ f.part = Base + Len(frames) + 1
      /\ f.part # MaxParts
  BY <1>1, FirstIsNext
<1>3. frames \in Seq(Frames) /\ got \in Seq(Seq(Frames)) /\ f \in Frames /\ StreamTypes
  BY PartTypes DEF StreamInv, StreamTypes
<1>4. f = [msg |-> f.msg, part |-> f.part, fin |-> FALSE] /\ f.part \in 1..MaxParts
  <2>1. f = [msg |-> f.msg, part |-> f.part, fin |-> f.fin] /\ f.fin \in BOOLEAN
        /\ f.part \in 1..MaxParts
    BY PartTypes
  <2>2. f.fin = FALSE
    BY <1>1, <2>1
  <2> QED BY <2>1, <2>2
<1>5. Base \in Nat /\ Base' = Base
  BY <1>1, <1>2, <1>3, BaseTypes DEF Base
<1>6. frames' \in Seq(Frames) /\ Len(frames') < MaxParts /\ Len(frames') = Len(frames) + 1
  BY <1>1, <1>2, <1>3, <1>4, <1>5, LinkAssumption
<1>7. ASSUME NEW p \in DOMAIN frames'
      PROVE  frames'[p] = [msg |-> from.msg + Len(got), part |-> Base + p, fin |-> FALSE]
  <2>1. CASE p \in DOMAIN frames
    <3>1. frames[p] = [msg |-> from.msg + Len(got), part |-> Base + p, fin |-> FALSE]
      BY <1>2, <2>1 DEF StreamInv
    <3>2. frames'[p] = frames[p]
      BY <1>1, <1>3, <2>1, Appended
    <3> QED BY <3>1, <3>2
  <2>2. CASE p = Len(frames) + 1
    <3>1. frames'[p] = f
      BY <1>1, <1>3, <2>2, Appended
    <3>2. f.part = Base + p
      BY <1>2, <1>3, <1>5, <2>2
    <3> QED BY <1>2, <1>4, <3>1, <3>2
  <2> QED BY <1>1, <1>3, <2>1, <2>2, Appended
<1>8. Received' = After(f)
  <2>1. After(f) = Point(f.msg, f.part + 1)
    BY <1>1 DEF After
  <2>2. f.part + 1 = Base + Len(frames') + 1
    BY <1>2, <1>3, <1>5, <1>6
  <2> QED BY <1>1, <1>2, <1>5, <2>1, <2>2 DEF Received
<1>9. MessagesWhole'
  BY <1>1, <1>2 DEF StreamInv, MessagesWhole
<1>10. /\ down' \in Seq(Frames) /\ Len(down') <= MaxDown
       /\ (\E w \in [0..Len(down) -> Points] : Leads(w))'
  BY <1>1, <1>2, <1>8, TakeFirst
<1>11. StreamTypes'
  BY <1>1, <1>3, <1>6, <1>10 DEF StreamTypes, Nowhere, Point
<1>12. from' # Nowhere' /\ Nowhere' = Nowhere
  BY <1>1, <1>2 DEF Nowhere, Point
<1> QED BY <1>1, <1>5, <1>7, <1>9, <1>10, <1>11, <1>12 DEF StreamInv

\* The list of frames and the last one are the message, whole.
LEMMA DispatchStep ==
    ASSUME StreamInv, NEW f \in Part, DispatchMessage(f) PROVE StreamInv'
<1> DEFINE m == Append(frames, f)
<1>1. /\ Frame(f) /\ f.fin /\ frames' = <<>> /\ got' = Append(got, m) /\ sent' = sent
      /\ from' = from /\ socket' = socket
      /\ down # <<>> /\ down' = Tail(down) /\ Head(down) = f
  BY DEF DispatchMessage, AfterDispatch, Frame, RunVars
<1>2. from # Nowhere /\ f.msg = from.msg + Len(got) /\ f.part = Base + Len(frames) + 1
  BY <1>1, FirstIsNext
<1>3. frames \in Seq(Frames) /\ got \in Seq(Seq(Frames)) /\ f \in Frames /\ StreamTypes
  BY PartTypes DEF StreamInv, StreamTypes
<1>4. f = [msg |-> f.msg, part |-> f.part, fin |-> TRUE]
  <2>1. f = [msg |-> f.msg, part |-> f.part, fin |-> f.fin] /\ f.fin \in BOOLEAN
    BY PartTypes
  <2>2. f.fin = TRUE
    BY <1>1, <2>1
  <2> QED BY <2>1, <2>2
<1>5. m \in Seq(Frames) /\ Len(m) = Len(frames) + 1 /\ got' \in Seq(Seq(Frames))
      /\ Len(got') = Len(got) + 1 /\ got' # <<>>
  BY <1>1, <1>3
<1>6. Base \in Nat /\ Base' = 0 /\ from.msg \in Nat /\ Len(got) \in Nat
  BY <1>1, <1>2, <1>3, <1>5, BaseTypes DEF Base
<1>7. \A p \in DOMAIN m :
         m[p] = [msg |-> from.msg + Len(got), part |-> Base + p, fin |-> p = Len(m)]
  <2> SUFFICES ASSUME NEW p \in DOMAIN m
               PROVE  m[p] = [msg |-> from.msg + Len(got), part |-> Base + p,
                              fin |-> p = Len(m)]
    OBVIOUS
  <2>1. CASE p \in DOMAIN frames
    <3>1. m[p] = frames[p]
      BY <1>3, <2>1, Appended
    <3>2. frames[p] = [msg |-> from.msg + Len(got), part |-> Base + p, fin |-> FALSE]
      BY <1>2, <2>1 DEF StreamInv
    <3>3. (p = Len(m)) = FALSE
      BY <1>3, <1>5, <2>1
    <3> QED BY <3>1, <3>2, <3>3
  <2>2. CASE p = Len(frames) + 1
    <3>1. m[p] = f
      BY <1>3, <2>2, Appended
    <3>2. (p = Len(m)) = TRUE
      BY <1>5, <2>2
    <3>3. f.part = Base + p
      BY <1>2, <1>3, <1>6, <2>2
    <3> QED BY <1>2, <1>4, <3>1, <3>2, <3>3
  <2> QED BY <1>3, <2>1, <2>2
<1>8. MessagesWhole'
  <2> SUFFICES ASSUME NEW k \in DOMAIN got', NEW p \in DOMAIN got'[k]
               PROVE  got'[k][p] = [msg |-> from'.msg + k - 1,
                                    part |-> IF k = 1 THEN from'.part + p - 1 ELSE p,
                                    fin |-> p = Len(got'[k])]
    BY Zenon DEF MessagesWhole
  <2>1. CASE k \in DOMAIN got
    <3>1. got'[k] = got[k]
      BY <1>1, <1>3, <2>1
    <3>2. MessagesWhole
      BY <1>2 DEF StreamInv
    <3> QED BY <1>1, <1>2, <2>1, <3>1, <3>2 DEF MessagesWhole
  <2>2. CASE k = Len(got) + 1
    <3>1. got'[k] = m
      BY <1>1, <1>3, <2>2
    <3>2. p \in DOMAIN m /\ p \in Nat
      BY <1>5, <3>1
    <3>3. from.msg + Len(got) = from.msg + k - 1
      BY <1>6, <2>2
    <3>4. Base + p = IF k = 1 THEN from.part + p - 1 ELSE p
      <4>1. CASE got = <<>>
        <5>1. k = 1 /\ Base + 1 = from.part /\ from.part \in Nat
          BY <1>2, <1>3, <2>2, <4>1, BaseTypes
        <5> QED BY <1>6, <3>2, <5>1
      <4>2. CASE got # <<>>
        <5>1. k # 1 /\ Base = 0
          BY <1>2, <1>3, <2>2, <4>2, BaseTypes
        <5> QED BY <3>2, <5>1
      <4> QED BY <4>1, <4>2
    <3>5. m[p] = [msg |-> from.msg + Len(got), part |-> Base + p, fin |-> p = Len(m)]
      BY <1>7, <3>2
    <3>6. m[p] = [msg |-> from.msg + k - 1,
                  part |-> IF k = 1 THEN from.part + p - 1 ELSE p,
                  fin |-> p = Len(m)]
      BY <3>3, <3>4, <3>5
    <3> HIDE DEF m
    <3> QED BY <1>1, <3>1, <3>6
  <2> QED BY <1>1, <1>3, <1>5, <2>1, <2>2
<1>9. Received' = After(f)
  <2>1. After(f) = Point(f.msg + 1, 1)
    BY <1>1 DEF After
  <2>2. f.msg + 1 = from.msg + Len(got')
    <3>1. \A i, j \in Nat : (i + j) + 1 = i + (j + 1)
      OBVIOUS
    <3> QED BY <1>2, <1>5, <1>6, <3>1
  <2>3. Base' + Len(frames') + 1 = 1
    BY <1>1, <1>6
  <2> QED BY <1>1, <2>1, <2>2, <2>3 DEF Received
<1>10. /\ down' \in Seq(Frames) /\ Len(down') <= MaxDown
       /\ (\E w \in [0..Len(down) -> Points] : Leads(w))'
  BY <1>1, <1>9, TakeFirst
<1>11. frames' \in Seq(Frames) /\ Len(frames') < MaxParts /\ DOMAIN frames' = {}
  BY <1>1, LinkAssumption
<1>12. StreamTypes'
  BY <1>1, <1>3, <1>5, <1>10, <1>11 DEF StreamTypes, Nowhere, Point
<1>13. from' # Nowhere' /\ Nowhere' = Nowhere
  BY <1>1, <1>2 DEF Nowhere, Point
<1> QED BY <1>8, <1>10, <1>11, <1>12, <1>13 DEF StreamInv

\* A control frame leaves the list of frames as it is.
LEMMA ControlStep ==
    ASSUME StreamInv, CloseFrame \/ OtherControl PROVE StreamInv'
<1>1. /\ down # <<>> /\ down' = Tail(down) /\ Head(down) \notin Part
      /\ UNCHANGED <<frames, got, sent, from, socket>>
  BY ControlTypes DEF CloseFrame, OtherControl, Frame, RunVars
<1>2. Received' = Received /\ Base' = Base /\ from # Nowhere
  BY <1>1 DEF Received, Base, StreamInv
<1>3. /\ down' \in Seq(Frames) /\ Len(down') <= MaxDown
      /\ (\E w \in [0..Len(down) -> Points] : Leads(w))'
  BY <1>1, <1>2, TakeFirst
<1>4. StreamTypes'
  BY <1>1, <1>3 DEF StreamTypes, StreamInv
<1> QED BY <1>1, <1>2, <1>3, <1>4 DEF StreamInv, MessagesWhole

LEMMA ServerStep ==
    ASSUME StreamInv, ServerSends \/ ServerControls PROVE StreamInv'
<1>1. /\ UNCHANGED <<frames, got, from, socket>> /\ Received' = Received /\ Base' = Base
      /\ Len(down) < MaxDown /\ socket = "open" /\ from # Nowhere
  BY DEF ServerSends, ServerControls, MaySend, ServerVars, Received, Base
<1>2. sent \in [msg: Nat, part: Nat, fin: BOOLEAN]
  BY DEF StreamInv, StreamTypes
<1>3. ASSUME NEW f \in Frames, down' = Append(down, f),
             sent' \in [msg: Nat, part: Nat, fin: BOOLEAN],
             IF f \in Part
             THEN /\ Point(f.msg, f.part) = After(sent) /\ sent' = f
                  /\ f.part = MaxParts => f.fin
             ELSE sent' = sent
      PROVE  StreamInv'
  <2>1. /\ down' \in Seq(Frames) /\ Len(down') <= MaxDown
        /\ (\E w \in [0..Len(down) -> Points] : Leads(w))'
    BY <1>1, <1>3, AddLast
  <2>2. StreamTypes'
    BY <1>1, <1>3, <2>1 DEF StreamTypes, StreamInv
  <2> QED BY <1>1, <2>1, <2>2 DEF StreamInv, MessagesWhole
<1>4. CASE ServerSends
  <2>1. PICK fin \in BOOLEAN :
           LET next == IF sent.fin THEN [msg |-> sent.msg + 1, part |-> 1, fin |-> fin]
                       ELSE [msg |-> sent.msg, part |-> sent.part + 1, fin |-> fin]
           IN  next \in Part /\ (next.part = MaxParts => fin)
               /\ sent' = next /\ down' = Append(down, next)
    BY <1>4 DEF ServerSends
  <2>2. /\ sent' \in Part /\ down' = Append(down, sent') /\ sent'.fin = fin
        /\ sent'.part = MaxParts => sent'.fin
        /\ Point(sent'.msg, sent'.part) = After(sent)
    BY <2>1 DEF After, Point
  <2>3. sent' \in Frames /\ sent' \in [msg: Nat, part: Nat, fin: BOOLEAN]
    BY <2>2, LinkAssumption DEF Part, Frames
  <2>4. PICK f : f = sent'
    OBVIOUS
  <2> QED BY <1>3, <2>2, <2>3, <2>4
<1>5. CASE ServerControls
  <2>1. PICK c \in {Close, Other} : down' = Append(down, c)
    BY <1>5 DEF ServerControls
  <2>2. sent' = sent /\ c \in Frames /\ c \notin Part
    BY <1>5, ControlTypes DEF ServerControls
  <2> QED BY <1>2, <1>3, <2>1, <2>2
<1> QED BY <1>4, <1>5

\* The connection ends, and the last frames under way may be lost.
LEMMA EndStep ==
    ASSUME StreamInv, ServerEnds PROVE StreamInv'
<1>1. PICK n \in 0..Len(down) : down' = SubSeq(down, 1, n)
  BY DEF ServerEnds
<1>2. UNCHANGED <<frames, got, from, sent>> /\ Received' = Received /\ Base' = Base
      /\ socket' = "ended"
  BY DEF ServerEnds, ServerVars, Received, Base
<1>3. down \in Seq(Frames) /\ Len(down) \in Nat /\ Len(down) <= MaxDown
  BY DEF StreamInv, StreamTypes
<1>4. /\ down' \in Seq(Frames) /\ Len(down') = n
      /\ \A i \in 1..n : down'[i] = down[i]
  BY <1>1, <1>3
<1>5. StreamTypes'
  BY <1>2, <1>3, <1>4, LinkAssumption DEF StreamTypes, StreamInv
<1>6. ASSUME from # Nowhere
      PROVE  (\E w \in [0..Len(down) -> Points] : Leads(w))'
  <2>1. PICK w \in [0..Len(down) -> Points] : Leads(w)
    BY <1>6 DEF StreamInv
  <2>2. PICK v \in [0..n -> Points] : \A i \in 0..n : v[i] = w[i]
    <3> DEFINE u == [i \in 0..n |-> w[i]]
    <3>1. u \in [0..n -> Points]
      BY <1>3
    <3> QED BY <3>1
  <2>3. v[0] = Received'
    BY <1>2, <2>1, <2>2 DEF Leads
  <2>4. ASSUME NEW i \in 1..n
        PROVE  IF down'[i] \in Part
               THEN Point(down'[i].msg, down'[i].part) = v[i - 1]
                    /\ v[i] = After(down'[i])
                    /\ (down'[i].part = MaxParts => down'[i].fin)
               ELSE v[i] = v[i - 1]
    <3>1. i \in 1..Len(down) /\ v[i] = w[i] /\ v[i - 1] = w[i - 1] /\ down'[i] = down[i]
      BY <1>3, <1>4, <2>2
    <3> QED BY <2>1, <3>1 DEF Leads
  <2>5. Leads(v)'
    BY <1>2, <1>4, <2>3, <2>4 DEF Leads
  <2> QED BY <1>4, <2>2, <2>5
<1>7. from = Nowhere => down' = <<>>
  <2>1. from = Nowhere => Len(down) = 0
    BY DEF StreamInv
  <2> QED BY <1>1, <1>3, <1>4, <2>1
<1> QED BY <1>2, <1>5, <1>6, <1>7 DEF StreamInv, MessagesWhole

\* What the handshake thread takes away is at the front: the reading begins
\* behind it.
LEMMA SwallowStep ==
    ASSUME ThreadsInv, ReadInv, StreamInv, Swallow PROVE StreamInv'
<1>1. /\ down # <<>> /\ down' = Tail(down) /\ UNCHANGED <<frames, got, sent, socket>>
      /\ from' = IF Head(down) \in Part THEN After(Head(down)) ELSE from
      /\ frames = <<>> /\ got = <<>> /\ from # Nowhere
  BY DEF Swallow, HandshakeVars, ThreadsInv, ReadInv, StreamInv
<1>2. StreamTypes /\ Head(down) \in Frames
  BY <1>1 DEF StreamInv, StreamTypes
<1>3. from' \in [msg: Nat, part: Nat \ {0}]
  <2>1. from \in [msg: Nat, part: Nat \ {0}]
    BY <1>1, <1>2 DEF StreamTypes
  <2>2. ASSUME Head(down) \in Part
        PROVE  After(Head(down)) \in [msg: Nat, part: Nat \ {0}]
    <3>1. PICK f \in Part : f = Head(down)
      BY <2>2
    <3>2. f.msg \in Nat /\ f.part \in Nat
      BY PartTypes, LinkAssumption
    <3> QED BY <3>1, <3>2 DEF After, Point
  <2> QED BY <1>1, <2>1, <2>2
<1>4. Received = from /\ Received' = from'
  <2>1. \A q \in [msg: Nat, part: Nat \ {0}] : Point(q.msg + 0, (q.part - 1) + 0 + 1) = q
    BY DEF Point
  <2>2. Len(got) = 0 /\ Len(frames) = 0 /\ Len(got') = 0 /\ Len(frames') = 0
    BY <1>1
  <2> QED BY <1>1, <1>2, <1>3, <2>1, <2>2 DEF Received, Base, StreamTypes
<1>5. IF Head(down) \in Part THEN Received' = After(Head(down)) ELSE Received' = Received
  BY <1>1, <1>4
<1>6. /\ down' \in Seq(Frames) /\ Len(down') <= MaxDown
      /\ (\E w \in [0..Len(down) -> Points] : Leads(w))'
  BY <1>1, <1>5, TakeFirst
<1>7. StreamTypes'
  BY <1>1, <1>2, <1>3, <1>6 DEF StreamTypes
<1>8. from' # Nowhere
  BY <1>3 DEF Nowhere, Point
<1>9. DOMAIN frames' = {} /\ DOMAIN got' = {}
  BY <1>1
<1> QED BY <1>6, <1>7, <1>8, <1>9 DEF StreamInv, MessagesWhole

LEMMA SwallowHalfStep ==
    ASSUME StreamInv, SwallowHalf PROVE StreamInv'
<1>1. down' = <<>> /\ from' = Nowhere /\ UNCHANGED <<frames, got, sent>>
  BY DEF SwallowHalf, HandshakeVars
<1>2. StreamTypes'
  BY <1>1, LinkAssumption DEF StreamInv, StreamTypes
<1> QED BY <1>1, <1>2 DEF StreamInv

LEMMA MisreadStep ==
    ASSUME StreamInv, Misread PROVE StreamInv'
<1>1. from = Nowhere /\ got' = <<<<Other>>>> /\ UNCHANGED <<frames, down, sent, from>>
  BY DEF Misread, RunVars
<1>2. got' \in Seq(Seq(Frames))
  BY <1>1, ControlTypes
<1> QED BY <1>1, <1>2 DEF StreamInv, StreamTypes

LEMMA StreamStays ==
    ASSUME StreamInv, UNCHANGED <<down, sent, from, frames, got>>,
           socket' \in {"none", "open"} => socket \in {"none", "open"}
    PROVE  StreamInv'
<1>1. StreamTypes' /\ Base' = Base /\ Received' = Received /\ After(sent') = After(sent)
  BY DEF StreamInv, StreamTypes, Base, Received, After
<1>2. ASSUME from # Nowhere PROVE (\E w \in [0..Len(down) -> Points] : Leads(w))'
  <2>1. PICK w \in [0..Len(down) -> Points] : Leads(w)
    BY <1>2 DEF StreamInv
  <2>2. Leads(w)'
    BY <1>1, <2>1 DEF Leads, After
  <2> QED BY <2>1, <2>2
<1> QED BY <1>1, <1>2 DEF StreamInv, MessagesWhole

LEMMA StreamStep ==
    ASSUME ThreadsInv, ReadInv, StreamInv, LinkNext PROVE StreamInv'
<1>1. CASE DaemonNext
  BY <1>1, StreamStays DEF DaemonNext, ReadPortal, ReadAddr, NewClient, SetCallbacks,
              RunChecks, RunJoins, RunStarts, ThreadVars
<1>2. CASE HandshakeNext
  <2>1. CASE Swallow
    BY <2>1, SwallowStep
  <2>2. CASE SwallowHalf
    BY <2>2, SwallowHalfStep
  <2>3. CASE Connected
    BY <2>3, StreamStays DEF Connected, HandshakeVars, ThreadsInv
  <2>4. CASE NotConnected \/ Rejected \/ Answered \/ Accepted \/ Opened \/ Introduced
    BY <2>4, StreamStays DEF NotConnected, Rejected, Answered, Accepted, Opened,
                             Introduced, HandshakeVars
  <2> QED BY <1>2, <2>1, <2>2, <2>3, <2>4 DEF HandshakeNext
<1>3. CASE SendNext
  BY <1>3, StreamStays DEF SendNext, FirstBytes, LastBytes
<1>4. CASE HelperNext
  BY <1>4, StreamStays DEF HelperNext, HelperAccepts, HelperFragment, HelperEnds,
              HelperFails, HelperVars
<1>5. CASE RunNext
  <2>1. CASE \E f \in Part : InData(f) \/ DispatchMessage(f)
    BY <2>1, InDataStep, DispatchStep
  <2>2. CASE CloseFrame \/ OtherControl
    BY <2>2, ControlStep
  <2>3. CASE CloseAnswered \/ RunEnds
    BY <2>3, StreamStays DEF CloseAnswered, RunEnds, RunVars
  <2>4. CASE Misread
    BY <2>4, MisreadStep
  <2> QED BY <1>5, <2>1, <2>2, <2>3, <2>4 DEF RunNext
<1>6. CASE Beat \/ ReportSent
  BY <1>6, StreamStays DEF Beat, ReportSent
<1>7. CASE ServerSends \/ ServerControls
  BY <1>7, ServerStep
<1>8. CASE ServerEnds
  BY <1>8, EndStep
<1>9. CASE ServerUpgrades
  BY <1>9, StreamStays DEF ServerUpgrades, ServerVars
<1>10. CASE UseFreed
  BY <1>10, StreamStays DEF UseFreed, RunVars
<1> QED BY <1>1, <1>2, <1>3, <1>4, <1>5, <1>6, <1>7, <1>8, <1>9, <1>10 DEF LinkNext

-----------------------------------------------------------------------------
(* The theorems. *)

\* Nothing is under way and nothing is received: what comes is the message
\* after the last that was sent.
LEMMA StartStream ==
    ASSUME down = <<>>, got = <<>>, frames = <<>>, from = Point(1, 1),
           sent = [msg |-> 0, part |-> 0, fin |-> TRUE]
    PROVE  StreamInv
<1>1. [i \in 0..0 |-> Point(1, 1)] \in [0..Len(down) -> Points]
      /\ Leads([i \in 0..0 |-> Point(1, 1)])
  BY DEF Leads, Received, Base, After, Point, Points
<1>2. StreamTypes
  BY LinkAssumption DEF StreamTypes, Point
<1>3. from # Nowhere /\ DOMAIN frames = {} /\ DOMAIN got = {}
  BY DEF Nowhere, Point
<1> QED BY <1>1, <1>2, <1>3 DEF StreamInv, MessagesWhole

LEMMA RestartStream ==
    ASSUME NEW m \in Nat, down' = <<>>, got' = <<>>, frames' = <<>>,
           from' = Point(m + 1, 1), sent' = [msg |-> m, part |-> 0, fin |-> TRUE]
    PROVE  StreamInv'
<1>1. [i \in 0..0 |-> Point(m + 1, 1)] \in [0..Len(down') -> Points]
      /\ Leads([i \in 0..0 |-> Point(m + 1, 1)])'
  BY DEF Leads, Received, Base, After, Point, Points
<1>2. StreamTypes'
  BY LinkAssumption DEF StreamTypes, Point
<1>3. from' # Nowhere /\ DOMAIN frames' = {} /\ DOMAIN got' = {}
  BY DEF Nowhere, Point
<1> QED BY <1>1, <1>2, <1>3 DEF StreamInv, MessagesWhole

LEMMA InvStart ==
    Init => Inv
<1> SUFFICES ASSUME Init PROVE Inv
  OBVIOUS
<1>1. RecordInv
  BY DEF Init, ConfigInit, RecordInv, ConfigTypeOK, NoEdit, Default, Records, Values
<1>2. ThreadsInv
  <2>1. 0 \in 0..MaxSends
    BY LinkAssumption
  <2> QED BY <2>1, Zenon DEF Init, ThreadsInv
<1>3. LockInv /\ UpgradeInv
  BY DEF Init, LockInv, UpgradeInv, Senders
<1>4. StreamInv
  BY StartStream DEF Init
<1>5. ReadInv
  BY DEF Init, ReadInv
<1> QED BY <1>1, <1>2, <1>3, <1>4, <1>5 DEF Inv

\* After a crash everything but the record starts from nothing.
LEMMA CrashStep ==
    ASSUME Inv, Crash PROVE Inv'
<1>1. RecordInv'
  BY RecordRestart DEF Inv, Crash
<1>2. ThreadsInv'
  BY DEF Inv, ThreadsInv, Crash, Off
<1>3. LockInv' /\ UpgradeInv' /\ ReadInv'
  BY DEF Crash, Off, LockInv, UpgradeInv, ReadInv, Senders
<1>4. StreamInv'
  <2>1. sent \in [msg: Nat, part: Nat, fin: BOOLEAN]
    BY DEF Inv, StreamInv, StreamTypes
  <2>2. PICK m \in Nat : m = sent.msg
    BY <2>1
  <2>3. down' = <<>> /\ got' = <<>> /\ frames' = <<>> /\ from' = Point(m + 1, 1)
        /\ sent' = [msg |-> m, part |-> 0, fin |-> TRUE]
    BY <2>1, <2>2 DEF Crash, Off
  <2> QED BY <2>3, RestartStream
<1> QED BY <1>1, <1>2, <1>3, <1>4 DEF Inv

LEMMA InvStep ==
    Inv /\ [Next]_vars => Inv'
<1> SUFFICES ASSUME Inv, [Next]_vars PROVE Inv'
  OBVIOUS
<1>1. CASE ConfigNext /\ UNCHANGED linkVars
  <2>1. RecordInv'
    BY <1>1, RecordStep DEF Inv
  <2>2. ThreadsInv' /\ LockInv' /\ UpgradeInv' /\ ReadInv'
    BY <1>1 DEF Inv, linkVars, ThreadsInv, LockInv, Abandoned, UpgradeInv, ReadInv, Admitted
  <2>3. StreamInv'
    BY <1>1, StreamStays DEF Inv, linkVars
  <2> QED BY <2>1, <2>2, <2>3 DEF Inv
<1>2. CASE LinkNext
  <2>1. RecordInv'
    BY <1>2, LinkKeepsRecord, RecordStays DEF Inv
  <2>2. down \in Seq(Frames)
    BY DEF Inv, StreamInv, StreamTypes
  <2> QED BY <1>2, <2>1, <2>2, ThreadsStep, ReadStep, LockStep, UpgradeStep,
         StreamStep DEF Inv
<1>3. CASE Crash
  BY <1>3, CrashStep
<1>4. CASE UNCHANGED vars
  <2>1. RecordInv'
    BY <1>4, RecordStays DEF Inv, vars
  <2>2. ThreadsInv' /\ LockInv' /\ UpgradeInv' /\ ReadInv'
    BY <1>4 DEF Inv, vars, linkVars, ThreadsInv, LockInv, Abandoned, UpgradeInv, ReadInv,
                Admitted
  <2>3. StreamInv'
    BY <1>4, StreamStays DEF Inv, vars, linkVars
  <2> QED BY <2>1, <2>2, <2>3 DEF Inv
<1> QED BY <1>1, <1>2, <1>3, <1>4, NextCases

\* wsclient.c: the ranges, and never two frames mixed on the wire, whatever
\* the daemon, the report task, the helper and the run thread send; what gets
\* into a message of the helper does so after its program could not be read.
THEOREM WireSafety == Spec => []FramesSound
<1>1. Inv => FramesSound
  <2> SUFFICES ASSUME Inv PROVE FramesSound
    OBVIOUS
  <2>1. TypeOK
    BY DEF Inv, TypeOK, RecordInv, ThreadsInv, LockInv, StreamInv, StreamTypes
  <2>2. FramesWhole
    <3> DEFINE H == {x \in Senders : send[x] = "half"} \ Abandoned
    <3>1. H \subseteq {lock}
      BY DEF Inv, LockInv
    <3>2. IsFiniteSet({lock}) /\ Cardinality({lock}) = 1
      BY FS_Singleton
    <3>3. Cardinality(H) <= 1
      BY <3>1, <3>2, FS_Subset, FS_CardinalityType
    <3> QED BY <3>3 DEF FramesWhole
  <2> QED BY <2>1, <2>2 DEF FramesSound
<1> QED BY <1>1, InvStart, InvStep, PTL DEF Spec

\* wsclient.c: no frame goes out before the server has accepted the upgrade,
\* but for the one case of a failed handshake.
THEOREM NoFrameEarly == Spec => []UpgradeFirst
<1>1. Inv => UpgradeFirst
  BY DEF Inv, UpgradeInv, Admitted, UpgradeFirst
<1> QED BY <1>1, InvStart, InvStep, PTL DEF Spec

\* wsclient.c: from the first part that did not come with the 101, messages
\* reach onmessage as the server sent them.
THEOREM Delivery == Spec => []MessagesWhole
<1>1. Inv => MessagesWhole
  BY DEF Inv, StreamInv, MessagesWhole
<1> QED BY <1>1, InvStart, InvStep, PTL DEF Spec

\* config.c: a write changes only its field, unless another write overtook it;
\* record and databases are lost only after a torn write, or when the file
\* cannot be read.
THEOREM RecordSafety == Spec => RecordKept
<1>1. Inv /\ [Next]_vars =>
        [crashes' = crashes =>
           \A f \in Fields : record'[f] # record[f] =>
              busy \in Writers /\ (edit[busy].field = f \/ raced[busy])]_configVars
  <2>1. Next => [ConfigNext \/ Restart]_configVars
    BY NextCases, LinkKeepsRecord DEF Crash
  <2> QED BY <2>1, RecordWrites DEF Inv, vars
<1>2. Inv /\ [Next]_vars =>
        [crashes' # crashes /\ (start' = "wiped" \/ (start' = "kept" /\ record' # record)) =>
            busy # "none"]_configVars
  <2>1. Next => [ConfigNext \/ Restart]_configVars
    BY NextCases, LinkKeepsRecord DEF Crash
  <2> QED BY <2>1, RecordWrites DEF Inv, vars
<1>3. Spec => OnlyItsField
  BY <1>1, InvStart, InvStep, PTL DEF Spec, OnlyItsField
<1>4. Spec => LostOnlyIfTorn
  BY <1>2, InvStart, InvStep, PTL DEF Spec, LostOnlyIfTorn
<1> QED BY <1>3, <1>4 DEF RecordKept

-----------------------------------------------------------------------------
(* The serial line: AtPort. *)

AtInv == AtTypeOK /\ OneQueryAtATime /\ BufferOwned

InLock == {c \in Callers : pc[c] \in Locked}

LEMMA InLockFinite == IsFiniteSet(InLock) /\ Cardinality(InLock) \in Nat
<1>1. IsFiniteSet(InLock)
  BY CallersFinite, FS_Subset DEF InLock
<1> QED BY <1>1, FS_CardinalityType

\* A query past its wait for the mutex is the only one there.
LEMMA Holder ==
    ASSUME AtInv, NEW c \in Callers, pc[c] \in Locked
    PROVE  /\ mutex = 0
           /\ InLock = {c}
           /\ \A d \in Callers : pc[d] \in Locked => d = c
<1>1. c \in InLock
  BY DEF InLock
<1>2. Cardinality(InLock) # 0
  BY <1>1, InLockFinite, FS_EmptySet
<1>3. Cardinality(InLock) = 1 - mutex /\ mutex \in {0, 1}
  BY DEF AtInv, OneQueryAtATime, AtTypeOK, InLock
<1>4. mutex = 0 /\ Cardinality(InLock) = 1
  BY <1>2, <1>3
<1>5. PICK e : InLock = {e}
  BY <1>4, InLockFinite, FS_Singleton
<1> QED BY <1>1, <1>4, <1>5 DEF InLock

\* With the mutex free nobody is there.
LEMMA Free ==
    ASSUME AtInv, mutex > 0
    PROVE  mutex = 1 /\ InLock = {}
<1>1. Cardinality(InLock) = 1 - mutex /\ mutex \in {0, 1}
  BY DEF AtInv, OneQueryAtATime, AtTypeOK, InLock
<1>2. mutex = 1 /\ Cardinality(InLock) = 0
  BY <1>1
<1> QED BY <1>2, InLockFinite, FS_EmptySet

LEMMA CallerTypes ==
    ASSUME AtTypeOK, NEW c \in Callers, Begin(c) \/ Proceed(c),
           mutex' \in {0, 1}
    PROVE  AtTypeOK'
<1> USE DEF Goto, At, Empty, Places
<1>1. CASE Query(c)
  BY <1>1 DEF Query, AtTypeOK, cfg, port, buffer, module
<1>2. CASE Reset(c)
  BY <1>2 DEF Reset, AtTypeOK, cfg, buffer, module
<1>3. CASE Lock(c)
  BY <1>3 DEF Lock, AtTypeOK, cfg, port, buffer, module
<1>4. CASE LockTimeout(c)
  BY <1>4 DEF LockTimeout, Leave, AtTypeOK, cfg, port, module
<1>5. CASE Clean(c)
  BY <1>5 DEF Clean, AtTypeOK, cfg, port, buffer, module
<1>6. CASE Lend(c)
  BY <1>6 DEF Lend, AtTypeOK, port, buffer, module
<1>7. CASE WriteCmd(c)
  <2>1. CASE issued < MaxCmds /\ issued' = issued + 1
             /\ own' = [own EXCEPT ![c] = issued']
             /\ line' = Append(line, issued') /\ Goto(c, "wait") /\ UNCHANGED res
    <3>1. issued' \in Cmds /\ issued' \in 0..MaxCmds
      BY <2>1, LimitsAssumption DEF AtTypeOK, Cmds
    <3>2. line' \in Seq(Cmds)
      BY <2>1, <3>1 DEF AtTypeOK
    <3> QED BY <1>7, <2>1, <3>1, <3>2 DEF WriteCmd, AtTypeOK, cfg, port, buffer
  <2>2. CASE Goto(c, "clear") /\ res' = [res EXCEPT ![c] = Empty]
             /\ UNCHANGED <<own, module>>
    BY <1>7, <2>2 DEF WriteCmd, AtTypeOK, cfg, port, buffer, module
  <2> QED BY <1>7, <2>1, <2>2 DEF WriteCmd
<1>8. CASE Woken(c)
  BY <1>8 DEF Woken, AtTypeOK, cfg, port, module
<1>9. CASE Timeout(c)
  BY <1>9 DEF Timeout, AtTypeOK, cfg, module
<1>10. CASE Take(c)
  BY <1>10 DEF Take, AtTypeOK, cfg, port, buffer, module
<1>11. CASE Clear(c)
  BY <1>11 DEF Clear, AtTypeOK, port, buffer, module
<1>12. CASE Unlock(c)
  BY <1>12 DEF Unlock, AtTypeOK, cfg, port, buffer, module
<1>13. CASE Return(c)
  BY <1>13 DEF Return, Leave, AtTypeOK, cfg, buffer, module
<1> QED BY <1>1, <1>2, <1>3, <1>4, <1>5, <1>6, <1>7, <1>8, <1>9, <1>10,
           <1>11, <1>12, <1>13 DEF Begin, Proceed

\* A caller that stays outside, or inside, leaves the mutex alone; one that
\* enters takes it and one that leaves gives it back.
LEMMA CallerLock ==
    ASSUME AtInv, NEW c \in Callers, Begin(c) \/ Proceed(c)
    PROVE  OneQueryAtATime' /\ mutex' \in {0, 1}
<1>1. /\ pc \in [Callers -> Places] /\ mutex \in {0, 1}
      /\ Cardinality(InLock) = 1 - mutex
  BY DEF AtInv, AtTypeOK, OneQueryAtATime, InLock
<1>2. CASE Lock(c)
  <2>1. mutex = 1 /\ InLock = {} /\ mutex' = 0
    BY <1>2, <1>1, Free DEF Lock
  <2>2. {d \in Callers : pc'[d] \in Locked} = {c}
    BY <1>1, <1>2, <2>1 DEF Lock, Goto, InLock, Locked
  <2> QED BY <2>1, <2>2, FS_Singleton DEF OneQueryAtATime
<1>3. CASE Unlock(c)
  <2>1. mutex = 0 /\ InLock = {c} /\ mutex' = 1
    BY <1>3, <1>1, Holder DEF Unlock, At, Locked
  <2>2. {d \in Callers : pc'[d] \in Locked} = {}
    BY <1>1, <1>3, <2>1 DEF Unlock, Goto, InLock, Locked
  <2> QED BY <2>1, <2>2, FS_EmptySet DEF OneQueryAtATime
<1>4. CASE \/ Query(c) \/ Reset(c) \/ LockTimeout(c) \/ Clean(c) \/ Lend(c)
           \/ WriteCmd(c) \/ Woken(c) \/ Timeout(c) \/ Take(c) \/ Clear(c)
           \/ Return(c)
  <2>1. /\ mutex' = mutex
        /\ pc' = [pc EXCEPT ![c] = pc'[c]]
        /\ pc'[c] \in Locked <=> pc[c] \in Locked
    BY <1>1, <1>4
       DEF Query, Reset, LockTimeout, Leave, Clean, Lend, WriteCmd, Woken,
           Timeout, Take, Clear, Return, Goto, At, Locked
  <2>2. {d \in Callers : pc'[d] \in Locked} = InLock
    BY <1>1, <2>1 DEF InLock
  <2> QED BY <1>1, <2>1, <2>2 DEF OneQueryAtATime
<1> QED BY <1>2, <1>3, <1>4 DEF Begin, Proceed

\* The buffer is lent and withdrawn by the one query that holds the mutex.
LEMMA CallerBuffer ==
    ASSUME AtInv, NEW c \in Callers, Begin(c) \/ Proceed(c)
    PROVE  BufferOwned'
<1>1. pc \in [Callers -> Places] /\ \A d \in Callers : lent = d <=> pc[d] \in Lending
  BY DEF AtInv, AtTypeOK, BufferOwned
<1>2. CASE Lend(c)
  <2>1. \A d \in Callers : pc[d] \in Locked => d = c
    BY <1>2, Holder DEF Lend, At, Locked
  <2>2. lent' = c /\ pc' = [pc EXCEPT ![c] = "write"]
    BY <1>2 DEF Lend, Goto
  <2>3. \A d \in Callers : pc[d] \in Lending => d = c
    BY <2>1 DEF Lending, Locked
  <2> QED BY <1>1, <2>2, <2>3 DEF BufferOwned, Lending
<1>3. CASE Clear(c)
  <2>1. \A d \in Callers : pc[d] \in Locked => d = c
    BY <1>3, Holder DEF Clear, At, Locked
  <2>2. lent' = Nobody /\ pc' = [pc EXCEPT ![c] = "unlock"]
    BY <1>3 DEF Clear, Goto
  <2>3. \A d \in Callers : pc[d] \in Lending => d = c
    BY <2>1 DEF Lending, Locked
  <2> QED BY <1>1, <2>2, <2>3, NobodyAssumption DEF BufferOwned, Lending
<1>4. CASE \/ Query(c) \/ Reset(c) \/ Lock(c) \/ LockTimeout(c) \/ Clean(c)
           \/ WriteCmd(c) \/ Woken(c) \/ Timeout(c) \/ Take(c) \/ Unlock(c)
           \/ Return(c)
  <2>1. /\ lent' = lent
        /\ pc' = [pc EXCEPT ![c] = pc'[c]]
        /\ pc'[c] \in Lending <=> pc[c] \in Lending
    BY <1>1, <1>4
       DEF Query, Reset, Lock, LockTimeout, Leave, Clean, WriteCmd, Woken,
           Timeout, Take, Unlock, Return, Goto, At, Lending, cfg
  <2> QED BY <1>1, <2>1 DEF BufferOwned
<1> QED BY <1>2, <1>3, <1>4 DEF Begin, Proceed

LEMMA OtherStep ==
    ASSUME AtInv, ListenWrite \/ ListenPost \/ Lose \/ Ready
    PROVE  AtInv'
<1>1. UNCHANGED <<mutex, lent, pc, own, res, retry, issued>>
  BY DEF ListenWrite, ListenPost, Lose, Ready, caller, cfg, module
<1>2. OneQueryAtATime' /\ BufferOwned'
  BY <1>1 DEF AtInv, OneQueryAtATime, BufferOwned
<1>3. ASSUME line # <<>>
      PROVE  Tail(line) \in Seq(Cmds) /\ Head(line) \in Cmds
  BY <1>3 DEF AtInv, AtTypeOK
<1>4. ASSUME ListenWrite PROVE AtTypeOK'
  BY <1>1, <1>3, <1>4 DEF ListenWrite, AtInv, AtTypeOK, port, buffer
<1>5. ASSUME ListenPost PROVE AtTypeOK'
  BY <1>1, <1>5 DEF ListenPost, AtInv, AtTypeOK, cfg, port, buffer, module
<1>6. ASSUME Lose PROVE AtTypeOK'
  BY <1>1, <1>3, <1>6 DEF Lose, AtInv, AtTypeOK, cfg, port, buffer
<1>7. ASSUME Ready PROVE AtTypeOK'
  BY <1>1, <1>7 DEF Ready, AtInv, AtTypeOK, cfg, buffer, module
<1>8. AtTypeOK'
  BY <1>4, <1>5, <1>6, <1>7
<1> QED BY <1>2, <1>8 DEF AtInv

-----------------------------------------------------------------------------
(* Answers.  Until a query gives up on an answer that may come, the line   *)
(* and the semaphore are those of the one query that waits.                *)

\* Nothing is under way from the module to a caller.
LineQuiet == line = <<>> /\ lpc = "read" /\ asem = 0

\* The answer of the caller is on the line; or the listener has copied it, and
\* has posted it or is about to; or it was lost.
Coming(c) == line = <<own[c]>> /\ lpc = "read" /\ asem = 0
Landed(c) ==
    /\ line = <<>> /\ cnt = own[c] /\ text[c] = own[c]
    /\ \/ lpc = "post" /\ asem = 0
       \/ lpc = "read" /\ asem = 1

WaitSound == \A c \in Callers : pc[c] = "wait" => Coming(c) \/ Landed(c) \/ LineQuiet
RestSound == (\A c \in Callers : pc[c] # "wait") => LineQuiet

AnswerInv == ~late => WaitSound /\ RestSound /\ OwnAnswer

\* Whoever waits or takes is the only one between lock and unlock.
LEMMA OneActive ==
    ASSUME AtInv, NEW c \in Callers, pc[c] \in Locked
    PROVE  \A d \in Callers : d # c => pc[d] \notin {"wait", "take", "write"}
BY Holder DEF Locked

LEMMA CallerAnswer ==
    ASSUME AtInv, AnswerInv, NEW c \in Callers, Begin(c) \/ Proceed(c)
    PROVE  AnswerInv'
<1> SUFFICES ASSUME ~late' PROVE WaitSound' /\ RestSound' /\ OwnAnswer'
  BY DEF AnswerInv
<1>1. late \in BOOLEAN /\ pc \in [Callers -> Places]
      /\ own \in [Callers -> Cmds \cup {Empty}] /\ text \in [Callers -> Cmds \cup {Empty}]
      /\ ended \in [Callers -> BOOLEAN]
  BY DEF AtInv, AtTypeOK
<1>2. ~late
  BY <1>1 DEF Begin, Proceed, Query, Reset, Lock, LockTimeout, Clean, Lend, WriteCmd,
              Woken, Timeout, Take, Clear, Unlock, Return
<1>3. /\ \A d \in Callers : pc[d] = "wait" => Coming(d) \/ Landed(d) \/ LineQuiet
      /\ (\A d \in Callers : pc[d] # "wait") => LineQuiet
      /\ \A d \in Callers : pc[d] = "take" => cnt = own[d] /\ text[d] = own[d] /\ ended[d]
  BY <1>2 DEF AnswerInv, WaitSound, RestSound, OwnAnswer, At
<1> USE DEF Goto, At
<1>4. CASE Query(c) \/ Reset(c) \/ Lock(c) \/ LockTimeout(c) \/ Return(c)
  <2>1. /\ UNCHANGED <<line, lpc, asem, cnt>>
        /\ pc[c] \notin {"wait", "take"} /\ pc'[c] \notin {"wait", "take"}
        /\ pc' = [pc EXCEPT ![c] = pc'[c]]
        /\ \A d \in Callers : d # c =>
              own'[d] = own[d] /\ text'[d] = text[d] /\ ended'[d] = ended[d]
    BY <1>1, <1>4 DEF Query, Reset, Lock, LockTimeout, Leave, Return, cfg, port, caller,
                      buffer, module
  <2> QED BY <1>1, <1>3, <2>1 DEF WaitSound, RestSound, OwnAnswer, Coming, Landed, LineQuiet
<1>5. CASE Clean(c) \/ Lend(c) \/ Clear(c) \/ Unlock(c)
  <2>1. \A d \in Callers : d # c => pc[d] \notin {"wait", "take", "write"}
    BY <1>5, OneActive DEF Clean, Lend, Clear, Unlock, Locked
  <2>2. pc[c] \notin {"wait", "take"} /\ LineQuiet
    BY <1>3, <1>5, <2>1 DEF Clean, Lend, Clear, Unlock
  <2>3. pc' = [pc EXCEPT ![c] = pc'[c]] /\ pc'[c] \notin {"wait", "take"} /\ LineQuiet'
    BY <1>1, <1>5, <2>2 DEF Clean, Lend, Clear, Unlock, LineQuiet, module
  <2> QED BY <1>1, <2>1, <2>3 DEF WaitSound, RestSound, OwnAnswer
<1>6. CASE WriteCmd(c)
  <2>1. \A d \in Callers : d # c => pc[d] \notin {"wait", "take", "write"}
    BY <1>6, OneActive DEF WriteCmd, Locked
  <2>2. LineQuiet
    BY <1>3, <1>6, <2>1 DEF WriteCmd
  <2>3. CASE issued' = issued + 1 /\ own' = [own EXCEPT ![c] = issued']
             /\ line' = Append(line, issued') /\ pc' = [pc EXCEPT ![c] = "wait"]
    <3>1. Coming(c)'
      BY <1>1, <1>6, <2>2, <2>3 DEF WriteCmd, Coming, LineQuiet
    <3>2. \A d \in Callers : d # c => pc'[d] \notin {"wait", "take"}
      BY <1>1, <2>1, <2>3
    <3>3. pc'[c] = "wait"
      BY <1>1, <2>3
    <3> QED BY <3>1, <3>2, <3>3 DEF WaitSound, RestSound, OwnAnswer
  <2>4. CASE pc' = [pc EXCEPT ![c] = "clear"] /\ UNCHANGED module
    <3>1. LineQuiet'
      BY <1>6, <2>2, <2>4 DEF WriteCmd, LineQuiet, module
    <3>2. \A d \in Callers : pc'[d] \notin {"wait", "take"}
      BY <1>1, <2>1, <2>4
    <3> QED BY <3>1, <3>2 DEF WaitSound, RestSound, OwnAnswer
  <2> QED BY <1>6, <2>3, <2>4 DEF WriteCmd
<1>7. CASE Woken(c)
  <2>1. \A d \in Callers : d # c => pc[d] \notin {"wait", "take", "write"}
    BY <1>7, OneActive DEF Woken, Locked
  <2>2. Landed(c) /\ asem = 1 /\ lpc = "read"
    BY <1>3, <1>7 DEF Woken, Coming, Landed, LineQuiet
  <2>3. LineQuiet' /\ cnt' = own'[c] /\ text'[c] = own'[c]
    BY <1>1, <1>7, <2>2 DEF Woken, Landed, LineQuiet, cfg, module
  <2>5. ended'[c]
    <3>1. ended' = [ended EXCEPT ![c] = (cnt = text[c])] /\ cnt = text[c]
      BY <1>7, <2>2 DEF Woken, Landed
    <3> QED BY <1>1, <3>1, Zenon
  <2>4. pc' = [pc EXCEPT ![c] = "take"]
    BY <1>7 DEF Woken
  <2> QED BY <1>1, <2>1, <2>3, <2>4, <2>5 DEF WaitSound, RestSound, OwnAnswer
<1>8. CASE Timeout(c)
  <2>1. \A d \in Callers : d # c => pc[d] \notin {"wait", "take", "write"}
    BY <1>8, OneActive DEF Timeout, Locked
  <2>2. ~AnswerDue(c)
    BY <1>8 DEF Timeout
  <2>3. ~Coming(c)
    <3>1. ASSUME Coming(c) PROVE FALSE
      <4>1. 1 \in DOMAIN line /\ line[1] = own[c]
        BY <3>1 DEF Coming
      <4> QED BY <2>2, <4>1 DEF AnswerDue
    <3> QED BY <3>1
  <2>4. ~Landed(c)
    BY <2>2 DEF AnswerDue, Landed
  <2>5. LineQuiet
    BY <1>3, <1>8, <2>3, <2>4 DEF Timeout
  <2>6. LineQuiet' /\ pc' = [pc EXCEPT ![c] = "clear"]
    BY <1>8, <2>5 DEF Timeout, LineQuiet, module
  <2> QED BY <1>1, <2>1, <2>6 DEF WaitSound, RestSound, OwnAnswer
<1>9. CASE Take(c)
  <2>1. \A d \in Callers : d # c => pc[d] \notin {"wait", "take", "write"}
    BY <1>9, OneActive DEF Take, Locked
  <2>2. LineQuiet
    BY <1>3, <1>9, <2>1 DEF Take
  <2>3. LineQuiet' /\ pc' = [pc EXCEPT ![c] = "clear"]
    BY <1>9, <2>2 DEF Take, LineQuiet, module
  <2> QED BY <1>1, <2>1, <2>3 DEF WaitSound, RestSound, OwnAnswer
<1> QED BY <1>4, <1>5, <1>6, <1>7, <1>8, <1>9 DEF Begin, Proceed

\* The listener moves only what is under way to the one that waits.
LEMMA OtherAnswer ==
    ASSUME AtInv, AnswerInv, ListenWrite \/ ListenPost \/ Lose \/ Ready
    PROVE  AnswerInv'
<1>1. /\ pc \in [Callers -> Places] /\ text \in [Callers -> Cmds \cup {Empty}]
      /\ UNCHANGED <<pc, own, lent, late>>
  BY DEF AtInv, AtTypeOK, ListenWrite, ListenPost, Lose, Ready, caller, cfg, module
<1> SUFFICES ASSUME ~late PROVE WaitSound' /\ RestSound' /\ OwnAnswer'
  BY <1>1 DEF AnswerInv
<1>2. WaitSound /\ RestSound /\ OwnAnswer
  BY DEF AnswerInv
<1>3. CASE Ready
  BY <1>1, <1>2, <1>3 DEF Ready, WaitSound, RestSound, OwnAnswer, Coming, Landed, LineQuiet,
                          cfg, buffer, module, At
<1>4. CASE ListenWrite \/ ListenPost \/ Lose
  <2>1. ~LineQuiet
    BY <1>4 DEF ListenWrite, ListenPost, Lose, LineQuiet
  <2>2. PICK c \in Callers : pc[c] = "wait"
    BY <1>2, <2>1 DEF RestSound
  <2>3. Coming(c) \/ Landed(c)
    BY <1>2, <2>1, <2>2 DEF WaitSound
  <2>4. \A d \in Callers : d # c => pc[d] \notin {"wait", "take"}
    BY <2>2, OneActive DEF Locked
  <2>5. lent = c
    BY <2>2 DEF AtInv, BufferOwned, Lending
  <2>6. Landed(c)' \/ LineQuiet'
    <3>1. CASE ListenWrite
      <4>1. Coming(c)
        BY <2>3, <3>1 DEF ListenWrite, Landed
      <4>2. Head(line) = own[c] /\ Tail(line) = <<>>
        BY <4>1 DEF Coming
      <4>3. cnt' = own'[c] /\ text'[c] = own'[c]
        BY <1>1, <2>5, <3>1, <4>2, NobodyAssumption DEF ListenWrite
      <4> QED BY <3>1, <4>1, <4>2, <4>3 DEF ListenWrite, Coming, Landed
    <3>2. CASE ListenPost
      BY <1>1, <2>3, <3>2 DEF ListenPost, Coming, Landed, cfg, buffer, module
    <3>3. CASE Lose
      <4>1. Coming(c)
        BY <2>3, <3>3 DEF Lose, Landed
      <4>2. Tail(line) = <<>>
        BY <4>1 DEF Coming
      <4> QED BY <3>3, <4>1, <4>2 DEF Lose, Coming, LineQuiet
    <3> QED BY <1>4, <3>1, <3>2, <3>3
  <2> QED BY <1>1, <2>2, <2>4, <2>6 DEF WaitSound, RestSound, OwnAnswer, At
<1> QED BY <1>3, <1>4

LEMMA AtStart == AtInit => AtInv /\ AnswerInv
<1> SUFFICES ASSUME AtInit PROVE AtInv /\ AnswerInv
  OBVIOUS
<1>1. AtTypeOK
  <2>1. /\ line \in Seq(Cmds) /\ issued \in 0..MaxCmds
        /\ own \in [Callers -> Cmds \cup {Empty}] /\ cnt \in Cmds \cup {Empty}
        /\ res \in [Callers -> Cmds \cup {Empty}]
        /\ text \in [Callers -> Cmds \cup {Empty}]
    BY LimitsAssumption DEF AtInit
  <2> QED BY <2>1 DEF AtInit, AtTypeOK, Places
<1>2. {c \in Callers : pc[c] \in Locked} = {}
  BY DEF AtInit, Locked
<1>3. OneQueryAtATime
  <2>1. Cardinality({c \in Callers : pc[c] \in Locked}) = 0
    BY <1>2, FS_EmptySet
  <2> QED BY <2>1 DEF OneQueryAtATime, AtInit
<1>4. BufferOwned
  BY NobodyAssumption DEF AtInit, BufferOwned, Lending
<1>5. AnswerInv
  BY DEF AtInit, AnswerInv, WaitSound, RestSound, OwnAnswer, LineQuiet, At
<1> QED BY <1>1, <1>3, <1>4, <1>5 DEF AtInv

LEMMA AtStep ==
    ASSUME AtInv, AnswerInv, [AtNext]_atVars
    PROVE  AtInv' /\ AnswerInv'
<1>1. CASE UNCHANGED atVars
  <2>1. AtInv'
    BY <1>1 DEF atVars, AtInv, AtTypeOK, OneQueryAtATime, BufferOwned, cfg, port,
                caller, buffer, module
  <2>2. AnswerInv'
    BY <1>1 DEF atVars, AnswerInv, WaitSound, RestSound, OwnAnswer, Coming, Landed, LineQuiet,
                At, cfg, port, caller, buffer, module
  <2> QED BY <2>1, <2>2
<1>2. ASSUME NEW c \in Callers, Begin(c) \/ Proceed(c)
      PROVE  AtInv' /\ AnswerInv'
  BY <1>2, CallerTypes, CallerLock, CallerBuffer, CallerAnswer DEF AtInv
<1> QED BY <1>1, <1>2, OtherStep, OtherAnswer DEF AtNext

\* Whatever fails, times out or answers late: the line is never shared, never
\* left locked, and the listener never writes into memory a query has left.
THEOREM BufferSafety ==
    AtSpec => []LineSound
<1>1. AtInv => LineSound
  BY DEF AtInv, LineSound
<1> QED BY <1>1, AtStart, AtStep, PTL DEF AtSpec

\* Until a query gives up on an answer that may still come, every query that is
\* woken has the answer to its own command, counted and terminated.
THEOREM AnswersMatch ==
    AtSpec => []OwnAnswer
<1>1. AnswerInv => OwnAnswer
  BY DEF AnswerInv, OwnAnswer
<1> QED BY <1>1, AtStart, AtStep, PTL DEF AtSpec
=============================================================================
