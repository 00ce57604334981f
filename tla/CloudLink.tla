------------------------------ MODULE CloudLink -------------------------------
(***************************************************************************)
(* wsclient/wsclient_manager.c and wsclient/wsclient.c: the connection to  *)
(* the cloud, a websocket.                                                 *)
(*                                                                         *)
(*   daemon     waits for the portal to be switched on, makes the client,  *)
(*              then sends a beat every ten seconds                        *)
(*   handshake  connects, again and again, asks for the upgrade, and       *)
(*              introduces the gateway (onopen)                            *)
(*   run        reads frames, puts messages together, hands them over;     *)
(*              frees the client when the connection ends                  *)
(*   report     the task of RemoteReport that sends answers and reports    *)
(*   helper     sends what a local program writes to a UNIX socket, in     *)
(*              fragments of one message                                   *)
(*                                                                         *)
(* A frame goes out in several writes, under send_lock.  CLIENT_CONNECTING *)
(* keeps senders out until the upgrade; they lose their frame and are not  *)
(* told.  The server may send as soon as it has written its 101: what      *)
(* comes with it is read by the handshake thread, and is lost.             *)
(*                                                                         *)
(* The run thread frees the client, but s_psRemoteNetWsClient still points *)
(* to it: what daemon, report and helper do with it from then on is        *)
(* undefined, and is not followed ("used"): a call may fail, never return, *)
(* or reach another connection that has got the number of the socket.      *)
(* Nothing makes a second client.                                          *)
(***************************************************************************)
EXTENDS ConfigStore, SequencesExt

CONSTANTS
    MaxMsgs,    \* bound: messages from the cloud
    MaxParts,   \* bound: fragments of a message
    MaxSends,   \* bound: beats, reports and messages of the helper, together
    MaxDown,    \* bound: frames under way
    MaxTalks    \* bound: writes and crashes before frames are no more followed

ASSUME LinkAssumption ==
    /\ MaxMsgs \in Nat /\ MaxSends \in Nat /\ MaxDown \in Nat
    /\ MaxTalks \in Nat
    /\ MaxParts \in Nat \ {0}

\* A field that is not of this instance has its default.
Value(f) == IF f \in Fields THEN record[f] ELSE 1

Senders == {"beat", "hello", "report", "helper", "close"}

VARIABLES
    daemon, handshake, run, helper,  \* places of the threads
    client,       \* s_psRemoteNetWsClient: "none", "live", "freed", "used" since
    connecting,   \* CLIENT_CONNECTING
    callbacks,    \* libwsclient_onopen and the like were called
    socket,       \* sockfd: "none", "open", "ended" by the server, "closed"
    upgraded,     \* the server has answered 101
    send,         \* per sender: "no", "wait" for send_lock, "half" sent
    cut,          \* history: the helper left a message without its end
    lock,         \* send_lock
    down,         \* frames of the server under way
    sent,         \* history: parts the server has sent of its last message
    from,         \* history: the part with which the run thread's reading begins
    frames,       \* the list of frames of the message that is coming in
    got,          \* messages handed to onmessage
    sends

linkVars ==
    <<daemon, handshake, run, helper, client, connecting, callbacks, socket,
      upgraded, send, cut, lock, down, sent, from, frames, got, sends>>
vars == <<configVars, linkVars>>

Frames == [msg: 0..MaxMsgs, part: 0..MaxParts, fin: BOOLEAN]
Close == [msg |-> 0, part |-> 0, fin |-> TRUE]     \* opcode 8
Other == [msg |-> 0, part |-> 1, fin |-> TRUE]     \* a ping or a pong
Part == {f \in Frames : f.msg > 0 /\ f.part > 0}

\* The part that follows a part, and the first of the message after that
Point(m, p) == [msg |-> m, part |-> p]
After(f) == IF f.fin THEN Point(f.msg + 1, 1) ELSE Point(f.msg, f.part + 1)

\* The handshake thread has taken the beginning of a frame and left the rest.
Nowhere == Point(0, 0)

Off ==
    /\ daemon' = "portal" /\ handshake' = "none" /\ run' = "none" /\ helper' = "none"
    /\ client' = "none" /\ connecting' = FALSE /\ callbacks' = FALSE /\ socket' = "none"
    /\ upgraded' = FALSE /\ send' = [x \in Senders |-> "no"] /\ lock' = "none"
    /\ cut' = FALSE /\ down' = <<>> /\ frames' = <<>> /\ got' = <<>>
    /\ sent' = [sent EXCEPT !.part = 0, !.fin = TRUE] /\ from' = Point(sent.msg + 1, 1)

Init ==
    /\ ConfigInit
    /\ daemon = "portal" /\ handshake = "none" /\ run = "none" /\ helper = "none"
    /\ client = "none" /\ connecting = FALSE /\ callbacks = FALSE /\ socket = "none"
    /\ upgraded = FALSE /\ send = [x \in Senders |-> "no"] /\ lock = "none"
    /\ cut = FALSE /\ down = <<>> /\ frames = <<>> /\ got = <<>>
    /\ sent = [msg |-> 0, part |-> 0, fin |-> TRUE] /\ from = Point(1, 1)
    /\ sends = 0

-----------------------------------------------------------------------------
(* Sending. *)

\* Bound: what frames do does not depend on the record, and a crash leaves the
\* connection as it was in the beginning.
Talks == writes + crashes < MaxTalks
MoreSends == Talks /\ sends < MaxSends

\* Slip: CLIENT_CONNECTING is not looked at.
OfferAnyway(x) == send' = [send EXCEPT ![x] = "wait"]

\* libwsclient_send: refused while connecting, otherwise it waits for the
\* lock.
Offer(x) == send' = [send EXCEPT ![x] = IF connecting THEN "no" ELSE "wait"]

\* Slip: a frame is sent without send_lock.
FreeToSendAlways == TRUE

FreeToSend == lock = "none"

FirstBytes(x) ==
    /\ send[x] = "wait" /\ FreeToSend /\ client = "live"
    /\ lock' = x /\ send' = [send EXCEPT ![x] = "half"]
    /\ UNCHANGED <<configVars, daemon, handshake, run, helper, client, connecting,
                   callbacks, socket, upgraded, cut, down, sent, from, frames, got, sends>>

\* The rest of the frame.  A write fails when the connection is gone: what
\* follows it does not get to the server either.
LastBytes(x) ==
    /\ x # "helper" /\ send[x] = "half" /\ client = "live"
    /\ lock' = "none" /\ send' = [send EXCEPT ![x] = "no"]
    /\ UNCHANGED <<configVars, daemon, handshake, run, helper, client, connecting,
                   callbacks, socket, upgraded, cut, down, sent, from, frames, got, sends>>

-----------------------------------------------------------------------------
(* The daemon. *)

ThreadVars == <<configVars, handshake, run, helper, upgraded, send, cut, lock, down,
                sent, from, frames, got, sends>>

\* s_remote_net_deamon_task until it has a client
ReadPortal ==
    /\ daemon = "portal" /\ CanRead /\ Value("portalservices") = 1
    /\ daemon' = "addr"
    /\ UNCHANGED <<client, connecting, callbacks, socket>> /\ UNCHANGED ThreadVars

ReadAddr ==
    /\ daemon = "addr" /\ CanRead
    /\ daemon' = IF Value("proxyaddr") = 0 THEN "portal" ELSE "new"
    /\ UNCHANGED <<client, connecting, callbacks, socket>> /\ UNCHANGED ThreadVars

\* Bound: the writes of the record and the life of a connection come one
\* after the other; once it has the address, the daemon reads no more of the
\* record than the device id.
Quiet == busy = "none" /\ \A t \in Writers : step[t] = "idle"

\* libwsclient_new
NewClient ==
    /\ daemon = "new" /\ Quiet
    /\ daemon' = "callbacks" /\ client' = "live" /\ connecting' = TRUE
    /\ handshake' = "connect"
    /\ UNCHANGED <<configVars, run, helper, callbacks, socket, upgraded, send, cut, lock,
                   down, sent, from, frames, got, sends>>

SetCallbacks ==
    /\ daemon = "callbacks"
    /\ daemon' = "run" /\ callbacks' = TRUE /\ helper' = "accept"
    /\ UNCHANGED <<configVars, handshake, run, client, connecting, socket, upgraded, send,
                   cut, lock, down, sent, from, frames, got, sends>>

\* libwsclient_run: waits for the handshake thread to end, if the client is
\* connecting when it is called.
RunChecks ==
    /\ daemon = "run"
    /\ daemon' = IF connecting THEN "join" ELSE "start"
    /\ UNCHANGED <<client, connecting, callbacks, socket>> /\ UNCHANGED ThreadVars

RunJoins ==
    /\ daemon = "join" /\ handshake \in {"done", "failed", "gone"}
    /\ daemon' = "start" /\ connecting' = FALSE
    /\ UNCHANGED <<client, callbacks, socket>> /\ UNCHANGED ThreadVars

RunStarts ==
    /\ daemon = "start"
    /\ daemon' = "beat" /\ run' = IF socket = "none" THEN "none" ELSE "read"
    /\ UNCHANGED <<configVars, handshake, helper, client, connecting, callbacks, socket,
                   upgraded, send, cut, lock, down, sent, from, frames, got, sends>>

\* A beat: the device id is read from the record, then sent.
Beat ==
    /\ daemon = "beat" /\ CanRead /\ client = "live" /\ send["beat"] = "no"
    /\ MoreSends /\ sends' = sends + 1
    /\ Offer("beat")
    /\ UNCHANGED <<configVars, daemon, handshake, run, helper, client, connecting, callbacks,
                   socket, upgraded, cut, lock, down, sent, from, frames, got>>

\* remote_net_send_data
ReportSent ==
    /\ client = "live" /\ socket # "none" /\ send["report"] = "no"
    /\ MoreSends /\ sends' = sends + 1
    /\ Offer("report")
    /\ UNCHANGED <<configVars, daemon, handshake, run, helper, client, connecting, callbacks,
                   socket, upgraded, cut, lock, down, sent, from, frames, got>>

-----------------------------------------------------------------------------
(* The handshake thread. *)

HandshakeVars == <<configVars, daemon, run, helper, client, callbacks, cut, lock, sent,
                   frames, got, sends>>

\* libwsclient_open_connection, retried every five seconds
Connected ==
    /\ handshake = "connect"
    /\ handshake' = "reply" /\ socket' = "open"
    /\ UNCHANGED <<connecting, upgraded, send, down, from>> /\ UNCHANGED HandshakeVars

\* Slip: the thread ends, as the code that is switched off there does.
AfterFailureEnd == "gone"

\* Where a failed attempt leads.
AfterFailure == "connect"

NotConnected ==
    /\ handshake = "connect"
    /\ handshake' = AfterFailure
    /\ UNCHANGED <<connecting, socket, upgraded, send, down, from>>
    /\ UNCHANGED HandshakeVars

\* A status other than 101, or the end of the connection before all of the
\* 101 is there: CLIENT_CONNECTING stays set, the socket stays.
Rejected ==
    /\ handshake = "reply" /\ handshake' = "failed"
    /\ ~upgraded \/ (socket = "ended" /\ down = <<>>)
    /\ UNCHANGED <<connecting, socket, upgraded, send, down, from>>
    /\ UNCHANGED HandshakeVars

\* recv returns "HTTP/1.1 101" and the rest of the answer ...
Answered ==
    /\ handshake = "reply" /\ upgraded
    /\ handshake' = "101"
    /\ UNCHANGED <<connecting, socket, upgraded, send, down, from>>
    /\ UNCHANGED HandshakeVars

\* ... and with it any number of the frames that came behind it, which nobody
\* looks at,
Swallow ==
    /\ handshake = "101" /\ down # <<>> /\ down' = Tail(down)
    /\ from' = IF Head(down) \in Part THEN After(Head(down)) ELSE from
    /\ UNCHANGED <<handshake, connecting, socket, upgraded, send>>
    /\ UNCHANGED HandshakeVars

\* or the beginning of one.
SwallowHalf ==
    /\ handshake = "101" /\ down # <<>> /\ down' = <<>>
    /\ from' = Nowhere
    /\ UNCHANGED <<handshake, connecting, socket, upgraded, send>>
    /\ UNCHANGED HandshakeVars

\* Whatever the other lines of the answer say.
Accepted ==
    /\ handshake = "101" /\ handshake' = "open" /\ connecting' = FALSE
    /\ UNCHANGED <<socket, upgraded, send, down, from>> /\ UNCHANGED HandshakeVars

\* onopen, if it was registered by now
Opened ==
    /\ handshake = "open" /\ client = "live"
    /\ handshake' = IF callbacks THEN "hello" ELSE "done"
    /\ IF callbacks THEN Offer("hello") ELSE UNCHANGED send
    /\ UNCHANGED <<connecting, socket, upgraded, down, from>> /\ UNCHANGED HandshakeVars

Introduced ==
    /\ handshake = "hello" /\ send["hello"] = "no"
    /\ handshake' = "done"
    /\ UNCHANGED <<connecting, socket, upgraded, send, down, from>>
    /\ UNCHANGED HandshakeVars

-----------------------------------------------------------------------------
(* The helper: a local program connects, writes pieces, and closes. *)

HelperVars == <<configVars, daemon, handshake, run, client, connecting, callbacks, socket,
                upgraded, down, sent, from, frames, got>>

\* libwsclient_helper_socket_thread holds send_lock as long as the program is
\* connected.
HelperAccepts ==
    /\ helper = "accept" /\ client = "live" /\ lock = "none" /\ MoreSends
    /\ helper' = "recv" /\ lock' = "helper" /\ sends' = sends + 1
    /\ UNCHANGED <<send, cut>> /\ UNCHANGED HelperVars

\* libwsclient_send_fragment: a fragment that is not the last.  While the
\* client is connecting the piece is dropped.
HelperFragment ==
    /\ helper = "recv" /\ client = "live" /\ ~connecting
    /\ send' = [send EXCEPT !["helper"] = "half"]
    /\ UNCHANGED <<helper, cut, lock, sends>> /\ UNCHANGED HelperVars

\* The program closes: the last fragment, or nothing if it has not written.
HelperEnds ==
    /\ helper = "recv" /\ client = "live"
    /\ helper' = "accept" /\ lock' = "none" /\ send' = [send EXCEPT !["helper"] = "no"]
    /\ UNCHANGED <<cut, sends>> /\ UNCHANGED HelperVars

\* Reading from the program fails: what it has written last goes out as one
\* more fragment, no other one follows, and send_lock is given back.
HelperFails ==
    /\ helper = "recv" /\ client = "live"
    /\ helper' = "accept" /\ lock' = "none"
    /\ \/ send["helper"] = "no" /\ UNCHANGED <<send, cut>>
       \/ /\ send["helper"] = "half" \/ ~connecting
          /\ send' = [send EXCEPT !["helper"] = "half"] /\ cut' = TRUE
    /\ UNCHANGED sends /\ UNCHANGED HelperVars

-----------------------------------------------------------------------------
(* The run thread. *)

RunVars == <<configVars, daemon, handshake, helper, connecting, callbacks, upgraded, cut,
             sent, from, sends>>

\* A complete frame: libwsclient_in_data, libwsclient_complete_frame
Frame(f) == run = "read" /\ down # <<>> /\ Head(down) = f /\ down' = Tail(down)

\* Slip: libwsclient_in_data does not link the new frame to the list.
MoreToComeAlone(f) == <<f>>

\* The frames of a message stay in a list until the one with fin = 1.
MoreToCome(f) == Append(frames, f)

InData(f) ==
    /\ Frame(f) /\ ~f.fin
    /\ frames' = MoreToCome(f)
    /\ UNCHANGED <<run, client, socket, send, lock, got>> /\ UNCHANGED RunVars

\* libwsclient_cleanup_frames: the list is freed.
AfterDispatch == <<>>

\* libwsclient_dispatch_message, onmessage
DispatchMessage(f) ==
    /\ Frame(f) /\ f.fin
    /\ got' = Append(got, Append(frames, f)) /\ frames' = AfterDispatch
    /\ UNCHANGED <<run, client, socket, send, lock>> /\ UNCHANGED RunVars

\* libwsclient_handle_control_frame: a close is sent back, anything else is
\* not answered; the list of frames stays.
CloseFrame ==
    /\ Frame(Close)
    /\ run' = "answer" /\ send' = [send EXCEPT !["close"] = "wait"]
    /\ UNCHANGED <<client, socket, lock, frames, got>> /\ UNCHANGED RunVars

CloseAnswered ==
    /\ run = "answer" /\ send["close"] = "no"
    /\ run' = "read"
    /\ UNCHANGED <<client, socket, send, lock, down, frames, got>> /\ UNCHANGED RunVars

OtherControl ==
    /\ Frame(Other)
    /\ UNCHANGED <<run, client, socket, send, lock, frames, got>> /\ UNCHANGED RunVars

\* The rest of a frame is taken for frames: a message is handed over that the
\* server has not sent.  What follows it is not followed.
Misread ==
    /\ run = "read" /\ from = Nowhere /\ got = <<>>
    /\ got' = <<<<Other>>>>
    /\ UNCHANGED <<run, client, socket, send, lock, down, frames>> /\ UNCHANGED RunVars

\* The connection ends: onclose, close, free.
RunEnds ==
    /\ run = "read" /\ down = <<>> /\ socket = "ended"
    /\ run' = "end" /\ socket' = "closed" /\ client' = "freed"
    /\ UNCHANGED <<send, lock, down, frames, got>> /\ UNCHANGED RunVars

\* The freed client is used again.
UseFreed ==
    /\ client = "freed"
    /\ \/ daemon = "beat" \/ helper # "none" \/ handshake \in {"open", "hello"}
       \/ MoreSends \/ send["report"] # "no"
    /\ client' = "used"
    /\ UNCHANGED <<socket, send, lock, down, frames, got, run>> /\ UNCHANGED RunVars

-----------------------------------------------------------------------------
(* The server and the network. *)

ServerVars == <<configVars, daemon, handshake, run, helper, client, connecting, callbacks,
                send, cut, lock, from, frames, got, sends>>

ServerUpgrades ==
    /\ handshake = "reply" /\ socket = "open" /\ ~upgraded
    /\ upgraded' = TRUE
    /\ UNCHANGED <<socket, down, sent>> /\ UNCHANGED ServerVars

\* It does not wait for anything to come back.
MaySend == Talks /\ upgraded /\ socket = "open" /\ from # Nowhere /\ Len(down) < MaxDown

ServerSends ==
    /\ MaySend
    /\ \E fin \in BOOLEAN :
          LET next == IF sent.fin THEN [msg |-> sent.msg + 1, part |-> 1, fin |-> fin]
                      ELSE [msg |-> sent.msg, part |-> sent.part + 1, fin |-> fin]
          IN  next \in Part /\ (next.part = MaxParts => fin)
              /\ sent' = next /\ down' = Append(down, next)
    /\ UNCHANGED <<socket, upgraded>> /\ UNCHANGED ServerVars

ServerControls ==
    /\ MaySend
    /\ \E c \in {Close, Other} : c \notin Range(down) /\ down' = Append(down, c)
    /\ UNCHANGED <<socket, upgraded, sent>> /\ UNCHANGED ServerVars

\* The server closes, or the connection is lost with what is under way.
ServerEnds ==
    /\ socket = "open" /\ socket' = "ended"
    /\ \E n \in 0..Len(down) : down' = SubSeq(down, 1, n)
    /\ UNCHANGED <<upgraded, sent>> /\ UNCHANGED ServerVars

-----------------------------------------------------------------------------
Crash == Restart /\ Off /\ UNCHANGED sends

DaemonNext ==
    \/ ReadPortal \/ ReadAddr \/ NewClient \/ SetCallbacks
    \/ RunChecks \/ RunJoins \/ RunStarts
HandshakeNext ==
    \/ Connected \/ NotConnected \/ Rejected \/ Answered \/ Swallow \/ SwallowHalf
    \/ Accepted \/ Opened \/ Introduced
SendNext == \E x \in Senders : FirstBytes(x) \/ LastBytes(x)
HelperNext == HelperAccepts \/ HelperFragment \/ HelperEnds \/ HelperFails
RunNext ==
    \/ \E f \in Part : InData(f) \/ DispatchMessage(f)
    \/ CloseFrame \/ CloseAnswered \/ OtherControl \/ Misread \/ RunEnds

Next ==
    \/ daemon \in {"portal", "addr", "new"} /\ ConfigNext /\ UNCHANGED linkVars
    \/ DaemonNext \/ Beat \/ ReportSent \/ HandshakeNext \/ SendNext \/ HelperNext
    \/ RunNext \/ ServerUpgrades \/ ServerSends \/ ServerControls \/ ServerEnds
    \/ UseFreed
    \/ Crash

\* The threads run, a write to the file ends, and one attempt to connect
\* succeeds in the end and is answered.
Fairness ==
    /\ WF_vars(DaemonNext)
    /\ \A t \in Writers : 
         WF_vars((ReadRecord(t) \/ NothingToWrite(t) \/ WriteBegins(t) \/ WriteEnds(t))
                   /\ UNCHANGED linkVars)
    /\ WF_vars(Connected) /\ WF_vars(Answered \/ Accepted \/ Rejected)

Spec == Init /\ [][Next]_vars /\ Fairness

-----------------------------------------------------------------------------
(* Properties. *)

\* The record, the threads, the client and the frames stay in their ranges.
TypeOK ==
    /\ ConfigTypeOK
    /\ daemon \in {"portal", "addr", "new", "callbacks", "run", "join", "start", "beat"}
    /\ handshake \in {"none", "connect", "reply", "101", "open", "hello", "done", "failed",
                     "gone"}
    /\ run \in {"none", "read", "answer", "end"} /\ helper \in {"none", "accept", "recv"}
    /\ client \in {"none", "live", "freed", "used"} /\ connecting \in BOOLEAN
    /\ send \in [Senders -> {"no", "wait", "half"}] /\ lock \in Senders \cup {"none"}
    /\ Len(down) <= MaxDown /\ Len(frames) < MaxParts /\ sends \in 0..MaxSends

\* A message of the helper that stays without its end
Abandoned == IF cut /\ helper = "accept" THEN {"helper"} ELSE {}

\* The bytes of two frames, or the fragments of the helper's message and
\* another frame, are never mixed on the wire (send_lock); unless the helper
\* cannot read from its program any more, and leaves its message unfinished.
FramesWhole ==
    client = "live" =>
        Cardinality({x \in Senders : send[x] = "half"} \ Abandoned) <= 1

\* No frame goes to a server that has not accepted the upgrade, except after
\* a failed handshake, which libwsclient_run takes for a connection.
UpgradeFirst ==
    (\E x \in Senders : send[x] = "half") => upgraded \/ handshake = "failed"

\* From the first part the handshake thread has left, messages are handed over
\* as the server sent them: in order, each with all its fragments, whatever
\* control frames come in between; unless it has left the rest of a frame.
MessagesWhole ==
    from # Nowhere =>
        \A k \in DOMAIN got : \A p \in DOMAIN got[k] :
            got[k][p] = [msg |-> from.msg + k - 1,
                         part |-> IF k = 1 THEN from.part + p - 1 ELSE p,
                         fin |-> p = Len(got[k])]

\* If the portal stays on and the address stays set, a server is asked for
\* the upgrade and answers, whenever it can be reached at last.
Connects ==
    <>[](Value("portalservices") = 1 /\ Value("proxyaddr") = 1)
        => <>(handshake \in {"open", "hello", "done", "failed"})

\* The sending side: threads, lock and frames are in order.
FramesSound == TypeOK /\ FramesWhole
=============================================================================
