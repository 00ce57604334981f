---------------------------- MODULE RemoteReport ----------------------------
(***************************************************************************)
(* report/remote_report.c: the two message rings between the cloud         *)
(* connection and the gateway, and the one task that serves both.          *)
(*                                                                         *)
(*   websocket thread --remote_msg_receive--> recv ring --+                *)
(*                                                        v                *)
(*                              s_remote_api_deal_task (remote_api_deal)   *)
(*                                                        |                *)
(*   any thread --remote_report_send--> send ring <-------+ answers        *)
(*                                        |                                *)
(*                                        v  remote_net_send_data          *)
(*                                                                         *)
(* One semaphore, s_tRemoteApiSem, wakes the task for both rings.  A       *)
(* receiver and a reporter write their record first and post afterwards;   *)
(* an answer is written without a post.  Each wake-up serves at most one   *)
(* record of each ring.                                                    *)
(*                                                                         *)
(* A ring is a queue of records here, which is what RingBuffer shows of it *)
(* when two writes do not overlap.  It holds at most Capacity records and  *)
(* may refuse one earlier: records differ in length.                       *)
(***************************************************************************)
EXTENDS Integers, Sequences, FiniteSets

CONSTANTS
    Requests,   \* API messages from the cloud
    Reports,    \* reports of the other threads, each one remote_report_send
    Capacity,   \* records that fit into one ring
    NoRequest   \* the deal task works on none

ASSUME RequestsFinite == IsFiniteSet(Requests)
ASSUME ReportsFinite == IsFiniteSet(Reports)
ASSUME CapacityAssumption == Capacity \in Nat /\ Capacity > 0
ASSUME NoRequestAssumption == NoRequest \notin Requests

\* The records of the send ring.
Answer(r) == <<"answer", r>>     \* remote_api_answer
Change(r) == <<"change", r>>     \* the report a set request causes itself
Report(x) == <<"report", x>>     \* remote_report_send of another thread
Outgoing == {"answer", "change"} \X Requests \cup {"report"} \X Reports

VARIABLES
    recv, send,   \* the contents of the two rings
    sem,          \* s_tRemoteApiSem
    req,          \* websocket thread: "new", "written" (not posted), "done"
    rpt,          \* reporting threads: "new", "written", "done"
    pc, cur       \* the deal task: its place and the request it works on

remoteVars == <<recv, send, sem, req, rpt, pc, cur>>

RemoteInit ==
    /\ recv = <<>> /\ send = <<>> /\ sem = 0
    /\ req = [r \in Requests |-> "new"]
    /\ rpt = [x \in Reports |-> "new"]
    /\ pc = "wait" /\ cur = NoRequest

\* A record is appended, or the ring has no room for it and it is refused.
Accepts(ring, m) == Len(ring) < Capacity /\ ring' = Append(ring, m)
Refuses(ring) == ring # <<>> /\ UNCHANGED ring

-----------------------------------------------------------------------------
(* The websocket thread: one message at a time. *)

\* remote_msg_receive: msg_ring_buf_wr; a full ring refuses the message.
ReceiveWrite(r) ==
    /\ req[r] = "new"
    /\ \A s \in Requests : req[s] # "written"
    /\ \/ Accepts(recv, r) /\ req' = [req EXCEPT ![r] = "written"]
       \/ Refuses(recv) /\ req' = [req EXCEPT ![r] = "done"]
    /\ UNCHANGED <<send, sem, rpt, pc, cur>>

ReceivePost(r) ==
    /\ req[r] = "written"
    /\ sem' = sem + 1
    /\ req' = [req EXCEPT ![r] = "done"]
    /\ UNCHANGED <<recv, send, rpt, pc, cur>>

-----------------------------------------------------------------------------
(* A thread that reports: remote_report_send. *)

ReportWrite(x) ==
    /\ rpt[x] = "new"
    /\ \/ Accepts(send, Report(x)) /\ rpt' = [rpt EXCEPT ![x] = "written"]
       \/ Refuses(send) /\ rpt' = [rpt EXCEPT ![x] = "done"]
    /\ UNCHANGED <<recv, sem, req, pc, cur>>

ReportPost(x) ==
    /\ rpt[x] = "written"
    /\ sem' = sem + 1
    /\ rpt' = [rpt EXCEPT ![x] = "done"]
    /\ UNCHANGED <<recv, send, req, pc, cur>>

-----------------------------------------------------------------------------
(* s_remote_api_deal_task. *)

\* sem_wait_ms succeeds.  Its timeout leads straight back to it.
DealWake ==
    /\ pc = "wait"
    /\ sem > 0
    /\ sem' = sem - 1
    /\ pc' = "recv"
    /\ UNCHANGED <<recv, send, req, rpt, cur>>

\* Slip: one wake-up serves one ring or the other.
DealSendUnlessReceived ==
    /\ pc = "send"
    /\ send' = IF send = <<>> \/ cur # NoRequest THEN send ELSE Tail(send)
    /\ pc' = "wait"
    /\ cur' = NoRequest
    /\ UNCHANGED <<recv, sem, req, rpt>>

\* The first half of the body: take the oldest received message, if any.
DealRecv ==
    /\ pc = "recv"
    /\ IF recv = <<>>
       THEN pc' = "send" /\ UNCHANGED <<recv, cur>>
       ELSE /\ cur' = Head(recv)
            /\ recv' = Tail(recv)
            /\ pc' = "answer"
    /\ UNCHANGED <<send, sem, req, rpt>>

\* remote_api_deal: a message that does not parse, or for which the API mutex
\* is not had within 5 s, is dropped without an answer; a request that fails
\* gets an error answer; any other its own answer.  The task is the ring's
\* only reader, so an answer meeting a full ring is refused, not delayed.
DealAnswer ==
    /\ pc = "answer"
    /\ \/ UNCHANGED send /\ pc' = "send"
       \/ UNCHANGED send /\ pc' = "error"
       \/ Accepts(send, Answer(cur)) /\ pc' = "change"
       \/ Refuses(send) /\ pc' = "refused"
    /\ UNCHANGED <<recv, sem, req, rpt, cur>>

\* A request that changed something then reports the change, from this task,
\* with the post of remote_report_send.
DealChange ==
    /\ pc \in {"change", "refused"}
    /\ \/ UNCHANGED <<send, sem>>
       \/ Accepts(send, Change(cur)) /\ sem' = sem + 1
    /\ pc' = IF pc = "change" THEN "send" ELSE "error"
    /\ UNCHANGED <<recv, req, rpt, cur>>

\* api_answer_low_layer_error, also after a refused answer: the error record
\* is shorter and may still fit.
DealError ==
    /\ pc = "error"
    /\ Accepts(send, Answer(cur)) \/ Refuses(send)
    /\ pc' = "send"
    /\ UNCHANGED <<recv, sem, req, rpt, cur>>

\* The second half: take the oldest outgoing record, if any, and hand it to
\* remote_net_send_data.  It has left the ring even when the connection is
\* down and the call fails.
DealSend ==
    /\ pc = "send"
    /\ send' = IF send = <<>> THEN send ELSE Tail(send)
    /\ pc' = "wait"
    /\ cur' = NoRequest
    /\ UNCHANGED <<recv, sem, req, rpt>>

Deal == DealWake \/ DealRecv \/ DealAnswer \/ DealChange \/ DealError \/ DealSend

RemoteNext ==
    \/ \E r \in Requests : ReceiveWrite(r) \/ ReceivePost(r)
    \/ \E x \in Reports : ReportWrite(x) \/ ReportPost(x)
    \/ Deal

\* The task runs in an endless loop and a thread that has written a record
\* goes on to its post; nothing makes the cloud or the devices talk.
RemoteFairness ==
    /\ WF_remoteVars(Deal)
    /\ \A r \in Requests : WF_remoteVars(ReceivePost(r))
    /\ \A x \in Reports : WF_remoteVars(ReportPost(x))

RemoteSpec == RemoteInit /\ [][RemoteNext]_remoteVars /\ RemoteFairness

-----------------------------------------------------------------------------
(* Properties. *)

RemoteTypeOK ==
    /\ recv \in Seq(Requests) /\ send \in Seq(Outgoing)
    /\ sem \in Nat
    /\ req \in [Requests -> {"new", "written", "done"}]
    /\ rpt \in [Reports -> {"new", "written", "done"}]
    /\ pc \in {"wait", "recv", "answer", "change", "refused", "error", "send"}
    /\ cur \in Requests \cup {NoRequest}
    /\ pc \in {"answer", "change", "refused", "error"} => cur \in Requests

\* Records already in a ring whose writer still has to post.
Unposted == Cardinality({r \in Requests : req[r] = "written"})
          + Cardinality({x \in Reports : rpt[x] = "written"})

\* The wake-up in progress takes one more record: it is still to pass the send
\* half, and when it has just taken a request it may put an answer in its
\* place.
InHand == IF pc = "wait" THEN 0 ELSE 1
Owed == IF pc \in {"answer", "refused", "error"} THEN 1 ELSE 0

\* Every record in either ring is matched by a wake-up that is in progress, is
\* posted, or will be: although answers are never posted, no record can be
\* left behind in a ring with the task asleep.
NoStrandedRecord ==
    Len(recv) + Len(send) + Owed <= sem + Unposted + InHand

\* The consequence: a sleeping task with nothing to wake it has empty rings.
\* Every received message is taken up and every outgoing record is handed to
\* the connection.
RecordsLeave ==
    /\ \A r \in Requests :
          (\E i \in DOMAIN recv : recv[i] = r) ~> (\A i \in DOMAIN recv : recv[i] # r)
    /\ \A m \in Outgoing :
          (\E i \in DOMAIN send : send[i] = m) ~> (\A i \in DOMAIN send : send[i] # m)

\* Every record in a ring has a wake-up to come for it, and the semaphore, on
\* which two rings depend, never goes below zero.
RingsSound == RemoteTypeOK /\ NoStrandedRecord
=============================================================================
