------------------------------- MODULE ApiGate --------------------------------
(***************************************************************************)
(* api_deal/api_deal.c: the way of a request through the API.              *)
(*                                                                         *)
(* Requests come from local clients (net_manage_api_deal_task) and from    *)
(* the cloud (s_remote_api_deal_task).  A request waits up to 5 s for      *)
(* tMutex, and is dropped without an answer if it does not get it.  Then   *)
(* the head of the answer goes into the one answer buffer, the user is     *)
(* looked up, method and path choose a handler, and the handler writes the *)
(* answer in one or more parts, the last of which sends the buffer.  When  *)
(* the handler returns an error, an error answer follows.                  *)
(*                                                                         *)
(* A full buffer is emptied: the error answer then goes out without head,  *)
(* and so does the one after a buffer that could not be sent ("cut").      *)
(*                                                                         *)
(* The executors of sets, rules and schedules call the same functions as   *)
(* the handlers, and do not come through here.  The list of users is the   *)
(* set that UserTable implements.                                          *)
(***************************************************************************)
EXTENDS Integers, FiniteSets, SequencesExt

CONSTANTS
    Clients,     \* the two API tasks
    Engines,     \* executors
    Users,       \* names of users
    NoUser,
    SuperUser,   \* the name that is built into the program
    BufMax,      \* parts that fit into the answer buffer
    PartsMax,    \* bound: parts of an answer
    MaxOps,      \* bound: requests, and commands of executors
    MaxFaults    \* bound: lost answers, failed writes and sends, crashes

Tasks == Clients \cup Engines

ASSUME GateAssumption ==
    /\ Clients \cap Engines = {} /\ NoUser \notin Users \cup {SuperUser}
    /\ BufMax \in Nat \ {0, 1} /\ PartsMax \in Nat \ {0, 1}
    /\ MaxOps \in Nat /\ MaxFaults \in Nat

VARIABLES
    gate,        \* s_sApiAnswerBufCtrl.tMutex
    buf,         \* s_sApiAnswerBufCtrl: parts, each with its client
    users,       \* the list of users
    job,         \* per task: the request it is at
    ops, faults,
    spoiled      \* history: something undefined was done

gateVars == <<gate, buf, users, job, ops, faults, spoiled>>

\* size, left: parts of the answer, and those not written yet.  The fields
\* from id on belong to the handlers: see GroupTable and SceneTable.
Idle == [at |-> "idle", op |-> "none", user |-> NoUser, size |-> 0, left |-> 0,
         cut |-> FALSE, id |-> 0, add |-> <<>>, del |-> <<>>, won |-> FALSE,
         todo |-> <<>>, next |-> 1]

Go(t, j) == ~spoiled /\ job' = [job EXCEPT ![t] = j]
At(t, place) == job[t].at = place

\* What may go wrong: a write to a file, or the sending of an answer.
Writes == IF faults < MaxFaults THEN {"done", "failed"} ELSE {"done"}
Fault(r) == faults' = IF r = "done" THEN faults ELSE faults + 1

-----------------------------------------------------------------------------
(* Routes: method, number of grades of the path, handler.  The handlers    *)
(* that other modules are about are "elsewhere".                           *)

TopRoutes ==
    {<<"POST", 1, "create_user">>, <<"GET", 2, "full_state">>,
     <<"POST", 2, "elsewhere">>, <<"DELETE", 2, "factory">>}

ConfigRoutes ==
    UNION {{<<"GET", g, "get">>, <<"PUT", g, "elsewhere">>, <<"DELETE", g, "wipe">>} : g \in 3..6}

DeviceRoutes ==
    {<<"POST", 3, "elsewhere">>, <<"GET", 3, "all_devs">>, <<"GET", 4, "get">>,
     <<"PUT", 4, "elsewhere">>, <<"PUT", 5, "elsewhere">>, <<"DELETE", 4, "del_dev">>}

GroupRoutes ==
    {<<"GET", 3, "get">>, <<"GET", 4, "get">>, <<"PUT", 4, "set_group">>,
     <<"PUT", 5, "command_group">>, <<"POST", 3, "create_group">>, <<"DELETE", 4, "del_group">>}

SceneRoutes ==
    {<<"GET", 3, "get">>, <<"GET", 4, "get">>, <<"PUT", 4, "recall_scene">>,
     <<"POST", 3, "create_scene">>, <<"DELETE", 4, "del_scene">>}

SetRoutes ==
    {<<"GET", 3, "get">>, <<"GET", 4, "get">>, <<"PUT", 4, "elsewhere">>,
     <<"POST", 3, "elsewhere">>, <<"DELETE", 4, "elsewhere">>}

ScheduleRoutes == SetRoutes
RuleRoutes == SetRoutes

SysRoutes == {<<"GET", 3, "get">>, <<"PUT", 3, "elsewhere">>}
ClockRoutes == {<<"PUT", 3, "elsewhere">>}
UpdateRoutes == {<<"GET", 3, "get">>, <<"POST", 3, "elsewhere">>}
ModeRoutes == {<<"POST", 3, "elsewhere">>}

\* By the word that is the third grade, if there are as many.
Routes ==
    [none |-> TopRoutes, config |-> ConfigRoutes, devices |-> DeviceRoutes,
     groups |-> GroupRoutes, scene |-> SceneRoutes, set |-> SetRoutes,
     schedules |-> ScheduleRoutes, rules |-> RuleRoutes, rtc |-> ClockRoutes,
     sys |-> SysRoutes, debug |-> SysRoutes, at_debug |-> ClockRoutes, update |-> {},
     upgrade |-> UpdateRoutes, download |-> UpdateRoutes, test_mode |-> ModeRoutes]

Handlers == {r[3] : r \in UNION {Routes[k] : k \in DOMAIN Routes}}

-----------------------------------------------------------------------------
(* In, and out again. *)

\* Slip: a request goes on when its wait has timed out.
MayEnterAlways == TRUE

\* sem_wait_ms(&tMutex, 5000)
MayEnter == gate > 0

\* api_deal, remote_api_deal: the buffer has the head of the answer.
Enter(t) ==
    /\ ~spoiled /\ t \in Clients /\ job[t] = Idle /\ ops < MaxOps /\ ops' = ops + 1
    /\ MayEnter /\ gate' = gate - 1
    /\ buf' = <<<<t, "head">>>>

\* user_verify, for s_api_url_user_verify: the super user is in no list.
Known == users \cup {SuperUser}

\* A request of a user that is known has come to its handler.
Handle(t, handler, j) ==
    /\ handler \in Handlers /\ Enter(t)
    /\ \E u \in Known : Go(t, [j EXCEPT !.user = u])
    /\ UNCHANGED users

\* There is no handler, the user is not known, the body is not understood,
\* or what the path names cannot be read.
Refused(t) ==
    /\ Enter(t) /\ Go(t, [Idle EXCEPT !.at = "error"])
    /\ UNCHANGED <<users, faults, spoiled>>

\* Handlers that change nothing here, or only what other modules are about;
\* they answer in n parts.
Answer(n) == [Idle EXCEPT !.at = "answer", !.size = n, !.left = n]
Only(t, handler, n) == Handle(t, handler, Answer(n)) /\ UNCHANGED <<faults, spoiled>>

\* The whole state, table by table; the devices of a type, one by one; one of
\* them, or the list of the groups and the like.
FullState(t) == \E n \in 2..PartsMax : Only(t, "full_state", n)
AllDevs(t) == \E n \in 2..PartsMax : Only(t, "all_devs", n)
GetOne(t) == Only(t, "get", 1)
Elsewhere(t) == Only(t, "elsewhere", 1)

\* The end of what a task does; a client gets an answer of one part.
Finish(t) == Go(t, IF t \in Clients THEN Answer(1) ELSE Idle)
Fail(t) == Go(t, IF t \in Clients THEN [Idle EXCEPT !.at = "error"] ELSE Idle)

\* s_api_parse_user_creat: whoever asks, if the link button was pressed.
CreateUser(t) ==
    /\ "create_user" \in Handlers /\ Enter(t)
    /\ \/ \E u \in Users \ users : users' = users \cup {u}
       \/ UNCHANGED users
    /\ Go(t, Answer(1)) /\ UNCHANGED <<faults, spoiled>>

\* Slip: a buffer that is full is left as it is.
OverflownKept == buf

\* What is left in a buffer that is too full for the next part.
Overflown == <<>>

\* api_answer_segment_send, for a part that is not the last or for the last
WritePart(t) ==
    /\ At(t, "answer")
    /\ LET n == job[t].left - 1 IN
       IF Len(buf) < BufMax
       THEN /\ buf' = Append(buf, <<t, "body">>)
            /\ Go(t, [job[t] EXCEPT !.left = n, !.at = IF n = 0 THEN "send" ELSE @])
       ELSE /\ buf' = Overflown
            /\ Go(t, [Idle EXCEPT !.at = "error", !.cut = TRUE])
    /\ UNCHANGED <<gate, users, ops, faults, spoiled>>

\* api_answer_invalid_api, api_answer_low_layer_error
WriteError(t) ==
    /\ At(t, "error")
    /\ buf' = Append(buf, <<t, "error">>)
    /\ Go(t, [job[t] EXCEPT !.at = "send", !.op = "error"])
    /\ UNCHANGED <<gate, users, ops, faults, spoiled>>

\* send() or remote_api_answer; the end of the request, unless an answer
\* that was not an error could not be sent.
Send(t) ==
    /\ At(t, "send")
    /\ buf' = <<>>
    /\ \E w \in Writes :
          /\ Fault(w)
          /\ IF w = "failed" /\ job[t].op # "error"
             THEN Go(t, [Idle EXCEPT !.at = "error", !.cut = TRUE]) /\ gate' = gate
             ELSE Go(t, Idle) /\ gate' = gate + 1
    /\ UNCHANGED <<users, ops, spoiled>>

Answering(t) == WritePart(t) \/ WriteError(t) \/ Send(t)

-----------------------------------------------------------------------------
\* api_deal_init, with users of before or without.
GateInit ==
    /\ gate = 1 /\ buf = <<>> /\ users \in SUBSET Users
    /\ job = [t \in Tasks |-> Idle]
    /\ ops = 0 /\ faults = 0 /\ spoiled = FALSE

\* The program starts again.
GateRestart == gate' = 1 /\ buf' = <<>> /\ job' = [t \in Tasks |-> Idle]

GateTypeOK ==
    /\ gate \in Nat /\ users \subseteq Users
    /\ buf \in Seq(Clients \X {"head", "body", "error"}) /\ Len(buf) <= BufMax

\* What is sent to a client is the head of its own answer and the whole of
\* it, or the head and an error; or, if the answer was too long or could not
\* be sent, an error alone (api_deal, api_answer_segment_send).
AnswerWhole ==
    \A t \in Clients :
        At(t, "send") =>
            \/ buf = <<<<t, "head">>>> \o [k \in 1..job[t].size |-> <<t, "body">>]
            \/ buf = <<<<t, "head">>, <<t, "error">>>>
            \/ job[t].cut /\ buf = <<<<t, "error">>>>

\* A request is carried out only for the super user or for a user that is in
\* the list all the while, but for the one that deletes the users (api_parse,
\* user_verify, database_del_all).
OnlyUsersAct ==
    \A t \in Clients :
        At(t, "idle") \/ At(t, "answer") \/ At(t, "send") \/ At(t, "error")
        \/ job[t].op \in {"wipe", "factory"}
        \/ job[t].user = SuperUser \/ job[t].user \in users
=============================================================================
