------------------------------- MODULE AtPort -------------------------------
(***************************************************************************)
(* at_port/at_port_linux.c: commands to the Zigbee module and their        *)
(* answers, over one serial line.                                          *)
(*                                                                         *)
(*   callers --at_cmd_imd_query--> module --answer--> at_port_listen_task  *)
(*      ^                                                    |             *)
(*      +--- s_sAtCmdAnswerCfg (buffer, count), s_tATAnswerSem             *)
(*                                                                         *)
(* s_tATQueryMutex lets one query at a time use the line.  The query lends *)
(* its buffer to the listener through s_sAtCmdAnswerCfg and waits for      *)
(* s_tATAnswerSem; the listener copies what it takes for an answer into    *)
(* the buffer lent at that moment and posts.  Nothing on the line says     *)
(* which command an answer belongs to.                                     *)
(*                                                                         *)
(* A command is the number of its write to the line, and so is its answer. *)
(***************************************************************************)
EXTENDS Integers, Sequences, FiniteSets

CONSTANTS
    Callers,   \* threads that query the module
    MaxCmds,   \* bound: commands written to the line
    ErrLimit,  \* timeouts tolerated in a row before the port is given up
    Nobody     \* no buffer is lent

ASSUME CallersFinite == IsFiniteSet(Callers)
ASSUME LimitsAssumption == MaxCmds \in Nat /\ ErrLimit \in Nat
ASSUME NobodyAssumption == Nobody \notin Callers

Cmds == 1..MaxCmds
Empty == 0          \* the count of an answer that has not come

VARIABLES
    mutex, asem,    \* s_tATQueryMutex, s_tATAnswerSem
    lent, cnt,      \* s_sAtCmdAnswerCfg: pvBuf's owner; the answer tCnt counts
    avail, errs,    \* s_ui8ATPortAvailable, Aterrnum
    pc, own, res,   \* per caller: place, its command, the answer it returns
    text, ended,    \* per caller: what its buffer holds, and whether the '\0'
                    \* follows it
    line,           \* commands the module has still to answer
    lpc,            \* the listener: "read" or about to "post"
    issued,         \* commands written so far
    retry,          \* per caller: at_cmd_query may ask once more
    late            \* history: a query gave up on an answer that may come

cfg == <<lent, cnt>>
port == <<avail, errs>>
caller == <<pc, own, res>>
buffer == <<text, ended>>
module == <<line, issued>>
atVars == <<mutex, asem, cfg, port, caller, buffer, module, lpc, retry, late>>

AtInit ==
    /\ mutex = 1 /\ asem = 0
    /\ lent = Nobody /\ cnt = Empty
    /\ avail = 0 /\ errs = 0
    /\ pc = [c \in Callers |-> "idle"]
    /\ own = [c \in Callers |-> Empty]
    /\ res = [c \in Callers |-> Empty]
    /\ text = [c \in Callers |-> Empty]
    /\ ended = [c \in Callers |-> FALSE]
    /\ line = <<>> /\ issued = 0
    /\ lpc = "read"
    /\ retry = [c \in Callers |-> FALSE]
    /\ late = FALSE

Goto(c, place) == pc' = [pc EXCEPT ![c] = place]
At(c, place) == pc[c] = place

-----------------------------------------------------------------------------
(* The caller. *)

\* at_cmd_query looks at the port's state before it queues for the mutex.
Query(c) ==
    /\ At(c, "idle") /\ issued < MaxCmds
    /\ avail = 1
    /\ retry' = [retry EXCEPT ![c] = TRUE]
    /\ Goto(c, "lock")
    /\ UNCHANGED <<mutex, asem, cfg, port, own, res, buffer, module, lpc, late>>

\* at_port_reset queries whatever the state is.
Reset(c) ==
    /\ At(c, "idle") /\ issued < MaxCmds
    /\ avail' = 0
    /\ retry' = [retry EXCEPT ![c] = FALSE]
    /\ Goto(c, "lock")
    /\ UNCHANGED <<mutex, asem, cfg, errs, own, res, buffer, module, lpc, late>>

\* Slip: the result of sem_wait_ms is not looked at.
LockRegardless(c) ==
    /\ At(c, "lock")
    /\ mutex' = IF mutex > 0 THEN mutex - 1 ELSE 0
    /\ Goto(c, "clean")
    /\ UNCHANGED <<asem, cfg, port, own, res, buffer, module, lpc, retry, late>>

Lock(c) ==
    /\ At(c, "lock") /\ mutex > 0
    /\ mutex' = mutex - 1
    /\ Goto(c, "clean")
    /\ UNCHANGED <<asem, cfg, port, own, res, buffer, module, lpc, retry, late>>

\* The call's variables end with it.
Leave(c) ==
    /\ Goto(c, "idle")
    /\ own' = [own EXCEPT ![c] = Empty]
    /\ res' = [res EXCEPT ![c] = Empty]
    /\ text' = [text EXCEPT ![c] = Empty]
    /\ ended' = [ended EXCEPT ![c] = FALSE]
    /\ retry' = [retry EXCEPT ![c] = FALSE]

\* MUI_AT_QUERY_WAIT_MAX+1 ms have passed: AT_PORT_ERR_SEM_FAIL.
LockTimeout(c) ==
    /\ At(c, "lock") /\ mutex = 0
    /\ Leave(c)
    /\ UNCHANGED <<mutex, asem, cfg, port, module, lpc, late>>

\* sem_trywait(&s_tATAnswerSem).
Clean(c) ==
    /\ At(c, "clean")
    /\ asem' = IF asem > 0 THEN asem - 1 ELSE 0
    /\ Goto(c, "lend")
    /\ UNCHANGED <<mutex, cfg, port, own, res, buffer, module, lpc, retry, late>>

\* at_cmd_answer_cfg(pvBuf, tBufSize-1, 0).
Lend(c) ==
    /\ At(c, "lend")
    /\ lent' = c /\ cnt' = Empty
    /\ Goto(c, "write")
    /\ UNCHANGED <<mutex, asem, port, own, res, buffer, module, lpc, retry, late>>

\* write() to the line; when it fails nobody waits.
WriteCmd(c) ==
    /\ At(c, "write")
    /\ \/ /\ issued < MaxCmds
          /\ issued' = issued + 1
          /\ own' = [own EXCEPT ![c] = issued']
          /\ line' = Append(line, issued')
          /\ Goto(c, "wait") /\ UNCHANGED res
       \/ /\ Goto(c, "clear")
          /\ res' = [res EXCEPT ![c] = Empty]
          /\ UNCHANGED <<own, module>>
    /\ UNCHANGED <<mutex, asem, cfg, port, buffer, lpc, retry, late>>

\* sem_wait_ms(&s_tATAnswerSem, ...) succeeds; '\0' goes after tCnt bytes.
Woken(c) ==
    /\ At(c, "wait") /\ asem > 0
    /\ asem' = asem - 1
    /\ ended' = [ended EXCEPT ![c] = (cnt = text[c])]
    /\ Goto(c, "take")
    /\ UNCHANGED <<mutex, cfg, port, own, res, text, module, lpc, retry, late>>

\* The answer to the command is still to come, or on its way to the caller.
AnswerDue(c) ==
    (\E i \in DOMAIN line : line[i] = own[c]) \/ lpc = "post" \/ asem > 0

\* Slip: it waits for the answer without a limit.
TimeoutNever(c) ==
    /\ At(c, "wait") /\ FALSE
    /\ UNCHANGED atVars

\* It times out: an empty string, one more timeout in a row.
Timeout(c) ==
    /\ At(c, "wait")
    /\ late' = (late \/ AnswerDue(c))
    /\ text' = [text EXCEPT ![c] = Empty]
    /\ ended' = [ended EXCEPT ![c] = TRUE]
    /\ res' = [res EXCEPT ![c] = Empty]
    /\ errs' = errs + 1
    /\ avail' = IF errs' > ErrLimit THEN 0 ELSE avail
    /\ Goto(c, "clear")
    /\ UNCHANGED <<mutex, asem, cfg, own, module, lpc, retry>>

\* iRet = tCnt, read without s_tATAnswerBufMutex.
Take(c) ==
    /\ At(c, "take")
    /\ res' = [res EXCEPT ![c] = cnt]
    /\ Goto(c, "clear")
    /\ UNCHANGED <<mutex, asem, cfg, port, own, buffer, module, lpc, retry, late>>

\* Slip: only the count is reset.
ClearCount(c) ==
    /\ At(c, "clear")
    /\ cnt' = Empty
    /\ Goto(c, "unlock")
    /\ UNCHANGED <<mutex, asem, lent, port, own, res, buffer, module, lpc, retry, late>>

\* at_cmd_answer_cfg(NULL, 0, 0).
Clear(c) ==
    /\ At(c, "clear")
    /\ lent' = Nobody /\ cnt' = Empty
    /\ Goto(c, "unlock")
    /\ UNCHANGED <<mutex, asem, port, own, res, buffer, module, lpc, retry, late>>

Unlock(c) ==
    /\ At(c, "unlock")
    /\ mutex' = mutex + 1
    /\ Goto(c, "return")
    /\ UNCHANGED <<asem, cfg, port, own, res, buffer, module, lpc, retry, late>>

\* The timeouts are forgotten after the mutex is released.  at_cmd_query asks
\* once more when the answer is error E100.
Return(c) ==
    /\ At(c, "return")
    /\ errs' = IF res[c] # Empty THEN 0 ELSE errs
    /\ \/ Leave(c)
       \/ /\ res[c] # Empty /\ retry[c]
          /\ retry' = [retry EXCEPT ![c] = FALSE]
          /\ Goto(c, "lock")
          /\ UNCHANGED <<own, res, buffer>>
    /\ UNCHANGED <<mutex, asem, cfg, avail, module, lpc, late>>

-----------------------------------------------------------------------------
(* The listener, the module and zigbee_module_ready. *)

\* An answer arrives: at_cmd_asnwer_write under s_tATAnswerBufMutex.
ListenWrite ==
    /\ lpc = "read" /\ line # <<>>
    /\ line' = Tail(line)
    /\ IF lent = Nobody
       THEN UNCHANGED <<cnt, buffer>>
       ELSE /\ cnt' = Head(line)
            /\ text' = [text EXCEPT ![lent] = Head(line)]
            /\ ended' = [ended EXCEPT ![lent] = FALSE]
    /\ lpc' = "post"
    /\ UNCHANGED <<mutex, asem, lent, port, caller, issued, retry, late>>

\* The post does not depend on whether the answer was wanted.
ListenPost ==
    /\ lpc = "post"
    /\ asem' = asem + 1
    /\ lpc' = "read"
    /\ UNCHANGED <<mutex, cfg, port, caller, buffer, module, retry, late>>

\* The module, or the listener's own timeout, loses an answer.
Lose ==
    /\ line # <<>>
    /\ line' = Tail(line)
    /\ UNCHANGED <<mutex, asem, cfg, port, caller, buffer, issued, lpc, retry, late>>

\* The module says $READY.
Ready ==
    /\ avail' = 1
    /\ UNCHANGED <<mutex, asem, cfg, errs, caller, buffer, module, lpc, retry, late>>

Begin(c) == Query(c) \/ Reset(c)

Proceed(c) ==
    \/ Lock(c) \/ LockTimeout(c) \/ Clean(c) \/ Lend(c) \/ WriteCmd(c)
    \/ Woken(c) \/ Timeout(c) \/ Take(c) \/ Clear(c) \/ Unlock(c) \/ Return(c)

AtNext ==
    \/ \E c \in Callers : Begin(c) \/ Proceed(c)
    \/ ListenWrite \/ ListenPost \/ Lose \/ Ready

\* Threads run and every wait of a query is bounded; the listener posts what
\* it has written.  The module owes nothing.
AtFairness == WF_atVars(ListenPost) /\ \A c \in Callers : WF_atVars(Proceed(c))

AtSpec == AtInit /\ [][AtNext]_atVars /\ AtFairness

-----------------------------------------------------------------------------
(* Properties. *)

Places == {"idle", "lock", "clean", "lend", "write", "wait", "take", "clear",
           "unlock", "return"}
Locked == {"clean", "lend", "write", "wait", "take", "clear", "unlock"}
Lending == {"write", "wait", "take", "clear"}

AtTypeOK ==
    /\ mutex \in {0, 1} /\ asem \in Nat
    /\ lent \in Callers \cup {Nobody} /\ cnt \in Cmds \cup {Empty}
    /\ avail \in {0, 1} /\ errs \in Nat
    /\ pc \in [Callers -> Places]
    /\ own \in [Callers -> Cmds \cup {Empty}]
    /\ res \in [Callers -> Cmds \cup {Empty}]
    /\ text \in [Callers -> Cmds \cup {Empty}]
    /\ ended \in [Callers -> BOOLEAN]
    /\ line \in Seq(Cmds) /\ issued \in 0..MaxCmds
    /\ lpc \in {"read", "post"}
    /\ retry \in [Callers -> BOOLEAN] /\ late \in BOOLEAN

\* s_tATQueryMutex is free exactly when no query is between its wait and its
\* post: whatever fails or times out, the line is never left locked and never
\* shared.
OneQueryAtATime ==
    Cardinality({c \in Callers : pc[c] \in Locked}) = 1 - mutex

\* The listener can only reach the buffer of a query that is still in
\* progress: an answer that comes late is never copied into memory its owner
\* has left.
BufferOwned ==
    \A c \in Callers : lent = c <=> pc[c] \in Lending

\* As long as the module answers in time or not at all, a query that is woken
\* finds the answer to its own command in its buffer, counted and terminated.
OwnAnswer ==
    ~late =>
        \A c \in Callers : At(c, "take") =>
            cnt = own[c] /\ text[c] = own[c] /\ ended[c]

\* Every call returns, whatever becomes of its answer.
CallReturns ==
    \A c \in Callers : At(c, "lock") ~> At(c, "idle")

\* The line is one query's at a time, is not left locked, and the listener is
\* lent the buffer of that query or none.
LineSound == AtTypeOK /\ OneQueryAtATime /\ BufferOwned
=============================================================================
