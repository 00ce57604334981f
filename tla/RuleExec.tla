------------------------------ MODULE RuleExec ------------------------------
(***************************************************************************)
(* rule/rule.c: the executor of one rule, s_rules_execute_deal_task.       *)
(*                                                                         *)
(* A rule is in force all day, or in a window of time that starts at a set *)
(* time.  While it is in force its condition decides which of its two      *)
(* lists of outputs runs: "T" when it holds, "F" when not.  A list runs    *)
(* for several rounds, of a second each: an output is carried out after    *)
(* its delay and quit after its duration.                                  *)
(*                                                                         *)
(* A round holds s_tRulesRamDataSem from its first to its last step, so    *)
(* the API changes a rule between rounds.  Toutstate is 2 only within the  *)
(* step that starts a round, which turns it into 1 again.  The overlay     *)
(* flags choose counters to be set to 1 in front of a loop that sets all   *)
(* of them to 1: they have no effect.  The outputs go to different         *)
(* devices, so that no two commands of a round are merged.                 *)
(***************************************************************************)
EXTENDS Integers

CONSTANTS
    NumOut,      \* NumOut[b]: outputs in list b (ToutPutNum, FoutPutNum)
    Delays,      \* delays an output may have
    Durations,   \* durations an output may have
    Quits,       \* values of quitmethod: 0 none, 1 state, 2 roll back
    Windows,     \* durations a rule may have
    Day,         \* a longer duration means: all day
    Width        \* the counters of an output count modulo Width

Lists == {"T", "F"}
Outs(b) == 1..NumOut[b]
Outputs == UNION {{b} \X Outs(b) : b \in Lists}
Old == 2 * Width   \* bound: "age" stops counting when every output is over

ASSUME OutsAssumption == NumOut \in [Lists -> Nat]
ASSUME TimesAssumption ==
    /\ Width \in Nat \ {0, 1} /\ Day \in Nat
    /\ Delays \subseteq 0..(Width - 1) /\ Durations \subseteq 0..(Width - 1)
    /\ Windows \subseteq Nat /\ Quits \subseteq {0, 1, 2}

VARIABLES
    active, window, single,   \* the rule; single: it has at most one input
    delay, dur, quitm,        \* the outputs: delay, duration, quitmethod
    execute, left,            \* execute, duration_count of the rule
    state, finish,            \* Toutstate and Foutstate, ToutFinishNum, ...
    delayCnt, durCnt,         \* delay_count and duration_count of the outputs
    place, k,                 \* the executor: list and output it is at
    out,                      \* G_RulesOutPutQuene: commands of this round
    cond,                     \* history: the condition the last round saw
    age, fresh                \* history: rounds since the counters of a list
                              \* were set to 1; were they, when it started?

rule == <<active, window, single, delay, dur, quitm>>
counters == <<delayCnt, durCnt>>
timers == <<state, finish, counters, age, fresh>>
ruleVars == <<rule, execute, left, timers, place, k, out, cond>>

\* Any rule that is in the files when the program starts.
RuleInit ==
    /\ active \in BOOLEAN /\ window \in Windows /\ single \in BOOLEAN
    /\ delay \in [Outputs -> Delays] /\ dur \in [Outputs -> Durations]
    /\ quitm \in [Outputs -> Quits]
    /\ execute = 0 /\ left = 0
    /\ state = [b \in Lists |-> 0] /\ finish = [b \in Lists |-> 0]
    /\ delayCnt = [o \in Outputs |-> 0] /\ durCnt = [o \in Outputs |-> 0]
    /\ place = "check" /\ k = 1 /\ out = {}
    /\ cond = FALSE
    /\ age = [b \in Lists |-> 0] /\ fresh = [b \in Lists |-> FALSE]

-----------------------------------------------------------------------------
(* The start of a round. *)

\* Slip: the counters are set to 0.
RestartAtZero(b) ==
    /\ delayCnt' = [o \in Outputs |-> IF o[1] = b THEN 0 ELSE delayCnt[o]]
    /\ durCnt' = [o \in Outputs |-> IF o[1] = b THEN 0 ELSE durCnt[o]]

\* All counters of list b are set to 1.
Restart(b) ==
    /\ delayCnt' = [o \in Outputs |-> IF o[1] = b THEN 1 ELSE delayCnt[o]]
    /\ durCnt' = [o \in Outputs |-> IF o[1] = b THEN 1 ELSE durCnt[o]]

\* Nothing runs in a rule that is not active.
Inactive ==
    /\ place = "check" /\ ~active
    /\ execute' = 0
    /\ state' = [b \in Lists |-> 0]
    /\ UNCHANGED <<rule, left, finish, counters, age, fresh, place, k, out, cond>>

\* rules_execute_check says w.
InForce(w) == IF window > Day THEN 2 ELSE IF w THEN 1 ELSE execute

\* Get_Logic_Val says c.  With one input the value is taken from LogicBuf[1]
\* in a rule that is in force all day, but from LogicBuf[0], which is 0, in
\* one that has a window.
Holds(c, force) == c /\ (force = 2 \/ ~single)

\* A round of the lists that run; those in new start in it.
Older(new) ==
    age' = [b \in Lists |-> IF b \in new THEN 0
                           ELSE IF state[b] > 0 /\ fresh[b] /\ age[b] < Old
                                THEN age[b] + 1 ELSE age[b]]

\* List b is the one the condition calls for: it starts, or, when it runs,
\* starts again.  The start sets the counters only in a rule for all day.
Trigger(b, force) ==
    /\ state' = [state EXCEPT ![b] = 1]
    /\ IF state[b] > 0 \/ force = 2
       THEN Restart(b) /\ fresh' = [fresh EXCEPT ![b] = TRUE]
       ELSE fresh' = [fresh EXCEPT ![b] = FALSE] /\ UNCHANGED counters
    /\ finish' = [finish EXCEPT ![b] = IF state[b] = 0 /\ force = 2 THEN 0 ELSE @]
    /\ Older({b})

Round(c, w) ==
    /\ place = "check" /\ active
    /\ LET force == InForce(w)
           rest == IF window <= Day /\ w THEN window ELSE left
       IN  /\ execute' = IF force = 1 /\ rest = 0 THEN 0 ELSE force
           /\ left' = IF force = 1 /\ rest > 0 THEN rest - 1 ELSE rest
           /\ \/ force > 0 /\ Trigger(IF Holds(c, force) THEN "T" ELSE "F", force)
              \/ force = 0 /\ Older({}) /\ UNCHANGED <<state, finish, counters, fresh>>
    /\ place' = "T" /\ k' = 1
    /\ cond' = c
    /\ UNCHANGED <<rule, out>>

-----------------------------------------------------------------------------
(* The outputs of list b, one after the other. *)

\* The list does not run (any more), or its last output has been looked at.
Leave(b) ==
    /\ place = b /\ (state[b] = 0 \/ k > NumOut[b])
    /\ place' = (IF b = "T" THEN "F" ELSE "send") /\ k' = 1
    /\ UNCHANGED <<rule, execute, left, timers, out, cond>>

\* Of the second list, outputs that roll back (2) are not quit.
Quitting(o) == IF o[1] = "T" THEN quitm[o] > 0 ELSE quitm[o] = 1

\* Slip: the counter is taken to start at 0.
OverEarly(o) == durCnt[o] = dur[o]

Over(o) == durCnt[o] = dur[o] + 1

\* An output is carried out in the round in which its duration begins.
Commands(o) ==
    (IF durCnt[o] = 1 THEN {<<o, "action">>} ELSE {})
    \cup (IF Over(o) /\ Quitting(o) THEN {<<o, "quit">>} ELSE {})

\* When as many outputs have finished as there are, the list ends.
Finish(b, o) ==
    /\ delayCnt' = [delayCnt EXCEPT ![o] = 0]
    /\ durCnt' = [durCnt EXCEPT ![o] = 0]
    /\ LET all == finish[b] + 1 = NumOut[b]
       IN  /\ finish' = [finish EXCEPT ![b] = IF all THEN 0 ELSE @ + 1]
           /\ state' = [state EXCEPT ![b] = IF all THEN 0 ELSE @]

\* The delay of the output is over.
Due(b) ==
    LET o == <<b, k>> IN
    /\ place = b /\ state[b] > 0 /\ k <= NumOut[b] /\ delayCnt[o] = delay[o] + 1
    /\ out' = out \cup Commands(o)
    /\ \/ Over(o) /\ Finish(b, o)
       \/ /\ ~Over(o)
          /\ durCnt' = [durCnt EXCEPT ![o] = (@ + 1) % Width]
          /\ UNCHANGED <<state, finish, delayCnt>>
    /\ k' = k + 1
    /\ UNCHANGED <<rule, execute, left, age, fresh, place, cond>>

\* The delay goes on; an output that is finished, or was not started, stays.
Delay(b) ==
    LET o == <<b, k>> IN
    /\ place = b /\ state[b] > 0 /\ k <= NumOut[b] /\ delayCnt[o] # delay[o] + 1
    /\ delayCnt' = [delayCnt EXCEPT ![o] = IF @ = 0 THEN 0 ELSE (@ + 1) % Width]
    /\ k' = k + 1
    /\ UNCHANGED <<rule, execute, left, state, finish, durCnt, age, fresh, place, out,
                   cond>>

\* ruels_output_active carries out the queue; a second later the next round.
Send ==
    /\ place = "send"
    /\ out' = {} /\ place' = "check"
    /\ UNCHANGED <<rule, execute, left, timers, k, cond>>

Executor ==
    \/ Inactive \/ (\E c, w \in BOOLEAN : Round(c, w)) \/ Send
    \/ \E b \in Lists : Leave(b) \/ Due(b) \/ Delay(b)

-----------------------------------------------------------------------------
(* The API, between rounds. *)

WriteActive ==
    /\ place = "check"
    /\ active' \in BOOLEAN
    /\ UNCHANGED <<window, single, delay, dur, quitm, execute, left, timers, place, k,
                   out, cond>>

WriteDuration ==
    /\ place = "check"
    /\ window' \in Windows
    /\ UNCHANGED <<active, single, delay, dur, quitm, execute, left, timers, place, k,
                   out, cond>>

\* The rule is deleted and another one gets its number: rules_ram_data_add
\* stores the rule, but leaves the counters and ToutFinishNum as they were.
Replace ==
    /\ place = "check"
    /\ active' \in BOOLEAN /\ window' \in Windows /\ single' \in BOOLEAN
    /\ delay' \in [Outputs -> Delays] /\ dur' \in [Outputs -> Durations]
    /\ quitm' \in [Outputs -> Quits]
    /\ execute' = 0 /\ left' = 0
    /\ state' = [b \in Lists |-> 0]
    /\ fresh' = [b \in Lists |-> FALSE]
    /\ UNCHANGED <<finish, counters, age, place, k, out, cond>>

RuleNext == Executor \/ WriteActive \/ WriteDuration \/ Replace

\* The thread of the executor runs.
RuleFairness == WF_ruleVars(Executor)

RuleSpec == RuleInit /\ [][RuleNext]_ruleVars /\ RuleFairness

-----------------------------------------------------------------------------
(* Properties. *)

Counters == 0..(Width - 1)

RuleTypeOK ==
    /\ active \in BOOLEAN /\ window \in Windows /\ single \in BOOLEAN
    /\ delay \in [Outputs -> Delays] /\ dur \in [Outputs -> Durations]
    /\ quitm \in [Outputs -> Quits]
    /\ execute \in 0..2 /\ left \in Nat
    /\ state \in [Lists -> 0..1] /\ finish \in [Lists -> Nat]
    /\ delayCnt \in [Outputs -> Counters] /\ durCnt \in [Outputs -> Counters]
    /\ place \in Lists \cup {"check", "send"} /\ k \in Nat \ {0}
    /\ cond \in BOOLEAN
    /\ age \in [Lists -> Nat] /\ fresh \in [Lists -> BOOLEAN]

\* Neither count of the output wraps around.
Short(o) == delay[o] + 1 < Width /\ dur[o] + 1 < Width

\* Once the counters of a list are set, each of its outputs gets its commands
\* in the round they are due in: the action when the delay is over, the quit
\* when after that the duration is over.
OnTime ==
    \A o \in Outputs : fresh[o[1]] /\ Short(o) =>
        /\ <<o, "action">> \in out => age[o[1]] = delay[o]
        /\ <<o, "quit">> \in out => age[o[1]] = delay[o] + dur[o]

\* In a rule that is in force all day a list does not run for ever: it comes
\* to rest again and again once the condition calls for the other one.
ListEnds ==
    \A b \in Lists :
        [](window > Day) /\ <>[](active /\ cond = (b = "F")) => []<>(state[b] = 0)

\* Counters, states and the queue stay in their ranges, and commands leave on
\* time.
RoundsSound == RuleTypeOK /\ OnTime
=============================================================================
