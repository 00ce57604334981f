--------------------------- MODULE SceneTableProofs ---------------------------
(***************************************************************************)
(* Requests of the API, groups and scenes, for any number of API tasks,    *)
(* executors, devices, groups and scenes and any length of requests: one   *)
(* request is in its handler at a time, and all the rest hangs on that.    *)
(***************************************************************************)
EXTENDS SceneTable, FiniteSetTheorems, WellFoundedInduction, TLAPS

-----------------------------------------------------------------------------
(* The invariant, part by part. *)

Handling ==
    {"name", "join", "record", "leave", "unrecord", "cast", "wipe",
     "state", "action", "store", "forget"}
Places == {"idle", "answer", "send", "error"} \cup Handling

\* The semaphore keeps the requests apart.
GateInv ==
    /\ gate \in {0, 1} /\ users \subseteq Users /\ DOMAIN job = Tasks
    /\ \A t \in Tasks : DOMAIN job[t] = DOMAIN Idle /\ job[t].at \in Places
    /\ \A t \in Clients : job[t].at # "idle" => gate = 0
    /\ \A t, u \in Clients : job[t].at # "idle" /\ job[u].at # "idle" => t = u
    /\ \A e \in Engines : job[e].at \in {"idle", "cast"}

\* The head of an answer and its first parts.
Headed(h, b, n) == <<h>> \o [k \in 1..n |-> b]
Begun(t, n) == Headed(<<t, "head">>, <<t, "body">>, n)

\* What is in the buffer, by the place of the request.
AnswerSound(t) ==
    /\ job[t].at \in Handling => buf = <<<<t, "head">>>>
    /\ At(t, "answer") =>
          /\ job[t].size \in Nat /\ job[t].left \in 1..job[t].size
          /\ buf = Begun(t, job[t].size - job[t].left)
    /\ At(t, "error") => buf = <<<<t, "head">>>> \/ (job[t].cut /\ buf = <<>>)
    /\ At(t, "send") =>
          \/ buf = Begun(t, job[t].size)
          \/ buf = <<<<t, "head">>, <<t, "error">>>>
          \/ job[t].cut /\ buf = <<<<t, "error">>>>

UserSound(t) ==
    /\ job[t].at \in Handling \ {"wipe"} => job[t].user \in Known
    /\ At(t, "wipe") => job[t].op \in {"wipe", "factory"}

\* Between a query and the write that follows it the device has done what the
\* file does not say yet; a group that has no name yet has no devices.
PairSound(t) ==
    /\ job[t].at \in {"name", "join", "record", "leave", "unrecord"} => job[t].id \in Groups
    /\ At(t, "name") => job[t].op = "create" /\ group[job[t].id].has = <<>>
    /\ job[t].at \in {"join", "record"} => job[t].op \in {"set", "create"}
    /\ At(t, "record") => Head(job[t].add) \in Devs /\ job[t].id \in obeys[Head(job[t].add)]
    /\ At(t, "unrecord") => job[t].id \notin obeys[Head(job[t].del)]

\* What is to be carried out.
CastSound(t) ==
    At(t, "cast") => job[t].todo \in Seq(Values) /\ job[t].todo # <<>> /\ job[t].id \in Groups

TodoSound(t) ==
    /\ job[t].at \in {"state", "action"} =>
          job[t].todo \in Seq(Actions) /\ job[t].todo # <<>> /\ job[t].next = 1
    /\ At(t, "store") => job[t].next \in 1..(Len(addrs) + 1)

\* The last command for a device in the queue is what it was asked last; and
\* if there is none, it shows what it was asked.
Kept(d) ==
    IF d \in Waiting(queue)
    THEN \A k \in DOMAIN queue :
            /\ queue[k] \in Actions /\ queue[k].dev = d
            /\ \A m \in DOMAIN queue : queue[m] \in Actions /\ queue[m].dev = d => m <= k
            => queue[k].value = asked[d]
    ELSE state[d] = asked[d]

\* The actions that were carried out: those in the file, and at "action" the
\* one that is about to go there.
Carried(t) ==
    IF At(t, "action") THEN Append(scene[job[t].id].has, Head(job[t].todo))
    ELSE scene[job[t].id].has

PictureSound(t) ==
    job[t].at \in {"state", "action", "store"} =>
        /\ job[t].op = "scene" /\ job[t].id \in Scenes /\ SceneReadable(job[t].id)
        /\ Range(addrs) \subseteq DevsOf(Carried(t))
        /\ \A d \in Devs \ upset : asked[d] # None => d \in Range(addrs) /\ Kept(d)
        /\ At(t, "store") =>
              \A m \in 1..(job[t].next - 1) :
                  addrs[m] \in known \ upset /\ asked[addrs[m]] # None =>
                      holds[addrs[m]][job[t].id] = asked[addrs[m]]

Sound(t) == AnswerSound(t) /\ UserSound(t) /\ PairSound(t) /\ TodoSound(t) /\ PictureSound(t)

BufInv == buf \in Seq(Clients \X {"head", "body", "error"}) /\ Len(buf) <= BufMax

\* The tables, and what is common to devices and files.
TableInv ==
    /\ known \subseteq Devs /\ obeys \in [Devs -> SUBSET Groups] /\ state \in [Devs -> Values]
    /\ DOMAIN group = Groups
    /\ \A g \in Groups :
          /\ DOMAIN group[g] = {"is", "has"} /\ group[g].is \in {"none", "raw", "good"}
          /\ group[g].has \in Seq(Devs) /\ Len(group[g].has) <= MemberMax
          /\ group[g].is # "good" => group[g].has = <<>>
    /\ addrs \in Seq(Devs) /\ Cardinality(Range(addrs)) = Len(addrs)
    /\ queue \in Seq(Actions \cup Casts)
    /\ asked \in [Devs -> Values \cup {None}] /\ upset \subseteq Devs
    /\ holds \in [Devs -> [Scenes -> Values \cup {None}]]
    /\ DOMAIN scene = Scenes
    /\ \A s \in Scenes : scene[s].is \in {"none", "good"} /\ scene[s].has \in Seq(Actions)

Inv ==
    /\ GateInv /\ BufInv /\ TableInv /\ ListedOnce /\ ListsAgree
    /\ \A t \in Clients : Sound(t)
    /\ \A t \in Tasks : CastSound(t)

-----------------------------------------------------------------------------
(* Sequences without repetition. *)

Once(s) == \A i, j \in DOMAIN s : s[i] = s[j] => i = j

LEMMA OnceIsCounted ==
    ASSUME NEW S, NEW s \in Seq(S)
    PROVE  Cardinality(Range(s)) = Len(s) <=> Once(s)
<1>1. s \in Surjection(1..Len(s), Range(s))
  BY DEF Surjection, Range
<1>2. IsFiniteSet(1..Len(s)) /\ Cardinality(1..Len(s)) = Len(s)
  <2>1. Len(s) \in Nat /\ 1 \in Int /\ Len(s) \in Int
    OBVIOUS
  <2>2. IsFiniteSet(1..Len(s))
        /\ Cardinality(1..Len(s)) = IF 1 > Len(s) THEN 0 ELSE Len(s) - 1 + 1
    BY <2>1, FS_Interval, Zenon
  <2> QED BY <2>1, <2>2
<1>3. Cardinality(Range(s)) = Len(s) <=> s \in Injection(1..Len(s), Range(s))
  BY <1>1, <1>2, FS_Surjection
<1>4. s \in Injection(1..Len(s), Range(s)) <=> Once(s)
  BY <1>1 DEF Injection, IsInjective, Surjection, Once
<1> QED BY <1>3, <1>4

LEMMA Appended ==
    ASSUME NEW S, NEW s \in Seq(S), NEW e \in S
    PROVE  /\ Append(s, e) \in Seq(S) /\ Len(Append(s, e)) = Len(s) + 1
           /\ DOMAIN Append(s, e) = DOMAIN s \cup {Len(s) + 1} /\ DOMAIN s = 1..Len(s)
           /\ \A p \in DOMAIN s : Append(s, e)[p] = s[p]
           /\ Append(s, e)[Len(s) + 1] = e
           /\ Range(Append(s, e)) = Range(s) \cup {e}
           /\ Once(s) /\ e \notin Range(s) => Once(Append(s, e))
<1>1. /\ Append(s, e) \in Seq(S) /\ Len(Append(s, e)) = Len(s) + 1
      /\ DOMAIN Append(s, e) = DOMAIN s \cup {Len(s) + 1} /\ DOMAIN s = 1..Len(s)
      /\ \A p \in DOMAIN s : Append(s, e)[p] = s[p]
      /\ Append(s, e)[Len(s) + 1] = e
  OBVIOUS
<1>2. Range(Append(s, e)) = Range(s) \cup {e}
  <2>1. ASSUME NEW p \in DOMAIN Append(s, e)
        PROVE  Append(s, e)[p] \in Range(s) \cup {e}
    BY <1>1, <2>1 DEF Range
  <2>2. ASSUME NEW p \in DOMAIN s PROVE s[p] \in Range(Append(s, e))
    BY <1>1, <2>2 DEF Range
  <2>3. e \in Range(Append(s, e))
    BY <1>1 DEF Range
  <2> QED BY <2>1, <2>2, <2>3 DEF Range
<1>3. Once(s) /\ e \notin Range(s) => Once(Append(s, e))
  BY <1>1 DEF Once, Range
<1> QED BY <1>1, <1>2, <1>3

LEMMA Joined2 ==
    ASSUME NEW S, NEW a \in Seq(S), NEW b \in Seq(S)
    PROVE  a \o b \in Seq(S) /\ Len(a \o b) = Len(a) + Len(b)
OBVIOUS

\* The list without the first d, and so without d if it is there once.
LEMMA RemovedFirst ==
    ASSUME NEW S, NEW s \in Seq(S), NEW d, Once(s)
    PROVE  /\ RemoveFirst(s, d) \in Seq(S) /\ Len(RemoveFirst(s, d)) <= Len(s)
           /\ Once(RemoveFirst(s, d)) /\ Range(RemoveFirst(s, d)) = Range(s) \ {d}
<1>1. CASE ~ \E i \in 1..Len(s) : s[i] = d
  BY <1>1 DEF RemoveFirst, Range
<1>2. CASE \E i \in 1..Len(s) : s[i] = d
  <2>1. PICK i \in 1..Len(s) : s[i] = d
    BY <1>2
  <2>2. {k \in 1..Len(s) : s[k] = d} = {i}
    BY <2>1 DEF Once
  <2>3. SelectInSeq(s, LAMBDA v : v = d) = i
    <3>1. Min({i}) = i
      BY DEF Min
    <3> QED BY <2>2, <3>1 DEF SelectInSeq
  <2> DEFINE a == SubSeq(s, 1, i - 1)
             b == SubSeq(s, i + 1, Len(s))
             r == a \o b
  <2>4. RemoveFirst(s, d) = r
    BY <1>2, <2>3 DEF RemoveFirst, RemoveAt
  <2>8. a \in Seq(S) /\ Len(a) = i - 1 /\ \A k \in 1..(i - 1) : a[k] = s[k]
    OBVIOUS
  <2>9. b \in Seq(S) /\ Len(b) = Len(s) - i /\ \A k \in 1..(Len(s) - i) : b[k] = s[k + i]
    OBVIOUS
  <2>5. /\ r \in Seq(S) /\ Len(r) = Len(s) - 1 /\ DOMAIN r = 1..(Len(s) - 1)
        /\ \A k \in 1..(i - 1) : r[k] = s[k]
        /\ \A k \in i..(Len(s) - 1) : r[k] = s[k + 1]
    <3> HIDE DEF a, b
    <3>1. r \in Seq(S) /\ Len(r) = Len(s) - 1
      <4>1. r \in Seq(S) /\ Len(r) = Len(a) + Len(b)
        BY <2>8, <2>9, Joined2
      <4>2. (i - 1) + (Len(s) - i) = Len(s) - 1
        OBVIOUS
      <4> QED BY <2>8, <2>9, <4>1, <4>2
    <3>2. \A k \in 1..(i - 1) : r[k] = s[k]
      BY <2>8, <2>9
    <3>3. \A k \in i..(Len(s) - 1) : r[k] = b[k - (i - 1)]
      BY <2>8, <2>9
    <3>4. \A k \in i..(Len(s) - 1) : b[k - (i - 1)] = s[k + 1]
      BY <2>8, <2>9
    <3> QED BY <3>1, <3>2, <3>3, <3>4
  <2> HIDE DEF r
  <2> DEFINE from(k) == IF k < i THEN k ELSE k + 1
  <2>10. \A k \in DOMAIN r : from(k) \in DOMAIN s \ {i} /\ r[k] = s[from(k)]
    BY <2>5
  <2>6. Once(r)
    <3> SUFFICES ASSUME NEW k \in DOMAIN r, NEW m \in DOMAIN r, r[k] = r[m]
                 PROVE  k = m
      BY DEF Once
    <3>1. from(k) = from(m)
      BY <2>10 DEF Once
    <3> QED BY <2>5, <3>1
  <2>7. Range(r) = Range(s) \ {d}
    <3>1. ASSUME NEW k \in DOMAIN r PROVE r[k] \in Range(s) \ {d}
      <4>1. from(k) \in DOMAIN s /\ from(k) # i /\ r[k] = s[from(k)]
        BY <2>10
      <4> HIDE DEF from
      <4> QED BY <2>1, <4>1 DEF Range, Once
    <3>2. ASSUME NEW k \in DOMAIN s, s[k] # d PROVE s[k] \in Range(r)
      <4>1. CASE k < i
        <5>1. r[k] = s[k] /\ k \in DOMAIN r
          BY <2>1, <2>5, <4>1
        <5> QED BY <5>1 DEF Range
      <4>2. CASE k > i
        <5>1. r[k - 1] = s[k] /\ k - 1 \in DOMAIN r
          BY <2>1, <2>5, <4>2
        <5> QED BY <5>1 DEF Range
      <4> QED BY <2>1, <3>2, <4>1, <4>2
    <3> QED BY <3>1, <3>2 DEF Range
  <2> QED BY <2>4, <2>5, <2>6, <2>7
<1> QED BY <1>1, <1>2

-----------------------------------------------------------------------------
(* One request at a time. *)

LEMMA Alone ==
    ASSUME GateInv, NEW t \in Clients, job[t].at # "idle" \/ MayEnter
    PROVE  \A u \in Clients : u # t => job[u].at = "idle"
BY DEF GateInv, MayEnter

\* A step of the request that is in, or the entry of one: who else there is
\* waits outside.
LEMMA ClientStep ==
    ASSUME GateInv, NEW t \in Clients, NEW j,
           DOMAIN j = DOMAIN Idle, j.at \in Places \ {"idle"}, Go(t, j), users' \subseteq Users,
           (job[t].at # "idle" /\ gate' = gate) \/ Enter(t)
    PROVE  /\ GateInv' /\ job'[t] = j
           /\ \A u \in Clients : u # t => job[u].at = "idle" /\ job'[u].at = "idle"
           /\ \A e \in Engines : job'[e] = job[e]
<1>1. t \in Tasks /\ t \notin Engines /\ DOMAIN job = Tasks
  BY GateAssumption DEF Tasks, GateInv
<1>2. job' = [job EXCEPT ![t] = j]
  BY DEF Go
<1>3. DOMAIN job' = Tasks /\ job'[t] = j /\ \A u \in Tasks : u # t => job'[u] = job[u]
  BY <1>1, <1>2
<1>4. \A u \in Clients : u # t => job[u].at = "idle" /\ job'[u] = job[u]
  BY <1>3, Alone DEF Enter, Tasks
<1>5. \A e \in Engines : job'[e] = job[e]
  BY <1>1, <1>3 DEF Tasks
<1>6. gate' = 0 /\ gate' \in {0, 1}
  BY DEF GateInv, Enter, MayEnter
<1>7. GateInv'
  BY <1>1, <1>3, <1>4, <1>5, <1>6 DEF GateInv, Tasks
<1> QED BY <1>3, <1>4, <1>5, <1>7

\* Nothing is said of a task outside, and little of one that has done its
\* work and answers.
LEMMA IdleSound ==
    ASSUME NEW t, job[t].at = "idle" PROVE Sound(t) /\ CastSound(t)
BY DEF Sound, AnswerSound, UserSound, PairSound, TodoSound, PictureSound, CastSound, At,
       Handling

LEMMA OutSound ==
    ASSUME NEW t, job[t].at \in {"answer", "send", "error"}, AnswerSound(t)
    PROVE  Sound(t) /\ CastSound(t)
BY DEF Sound, UserSound, PairSound, TodoSound, PictureSound, CastSound, At, Handling

LEMMA Assemble ==
    ASSUME Inv, NEW t \in Clients, GateInv',
           \A u \in Clients : u # t => job'[u].at = "idle",
           \A e \in Engines : job'[e] = job[e],
           BufInv', TableInv', ListedOnce', ListsAgree', Sound(t)', CastSound(t)'
    PROVE  Inv'
<1>1. \A u \in Clients : Sound(u)' /\ CastSound(u)'
  BY IdleSound DEF Sound, AnswerSound, UserSound, PairSound, TodoSound, PictureSound,
                   CastSound, At, Handling
<1>2. \A e \in Engines : CastSound(e)'
  BY DEF Inv, CastSound, At, Tasks
<1> QED BY <1>1, <1>2 DEF Inv, Tasks

\* The lists of groups and the tables of devices, when no request is between
\* a query and its write.
Matched ==
    \A g \in Groups, d \in Devs :
        <<g, d>> \in strays \/ ((d \in Range(group[g].has)) = (g \in obeys[d]))

LEMMA MatchedBefore ==
    ASSUME Inv, NEW t \in Clients, job[t].at # "idle" \/ MayEnter,
           job[t].at \notin {"record", "unrecord"}
    PROVE  Matched
<1>1. \A u \in Clients : job[u].at \notin {"record", "unrecord"}
  BY Alone DEF Inv
<1> QED BY <1>1 DEF Inv, ListsAgree, Between, At, Matched

LEMMA MatchedAgrees == ASSUME Matched PROVE ListsAgree
BY DEF Matched, ListsAgree

LEMMA TablesStay ==
    ASSUME Inv, UNCHANGED <<groupVars, sceneVars>>
    PROVE  TableInv' /\ ListedOnce' /\ (Matched => Matched')
BY DEF Inv, TableInv, ListedOnce, Matched, groupVars, sceneVars

\* The same with a step of a client that leaves the tables alone.
LEMMA QuietStep ==
    ASSUME Inv, NEW t \in Clients, NEW j,
           DOMAIN j = DOMAIN Idle, j.at \in Places \ {"idle"}, Go(t, j), users' \subseteq Users,
           (job[t].at # "idle" /\ gate' = gate) \/ Enter(t),
           job[t].at \notin {"record", "unrecord"},
           UNCHANGED <<groupVars, sceneVars>>, BufInv',
           job'[t] = j => Sound(t)' /\ CastSound(t)'
    PROVE  Inv'
<1>1. GateInv /\ (job[t].at # "idle" \/ MayEnter)
  BY DEF Inv, Enter
<1>2. /\ GateInv' /\ job'[t] = j
      /\ \A u \in Clients : u # t => job'[u].at = "idle"
      /\ \A e \in Engines : job'[e] = job[e]
  BY <1>1, ClientStep
<1>3. Matched
  BY <1>1, MatchedBefore
<1>4. TableInv' /\ ListedOnce' /\ Matched'
  BY <1>3, TablesStay
<1>5. ListsAgree'
  BY <1>4, MatchedAgrees DEF Matched, ListsAgree
<1> QED BY <1>2, <1>4, <1>5, Assemble

-----------------------------------------------------------------------------
(* Answers. *)

LEMMA Repeated ==
    ASSUME NEW S, NEW h \in S, NEW b \in S, NEW m \in Nat
    PROVE  /\ Headed(h, b, m) \in Seq(S) /\ Len(Headed(h, b, m)) = m + 1
           /\ Headed(h, b, m)[1] = h
           /\ \A k \in 2..(m + 1) : Headed(h, b, m)[k] = b
<1>1. /\ [k \in 1..m |-> b] \in Seq(S) /\ Len([k \in 1..m |-> b]) = m
      /\ \A k \in 1..m : [i \in 1..m |-> b][k] = b
  OBVIOUS
<1>2. <<h>> \in Seq(S) /\ Len(<<h>>) = 1 /\ <<h>>[1] = h
  OBVIOUS
<1> DEFINE B == [k \in 1..m |-> b]
           H == <<h>>
<1> HIDE DEF B, H
<1>3. /\ H \o B \in Seq(S) /\ Len(H \o B) = Len(H) + Len(B)
      /\ \A k \in 1..(Len(H) + Len(B)) :
            (H \o B)[k] = IF k <= Len(H) THEN H[k] ELSE B[k - Len(H)]
  <2>1. H \in Seq(S) /\ B \in Seq(S)
    BY <1>1, <1>2 DEF H, B
  <2> QED BY <2>1
<1>4. /\ H \o B \in Seq(S) /\ Len(H \o B) = m + 1 /\ (H \o B)[1] = h
      /\ \A k \in 2..(m + 1) : (H \o B)[k] = B[k - 1]
  <2>1. Len(H) = 1 /\ H[1] = h /\ Len(B) = m
    BY <1>1, <1>2 DEF H, B
  <2> QED BY <1>3, <2>1
<1>5. \A k \in 2..(m + 1) : B[k - 1] = b
  BY DEF B
<1>6. \A k \in 2..(m + 1) : (H \o B)[k] = b
  BY <1>4, <1>5
<1>7. Headed(h, b, m) = H \o B
  BY DEF Headed, H, B
<1> QED BY <1>4, <1>6, <1>7

LEMMA BegunGrows ==
    ASSUME NEW t \in Clients, NEW n \in Nat
    PROVE  /\ Begun(t, 0) = <<<<t, "head">>>>
           /\ Begun(t, n) \in Seq(Clients \X {"head", "body", "error"})
           /\ Len(Begun(t, n)) = n + 1
           /\ Append(Begun(t, n), <<t, "body">>) = Begun(t, n + 1)
<1> DEFINE h == <<t, "head">>
           b == <<t, "body">>
           P == Clients \X {"head", "body", "error"}
<1>1. h \in P /\ b \in P
  OBVIOUS
<1>2. \A m \in Nat : Begun(t, m) = Headed(h, b, m)
  BY DEF Begun
<1> HIDE DEF h, b, P
<1>3. ASSUME NEW m \in Nat
      PROVE  /\ Begun(t, m) \in Seq(P) /\ Len(Begun(t, m)) = m + 1
             /\ Begun(t, m)[1] = h /\ \A k \in 2..(m + 1) : Begun(t, m)[k] = b
  <2>1. /\ Headed(h, b, m) \in Seq(P) /\ Len(Headed(h, b, m)) = m + 1
        /\ Headed(h, b, m)[1] = h
        /\ \A k \in 2..(m + 1) : Headed(h, b, m)[k] = b
    BY <1>1, Repeated
  <2> QED BY <1>2, <2>1
<1>4. Begun(t, 0) = <<h>>
  <2>1. /\ Begun(t, 0) \in Seq(P) /\ Len(Begun(t, 0)) = 1 /\ Begun(t, 0)[1] = h
    <3>1. Begun(t, 0) \in Seq(P) /\ Len(Begun(t, 0)) = 0 + 1 /\ Begun(t, 0)[1] = h
      <4>1. 0 \in Nat
        OBVIOUS
      <4> QED BY <1>3, <4>1, Zenon
    <3> QED BY <3>1
  <2> QED BY <2>1
<1>5. Append(Begun(t, n), b) = Begun(t, n + 1)
  <2> DEFINE x == Append(Begun(t, n), b)
             y == Begun(t, n + 1)
  <2>1. x \in Seq(P) /\ Len(x) = n + 2 /\ x[n + 2] = b
        /\ \A k \in 1..(n + 1) : x[k] = Begun(t, n)[k]
    <3>1. Begun(t, n) \in Seq(P) /\ Len(Begun(t, n)) = n + 1
      BY <1>3
    <3> QED BY <1>1, <3>1, Appended
  <2>2. y \in Seq(P) /\ Len(y) = n + 2 /\ y[1] = h /\ \A k \in 2..(n + 2) : y[k] = b
    <3> DEFINE m == n + 1
    <3>1. m \in Nat /\ m + 1 = n + 2
      OBVIOUS
    <3> HIDE DEF m
    <3>2. /\ Begun(t, m) \in Seq(P) /\ Len(Begun(t, m)) = m + 1
          /\ Begun(t, m)[1] = h /\ \A k \in 2..(m + 1) : Begun(t, m)[k] = b
      BY <1>3, <3>1, Zenon
    <3> QED BY <3>1, <3>2 DEF m
  <2> HIDE DEF x, y
  <2>3. ASSUME NEW k \in 1..(n + 2) PROVE x[k] = y[k]
    <3>1. Begun(t, n)[1] = h /\ \A i \in 2..(n + 1) : Begun(t, n)[i] = b
      BY <1>3
    <3>2. CASE k = n + 2
      BY <2>1, <2>2, <3>2
    <3>3. CASE k = 1
      BY <2>1, <2>2, <3>1, <3>3
    <3>4. CASE k \in 2..(n + 1)
      BY <2>1, <2>2, <3>1, <3>4
    <3> QED BY <3>2, <3>3, <3>4
  <2>4. x = y
    BY <2>1, <2>2, <2>3
  <2> QED BY <2>4 DEF x, y
<1> QED BY <1>3, <1>4, <1>5 DEF P, h, b

-----------------------------------------------------------------------------
(* The steps of a client, by what they are: it comes in, goes on, or has    *)
(* done what it was asked and answers.                                      *)

Others(t) ==
    /\ GateInv'
    /\ \A u \in Clients : u # t => job[u].at = "idle" /\ job'[u].at = "idle"

\* What of the request is to be shown when it has come in or gone on.
Agreeable(t) == ListsAgree' /\ PairSound(t)' /\ TodoSound(t)' /\ PictureSound(t)' /\ CastSound(t)'

LEMMA Entry ==
    ASSUME Inv, NEW t \in Clients, NEW h, NEW j, Handle(t, h, j),
           DOMAIN j = DOMAIN Idle, j.at \in Handling \cup {"answer"},
           j.at = "wipe" => j.op \in {"wipe", "factory"},
           j.at = "answer" => j.size \in Nat \ {0} /\ j.left = j.size,
           TableInv', ListedOnce',
           \A u \in Known : Others(t) /\ job'[t] = [j EXCEPT !.user = u] => Agreeable(t)
    PROVE  Inv'
<1>1. PICK u \in Known : Go(t, [j EXCEPT !.user = u])
  BY DEF Handle
<1> DEFINE k == [j EXCEPT !.user = u]
<1>2. /\ DOMAIN k = DOMAIN Idle /\ k.at = j.at /\ k.op = j.op /\ k.size = j.size
      /\ k.left = j.left /\ k.user = u
  BY DEF Idle
<1> HIDE DEF k
<1>3. k.at \in Places \ {"idle"} /\ Go(t, k) /\ users' = users /\ users' \subseteq Users /\ Enter(t)
  BY <1>1, <1>2 DEF k, Handle, Inv, GateInv, Places, Handling
<1>4. /\ GateInv' /\ job'[t] = k
      /\ \A v \in Clients : v # t => job[v].at = "idle" /\ job'[v].at = "idle"
      /\ \A e \in Engines : job'[e] = job[e]
  BY <1>2, <1>3, ClientStep DEF Inv
<1>5. Agreeable(t)
  BY <1>4 DEF k, Others
<1>6. buf' = Begun(t, 0) /\ buf' = <<<<t, "head">>>> /\ BufInv'
  <2>1. /\ Begun(t, 0) = <<<<t, "head">>>>
        /\ Begun(t, 0) \in Seq(Clients \X {"head", "body", "error"}) /\ Len(Begun(t, 0)) = 1
    BY BegunGrows
  <2> QED BY <1>3, <2>1, GateAssumption DEF Enter, BufInv
<1>7. AnswerSound(t)'
  <2>1. CASE j.at \in Handling
    BY <1>2, <1>4, <1>6, <2>1 DEF AnswerSound, At, Handling
  <2>2. CASE j.at = "answer"
    <3>1. job'[t].at = "answer" /\ job'[t].size \in Nat \ {0} /\ job'[t].left = job'[t].size
      BY <1>2, <1>4, <2>2
    <3>2. job'[t].left \in 1..job'[t].size /\ job'[t].size - job'[t].left = 0
      BY <3>1
    <3>3. buf' = Begun(t, job'[t].size - job'[t].left)
      BY <1>6, <3>2
    <3> QED BY <3>1, <3>2, <3>3 DEF AnswerSound, At, Handling, Begun
  <2> QED BY <2>1, <2>2
<1>8. UserSound(t)'
  BY <1>1, <1>2, <1>3, <1>4 DEF UserSound, Known, At, Handling
<1>9. Sound(t)' /\ CastSound(t)' /\ ListsAgree'
  BY <1>5, <1>7, <1>8 DEF Sound, Agreeable
<1> QED BY <1>4, <1>6, <1>9, Assemble

LEMMA Working ==
    ASSUME Inv, NEW t \in Clients, NEW j, job[t].at \in Handling \ {"wipe"}, Go(t, j), Within,
           DOMAIN j = DOMAIN Idle, j.at \in Handling \ {"wipe"}, j.user = job[t].user,
           TableInv', ListedOnce',
           Others(t) /\ job'[t] = j => Agreeable(t)
    PROVE  Inv'
<1>1. /\ j.at \in Places \ {"idle"} /\ users' \subseteq Users /\ job[t].at # "idle"
      /\ gate' = gate /\ buf' = buf /\ users' = users
  BY DEF Within, Inv, GateInv, Places, Handling
<1>2. /\ GateInv' /\ job'[t] = j
      /\ \A v \in Clients : v # t => job[v].at = "idle" /\ job'[v].at = "idle"
      /\ \A e \in Engines : job'[e] = job[e]
  BY <1>1, ClientStep DEF Inv
<1>3. Agreeable(t)
  BY <1>2 DEF Others
<1>4. BufInv' /\ AnswerSound(t)' /\ UserSound(t)'
  BY <1>1, <1>2 DEF Inv, BufInv, Sound, AnswerSound, UserSound, Known, At, Handling
<1>5. Sound(t)' /\ CastSound(t)' /\ ListsAgree'
  BY <1>3, <1>4 DEF Sound, Agreeable
<1> QED BY <1>2, <1>4, <1>5, Assemble

\* The answer to a request that was carried out, and the error of one that
\* was not.
LEMMA Finished ==
    ASSUME Inv, NEW t \in Clients, job[t].at \in Handling, Finish(t),
           gate' = gate, buf' = buf, users' \subseteq Users,
           TableInv', ListedOnce', Others(t) => ListsAgree'
    PROVE  Inv'
<1> DEFINE j == Answer(1)
<1>1. /\ DOMAIN j = DOMAIN Idle /\ j.at = "answer" /\ j.size = 1 /\ j.left = 1
  BY DEF Answer, Idle
<1>2. Go(t, j)
  BY DEF Finish
<1> HIDE DEF j
<1>3. j.at \in Places \ {"idle"} /\ job[t].at # "idle"
  BY <1>1 DEF Places, Handling
<1>4. /\ GateInv' /\ job'[t] = j
      /\ \A v \in Clients : v # t => job[v].at = "idle" /\ job'[v].at = "idle"
      /\ \A e \in Engines : job'[e] = job[e]
  BY <1>1, <1>2, <1>3, ClientStep DEF Inv
<1>5. buf' = Begun(t, 0) /\ BufInv'
  BY BegunGrows DEF Inv, Sound, AnswerSound, BufInv
<1>6. AnswerSound(t)'
  <2>1. job'[t].at = "answer" /\ job'[t].size = 1 /\ job'[t].left = 1 /\ 1 - 1 = 0
    BY <1>1, <1>4
  <2> QED BY <1>5, <2>1 DEF AnswerSound, At, Handling, Begun
<1>7. Sound(t)' /\ CastSound(t)'
  BY <1>1, <1>4, <1>6 DEF Sound, UserSound, PairSound, TodoSound, PictureSound, CastSound, At,
                          Handling
<1> QED BY <1>4, <1>5, <1>7, Assemble DEF Others


-----------------------------------------------------------------------------
(* The steps of the gate.  They leave the tables alone.                     *)

\* A step of the answer: the tables and the place in them stay.
LEMMA AnsweringStep ==
    ASSUME Inv, NEW t \in Clients, NEW j, job[t].at \in {"answer", "send", "error"},
           DOMAIN j = DOMAIN Idle, j.at \in {"answer", "send", "error"}, Go(t, j),
           gate' = gate, users' = users, UNCHANGED <<groupVars, sceneVars>>, BufInv',
           job'[t] = j => AnswerSound(t)'
    PROVE  Inv'
<1>1. job[t].at # "idle" /\ job[t].at \notin {"record", "unrecord"} /\ j.at \in Places \ {"idle"}
  BY DEF Places, Handling
<1>2. job'[t] = j => Sound(t)' /\ CastSound(t)'
  BY DEF Sound, UserSound, PairSound, TodoSound, PictureSound, CastSound, At, Handling
<1>3. users' \subseteq Users
  BY DEF Inv, GateInv
<1> QED BY <1>1, <1>2, <1>3, QuietStep

LEMMA WritePartStep ==
    ASSUME Inv, NEW t \in Clients, WritePart(t), UNCHANGED <<groupVars, sceneVars>>
    PROVE  Inv'
<1> DEFINE n == job[t].left - 1
<1>1. /\ job[t].size \in Nat /\ job[t].left \in 1..job[t].size /\ DOMAIN job[t] = DOMAIN Idle
      /\ buf = Begun(t, job[t].size - job[t].left) /\ job[t].at = "answer"
  BY DEF WritePart, Inv, GateInv, Sound, AnswerSound, At, Tasks
<1>2. CASE Len(buf) < BufMax
  <2> DEFINE j == [job[t] EXCEPT !.left = n, !.at = IF n = 0 THEN "send" ELSE @]
             m == job[t].size - job[t].left
  <2>1. /\ DOMAIN j = DOMAIN Idle /\ j.left = n /\ j.size = job[t].size
        /\ j.at = IF n = 0 THEN "send" ELSE "answer"
    BY <1>1 DEF Idle
  <2>2. Go(t, j) /\ buf' = Append(buf, <<t, "body">>) /\ gate' = gate /\ users' = users
    BY <1>2 DEF WritePart
  <2>3. m \in Nat /\ m + 1 = job[t].size - n /\ n \in 0..job[t].size /\ m + 1 \in Nat
    BY <1>1
  <2> HIDE DEF j, n, m
  <2>4. buf' = Begun(t, m + 1) /\ buf' \in Seq(Clients \X {"head", "body", "error"})
        /\ Len(buf') = m + 1 + 1 /\ Len(buf) = m + 1
    BY <1>1, <2>2, <2>3, BegunGrows DEF m
  <2>5. BufInv'
    BY <1>2, <2>3, <2>4, GateAssumption DEF BufInv
  <2>6. ASSUME job'[t] = j PROVE AnswerSound(t)'
    <3>1. CASE n = 0
      <4>1. job'[t].at = "send" /\ job'[t].size = job[t].size /\ m + 1 = job[t].size
        BY <1>1, <2>1, <2>3, <2>6, <3>1
      <4>2. buf' = Begun(t, job'[t].size)
        <5>1. job'[t].size = m + 1
          BY <4>1
        <5> QED BY <2>4, <5>1, Zenon
      <4> QED BY <4>1, <4>2 DEF AnswerSound, At, Handling, Begun
    <3>2. CASE n # 0
      <4>1. /\ job'[t].at = "answer" /\ job'[t].size = job[t].size /\ job'[t].left = n
            /\ job'[t].left \in 1..job'[t].size /\ m + 1 = job'[t].size - job'[t].left
        BY <1>1, <2>1, <2>3, <2>6, <3>2
      <4>2. buf' = Begun(t, job'[t].size - job'[t].left)
        <5>1. job'[t].size - job'[t].left = m + 1
          BY <4>1
        <5> QED BY <2>4, <5>1, Zenon
      <4> QED BY <1>1, <4>1, <4>2 DEF AnswerSound, At, Handling, Begun
    <3> QED BY <3>1, <3>2
  <2>7. j.at \in {"answer", "send", "error"}
    BY <2>1
  <2> QED BY <1>1, <2>1, <2>2, <2>5, <2>6, <2>7, AnsweringStep
<1>3. CASE ~(Len(buf) < BufMax)
  <2> DEFINE j == [Idle EXCEPT !.at = "error", !.cut = TRUE]
  <2>1. DOMAIN j = DOMAIN Idle /\ j.at = "error" /\ j.cut = TRUE
    BY DEF Idle
  <2>2. Go(t, j) /\ buf' = <<>> /\ gate' = gate /\ users' = users
    BY <1>3 DEF WritePart, Overflown
  <2> HIDE DEF j
  <2>3. BufInv'
    BY <2>2, GateAssumption DEF BufInv
  <2>4. job'[t] = j => AnswerSound(t)'
    BY <2>1, <2>2 DEF AnswerSound, At, Handling
  <2> QED BY <1>1, <2>1, <2>2, <2>3, <2>4, AnsweringStep
<1> QED BY <1>2, <1>3

LEMMA WriteErrorStep ==
    ASSUME Inv, NEW t \in Clients, WriteError(t), UNCHANGED <<groupVars, sceneVars>>
    PROVE  Inv'
<1> DEFINE j == [job[t] EXCEPT !.at = "send", !.op = "error"]
<1>1. /\ DOMAIN job[t] = DOMAIN Idle /\ job[t].at = "error"
      /\ buf = <<<<t, "head">>>> \/ (job[t].cut /\ buf = <<>>)
  BY DEF WriteError, Inv, GateInv, Sound, AnswerSound, At, Tasks
<1>2. DOMAIN j = DOMAIN Idle /\ j.at = "send" /\ j.cut = job[t].cut
  BY <1>1 DEF Idle
<1>3. Go(t, j) /\ buf' = Append(buf, <<t, "error">>) /\ gate' = gate /\ users' = users
  BY DEF WriteError
<1> HIDE DEF j
<1> DEFINE P == Clients \X {"head", "body", "error"}
           h == <<t, "head">>
           e == <<t, "error">>
<1>7. h \in P /\ e \in P
  OBVIOUS
<1>8. /\ buf = <<h>> \/ (job[t].cut /\ buf = <<>>)
      /\ buf' = Append(buf, e)
  BY <1>1, <1>3
<1> HIDE DEF P, h, e
<1>9. Append(<<h>>, e) = <<h, e>> /\ Append(<<>>, e) = <<e>>
  <2>1. <<h>> \in Seq(P) /\ <<h, e>> \in Seq(P) /\ <<e>> \in Seq(P) /\ <<>> \in Seq(P)
    BY <1>7
  <2>2. /\ Append(<<h>>, e) \in Seq(P) /\ Len(Append(<<h>>, e)) = 2
        /\ Append(<<h>>, e)[1] = h /\ Append(<<h>>, e)[2] = e
    BY <1>7, <2>1
  <2>3. /\ Append(<<>>, e) \in Seq(P) /\ Len(Append(<<>>, e)) = 1
        /\ Append(<<>>, e)[1] = e
    BY <1>7, <2>1
  <2> DEFINE x == Append(<<h>>, e)
             y == <<h, e>>
  <2>6. Len(y) = 2 /\ y[1] = h /\ y[2] = e
    OBVIOUS
  <2>4. x = y
    <3>1. x \in Seq(P) /\ y \in Seq(P) /\ Len(x) = 2 /\ Len(y) = 2
          /\ x[1] = y[1] /\ x[2] = y[2]
      BY <2>1, <2>2, <2>6
    <3> HIDE DEF x, y
    <3>2. \A k \in 1..2 : x[k] = y[k]
      BY <3>1
    <3> QED BY <3>1, <3>2
  <2>5. Append(<<>>, e) = <<e>>
    BY <2>1, <2>3
  <2> QED BY <2>4, <2>5
<1>10. buf' = <<h, e>> \/ (job[t].cut /\ buf' = <<e>>)
  BY <1>8, <1>9
<1>4. \/ buf' = <<<<t, "head">>, <<t, "error">>>>
      \/ job[t].cut /\ buf' = <<<<t, "error">>>>
  BY <1>10 DEF h, e
<1>11. /\ <<h, e>> \in Seq(P) /\ Len(<<h, e>>) = 2
       /\ <<e>> \in Seq(P) /\ Len(<<e>>) = 1
  BY <1>7
<1>12. buf' \in Seq(P) /\ Len(buf') \in {1, 2}
  BY <1>10, <1>11
<1>5. BufInv'
  <2>1. BufMax \in Nat /\ BufMax >= 2
    BY GateAssumption
  <2>2. Len(buf') <= BufMax
    <3>1. Len(buf') = 1 \/ Len(buf') = 2
      BY <1>12
    <3>2. 1 <= BufMax /\ 2 <= BufMax
      BY <2>1
    <3> QED BY <3>1, <3>2, Zenon
  <2> QED BY <1>12, <2>2, Zenon DEF BufInv, P
<1>6. job'[t] = j => AnswerSound(t)'
  BY <1>2, <1>4 DEF AnswerSound, At, Handling
<1> QED BY <1>1, <1>2, <1>3, <1>5, <1>6, AnsweringStep

LEMMA SendStep ==
    ASSUME Inv, NEW t \in Clients, Send(t), UNCHANGED <<groupVars, sceneVars>>
    PROVE  Inv'
<1>1. job[t].at = "send" /\ job[t].at # "idle" /\ buf' = <<>> /\ users' = users
  BY DEF Send, At
<1>2. BufInv'
  BY <1>1, GateAssumption DEF BufInv
<1>3. CASE Go(t, [Idle EXCEPT !.at = "error", !.cut = TRUE]) /\ gate' = gate
  <2> DEFINE j == [Idle EXCEPT !.at = "error", !.cut = TRUE]
  <2>1. DOMAIN j = DOMAIN Idle /\ j.at = "error" /\ j.cut = TRUE
    BY DEF Idle
  <2>2. Go(t, j)
    BY <1>3
  <2> HIDE DEF j
  <2>3. job'[t] = j => AnswerSound(t)'
    BY <1>1, <2>1 DEF AnswerSound, At, Handling
  <2> QED BY <1>1, <1>2, <1>3, <2>1, <2>2, <2>3, AnsweringStep
<1>4. CASE Go(t, Idle) /\ gate' = gate + 1
  <2>1. /\ \A u \in Clients : u # t => job[u].at = "idle"
        /\ DOMAIN job = Tasks /\ gate = 0 /\ t \in Tasks /\ t \notin Engines
    BY <1>1, Alone, GateAssumption DEF Inv, GateInv, Tasks
  <2>2. job' = [job EXCEPT ![t] = Idle] /\ Idle.at = "idle"
    BY <1>4 DEF Go, Idle
  <2>3. /\ DOMAIN job' = Tasks /\ job'[t] = Idle
        /\ \A u \in Tasks : u # t => job'[u] = job[u]
    BY <2>1, <2>2
  <2>4. /\ \A u \in Clients : job'[u].at = "idle"
        /\ \A e \in Engines : job'[e] = job[e]
    BY <2>1, <2>2, <2>3 DEF Tasks
  <2>5. GateInv'
    <3>1. gate' \in {0, 1} /\ users' \subseteq Users
      BY <1>1, <1>4, <2>1 DEF Inv, GateInv
    <3>2. \A u \in Tasks : DOMAIN job'[u] = DOMAIN Idle /\ job'[u].at \in Places
      BY <2>2, <2>3 DEF Inv, GateInv, Places
    <3> QED BY <2>3, <2>4, <3>1, <3>2 DEF Inv, GateInv
  <2>6. Matched
    BY <1>1, MatchedBefore
  <2>7. TableInv' /\ ListedOnce' /\ Matched'
    BY <2>6, TablesStay
  <2>8. ListsAgree'
    BY <2>7, MatchedAgrees DEF Matched, ListsAgree
  <2>9. Sound(t)' /\ CastSound(t)'
    <3>1. job'[t].at = "idle"
      BY <2>4
    <3> QED BY <3>1 DEF Sound, AnswerSound, UserSound, PairSound, TodoSound, PictureSound,
                        CastSound, At, Handling
  <2> QED BY <1>2, <2>4, <2>5, <2>7, <2>8, <2>9, Assemble
<1> QED BY <1>3, <1>4 DEF Send


\* A request that has nothing left to do but to answer.
LEMMA AnsweredEntry ==
    ASSUME Inv, NEW t \in Clients, NEW h, NEW n \in Nat \ {0}, Handle(t, h, Answer(n)),
           TableInv', ListedOnce', ListsAgree'
    PROVE  Inv'
<1> DEFINE j == Answer(n)
<1>1. DOMAIN j = DOMAIN Idle /\ j.at = "answer" /\ j.size = n /\ j.left = n
  BY DEF Answer, Idle
<1> HIDE DEF j
<1>2. ASSUME NEW u \in Known, job'[t] = [j EXCEPT !.user = u]
      PROVE  Agreeable(t)
  <2>1. job'[t].at = "answer"
    BY <1>1, <1>2 DEF Idle
  <2> QED BY <2>1 DEF Agreeable, PairSound, TodoSound, PictureSound, CastSound, At
<1>3. Handle(t, h, j)
  BY DEF j
<1> QED BY <1>1, <1>2, <1>3, Entry DEF Handling

LEMMA MatchedStays ==
    ASSUME Inv, NEW t \in Clients, MayEnter, UNCHANGED <<groupVars, sceneVars>>
    PROVE  TableInv' /\ ListedOnce' /\ Matched' /\ ListsAgree'
<1>1. job[t].at \notin {"record", "unrecord"}
  BY DEF Inv, GateInv, MayEnter
<1>2. Matched
  BY <1>1, MatchedBefore
<1>3. TableInv' /\ ListedOnce' /\ Matched'
  BY <1>2, TablesStay
<1> QED BY <1>3, MatchedAgrees DEF Matched, ListsAgree

LEMMA RefusedStep ==
    ASSUME Inv, NEW t \in Clients, Refused(t), UNCHANGED <<groupVars, sceneVars>>
    PROVE  Inv'
<1> DEFINE j == [Idle EXCEPT !.at = "error"]
<1>1. DOMAIN j = DOMAIN Idle /\ j.at = "error"
  BY DEF Idle
<1>2. Go(t, j) /\ Enter(t) /\ users' = users /\ job[t].at = "idle" /\ buf' = <<<<t, "head">>>>
  BY DEF Refused, Enter, Idle
<1> HIDE DEF j
<1>3. buf' = Begun(t, 0) /\ BufInv'
  BY <1>2, BegunGrows, GateAssumption DEF BufInv
<1>4. job'[t] = j => Sound(t)' /\ CastSound(t)'
  BY <1>1, <1>2 DEF Sound, AnswerSound, UserSound, PairSound, TodoSound, PictureSound,
                    CastSound, At, Handling
<1>5. users' \subseteq Users /\ j.at \in Places \ {"idle"}
  BY <1>1, <1>2 DEF Inv, GateInv, Places, Handling
<1> QED BY <1>1, <1>2, <1>3, <1>4, <1>5, QuietStep

LEMMA CreateUserStep ==
    ASSUME Inv, NEW t \in Clients, CreateUser(t), UNCHANGED <<groupVars, sceneVars>>
    PROVE  Inv'
<1> DEFINE j == Answer(1)
<1>1. DOMAIN j = DOMAIN Idle /\ j.at = "answer" /\ j.size = 1 /\ j.left = 1
  BY DEF Answer, Idle
<1>2. Go(t, j) /\ Enter(t) /\ job[t].at = "idle" /\ buf' = <<<<t, "head">>>>
  BY DEF CreateUser, Enter, Idle
<1> HIDE DEF j
<1>3. buf' = Begun(t, 0) /\ BufInv'
  BY <1>2, BegunGrows, GateAssumption DEF BufInv
<1>4. ASSUME job'[t] = j PROVE Sound(t)' /\ CastSound(t)'
  <2>1. job'[t].at = "answer" /\ job'[t].size = 1 /\ job'[t].left = 1 /\ 1 - 1 = 0
    BY <1>1, <1>4
  <2>2. AnswerSound(t)'
    BY <1>3, <2>1 DEF AnswerSound, At, Handling, Begun
  <2> QED BY <2>1, <2>2 DEF Sound, UserSound, PairSound, TodoSound, PictureSound, CastSound, At,
                            Handling
<1>5. users' \subseteq Users /\ j.at \in Places \ {"idle"}
  BY <1>1 DEF Inv, GateInv, Places, CreateUser
<1> QED BY <1>1, <1>2, <1>3, <1>4, <1>5, QuietStep

LEMMA GateSteps ==
    ASSUME Inv, NEW t \in Tasks, GateStep(t)
    PROVE  Inv'
<1>1. UNCHANGED <<groupVars, sceneVars>>
  BY DEF GateStep
<1>2. ASSUME NEW h, NEW n \in Nat \ {0}, Only(t, h, n) PROVE Inv'
  <2>1. Handle(t, h, Answer(n)) /\ t \in Clients /\ MayEnter
    BY <1>2 DEF Only, Handle, Enter
  <2>2. TableInv' /\ ListedOnce' /\ ListsAgree'
    BY <1>1, <2>1, MatchedStays
  <2> QED BY <2>1, <2>2, AnsweredEntry
<1>3. 1 \in Nat \ {0} /\ \A n \in 2..PartsMax : n \in Nat \ {0}
  BY GateAssumption
<1>4. CASE FullState(t) \/ AllDevs(t) \/ GetOne(t) \/ Elsewhere(t)
  BY <1>2, <1>3, <1>4 DEF FullState, AllDevs, GetOne, Elsewhere
<1>5. CASE Refused(t)
  BY <1>1, <1>5, RefusedStep DEF Refused, Enter
<1>6. CASE CreateUser(t)
  BY <1>1, <1>6, CreateUserStep DEF CreateUser, Enter
<1>7. CASE Answering(t)
  <2>1. t \in Clients
    <3>1. t \notin Engines
      BY <1>7 DEF Answering, WritePart, WriteError, Send, At, Inv, GateInv
    <3> QED BY <3>1 DEF Tasks
  <2> QED BY <1>1, <1>7, <2>1, WritePartStep, WriteErrorStep, SendStep DEF Answering
<1> QED BY <1>4, <1>5, <1>6, <1>7 DEF GateStep


-----------------------------------------------------------------------------
(* One device joins or leaves a group. *)

\* While a request is between a query and its write, only that pair may differ.
MatchedBut(i, c) ==
    \A g \in Groups, d \in Devs :
        \/ g = i /\ d = c
        \/ <<g, d>> \in strays
        \/ (d \in Range(group[g].has)) = (g \in obeys[d])

LEMMA MatchedButOne ==
    ASSUME Inv, NEW t \in Clients
    PROVE  /\ job[t].at = "record" => MatchedBut(job[t].id, Head(job[t].add))
           /\ job[t].at = "unrecord" => MatchedBut(job[t].id, Head(job[t].del))
<1> SUFFICES ASSUME job[t].at \in {"record", "unrecord"} PROVE
           /\ job[t].at = "record" => MatchedBut(job[t].id, Head(job[t].add))
           /\ job[t].at = "unrecord" => MatchedBut(job[t].id, Head(job[t].del))
  OBVIOUS
<1>1. \A u \in Clients : u # t => job[u].at = "idle"
  BY Alone DEF Inv
<1>2. ASSUME NEW g \in Groups, NEW d \in Devs,
             NEW u \in Between("record", g, d) \cup Between("unrecord", g, d)
      PROVE  /\ g = job[t].id
             /\ job[t].at = "record" => d = Head(job[t].add)
             /\ job[t].at = "unrecord" => d = Head(job[t].del)
  <2>1. u = t
    BY <1>1 DEF Between, At
  <2> QED BY <2>1 DEF Between, At
<1> QED BY <1>2 DEF Inv, ListsAgree, MatchedBut

LEMMA NextDevice ==
    ASSUME Inv, NEW t \in Clients,
           job[t].at \in {"join", "record", "leave", "unrecord"},
           NEW j, Go(t, j), Within, TableInv', ListedOnce', ListsAgree',
           \/ j = AddNext(t) \/ \E won : j = [AddNext(t) EXCEPT !.won = won]
           \/ j = DelNext(t) \/ j = [job[t] EXCEPT !.at = "leave"],
           j.at = "join" => job[t].at \in {"join", "record"}
    PROVE  Inv'
<1>1. /\ DOMAIN job[t] = DOMAIN Idle /\ job[t].id \in Groups
      /\ job[t].at \in {"join", "record"} => job[t].op \in {"set", "create"}
  BY DEF Inv, GateInv, Sound, PairSound, Tasks
<1>2. /\ DOMAIN j = DOMAIN Idle /\ j.at \in {"join", "leave"} /\ j.id = job[t].id
      /\ j.op = job[t].op /\ j.user = job[t].user
  BY <1>1 DEF AddNext, DelNext, Idle
<1>3. job'[t] = j => Agreeable(t)
  BY <1>1, <1>2 DEF Agreeable, PairSound, TodoSound, PictureSound, CastSound, At
<1> QED BY <1>2, <1>3, Working DEF Handling

LEMMA RefusedDevice ==
    ASSUME Inv, NEW t \in Clients, JoinRefused(t) \/ LeaveRefused(t)
    PROVE  Inv'
<1>1. /\ job[t].at \in {"join", "leave"} /\ Within /\ UNCHANGED <<groupVars, sceneVars>>
      /\ \/ job[t].at = "join" /\ Go(t, AddNext(t))
         \/ job[t].at = "leave" /\ Go(t, DelNext(t))
  BY DEF JoinRefused, LeaveRefused, At
<1>2. Matched
  BY <1>1, MatchedBefore
<1>3. TableInv' /\ ListedOnce' /\ ListsAgree'
  <2>1. TableInv' /\ ListedOnce' /\ Matched'
    BY <1>1, <1>2, TablesStay
  <2> QED BY <2>1 DEF Matched, ListsAgree
<1>4. DelNext(t).at = "leave"
  BY DEF DelNext, Inv, GateInv, Idle, Tasks
<1> QED BY <1>1, <1>3, <1>4, NextDevice

\* A query about the pair of g and d, and what of it came to pass.
LEMMA Asked ==
    ASSUME TableInv, ListedOnce, Matched, UNCHANGED <<known, state, group, sceneVars>>,
           NEW g \in Groups, NEW d \in Devs, NEW r,
           \/ obeys' = IF Acts(r) THEN [obeys EXCEPT ![d] = @ \cup {g}] ELSE obeys
           \/ obeys' = IF Acts(r) THEN [obeys EXCEPT ![d] = @ \ {g}] ELSE obeys,
           strays' = IF r = "lost" THEN strays \cup {<<g, d>>} ELSE strays
    PROVE  /\ TableInv' /\ ListedOnce'
           /\ r \in {"lost", "deaf"} => ListsAgree'
           /\ \A x \in Groups, y \in Devs :
                 \/ x = g /\ y = d
                 \/ <<x, y>> \in strays'
                 \/ (y \in Range(group'[x].has)) = (x \in obeys'[y])
<1>1. TableInv'
  <2>1. obeys' \in [Devs -> SUBSET Groups]
    <3>1. obeys \in [Devs -> SUBSET Groups]
      BY DEF TableInv
    <3> QED BY <3>1
  <2>2. UNCHANGED <<known, state, group, addrs, queue, scene, holds, asked, upset>>
    BY DEF sceneVars
  <2> QED BY <2>1, <2>2 DEF TableInv
<1>2. ListedOnce'
  BY DEF ListedOnce
<1>3. \A x \in Groups, y \in Devs :
         \/ x = g /\ y = d
         \/ <<x, y>> \in strays'
         \/ (y \in Range(group'[x].has)) = (x \in obeys'[y])
  <2> SUFFICES ASSUME NEW x \in Groups, NEW y \in Devs, ~(x = g /\ y = d),
                      <<x, y>> \notin strays'
               PROVE  (y \in Range(group'[x].has)) = (x \in obeys'[y])
    OBVIOUS
  <2>1. <<x, y>> \notin strays
    OBVIOUS
  <2>2. (x \in obeys'[y]) = (x \in obeys[y])
    BY DEF TableInv
  <2> QED BY <2>1, <2>2 DEF Matched
<1>4. ASSUME r \in {"lost", "deaf"} PROVE ListsAgree'
  <2>1. CASE r = "lost"
    BY <1>3, <2>1 DEF ListsAgree
  <2>2. CASE r = "deaf"
    BY <2>2 DEF ListsAgree, Matched, Acts
  <2> QED BY <1>4, <2>1, <2>2
<1> QED BY <1>1, <1>2, <1>3, <1>4

LEMMA JoinStep ==
    ASSUME Inv, NEW t \in Clients, Join(t)
    PROVE  Inv'
<1>0. PICK g, d : g = job[t].id /\ d = Head(job[t].add)
  OBVIOUS
<1>1. /\ job[t].at = "join" /\ d \in known /\ Within
      /\ UNCHANGED <<known, state, group, sceneVars>>
  BY <1>0 DEF Join, At
<1>2. PICK r \in Outcomes :
         /\ obeys' = IF Acts(r) THEN [obeys EXCEPT ![d] = @ \cup {g}] ELSE obeys
         /\ strays' = IF r = "lost" THEN strays \cup {<<g, d>>} ELSE strays
         /\ Go(t, IF r = "done" THEN [job[t] EXCEPT !.at = "record"] ELSE AddNext(t))
  BY <1>0 DEF Join
<1>3. /\ g \in Groups /\ d \in Devs /\ DOMAIN job[t] = DOMAIN Idle /\ job[t].op \in {"set", "create"}
      /\ TableInv /\ ListedOnce /\ r \in {"done", "lost", "deaf"}
  BY <1>0, <1>1 DEF Inv, GateInv, TableInv, Sound, PairSound, Tasks, Outcomes
<1>4. Matched
  BY <1>1, MatchedBefore
<1>5. /\ TableInv' /\ ListedOnce'
      /\ r \in {"lost", "deaf"} => ListsAgree'
      /\ \A x \in Groups, y \in Devs :
            \/ x = g /\ y = d
            \/ <<x, y>> \in strays'
            \/ (y \in Range(group'[x].has)) = (x \in obeys'[y])
  BY <1>1, <1>2, <1>3, <1>4, Asked
<1>6. CASE r = "done"
  <2> DEFINE j == [job[t] EXCEPT !.at = "record"]
  <2>1. /\ DOMAIN j = DOMAIN Idle /\ j.at = "record" /\ j.id = g /\ j.op = job[t].op
        /\ j.user = job[t].user /\ Head(j.add) = d
    BY <1>0, <1>3 DEF Idle
  <2>2. Go(t, j)
    BY <1>2, <1>6
  <2> HIDE DEF j
  <2>3. ASSUME job'[t] = j PROVE Agreeable(t)
    <3>1. ListsAgree'
      <4>1. t \in Between("record", g, d)'
        BY <2>1, <2>3 DEF Between, At
      <4> QED BY <1>5, <4>1 DEF ListsAgree
    <3>2. g \in obeys'[d]
      BY <1>2, <1>3, <1>6 DEF Acts, TableInv
    <3> QED BY <1>3, <2>1, <2>3, <3>1, <3>2
            DEF Agreeable, PairSound, TodoSound, PictureSound, CastSound, At
  <2> QED BY <1>1, <1>5, <2>1, <2>2, <2>3, Working DEF Handling
<1>7. CASE r # "done"
  <2>1. Go(t, AddNext(t)) /\ ListsAgree'
    BY <1>2, <1>3, <1>5, <1>7
  <2> QED BY <1>1, <1>5, <2>1, NextDevice
<1> QED BY <1>6, <1>7

LEMMA LeaveStep ==
    ASSUME Inv, NEW t \in Clients, Leave(t)
    PROVE  Inv'
<1>0. PICK g, d : g = job[t].id /\ d = Head(job[t].del)
  OBVIOUS
<1>1. /\ job[t].at = "leave" /\ d \in known /\ Within
      /\ UNCHANGED <<known, state, group, sceneVars>>
  BY <1>0 DEF Leave, At
<1>2. PICK r \in Outcomes :
         /\ obeys' = IF Acts(r) THEN [obeys EXCEPT ![d] = @ \ {g}] ELSE obeys
         /\ strays' = IF r = "lost" THEN strays \cup {<<g, d>>} ELSE strays
         /\ Go(t, IF r = "done" THEN [job[t] EXCEPT !.at = "unrecord"] ELSE DelNext(t))
  BY <1>0 DEF Leave, AfterLeave
<1>3. /\ g \in Groups /\ d \in Devs /\ DOMAIN job[t] = DOMAIN Idle
      /\ TableInv /\ ListedOnce /\ r \in {"done", "lost", "deaf"}
  BY <1>0, <1>1 DEF Inv, GateInv, TableInv, Sound, PairSound, Tasks, Outcomes
<1>4. Matched
  BY <1>1, MatchedBefore
<1>5. /\ TableInv' /\ ListedOnce'
      /\ r \in {"lost", "deaf"} => ListsAgree'
      /\ \A x \in Groups, y \in Devs :
            \/ x = g /\ y = d
            \/ <<x, y>> \in strays'
            \/ (y \in Range(group'[x].has)) = (x \in obeys'[y])
  BY <1>1, <1>2, <1>3, <1>4, Asked
<1>6. CASE r = "done"
  <2> DEFINE j == [job[t] EXCEPT !.at = "unrecord"]
  <2>1. /\ DOMAIN j = DOMAIN Idle /\ j.at = "unrecord" /\ j.id = g
        /\ j.user = job[t].user /\ Head(j.del) = d
    BY <1>0, <1>3 DEF Idle
  <2>2. Go(t, j)
    BY <1>2, <1>6
  <2> HIDE DEF j
  <2>3. ASSUME job'[t] = j PROVE Agreeable(t)
    <3>1. ListsAgree'
      <4>1. t \in Between("unrecord", g, d)'
        BY <2>1, <2>3 DEF Between, At
      <4> QED BY <1>5, <4>1 DEF ListsAgree
    <3>2. g \notin obeys'[d]
      BY <1>2, <1>3, <1>6 DEF Acts, TableInv
    <3> QED BY <1>3, <2>1, <2>3, <3>1, <3>2
            DEF Agreeable, PairSound, TodoSound, PictureSound, CastSound, At
  <2> QED BY <1>1, <1>5, <2>1, <2>2, <2>3, Working DEF Handling
<1>7. CASE r # "done"
  <2>1. Go(t, DelNext(t)) /\ ListsAgree' /\ DelNext(t).at = "leave"
    BY <1>2, <1>3, <1>5, <1>7 DEF DelNext, Idle
  <2> QED BY <1>1, <1>5, <2>1, NextDevice
<1> QED BY <1>6, <1>7


\* The file of g gets another list.
LEMMA Relisted ==
    ASSUME TableInv, ListedOnce, UNCHANGED <<known, obeys, state, sceneVars>>,
           NEW g \in Groups, NEW list \in Seq(Devs), Once(list), Len(list) <= MemberMax,
           group' = [group EXCEPT ![g] = File(list)]
    PROVE  /\ TableInv' /\ ListedOnce' /\ group'[g].has = list
           /\ \A x \in Groups : x # g => group'[x] = group[x]
<1>1. /\ DOMAIN group' = Groups /\ group'[g] = [is |-> "good", has |-> list]
      /\ \A x \in Groups : x # g => group'[x] = group[x]
  BY DEF TableInv, File
<1>2. ListedOnce'
  <2>1. Cardinality(Range(list)) = Len(list)
    BY OnceIsCounted
  <2> QED BY <1>1, <2>1 DEF ListedOnce
<1>3. TableInv'
  <2>1. \A x \in Groups :
          /\ DOMAIN group'[x] = {"is", "has"} /\ group'[x].is \in {"none", "raw", "good"}
          /\ group'[x].has \in Seq(Devs) /\ Len(group'[x].has) <= MemberMax
          /\ group'[x].is # "good" => group'[x].has = <<>>
    <3> TAKE x \in Groups
    <3>1. CASE x = g
      BY <1>1, <3>1
    <3>2. CASE x # g
      BY <1>1, <3>2 DEF TableInv
    <3> QED BY <3>1, <3>2
  <2> QED BY <1>1, <2>1 DEF TableInv, sceneVars
<1> QED BY <1>1, <1>2, <1>3

LEMMA RecordStep ==
    ASSUME Inv, NEW t \in Clients, Record(t)
    PROVE  Inv'
<1>0. PICK g, d : g = job[t].id /\ d = Head(job[t].add)
  OBVIOUS
<1>1. /\ job[t].at = "record" /\ Within /\ UNCHANGED <<known, obeys, state, sceneVars>>
      /\ DOMAIN job[t] = DOMAIN Idle /\ g \in Groups /\ d \in Devs /\ g \in obeys[d]
      /\ TableInv /\ ListedOnce
  BY <1>0 DEF Record, At, Inv, GateInv, Sound, PairSound, Tasks
<1>2. PICK ok \in BOOLEAN :
         /\ ok => MayList(g, d)
         /\ group' = IF ok THEN [group EXCEPT ![g] = File(Listed(g, d))] ELSE group
         /\ strays' = IF ok \/ (Readable(g) /\ d \in Range(group[g].has)) THEN strays
                      ELSE strays \cup {<<g, d>>}
         /\ Go(t, [AddNext(t) EXCEPT !.won = @ \/ ok])
  <2>1. PICK w \in Writes :
          LET ok == Readable(g) /\ MayList(g, d) /\ w = "done" IN
          /\ group' = IF ok THEN [group EXCEPT ![g] = File(Listed(g, d))] ELSE group
          /\ strays' = IF ok \/ (Readable(g) /\ d \in Range(group[g].has)) THEN strays
                       ELSE strays \cup {<<g, d>>}
          /\ Go(t, [AddNext(t) EXCEPT !.won = @ \/ ok])
    BY <1>0 DEF Record
  <2> DEFINE ok == Readable(g) /\ MayList(g, d) /\ w = "done"
  <2>2. ok \in BOOLEAN /\ (ok => MayList(g, d))
    OBVIOUS
  <2> QED BY <2>1, <2>2, Zenon
<1>3. MatchedBut(g, d)
  BY <1>0, <1>1, MatchedButOne
<1>4. TableInv' /\ ListedOnce' /\ ListsAgree'
  <2>1. CASE ok
    <3> DEFINE s == group[g].has
    <3>1. s \in Seq(Devs) /\ Once(s) /\ Len(s) < MemberMax /\ d \notin Range(s)
      BY <1>1, <1>2, <2>1, OnceIsCounted DEF TableInv, ListedOnce, MayList
    <3> HIDE DEF s
    <3>2. /\ Append(s, d) \in Seq(Devs) /\ Once(Append(s, d)) /\ Len(Append(s, d)) = Len(s) + 1
          /\ Range(Append(s, d)) = Range(s) \cup {d}
      BY <1>1, <3>1, Appended
    <3>3. Len(Append(s, d)) <= MemberMax
      BY <3>1, <3>2, GroupAssumption
    <3>4. group' = [group EXCEPT ![g] = File(Append(s, d))] /\ strays' = strays
      BY <1>2, <2>1 DEF Listed, s
    <3>5. /\ TableInv' /\ ListedOnce' /\ Range(group'[g].has) = Range(s) \cup {d}
          /\ \A x \in Groups : x # g => group'[x] = group[x]
      BY <1>1, <3>2, <3>3, <3>4, Relisted
    <3>6. ASSUME NEW x \in Groups, NEW y \in Devs, <<x, y>> \notin strays'
          PROVE  (y \in Range(group'[x].has)) = (x \in obeys'[y])
      <4>1. obeys' = obeys /\ <<x, y>> \notin strays
        BY <1>1, <3>4, <3>6
      <4>2. CASE x # g
        BY <1>3, <3>5, <4>1, <4>2 DEF MatchedBut
      <4>3. CASE x = g /\ y # d
        BY <1>3, <3>5, <4>1, <4>3 DEF MatchedBut, s
      <4>4. CASE x = g /\ y = d
        BY <1>1, <3>5, <4>1, <4>4
      <4> QED BY <4>2, <4>3, <4>4
    <3> QED BY <3>5, <3>6 DEF ListsAgree
  <2>2. CASE ~ok
    <3>1. group' = group
      BY <1>2, <2>2
    <3>2. TableInv' /\ ListedOnce'
      BY <1>1, <3>1 DEF TableInv, ListedOnce, sceneVars
    <3>3. ListsAgree'
      <4>1. ASSUME NEW x \in Groups, NEW y \in Devs, <<x, y>> \notin strays'
            PROVE  (y \in Range(group'[x].has)) = (x \in obeys'[y])
        BY <1>1, <1>2, <1>3, <2>2, <3>1, <4>1 DEF MatchedBut
      <4> QED BY <4>1 DEF ListsAgree
    <3> QED BY <3>2, <3>3
  <2> QED BY <1>2, <2>1, <2>2
<1>5. PICK won : Go(t, [AddNext(t) EXCEPT !.won = won])
  BY <1>2, Zenon
<1> DEFINE j == [AddNext(t) EXCEPT !.won = won]
<1>6. Go(t, j) /\ \E x : j = [AddNext(t) EXCEPT !.won = x]
  BY <1>5
<1> HIDE DEF j
<1> QED BY <1>1, <1>4, <1>6, NextDevice

LEMMA UnrecordStep ==
    ASSUME Inv, NEW t \in Clients, Unrecord(t)
    PROVE  Inv'
<1>0. PICK g, d : g = job[t].id /\ d = Head(job[t].del)
  OBVIOUS
<1>1. /\ job[t].at = "unrecord" /\ Within /\ UNCHANGED <<known, obeys, state, sceneVars>>
      /\ DOMAIN job[t] = DOMAIN Idle /\ g \in Groups /\ g \notin obeys[d]
      /\ TableInv /\ ListedOnce
  BY <1>0 DEF Unrecord, At, Inv, GateInv, Sound, PairSound, Tasks
<1>2. PICK ok \in BOOLEAN :
         /\ group' = IF ok THEN [group EXCEPT ![g] = File(Unlisted(g, d))] ELSE group
         /\ strays' = IF ok THEN strays ELSE strays \cup {<<g, d>>}
         /\ Go(t, DelNext(t))
  <2>1. PICK w \in Writes :
          LET ok == Readable(g) /\ w = "done" IN
          /\ group' = IF ok THEN [group EXCEPT ![g] = File(Unlisted(g, d))] ELSE group
          /\ strays' = IF ok THEN strays ELSE strays \cup {<<g, d>>}
          /\ Go(t, DelNext(t))
    BY <1>0 DEF Unrecord
  <2> DEFINE ok == Readable(g) /\ w = "done"
  <2>2. ok \in BOOLEAN
    OBVIOUS
  <2> QED BY <2>1, <2>2, Zenon
<1>3. MatchedBut(g, d)
  BY <1>0, <1>1, MatchedButOne
<1>4. TableInv' /\ ListedOnce' /\ ListsAgree'
  <2>1. CASE ok
    <3> DEFINE s == group[g].has
    <3>1. s \in Seq(Devs) /\ Once(s) /\ Len(s) <= MemberMax
      BY <1>1, OnceIsCounted DEF TableInv, ListedOnce
    <3> HIDE DEF s
    <3>2. /\ RemoveFirst(s, d) \in Seq(Devs) /\ Once(RemoveFirst(s, d))
          /\ Len(RemoveFirst(s, d)) <= Len(s) /\ Range(RemoveFirst(s, d)) = Range(s) \ {d}
      BY <3>1, RemovedFirst
    <3>3. Len(RemoveFirst(s, d)) <= MemberMax
      BY <3>1, <3>2, GroupAssumption
    <3>4. group' = [group EXCEPT ![g] = File(RemoveFirst(s, d))] /\ strays' = strays
      BY <1>2, <2>1 DEF Unlisted, s
    <3>5. /\ TableInv' /\ ListedOnce' /\ Range(group'[g].has) = Range(s) \ {d}
          /\ \A x \in Groups : x # g => group'[x] = group[x]
      BY <1>1, <3>2, <3>3, <3>4, Relisted
    <3>6. ASSUME NEW x \in Groups, NEW y \in Devs, <<x, y>> \notin strays'
          PROVE  (y \in Range(group'[x].has)) = (x \in obeys'[y])
      <4>1. obeys' = obeys /\ <<x, y>> \notin strays
        BY <1>1, <3>4, <3>6
      <4>2. CASE x # g
        BY <1>3, <3>5, <4>1, <4>2 DEF MatchedBut
      <4>3. CASE x = g /\ y # d
        BY <1>3, <3>5, <4>1, <4>3 DEF MatchedBut, s
      <4>4. CASE x = g /\ y = d
        BY <1>1, <3>5, <4>1, <4>4
      <4> QED BY <4>2, <4>3, <4>4
    <3> QED BY <3>5, <3>6 DEF ListsAgree
  <2>2. CASE ~ok
    <3>1. group' = group
      BY <1>2, <2>2
    <3>2. TableInv' /\ ListedOnce'
      BY <1>1, <3>1 DEF TableInv, ListedOnce, sceneVars
    <3>3. ListsAgree'
      <4>1. ASSUME NEW x \in Groups, NEW y \in Devs, <<x, y>> \notin strays'
            PROVE  (y \in Range(group'[x].has)) = (x \in obeys'[y])
        BY <1>1, <1>2, <1>3, <2>2, <3>1, <4>1 DEF MatchedBut
      <4> QED BY <4>1 DEF ListsAgree
    <3> QED BY <3>2, <3>3
  <2> QED BY <1>2, <2>1, <2>2
<1>5. DelNext(t).at = "leave"
  BY <1>1 DEF DelNext, Idle
<1> QED BY <1>1, <1>2, <1>4, <1>5, NextDevice


-----------------------------------------------------------------------------
(* Requests about groups. *)

LEMMA LeastBy ==
    ASSUME NEW S, S \subseteq Nat, S # {}, NEW R, IsWellFoundedOn(R, Nat),
           \A x, y \in Nat : <<y, x>> \in R <=> y < x
    PROVE  \E x \in S : \A y \in S : x <= y
<1>1. PICK x \in S : \A y \in S : <<y, x>> \notin R
  BY WFMin
<1>2. ASSUME NEW y \in S PROVE x <= y
  <2>1. ~(y < x) /\ x \in Nat /\ y \in Nat
    BY <1>1, <1>2
  <2> QED BY <2>1
<1> QED BY <1>2

\* The first id that is free.
LEMMA Least ==
    ASSUME NEW S, S \subseteq Nat, S # {}
    PROVE  (CHOOSE x \in S : \A y \in S : x <= y) \in S
<1>1. IsWellFoundedOn(OpToRel(<, Nat), Nat)
  BY NatLessThanWellFounded
<1>2. \A x, y \in Nat : <<y, x>> \in OpToRel(<, Nat) <=> y < x
  BY DEF OpToRel
<1>3. \E x \in S : \A y \in S : x <= y
  BY <1>1, <1>2, LeastBy, Zenon
<1> QED BY <1>3, Zenon

\* Files change, and no list in them does.
LEMMA SameLists ==
    ASSUME TableInv, ListedOnce, Matched, UNCHANGED <<known, obeys, state, strays, sceneVars>>,
           NEW g \in Groups, NEW f, f \in {Raw, File(<<>>)}, group[g].has = <<>>,
           group' = [group EXCEPT ![g] = f]
    PROVE  TableInv' /\ ListedOnce' /\ Matched'
<1>1. /\ DOMAIN group' = Groups /\ \A x \in Groups : group'[x].has = group[x].has
      /\ \A x \in Groups : group'[x] = IF x = g THEN f ELSE group[x]
  BY DEF TableInv, File, Raw
<1>2. TableInv'
  <2>1. \A x \in Groups :
          /\ DOMAIN group'[x] = {"is", "has"} /\ group'[x].is \in {"none", "raw", "good"}
          /\ group'[x].has \in Seq(Devs) /\ Len(group'[x].has) <= MemberMax
          /\ group'[x].is # "good" => group'[x].has = <<>>
    <3> TAKE x \in Groups
    <3>1. CASE x = g
      BY <1>1, <3>1 DEF TableInv, Raw, File
    <3>2. CASE x # g
      BY <1>1, <3>2 DEF TableInv
    <3> QED BY <3>1, <3>2
  <2> QED BY <1>1, <2>1 DEF TableInv, sceneVars
<1>3. ListedOnce' /\ Matched'
  BY <1>1 DEF ListedOnce, Matched
<1> QED BY <1>2, <1>3

LEMMA EntersMatched ==
    ASSUME Inv, NEW t \in Clients, NEW h, NEW j, Handle(t, h, j)
    PROVE  Matched /\ TableInv /\ ListedOnce /\ job[t].at = "idle"
<1>1. MayEnter /\ job[t].at = "idle"
  BY DEF Handle, Enter, Idle
<1> QED BY <1>1, MatchedBefore DEF Inv

LEMMA CreateGroupStep ==
    ASSUME Inv, NEW t \in Clients, CreateGroup(t)
    PROVE  Inv'
<1>0. PICK g : g = CHOOSE x \in FreeGroups : \A h \in FreeGroups : x <= h
  OBVIOUS
<1>1. PICK list \in Lists(Devs, ListMax) :
         /\ g = CHOOSE x \in FreeGroups : \A h \in FreeGroups : x <= h
         /\ group' = [group EXCEPT ![g] = Raw]
         /\ Handle(t, "create_group",
                   [Idle EXCEPT !.at = "name", !.op = "create", !.id = g, !.add = list])
  BY <1>0 DEF CreateGroup
<1>2. g \in FreeGroups
  <2>1. FreeGroups \subseteq Nat /\ FreeGroups # {}
    BY GroupAssumption DEF FreeGroups, CreateGroup
  <2> QED BY <1>1, <2>1, Least
<1>3. g \in Groups /\ group[g].has = <<>>
  BY <1>2 DEF FreeGroups, Inv, TableInv
<1> DEFINE j == [Idle EXCEPT !.at = "name", !.op = "create", !.id = g, !.add = list]
<1>4. /\ DOMAIN j = DOMAIN Idle /\ j.at = "name" /\ j.op = "create" /\ j.id = g
      /\ Handle(t, "create_group", j)
  BY <1>1 DEF Idle
<1> HIDE DEF j
<1>5. TableInv' /\ ListedOnce' /\ Matched'
  <2>1. Matched /\ TableInv /\ ListedOnce
    BY <1>4, EntersMatched
  <2>2. UNCHANGED <<known, obeys, state, strays, sceneVars>>
    BY DEF CreateGroup
  <2> QED BY <1>1, <1>3, <2>1, <2>2, SameLists
<1>6. group'[g].has = <<>>
  BY <1>1, <1>3 DEF Inv, TableInv, Raw
<1>7. ASSUME NEW u \in Known, job'[t] = [j EXCEPT !.user = u] PROVE Agreeable(t)
  <2>1. job'[t].at = "name" /\ job'[t].op = "create" /\ job'[t].id = g
    BY <1>4, <1>7 DEF Idle
  <2>2. ListsAgree'
    BY <1>5 DEF Matched, ListsAgree
  <2> QED BY <1>3, <1>6, <2>1, <2>2
          DEF Agreeable, PairSound, TodoSound, PictureSound, CastSound, At
<1> QED BY <1>4, <1>5, <1>7, Entry DEF Handling

LEMMA NameGroupStep ==
    ASSUME Inv, NEW t \in Clients, NameGroup(t)
    PROVE  Inv'
<1>1. /\ job[t].at = "name" /\ Within /\ UNCHANGED <<known, obeys, state, strays, sceneVars>>
      /\ DOMAIN job[t] = DOMAIN Idle /\ job[t].id \in Groups /\ job[t].op = "create"
      /\ group[job[t].id].has = <<>> /\ TableInv /\ ListedOnce
  BY DEF NameGroup, At, Inv, GateInv, Sound, PairSound, Tasks
<1>2. Matched
  BY <1>1, MatchedBefore
<1>3. CASE group' = [group EXCEPT ![job[t].id] = File(<<>>)] /\ Go(t, [job[t] EXCEPT !.at = "join"])
  <2>1. TableInv' /\ ListedOnce' /\ Matched'
    BY <1>1, <1>2, <1>3, SameLists
  <2> DEFINE j == [job[t] EXCEPT !.at = "join"]
  <2>2. /\ DOMAIN j = DOMAIN Idle /\ j.at = "join" /\ j.op = "create" /\ j.id = job[t].id
        /\ j.user = job[t].user /\ Go(t, j)
    BY <1>1, <1>3 DEF Idle
  <2> HIDE DEF j
  <2>3. ListsAgree'
    BY <2>1 DEF Matched, ListsAgree
  <2>4. job'[t] = j => Agreeable(t)
    BY <1>1, <2>2, <2>3 DEF Agreeable, PairSound, TodoSound, PictureSound, CastSound, At
  <2> QED BY <1>1, <2>1, <2>2, <2>4, Working DEF Handling
<1>4. CASE group' = group /\ Finish(t)
  <2>1. UNCHANGED <<groupVars, sceneVars>>
    BY <1>1, <1>4 DEF groupVars
  <2>2. TableInv' /\ ListedOnce' /\ Matched'
    BY <1>2, <2>1, TablesStay
  <2>3. ListsAgree' /\ users' \subseteq Users /\ gate' = gate /\ buf' = buf
    BY <1>1, <2>2 DEF Matched, ListsAgree, Within, Inv, GateInv
  <2> QED BY <1>1, <1>4, <2>2, <2>3, Finished DEF Handling
<1> QED BY <1>3, <1>4 DEF NameGroup

\* The tables stay, and the request comes to an end or goes on to the next
\* place.
LEMMA QuietFinish ==
    ASSUME Inv, NEW t \in Clients, job[t].at \in Handling \ {"record", "unrecord"}, Finish(t),
           Within, UNCHANGED <<groupVars, sceneVars>>
    PROVE  Inv'
<1>1. Matched
  BY MatchedBefore DEF Handling
<1>2. TableInv' /\ ListedOnce' /\ Matched'
  BY <1>1, TablesStay
<1>3. ListsAgree' /\ users' \subseteq Users /\ gate' = gate /\ buf' = buf
  BY <1>2 DEF Matched, ListsAgree, Within, Inv, GateInv
<1> QED BY <1>2, <1>3, Finished

LEMMA JoinedStep ==
    ASSUME Inv, NEW t \in Clients, Joined(t)
    PROVE  Inv'
<1>1. /\ job[t].at = "join" /\ Within /\ UNCHANGED <<groupVars, sceneVars>>
      /\ DOMAIN job[t] = DOMAIN Idle /\ job[t].id \in Groups /\ job[t].op \in {"set", "create"}
  BY DEF Joined, At, Inv, GateInv, Sound, PairSound, Tasks
<1>2. Matched
  BY <1>1, MatchedBefore
<1>3. TableInv' /\ ListedOnce' /\ Matched'
  BY <1>1, <1>2, TablesStay
<1>4. ListsAgree'
  BY <1>3 DEF Matched, ListsAgree
<1>5. CASE job[t].op = "set"
  <2>1. Go(t, [job[t] EXCEPT !.at = "leave"])
    BY <1>5 DEF Joined
  <2>2. [job[t] EXCEPT !.at = "leave"].at = "leave"
    BY <1>1 DEF Idle
  <2> QED BY <1>1, <1>3, <1>4, <2>1, <2>2, NextDevice
<1>6. CASE job[t].op = "create" /\ job[t].won
  <2>1. Finish(t)
    BY <1>6 DEF Joined
  <2> QED BY <1>1, <2>1, QuietFinish DEF Handling
<1>7. CASE job[t].op = "create" /\ ~job[t].won
  <2> DEFINE j == [job[t] EXCEPT !.at = "leave", !.op = "delete", !.del = group[job[t].id].has]
  <2>1. Go(t, j)
    BY <1>7 DEF Joined
  <2>2. /\ DOMAIN j = DOMAIN Idle /\ j.at = "leave" /\ j.id = job[t].id
        /\ j.user = job[t].user
    BY <1>1 DEF Idle
  <2> HIDE DEF j
  <2>3. job'[t] = j => Agreeable(t)
    BY <1>1, <1>4, <2>2 DEF Agreeable, PairSound, TodoSound, PictureSound, CastSound, At
  <2> QED BY <1>1, <1>3, <2>1, <2>2, <2>3, Working DEF Handling
<1> QED BY <1>1, <1>5, <1>6, <1>7


\* A request comes in and the tables stay.
LEMMA QuietEntry ==
    ASSUME Inv, NEW t \in Clients, NEW h, NEW j, Handle(t, h, j),
           DOMAIN j = DOMAIN Idle, j.at \in {"join", "leave", "wipe", "forget", "cast"},
           j.at = "wipe" => j.op \in {"wipe", "factory"},
           j.at \in {"join", "leave"} => j.id \in Groups,
           j.at = "join" => j.op = "set",
           j.at = "cast" => j.todo \in Seq(Values) /\ j.todo # <<>> /\ j.id \in Groups,
           UNCHANGED <<groupVars, sceneVars>>
    PROVE  Inv'
<1>1. TableInv' /\ ListedOnce' /\ ListsAgree'
  <2>1. MayEnter
    BY DEF Handle, Enter
  <2> QED BY <2>1, MatchedStays
<1>2. ASSUME NEW u \in Known, job'[t] = [j EXCEPT !.user = u] PROVE Agreeable(t)
  <2>1. /\ job'[t].at = j.at /\ job'[t].id = j.id /\ job'[t].op = j.op /\ job'[t].todo = j.todo
    BY <1>2 DEF Idle
  <2> QED BY <1>1, <2>1 DEF Agreeable, PairSound, TodoSound, PictureSound, CastSound, At
<1> QED BY <1>1, <1>2, Entry DEF Handling

LEMMA SetGroupStep ==
    ASSUME Inv, NEW t \in Clients, NEW g \in Groups, SetGroup(t, g)
    PROVE  Inv'
<1>1. PICK list \in Lists(Devs, ListMax) :
         Handle(t, "set_group",
                [Idle EXCEPT !.at = "join", !.op = "set", !.id = g,
                   !.add = SelectSeq(list, LAMBDA d : d \notin Range(group[g].has)),
                   !.del = SelectSeq(group[g].has, LAMBDA d : d \notin Range(list))])
  BY DEF SetGroup
<1>2. PICK add, del :
         Handle(t, "set_group",
                [Idle EXCEPT !.at = "join", !.op = "set", !.id = g, !.add = add, !.del = del])
  BY <1>1, Zenon
<1> DEFINE j == [Idle EXCEPT !.at = "join", !.op = "set", !.id = g, !.add = add, !.del = del]
<1>3. /\ DOMAIN j = DOMAIN Idle /\ j.at = "join" /\ j.op = "set" /\ j.id = g
      /\ Handle(t, "set_group", j)
  BY <1>2 DEF Idle
<1> HIDE DEF j
<1>4. UNCHANGED <<groupVars, sceneVars>>
  BY DEF SetGroup
<1> QED BY <1>3, <1>4, QuietEntry

LEMMA DeleteGroupStep ==
    ASSUME Inv, NEW t \in Clients, NEW g \in Groups, DeleteGroup(t, g)
    PROVE  Inv'
<1> DEFINE j == [Idle EXCEPT !.at = "leave", !.op = "delete", !.id = g, !.del = group[g].has]
<1>1. /\ DOMAIN j = DOMAIN Idle /\ j.at = "leave" /\ j.id = g
      /\ Handle(t, "del_group", j) /\ UNCHANGED <<groupVars, sceneVars>>
  BY DEF DeleteGroup, Idle
<1> HIDE DEF j
<1> QED BY <1>1, QuietEntry

LEMMA DeleteAllStep ==
    ASSUME Inv, NEW t \in Clients, DeleteAll(t)
    PROVE  Inv'
<1>1. PICK h \in {"wipe", "factory"} : Handle(t, h, [Idle EXCEPT !.at = "wipe", !.op = h])
  BY DEF DeleteAll
<1> DEFINE j == [Idle EXCEPT !.at = "wipe", !.op = h]
<1>2. /\ DOMAIN j = DOMAIN Idle /\ j.at = "wipe" /\ j.op = h
      /\ Handle(t, h, j) /\ UNCHANGED <<groupVars, sceneVars>>
  BY <1>1 DEF DeleteAll, Idle
<1> HIDE DEF j
<1> QED BY <1>2, QuietEntry

LEMMA DeviceGoneStep ==
    ASSUME Inv, NEW t \in Clients, DeviceGone(t)
    PROVE  Inv'
<1>1. /\ Handle(t, "del_dev", Answer(1)) /\ known' \subseteq known
      /\ UNCHANGED <<obeys, state, group, strays, sceneVars>>
  BY DEF DeviceGone
<1>2. Matched /\ TableInv /\ ListedOnce
  BY <1>1, EntersMatched
<1>3. TableInv' /\ ListedOnce' /\ ListsAgree'
  BY <1>1, <1>2 DEF TableInv, ListedOnce, Matched, ListsAgree, sceneVars
<1> QED BY <1>1, <1>3, AnsweredEntry

\* A file goes, or all of them: whoever still obeys is noted as a stray.
LEMMA Dropped ==
    ASSUME TableInv, ListedOnce, Matched, UNCHANGED <<obeys, state, sceneVars>>,
           known' \subseteq known, NEW G \in SUBSET Groups,
           group' = [g \in Groups |-> IF g \in G THEN NoFile ELSE group[g]],
           strays' = strays \cup Obeying(G)
    PROVE  TableInv' /\ ListedOnce' /\ Matched'
<1>1. TableInv'
  <2>1. \A x \in Groups :
          /\ DOMAIN group'[x] = {"is", "has"} /\ group'[x].is \in {"none", "raw", "good"}
          /\ group'[x].has \in Seq(Devs) /\ Len(group'[x].has) <= MemberMax
          /\ group'[x].is # "good" => group'[x].has = <<>>
    <3> TAKE x \in Groups
    <3>1. CASE x \in G
      <4>1. group'[x] = NoFile
        BY <3>1
      <4>2. 0 <= MemberMax
        BY GroupAssumption
      <4>3. /\ DOMAIN NoFile = {"is", "has"} /\ NoFile.is = "none" /\ NoFile.has = <<>>
            /\ NoFile.has \in Seq(Devs) /\ Len(NoFile.has) = 0
        BY DEF NoFile
      <4>4. Len(NoFile.has) <= MemberMax
        BY <4>2, <4>3
      <4> QED BY <4>1, <4>3, <4>4, Zenon
    <3>2. CASE x \notin G
      BY <3>2 DEF TableInv
    <3> QED BY <3>1, <3>2
  <2> QED BY <2>1 DEF TableInv, sceneVars
<1>2. ListedOnce'
  <2>1. Cardinality(Range(<<>>)) = Len(<<>>)
    <3>1. Range(<<>>) = {}
      BY DEF Range
    <3> QED BY <3>1, FS_EmptySet
  <2> QED BY <2>1 DEF ListedOnce, NoFile
<1>3. Matched'
  <2> SUFFICES ASSUME NEW g \in Groups, NEW d \in Devs, <<g, d>> \notin strays'
               PROVE  (d \in Range(group'[g].has)) = (g \in obeys'[d])
    BY DEF Matched
  <2>1. CASE g \in G
    <3>1. g \notin obeys[d]
      BY <2>1 DEF Obeying
    <3>2. d \notin Range(group'[g].has)
      <4>1. group'[g] = NoFile
        BY <2>1
      <4> QED BY <4>1 DEF NoFile, Range
    <3> QED BY <3>1, <3>2
  <2>2. CASE g \notin G
    BY <2>2 DEF Matched
  <2> QED BY <2>1, <2>2
<1> QED BY <1>1, <1>2, <1>3

LEMMA DropGroupStep ==
    ASSUME Inv, NEW t \in Clients, DropGroup(t)
    PROVE  Inv'
<1>1. /\ job[t].at = "leave" /\ Within /\ UNCHANGED <<known, obeys, state, sceneVars>>
      /\ Finish(t) /\ job[t].id \in Groups /\ TableInv /\ ListedOnce
      /\ group' = [group EXCEPT ![job[t].id] = NoFile]
      /\ strays' = strays \cup Obeying({job[t].id})
  BY DEF DropGroup, At, Inv, Sound, PairSound
<1>2. Matched
  BY <1>1, MatchedBefore
<1>3. TableInv' /\ ListedOnce' /\ Matched'
  <2>1. group' = [g \in Groups |-> IF g \in {job[t].id} THEN NoFile ELSE group[g]]
    BY <1>1 DEF TableInv
  <2> QED BY <1>1, <1>2, <2>1, Dropped
<1>4. ListsAgree' /\ users' \subseteq Users /\ gate' = gate /\ buf' = buf
  BY <1>1, <1>3 DEF Matched, ListsAgree, Within, Inv, GateInv
<1> QED BY <1>1, <1>3, <1>4, Finished DEF Handling

\* A step at "wipe": the users go, and with them who asked for it.
LEMMA WipeStep ==
    ASSUME Inv, NEW t \in Clients, Wipe(t)
    PROVE  Inv'
<1>1. /\ job[t].at = "wipe" /\ UNCHANGED <<obeys, state, sceneVars, gate, buf>>
      /\ Go(t, [job[t] EXCEPT !.next = @ + 1]) /\ DOMAIN job[t] = DOMAIN Idle
      /\ TableInv /\ ListedOnce /\ job[t].op \in {"wipe", "factory"}
  BY DEF Wipe, At, Inv, GateInv, Sound, UserSound, Tasks
<1>2. PICK w \in Writes :
          LET gone(n) == w = "done" /\ job[t].next = n IN
          /\ users' = IF gone(1) THEN {} ELSE users
          /\ group' = IF gone(2) THEN [g \in Groups |-> NoFile] ELSE group
          /\ strays' = IF gone(2) THEN strays \cup Obeying(Groups) ELSE strays
          /\ known' = IF gone(3) THEN {} ELSE known
  BY DEF Wipe
<1>3. Matched
  BY <1>1, MatchedBefore
<1>4. /\ users' \subseteq Users /\ known' \subseteq known
      /\ \/ group' = group /\ strays' = strays
         \/ group' = [g \in Groups |-> NoFile] /\ strays' = strays \cup Obeying(Groups)
  BY <1>2 DEF Inv, GateInv
<1>5. TableInv' /\ ListedOnce' /\ Matched'
  <2>1. CASE group' = group /\ strays' = strays
    BY <1>1, <1>3, <1>4, <2>1 DEF TableInv, ListedOnce, Matched, sceneVars
  <2>2. CASE group' = [g \in Groups |-> NoFile] /\ strays' = strays \cup Obeying(Groups)
    <3>1. group' = [g \in Groups |-> IF g \in Groups THEN NoFile ELSE group[g]]
      BY <2>2
    <3> QED BY <1>1, <1>3, <1>4, <2>2, <3>1, Dropped
  <2> QED BY <1>4, <2>1, <2>2
<1> DEFINE j == [job[t] EXCEPT !.next = @ + 1]
<1>6. DOMAIN j = DOMAIN Idle /\ j.at = "wipe" /\ j.op = job[t].op /\ Go(t, j)
  BY <1>1 DEF Idle
<1> HIDE DEF j
<1>7. j.at \in Places \ {"idle"} /\ job[t].at # "idle"
  BY <1>1, <1>6 DEF Places, Handling
<1>8. /\ GateInv' /\ job'[t] = j
      /\ \A v \in Clients : v # t => job[v].at = "idle" /\ job'[v].at = "idle"
      /\ \A e \in Engines : job'[e] = job[e]
  BY <1>1, <1>4, <1>6, <1>7, ClientStep DEF Inv
<1>9. BufInv' /\ Sound(t)' /\ CastSound(t)' /\ ListsAgree'
  <2>1. buf = <<<<t, "head">>>>
    BY <1>1 DEF Inv, Sound, AnswerSound, Handling
  <2>2. job'[t].at = "wipe" /\ job'[t].op \in {"wipe", "factory"} /\ buf' = buf
    BY <1>1, <1>6, <1>8
  <2>3. Sound(t)' /\ CastSound(t)'
    BY <2>1, <2>2 DEF Sound, AnswerSound, UserSound, PairSound, TodoSound, PictureSound,
                      CastSound, At, Handling
  <2> QED BY <1>1, <1>5, <2>3 DEF Inv, BufInv, Matched, ListsAgree
<1> QED BY <1>5, <1>8, <1>9, Assemble


-----------------------------------------------------------------------------
(* Commands to a group: by a client, or by an executor at any time.         *)

LEMMA Shortened ==
    ASSUME NEW S, NEW s \in Seq(S), s # <<>>
    PROVE  /\ Head(s) \in S /\ Tail(s) \in Seq(S)
           /\ Len(s) # 1 => Tail(s) # <<>>
<1>1. Len(s) \in Nat \ {0}
  OBVIOUS
<1>2. Tail(s) \in Seq(S) /\ Len(Tail(s)) = Len(s) - 1 /\ Head(s) \in S
  BY <1>1
<1>3. ASSUME Len(s) # 1 PROVE Tail(s) # <<>>
  <2>1. Len(Tail(s)) # 0
    BY <1>1, <1>2, <1>3
  <2>2. Len(<<>>) = 0
    OBVIOUS
  <2> QED BY <2>1, <2>2, Zenon
<1> QED BY <1>2, <1>3

LEMMA SendsSound ==
    ASSUME NEW sends \in Sends
    PROVE  sends \in Seq(Values) /\ sends # <<>>
<1>1. ASSUME NEW v \in Values PROVE <<v>> \in Seq(Values) /\ <<v>> # <<>>
  OBVIOUS
<1>2. /\ <<1>> \in Seq(Values) /\ <<0, 0>> \in Seq(Values) /\ <<1, 1>> \in Seq(Values)
      /\ <<1>> # <<>> /\ <<0, 0>> # <<>> /\ <<1, 1>> # <<>>
  BY DEF Values
<1> QED BY <1>1, <1>2 DEF Sends, Lamp, Plain, Shade

\* A command in the queue is for a device or for a group.
Own(c, d) == c \in Actions /\ c.dev = d

LEMMA ActionOrCast ==
    /\ \A c \in Casts : c \notin Actions
    /\ \A c \in Actions : c.dev \in Devs /\ c.value \in Values
<1>1. ASSUME NEW c \in Casts PROVE c \notin Actions
  <2>1. DOMAIN c = {"group", "value"}
    BY DEF Casts
  <2>2. c \in Actions => DOMAIN c = {"dev", "value"}
    BY DEF Actions
  <2>3. "group" \in DOMAIN c
    BY <2>1
  <2> QED BY <2>2, <2>3
<1> QED BY <1>1 DEF Actions, Casts

LEMMA WaitingBy ==
    ASSUME NEW q, NEW d
    PROVE  d \in Waiting(q) <=> \E k \in DOMAIN q : Own(q[k], d)
BY DEF Waiting, Range, Own

\* The last command of its own that a device waits for.
LastOwn(q, k, d) == Own(q[k], d) /\ \A m \in DOMAIN q : Own(q[m], d) => m <= k

LEMMA KeptBy ==
    ASSUME NEW d
    PROVE  /\ Kept(d) <=> IF d \in Waiting(queue)
                          THEN \A k \in DOMAIN queue : LastOwn(queue, k, d) => queue[k].value = asked[d]
                          ELSE state[d] = asked[d]
           /\ Kept(d)' <=> IF d \in Waiting(queue')
                           THEN \A k \in DOMAIN queue' : LastOwn(queue', k, d) => queue'[k].value = asked'[d]
                           ELSE state'[d] = asked'[d]
BY DEF Kept, LastOwn, Own, Waiting

\* One more command in the queue.
LEMMA PushKept ==
    ASSUME queue \in Seq(Actions \cup Casts), NEW c \in Actions \cup Casts,
           queue' = Append(queue, c), NEW d \in Devs,
           IF Own(c, d) THEN asked'[d] = c.value
           ELSE Kept(d) /\ asked'[d] = asked[d] /\ state'[d] = state[d]
    PROVE  Kept(d)'
<1>1. PICK q : q = queue'
  OBVIOUS
<1>2. /\ DOMAIN q = DOMAIN queue \cup {Len(queue) + 1} /\ q[Len(queue) + 1] = c
      /\ DOMAIN queue = 1..Len(queue) /\ Len(queue) \in Nat
      /\ \A k \in DOMAIN queue : q[k] = queue[k]
  <2>1. Len(queue) \in Nat
    OBVIOUS
  <2> QED BY <1>1, <2>1, Appended
<1>3. CASE Own(c, d)
  <2>1. d \in Waiting(q)
    BY <1>2, <1>3, WaitingBy
  <2>2. ASSUME NEW k \in DOMAIN q, LastOwn(q, k, d) PROVE q[k].value = asked'[d]
    <3>1. Len(queue) + 1 <= k
      BY <1>2, <1>3, <2>2 DEF LastOwn
    <3>2. k = Len(queue) + 1
      BY <1>2, <3>1
    <3> QED BY <1>2, <1>3, <3>2
  <2> QED BY <1>1, <2>1, <2>2, KeptBy
<1>4. CASE ~Own(c, d)
  <2>1. d \in Waiting(q) <=> d \in Waiting(queue)
    BY <1>2, <1>4, WaitingBy
  <2>2. ASSUME NEW k \in DOMAIN q, LastOwn(q, k, d)
        PROVE  k \in DOMAIN queue /\ LastOwn(queue, k, d) /\ q[k] = queue[k]
    BY <1>2, <1>4, <2>2 DEF LastOwn
  <2> QED BY <1>1, <1>4, <2>1, <2>2, KeptBy
<1> QED BY <1>3, <1>4

\* The first command leaves the queue.
LEMMA PopKept ==
    ASSUME queue \in Seq(Actions \cup Casts), queue # <<>>, queue' = Tail(queue), NEW d \in Devs,
           asked'[d] = asked[d], Kept(d),
           d \notin Waiting(Tail(queue)) =>
               state'[d] = IF Own(Head(queue), d) THEN Head(queue).value ELSE state[d]
    PROVE  Kept(d)'
<1>1. PICK q : q = queue'
  OBVIOUS
<1>2. Len(queue) \in Nat \ {0} /\ DOMAIN queue = 1..Len(queue) /\ Head(queue) = queue[1]
  OBVIOUS
<1>3. Len(q) = Len(queue) - 1 /\ DOMAIN q = 1..(Len(queue) - 1)
      /\ \A k \in 1..(Len(queue) - 1) : q[k] = queue[k + 1]
  BY <1>1, <1>2
<1>4. CASE d \in Waiting(q)
  <2>1. PICK i \in DOMAIN q : Own(q[i], d)
    BY <1>4, WaitingBy
  <2>2. i + 1 \in DOMAIN queue /\ Own(queue[i + 1], d) /\ i \in 1..(Len(queue) - 1)
    BY <1>2, <1>3, <2>1
  <2>3. d \in Waiting(queue)
    BY <2>2, WaitingBy
  <2>4. ASSUME NEW k \in DOMAIN q, LastOwn(q, k, d) PROVE q[k].value = asked'[d]
    <3>1. k \in 1..(Len(queue) - 1) /\ k + 1 \in DOMAIN queue /\ queue[k + 1] = q[k]
      BY <1>2, <1>3
    <3>2. ASSUME NEW m \in DOMAIN queue, Own(queue[m], d) PROVE m <= k + 1
      <4>1. CASE m = 1
        BY <3>1, <4>1
      <4>2. CASE m # 1
        <5>1. m - 1 \in DOMAIN q /\ q[m - 1] = queue[m] /\ m \in Nat
          BY <1>2, <1>3, <4>2
        <5>2. m - 1 <= k
          BY <2>4, <3>2, <5>1 DEF LastOwn
        <5> QED BY <3>1, <5>1, <5>2
      <4> QED BY <4>1, <4>2
    <3>3. LastOwn(queue, k + 1, d)
      BY <2>4, <3>1, <3>2 DEF LastOwn
    <3> QED BY <2>3, <3>1, <3>3, KeptBy
  <2> QED BY <1>1, <1>4, <2>4, KeptBy
<1>5. CASE d \notin Waiting(q)
  <2>1. \A k \in 2..Len(queue) : ~Own(queue[k], d)
    <3>1. \A k \in 2..Len(queue) : k - 1 \in DOMAIN q /\ q[k - 1] = queue[k]
      BY <1>2, <1>3
    <3> QED BY <1>5, <3>1, WaitingBy
  <2>2. state'[d] = asked[d]
    <3>1. CASE Own(queue[1], d)
      <4>1. d \in Waiting(queue) /\ 1 \in DOMAIN queue
        BY <1>2, <3>1, WaitingBy
      <4>2. LastOwn(queue, 1, d)
        BY <1>2, <2>1, <3>1 DEF LastOwn
      <4>3. queue[1].value = asked[d]
        BY <4>1, <4>2, KeptBy
      <4> QED BY <1>1, <1>2, <1>5, <3>1, <4>3
    <3>2. CASE ~Own(queue[1], d)
      <4>1. d \notin Waiting(queue)
        BY <1>2, <2>1, <3>2, WaitingBy
      <4>2. state[d] = asked[d]
        BY <4>1, KeptBy
      <4> QED BY <1>1, <1>2, <1>5, <3>2, <4>2
    <3> QED BY <3>1, <3>2
  <2> QED BY <1>1, <1>5, <2>2, KeptBy
<1> QED BY <1>4, <1>5

\* What executors and the task that sends do meanwhile changes no more than
\* the queue and what the devices show.
LEMMA Meanwhile ==
    ASSUME Inv, UNCHANGED <<gate, buf, users, known, obeys, group, strays, addrs, scene, holds, asked>>,
           GateInv', \A t \in Clients : job'[t] = job[t], \A t \in Tasks : CastSound(t)',
           state' \in [Devs -> Values], queue' \in Seq(Actions \cup Casts),
           upset \subseteq upset', upset' \subseteq Devs,
           \A d \in Devs \ upset' : asked[d] # None /\ Kept(d) => Kept(d)'
    PROVE  Inv'
<1>1. BufInv' /\ TableInv' /\ ListedOnce'
  BY DEF Inv, BufInv, TableInv, ListedOnce
<1>2. ListsAgree'
  <2>1. \A place \in {"record", "unrecord"}, g \in Groups, d \in Devs :
          Between(place, g, d)' = Between(place, g, d)
    BY DEF Between, At
  <2> QED BY <2>1 DEF Inv, ListsAgree
<1>3. ASSUME NEW t \in Clients PROVE Sound(t)'
  <2>1. job'[t] = job[t] /\ Sound(t)
    BY DEF Inv
  <2>2. AnswerSound(t)' /\ UserSound(t)' /\ PairSound(t)' /\ TodoSound(t)'
    BY <2>1 DEF Sound, AnswerSound, UserSound, Known, PairSound, TodoSound, At
  <2>3. PictureSound(t)'
    <3> SUFFICES ASSUME job[t].at \in {"state", "action", "store"} PROVE PictureSound(t)'
      BY <2>1 DEF PictureSound
    <3>1. /\ job[t].op = "scene" /\ job[t].id \in Scenes /\ SceneReadable(job[t].id)
          /\ Range(addrs) \subseteq DevsOf(Carried(t))
          /\ \A d \in Devs \ upset : asked[d] # None => d \in Range(addrs) /\ Kept(d)
          /\ At(t, "store") =>
                \A m \in 1..(job[t].next - 1) :
                    addrs[m] \in known \ upset /\ asked[addrs[m]] # None =>
                        holds[addrs[m]][job[t].id] = asked[addrs[m]]
      BY <2>1 DEF Sound, PictureSound
    <3>2. Carried(t)' = Carried(t) /\ SceneReadable(job[t].id)'
      BY <2>1, <3>1 DEF Carried, At, SceneReadable
    <3>3. \A d \in Devs \ upset' : asked'[d] # None => d \in Range(addrs') /\ Kept(d)'
      BY <3>1
    <3>4. At(t, "store")' =>
             \A m \in 1..(job'[t].next - 1) :
                 addrs'[m] \in known' \ upset' /\ asked'[addrs'[m]] # None =>
                     holds'[addrs'[m]][job'[t].id] = asked'[addrs'[m]]
      BY <2>1, <3>1 DEF At
    <3>5. Range(addrs') \subseteq DevsOf(Carried(t)')
      BY <3>1, <3>2
    <3>6. job'[t].op = "scene" /\ job'[t].id \in Scenes /\ SceneReadable(job[t].id)'
      BY <2>1, <3>1, <3>2
    <3> QED BY <2>1, <3>3, <3>4, <3>5, <3>6 DEF PictureSound, DevsOf
  <2> QED BY <2>2, <2>3 DEF Sound
<1> QED BY <1>1, <1>2, <1>3 DEF Inv

\* A step of an executor, which may put a command into the queue.
LEMMA EngineStep ==
    ASSUME Inv, NEW e \in Engines, NEW j, Go(e, j),
           DOMAIN j = DOMAIN Idle, j.at \in {"idle", "cast"},
           UNCHANGED <<gate, buf, users, known, obeys, group, strays, addrs, scene, holds, asked,
                       state, upset>>,
           queue' \in Seq(Actions \cup Casts),
           \A d \in Devs : Kept(d) => Kept(d)',
           job'[e] = j => CastSound(e)'
    PROVE  Inv'
<1>1. e \in Tasks /\ e \notin Clients /\ DOMAIN job = Tasks
  BY GateAssumption DEF Tasks, Inv, GateInv
<1>2. job' = [job EXCEPT ![e] = j]
  BY DEF Go
<1>3. /\ DOMAIN job' = Tasks /\ job'[e] = j /\ \A u \in Tasks : u # e => job'[u] = job[u]
      /\ \A t \in Clients : job'[t] = job[t]
  BY <1>1, <1>2 DEF Tasks
<1>4. GateInv'
  <2>1. \A u \in Tasks : DOMAIN job'[u] = DOMAIN Idle /\ job'[u].at \in Places
    BY <1>3 DEF Inv, GateInv, Places, Handling
  <2>2. \A u \in Engines : job'[u].at \in {"idle", "cast"}
    BY <1>3 DEF Inv, GateInv, Tasks
  <2> QED BY <1>3, <2>1, <2>2 DEF Inv, GateInv
<1>5. ASSUME NEW u \in Tasks PROVE CastSound(u)'
  BY <1>3 DEF Inv, CastSound, At
<1>6. state' \in [Devs -> Values] /\ upset' \subseteq Devs
  BY DEF Inv, TableInv
<1> QED BY <1>3, <1>4, <1>5, <1>6, Meanwhile

LEMMA CommandGroupStep ==
    ASSUME Inv, NEW t \in Tasks, NEW g \in Groups, CommandGroup(t, g)
    PROVE  Inv'
<1>1. PICK sends \in Sends :
         LET j == [Idle EXCEPT !.at = "cast", !.op = "command", !.id = g, !.todo = sends] IN
         \/ Handle(t, "command_group", j)
         \/ t \in Engines /\ Go(t, j) /\ UNCHANGED <<gate, buf, users>>
  BY DEF CommandGroup
<1> DEFINE j == [Idle EXCEPT !.at = "cast", !.op = "command", !.id = g, !.todo = sends]
<1>2. /\ DOMAIN j = DOMAIN Idle /\ j.at = "cast" /\ j.todo = sends /\ j.id = g
      /\ Handle(t, "command_group", j) \/ (t \in Engines /\ Go(t, j) /\ UNCHANGED <<gate, buf, users>>)
  BY <1>1 DEF Idle
<1> HIDE DEF j
<1>3. UNCHANGED <<groupVars, sceneVars>> /\ j.todo \in Seq(Values) /\ j.todo # <<>>
  BY <1>2, SendsSound DEF CommandGroup
<1>4. CASE Handle(t, "command_group", j)
  <2>1. t \in Clients
    BY <1>4 DEF Handle, Enter
  <2> QED BY <1>2, <1>3, <1>4, <2>1, QuietEntry
<1>5. CASE t \in Engines /\ Go(t, j) /\ UNCHANGED <<gate, buf, users>>
  <2>1. job'[t] = j => CastSound(t)'
    BY <1>2, <1>3 DEF CastSound
  <2>2. /\ UNCHANGED <<known, obeys, group, strays, addrs, scene, holds, asked, state, upset, queue>>
        /\ queue' \in Seq(Actions \cup Casts)
    BY <1>3 DEF groupVars, sceneVars, Inv, TableInv
  <2>3. \A d \in Devs : Kept(d) => Kept(d)'
    BY <2>2 DEF Kept
  <2> QED BY <1>2, <1>5, <2>1, <2>2, <2>3, EngineStep
<1> QED BY <1>2, <1>4, <1>5

LEMMA QueueCastStep ==
    ASSUME Inv, NEW t \in Tasks, QueueCast(t)
    PROVE  Inv'
<1>1. /\ job[t].at = "cast" /\ DOMAIN job[t] = DOMAIN Idle /\ TableInv
      /\ job[t].todo \in Seq(Values) /\ job[t].todo # <<>> /\ Head(job[t].todo) \in Values
      /\ job[t].id \in Groups
  <2>1. job[t].at = "cast" /\ job[t].todo \in Seq(Values) /\ job[t].todo # <<>>
        /\ job[t].id \in Groups
    BY DEF QueueCast, At, Inv, CastSound
  <2>2. Head(job[t].todo) \in Values
    BY <2>1
  <2> QED BY <2>1, <2>2 DEF Inv, GateInv
<1> DEFINE c == [group |-> job[t].id, value |-> Head(job[t].todo)]
           j == [job[t] EXCEPT !.todo = Tail(@)]
<1>2. /\ Within /\ UNCHANGED <<groupVars, addrs, scene, holds, asked, upset>>
      /\ queue' = queue \/ queue' = Append(queue, c)
      /\ Finish(t) \/ (Len(job[t].todo) # 1 /\ Go(t, j))
  BY DEF QueueCast
<1>3. c \in Casts
  BY <1>1 DEF Casts
<1>4. /\ DOMAIN j = DOMAIN Idle /\ j.at = "cast" /\ j.user = job[t].user
      /\ j.todo = Tail(job[t].todo) /\ j.id = job[t].id
  BY <1>1 DEF Idle
<1> HIDE DEF c, j
<1>5. queue' \in Seq(Actions \cup Casts) /\ \A d \in Devs : Kept(d) => Kept(d)'
  <2>1. queue \in Seq(Actions \cup Casts) /\ UNCHANGED <<state, asked>>
    BY <1>1, <1>2 DEF TableInv, groupVars
  <2>2. CASE queue' = queue
    BY <2>1, <2>2 DEF Kept
  <2>3. CASE queue' = Append(queue, c)
    <3>1. c \in Actions \cup Casts /\ \A d : ~Own(c, d)
      BY <1>3, ActionOrCast DEF Own
    <3>2. queue' \in Seq(Actions \cup Casts)
      BY <2>1, <2>3, <3>1, Appended
    <3> QED BY <2>1, <2>3, <3>1, <3>2, PushKept
  <2> QED BY <1>2, <2>2, <2>3
<1>6. Len(job[t].todo) # 1 => j.todo \in Seq(Values) /\ j.todo # <<>>
  BY <1>1, <1>4, Shortened
<1>7. CASE t \in Clients
  <2>1. Matched
    BY <1>1, <1>7, MatchedBefore
  <2>2. TableInv' /\ ListedOnce' /\ ListsAgree'
    BY <1>2, <1>5, <2>1 DEF Inv, TableInv, ListedOnce, ListsAgree, Matched, groupVars
  <2>3. CASE Finish(t)
    <3>1. users' \subseteq Users /\ gate' = gate /\ buf' = buf
      BY <1>2 DEF Within, Inv, GateInv
    <3> QED BY <1>1, <1>7, <2>2, <2>3, <3>1, Finished DEF Handling
  <2>4. CASE Len(job[t].todo) # 1 /\ Go(t, j)
    <3>1. job'[t] = j => Agreeable(t)
      BY <1>1, <1>4, <1>6, <2>2, <2>4
         DEF Agreeable, PairSound, TodoSound, PictureSound, CastSound, At
    <3> QED BY <1>1, <1>2, <1>4, <1>7, <2>2, <2>4, <3>1, Working DEF Handling
  <2> QED BY <1>2, <2>3, <2>4
<1>8. CASE t \in Engines
  <2>1. /\ t \notin Clients
        /\ UNCHANGED <<gate, buf, users, known, obeys, group, strays, addrs, scene, holds, asked,
                       state, upset>>
    BY <1>2, <1>8, GateAssumption DEF Within, groupVars
  <2>2. CASE Finish(t)
    <3>1. Go(t, Idle) /\ Idle.at = "idle"
      BY <2>1, <2>2 DEF Finish, Idle
    <3>2. job'[t] = Idle => CastSound(t)'
      BY <3>1 DEF CastSound, At
    <3> QED BY <1>5, <1>8, <2>1, <3>1, <3>2, EngineStep
  <2>3. CASE Len(job[t].todo) # 1 /\ Go(t, j)
    <3>1. job'[t] = j => CastSound(t)'
      BY <1>1, <1>4, <1>6, <2>3 DEF CastSound
    <3> QED BY <1>4, <1>5, <1>8, <2>1, <2>3, <3>1, EngineStep
  <2> QED BY <1>2, <2>2, <2>3
<1> QED BY <1>7, <1>8 DEF Tasks

\* The first command of the queue goes out.
LEMMA SendNextStep ==
    ASSUME Inv, SendNext
    PROVE  Inv'
<1>1. /\ queue \in Seq(Actions \cup Casts) /\ queue # <<>> /\ queue' = Tail(queue)
      /\ UNCHANGED <<gate, buf, users, known, obeys, group, strays, addrs, scene, holds, asked, job>>
      /\ TableInv
  BY DEF SendNext, SendAction, SendCast, Within, Inv, TableInv
<1>2. Head(queue) \in Actions \cup Casts /\ queue' \in Seq(Actions \cup Casts)
  BY <1>1, Shortened
<1>3. GateInv' /\ \A t \in Tasks : CastSound(t)'
  BY <1>1 DEF Inv, GateInv, CastSound, At
<1>4. /\ state' \in [Devs -> Values] /\ upset \subseteq upset' /\ upset' \subseteq Devs
      /\ \A d \in Devs \ upset' :
            asked[d] # None /\ d \notin Waiting(Tail(queue)) =>
                state'[d] = IF Own(Head(queue), d) THEN Head(queue).value ELSE state[d]
  <2>1. CASE SendAction
    <3>1. PICK a : a = Head(queue)
      OBVIOUS
    <3>2. a \in Actions /\ a.dev \in Devs /\ a.value \in Values
      BY <2>1, <3>1, ActionOrCast DEF SendAction
    <3>3. PICK r \in Outcomes :
             /\ state' = IF Acts(r) THEN [state EXCEPT ![a.dev] = a.value] ELSE state
             /\ upset' = IF Acts(r) THEN upset ELSE upset \cup Disturbed({a.dev})
      BY <2>1, <3>1 DEF SendAction
    <3>4. upset \subseteq Devs /\ state \in [Devs -> Values] /\ Disturbed({a.dev}) \subseteq Devs
      BY <1>1, <3>2 DEF TableInv, Disturbed
    <3>5. ASSUME NEW d \in Devs \ upset', asked[d] # None, d \notin Waiting(Tail(queue))
          PROVE  state'[d] = IF Own(a, d) THEN a.value ELSE state[d]
      <4>1. CASE d = a.dev
        <5>1. d \in Disturbed({a.dev})
          BY <3>5, <4>1 DEF Disturbed
        <5>2. Acts(r) /\ Own(a, d)
          BY <3>2, <3>3, <3>5, <4>1, <5>1 DEF Own
        <5> QED BY <3>3, <3>4, <4>1, <5>2
      <4>2. CASE d # a.dev
        BY <3>3, <3>4, <4>2 DEF Own
      <4> QED BY <4>1, <4>2
    <3>6. state' \in [Devs -> Values] /\ upset \subseteq upset' /\ upset' \subseteq Devs
      BY <3>2, <3>3, <3>4
    <3> QED BY <3>1, <3>5, <3>6
  <2>2. CASE SendCast
    <3>1. PICK c : c = Head(queue)
      OBVIOUS
    <3>2. c \in Casts /\ c.value \in Values /\ \A d : ~Own(c, d)
      <4>1. c \in Casts
        BY <2>2, <3>1 DEF SendCast
      <4>2. c.value \in Values
        BY <4>1 DEF Casts
      <4>3. c \notin Actions
        BY <4>1, ActionOrCast
      <4> QED BY <4>1, <4>2, <4>3 DEF Own
    <3>3. PICK heard \in SUBSET {d \in Devs : c.group \in obeys[d]} :
             /\ state' = [d \in Devs |-> IF d \in heard THEN c.value ELSE state[d]]
             /\ upset' = upset \cup Disturbed(heard)
      BY <2>2, <3>1 DEF SendCast
    <3>4. upset \subseteq Devs /\ state \in [Devs -> Values] /\ Disturbed(heard) \subseteq Devs
      BY <1>1, <3>3 DEF TableInv, Disturbed
    <3>5. ASSUME NEW d \in Devs \ upset', asked[d] # None, d \notin Waiting(Tail(queue))
          PROVE  state'[d] = state[d]
      <4>1. d \notin Disturbed(heard)
        BY <3>3, <3>5
      <4>2. d \notin heard
        BY <3>5, <4>1 DEF Disturbed
      <4> QED BY <3>3, <4>2
    <3>6. state' \in [Devs -> Values] /\ upset \subseteq upset' /\ upset' \subseteq Devs
      BY <3>2, <3>3, <3>4
    <3> QED BY <3>1, <3>2, <3>5, <3>6
  <2> QED BY <2>1, <2>2 DEF SendNext
<1>5. \A d \in Devs \ upset' : asked[d] # None /\ Kept(d) => Kept(d)'
  <2> SUFFICES ASSUME NEW d \in Devs \ upset', asked[d] # None, Kept(d) PROVE Kept(d)'
    OBVIOUS
  <2> QED BY <1>1, <1>4, PopKept
<1>6. \A t \in Clients : job'[t] = job[t]
  BY <1>1
<1> QED BY <1>1, <1>2, <1>3, <1>4, <1>5, <1>6, Meanwhile

\* A device that waits for its picture is told something else.
LEMMA CommandDeviceStep ==
    ASSUME Inv, NEW t \in Tasks, CommandDevice(t)
    PROVE  Inv'
<1>1. PICK a \in Actions :
         /\ queue' = Append(queue, a)
         /\ upset' = IF asked[a.dev] = None THEN upset ELSE upset \cup {a.dev}
  BY DEF CommandDevice
<1>2. /\ UNCHANGED <<groupVars, addrs, scene, holds, asked>> /\ a.dev \in Devs
      /\ queue \in Seq(Actions \cup Casts) /\ TableInv
  BY ActionOrCast DEF CommandDevice, Inv, TableInv
<1>3. queue' \in Seq(Actions \cup Casts)
  BY <1>1, <1>2, Appended
<1>4. upset \subseteq upset' /\ upset' \subseteq Devs
  BY <1>1, <1>2 DEF TableInv
<1>5. CASE Handle(t, "elsewhere", Answer(1))
  <2>1. t \in Clients
    BY <1>5 DEF Handle, Enter
  <2>2. Matched /\ TableInv /\ ListedOnce
    BY <1>5, <2>1, EntersMatched
  <2>3. TableInv' /\ ListedOnce' /\ ListsAgree'
    BY <1>2, <1>3, <1>4, <2>2 DEF TableInv, ListedOnce, ListsAgree, Matched, groupVars
  <2> QED BY <1>5, <2>1, <2>3, AnsweredEntry
<1>6. CASE UNCHANGED <<gate, buf, users, job>>
  <2>1. GateInv' /\ \A u \in Tasks : CastSound(u)'
    BY <1>6 DEF Inv, GateInv, CastSound, At
  <2>2. ASSUME NEW d \in Devs \ upset', asked[d] # None, Kept(d) PROVE Kept(d)'
    <3>1. d # a.dev
      BY <1>1, <2>2
    <3>2. ~Own(a, d) /\ asked'[d] = asked[d] /\ state'[d] = state[d]
      BY <1>2, <3>1 DEF Own, groupVars
    <3> QED BY <1>1, <1>2, <2>2, <3>2, PushKept
  <2>3. state' \in [Devs -> Values] /\ \A u \in Clients : job'[u] = job[u]
    BY <1>2, <1>6 DEF TableInv, groupVars
  <2>4. UNCHANGED <<gate, buf, users, known, obeys, group, strays, addrs, scene, holds, asked>>
    BY <1>2, <1>6 DEF groupVars
  <2> QED BY <1>3, <1>4, <2>1, <2>2, <2>3, <2>4, Meanwhile
<1> QED BY <1>5, <1>6 DEF CommandDevice

LEMMA GroupSteps ==
    ASSUME Inv, NEW t \in Tasks, GroupRequest(t) \/ GroupStep(t)
    PROVE  Inv'
<1>1. CASE t \in Clients
  <2>1. CASE CreateGroup(t) \/ DeviceGone(t) \/ DeleteAll(t)
    BY <1>1, <2>1, CreateGroupStep, DeviceGoneStep, DeleteAllStep
  <2>2. ASSUME NEW g \in Groups, SetGroup(t, g) \/ DeleteGroup(t, g) \/ CommandGroup(t, g)
        PROVE  Inv'
    BY <1>1, <2>2, SetGroupStep, DeleteGroupStep, CommandGroupStep
  <2>3. CASE NameGroup(t) \/ JoinRefused(t) \/ Join(t) \/ Record(t) \/ Joined(t)
    BY <1>1, <2>3, NameGroupStep, RefusedDevice, JoinStep, RecordStep, JoinedStep
  <2>4. CASE LeaveRefused(t) \/ Leave(t) \/ Unrecord(t) \/ DropGroup(t) \/ QueueCast(t) \/ Wipe(t)
    BY <1>1, <2>4, RefusedDevice, LeaveStep, UnrecordStep, DropGroupStep, QueueCastStep, WipeStep
  <2>5. CASE SetDone(t) \/ Wiped(t)
    <3>1. /\ job[t].at \in Handling \ {"record", "unrecord"} /\ Finish(t) /\ Within
          /\ UNCHANGED <<groupVars, sceneVars>>
      BY <2>5 DEF SetDone, Wiped, At, Handling
    <3> QED BY <1>1, <3>1, QuietFinish
  <2> QED BY <2>1, <2>2, <2>3, <2>4, <2>5 DEF GroupRequest, GroupStep
<1>2. CASE t \in Engines
  <2>1. t \notin Clients /\ job[t].at \in {"idle", "cast"}
    BY <1>2, GateAssumption DEF Inv, GateInv
  <2>2. QueueCast(t) \/ \E g \in Groups : CommandGroup(t, g)
    BY <2>1 DEF GroupRequest, GroupStep, CreateGroup, DeviceGone, DeleteAll, SetGroup, DeleteGroup,
                Handle, Enter, NameGroup, JoinRefused, Join, Record, Joined, LeaveRefused, Leave,
                Unrecord, SetDone, DropGroup, Wipe, Wiped, At
  <2> QED BY <2>2, QueueCastStep, CommandGroupStep
<1> QED BY <1>1, <1>2 DEF Tasks


-----------------------------------------------------------------------------
(* A scene is made.                                                         *)

LEMMA DevsOfGrow ==
    ASSUME NEW s \in Seq(Actions), NEW a \in Actions
    PROVE  DevsOf(Append(s, a)) = DevsOf(s) \cup {a.dev}
<1> DEFINE r == Append(s, a)
<1>1. /\ DOMAIN r = DOMAIN s \cup {Len(s) + 1} /\ r[Len(s) + 1] = a
      /\ \A k \in DOMAIN s : r[k] = s[k]
  BY Appended
<1> HIDE DEF r
<1>2. ASSUME NEW k \in DOMAIN r PROVE r[k].dev \in DevsOf(s) \cup {a.dev}
  BY <1>1, <1>2 DEF DevsOf
<1>3. ASSUME NEW k \in DOMAIN s PROVE s[k].dev \in DevsOf(r)
  BY <1>1, <1>3 DEF DevsOf
<1>4. a.dev \in DevsOf(r)
  BY <1>1 DEF DevsOf
<1>5. DevsOf(r) = DevsOf(s) \cup {a.dev}
  BY <1>2, <1>3, <1>4 DEF DevsOf
<1> QED BY <1>5 DEF r

LEMMA NotedSound ==
    ASSUME TableInv, NEW d \in Devs
    PROVE  /\ Noted(d) \in Seq(Devs) /\ Cardinality(Range(Noted(d))) = Len(Noted(d))
           /\ Range(Noted(d)) = Range(addrs) \cup {d}
<1>1. addrs \in Seq(Devs) /\ Once(addrs)
  BY OnceIsCounted DEF TableInv
<1>2. CASE d \in Range(addrs)
  BY <1>1, <1>2 DEF Noted, TableInv
<1>3. CASE d \notin Range(addrs)
  <2>1. Noted(d) = Append(addrs, d)
    BY <1>3 DEF Noted
  <2>2. /\ Append(addrs, d) \in Seq(Devs) /\ Range(Append(addrs, d)) = Range(addrs) \cup {d}
        /\ Once(Append(addrs, d))
    BY <1>1, <1>3, Appended
  <2> QED BY <2>1, <2>2, OnceIsCounted
<1> QED BY <1>2, <1>3

LEMMA NoneNoted ==
    <<>> \in Seq(Devs) /\ Range(<<>>) = {} /\ Cardinality(Range(<<>>)) = Len(<<>>)
<1>1. Range(<<>>) = {}
  BY DEF Range
<1> QED BY <1>1, FS_EmptySet

LEMMA CreateSceneStep ==
    ASSUME Inv, NEW t \in Clients, CreateScene(t)
    PROVE  Inv'
<1>0. PICK s : s = CHOOSE x \in FreeScenes : \A r \in FreeScenes : x <= r
  OBVIOUS
<1>1. PICK acts \in Lists(Actions, ActionMax) :
         /\ s = CHOOSE x \in FreeScenes : \A r \in FreeScenes : x <= r
         /\ scene' = [scene EXCEPT ![s] = File(<<>>)]
         /\ Handle(t, "create_scene",
                   [Idle EXCEPT !.at = IF acts = <<>> THEN "store" ELSE "state",
                      !.op = "scene", !.id = s, !.todo = acts])
  BY <1>0 DEF CreateScene
<1>2. s \in Scenes
  <2>1. FreeScenes \subseteq Nat /\ FreeScenes # {}
    BY GroupAssumption DEF FreeScenes, CreateScene
  <2> QED BY <1>1, <2>1, Least DEF FreeScenes
<1>3. acts \in Seq(Actions)
  BY GroupAssumption DEF Lists
<1> DEFINE j == [Idle EXCEPT !.at = IF acts = <<>> THEN "store" ELSE "state",
                   !.op = "scene", !.id = s, !.todo = acts]
<1>4. /\ DOMAIN j = DOMAIN Idle /\ j.at = IF acts = <<>> THEN "store" ELSE "state"
      /\ j.op = "scene" /\ j.id = s /\ j.todo = acts /\ j.next = 1
      /\ Handle(t, "create_scene", j)
  BY <1>1 DEF Idle
<1> HIDE DEF j
<1>5. /\ UNCHANGED <<groupVars, queue, holds>> /\ addrs' = <<>>
      /\ asked' = NothingAsked /\ upset' = {} /\ Matched /\ TableInv /\ ListedOnce
  BY <1>4, EntersMatched DEF CreateScene, AddrsAtStart
<1>6. /\ DOMAIN scene' = Scenes /\ scene'[s] = File(<<>>)
      /\ \A x \in Scenes : x # s => scene'[x] = scene[x]
  BY <1>1, <1>2, <1>5 DEF TableInv
<1>7. TableInv' /\ ListedOnce' /\ ListsAgree'
  <2>1. \A x \in Scenes : scene'[x].is \in {"none", "good"} /\ scene'[x].has \in Seq(Actions)
    <3> TAKE x \in Scenes
    <3>1. CASE x = s
      <4>1. File(<<>>).is = "good" /\ File(<<>>).has = <<>> /\ <<>> \in Seq(Actions)
        BY DEF File
      <4> QED BY <1>6, <3>1, <4>1, Zenon
    <3>2. CASE x # s
      BY <1>5, <1>6, <3>2 DEF TableInv
    <3> QED BY <3>1, <3>2
  <2>2. addrs' \in Seq(Devs) /\ Cardinality(Range(addrs')) = Len(addrs')
    BY <1>5, NoneNoted, Zenon
  <2>3. TableInv'
    BY <1>5, <1>6, <2>1, <2>2 DEF TableInv, NothingAsked, groupVars
  <2> QED BY <1>5, <2>3 DEF ListedOnce, ListsAgree, Matched, groupVars
<1>8. ASSUME NEW u \in Known, job'[t] = [j EXCEPT !.user = u] PROVE Agreeable(t)
  <2>1. /\ job'[t].at = IF acts = <<>> THEN "store" ELSE "state"
        /\ job'[t].op = "scene" /\ job'[t].id = s /\ job'[t].todo = acts /\ job'[t].next = 1
    BY <1>4, <1>8 DEF Idle
  <2>2. PairSound(t)' /\ CastSound(t)'
    BY <2>1 DEF PairSound, CastSound, At
  <2>3. TodoSound(t)'
    <3>1. Len(addrs') = 0 /\ 1 \in 1..(0 + 1)
      BY <1>5
    <3> QED BY <1>3, <2>1, <3>1 DEF TodoSound, At
  <2>4. PictureSound(t)'
    <3>1. Carried(t)' = <<>> /\ SceneReadable(s)'
      BY <1>6, <2>1 DEF Carried, At, SceneReadable, File
    <3>2. Range(addrs') = {}
      BY <1>5, NoneNoted
    <3>3. \A d \in Devs : asked'[d] = None
      BY <1>5 DEF NothingAsked
    <3>4. \A m \in 1..(job'[t].next - 1) : FALSE
      BY <2>1
    <3>5. Range(addrs') \subseteq DevsOf(Carried(t))'
      BY <3>2
    <3> QED BY <1>2, <2>1, <3>1, <3>3, <3>4, <3>5 DEF PictureSound
  <2> QED BY <1>7, <2>2, <2>3, <2>4 DEF Agreeable
<1>9. j.at \in Handling \cup {"answer"} /\ j.at \notin {"wipe", "answer"}
  BY <1>4 DEF Handling
<1> QED BY <1>4, <1>7, <1>8, <1>9, Entry


\* What is known at a place where a scene is made.
LEMMA MakingScene ==
    ASSUME Inv, NEW t \in Clients, job[t].at \in {"state", "action", "store"}
    PROVE  /\ DOMAIN job[t] = DOMAIN Idle /\ job[t].id \in Scenes /\ job[t].op = "scene"
           /\ scene[job[t].id].is = "good" /\ scene[job[t].id].has \in Seq(Actions)
           /\ TableInv /\ ListedOnce /\ Matched /\ TodoSound(t) /\ PictureSound(t)
           /\ job[t].at \in {"state", "action"} =>
                 /\ job[t].todo \in Seq(Actions) /\ job[t].todo # <<>> /\ job[t].next = 1
                 /\ Head(job[t].todo) \in Actions /\ Head(job[t].todo).dev \in Devs
                 /\ Head(job[t].todo).value \in Values
<1>1. /\ DOMAIN job[t] = DOMAIN Idle /\ job[t].id \in Scenes /\ job[t].op = "scene"
      /\ scene[job[t].id].is = "good" /\ scene[job[t].id].has \in Seq(Actions)
      /\ TableInv /\ ListedOnce /\ TodoSound(t) /\ PictureSound(t)
  BY DEF Inv, GateInv, Sound, PictureSound, SceneReadable, TableInv, Tasks
<1>2. Matched
  BY MatchedBefore
<1>3. ASSUME job[t].at \in {"state", "action"}
      PROVE  /\ job[t].todo \in Seq(Actions) /\ job[t].todo # <<>> /\ job[t].next = 1
             /\ Head(job[t].todo) \in Actions /\ Head(job[t].todo).dev \in Devs
             /\ Head(job[t].todo).value \in Values
  <2>1. job[t].todo \in Seq(Actions) /\ job[t].todo # <<>> /\ job[t].next = 1
    BY <1>1, <1>3 DEF TodoSound
  <2>2. Head(job[t].todo) \in Actions
    BY <2>1, Shortened
  <2> QED BY <2>1, <2>2 DEF Actions
<1> QED BY <1>1, <1>2, <1>3

LEMMA SetStateStep ==
    ASSUME Inv, NEW t \in Clients, SetState(t)
    PROVE  Inv'
<1>0. PICK s, a, list : s = job[t].id /\ a = Head(job[t].todo) /\ list = scene[s].has
  OBVIOUS
<1>1. /\ job[t].at = "state" /\ Within /\ UNCHANGED <<groupVars, scene, holds>>
      /\ Go(t, [job[t] EXCEPT !.at = "action"])
  BY DEF SetState, At
<1>2. /\ DOMAIN job[t] = DOMAIN Idle /\ s \in Scenes /\ job[t].op = "scene" /\ scene[s].is = "good"
      /\ list \in Seq(Actions) /\ TableInv /\ ListedOnce /\ Matched /\ PictureSound(t)
      /\ job[t].todo \in Seq(Actions) /\ job[t].todo # <<>> /\ job[t].next = 1
      /\ a \in Actions /\ a.dev \in Devs /\ a.value \in Values
  BY <1>0, <1>1, MakingScene
<1>3. \/ UNCHANGED <<addrs, queue, asked, upset>>
      \/ /\ queue' = Append(queue, a) /\ asked' = [asked EXCEPT ![a.dev] = a.value]
         /\ \/ addrs' = Noted(a.dev) /\ upset' = upset
            \/ addrs' = addrs /\ upset' = upset \cup {a.dev}
  BY <1>0 DEF SetState
<1>4. /\ addrs' \in Seq(Devs) /\ Cardinality(Range(addrs')) = Len(addrs')
      /\ Range(addrs) \subseteq Range(addrs') /\ Range(addrs') \subseteq Range(addrs) \cup {a.dev}
  <2>1. addrs' = addrs \/ addrs' = Noted(a.dev)
    BY <1>3
  <2> QED BY <1>2, <2>1, NotedSound DEF TableInv
<1>5. /\ asked' \in [Devs -> Values \cup {None}] /\ upset' \subseteq Devs /\ upset \subseteq upset'
      /\ queue \in Seq(Actions \cup Casts) /\ queue' \in Seq(Actions \cup Casts)
      /\ asked \in [Devs -> Values \cup {None}]
  <2>1. /\ asked \in [Devs -> Values \cup {None}] /\ upset \subseteq Devs
        /\ queue \in Seq(Actions \cup Casts) /\ a \in Actions \cup Casts
    BY <1>2 DEF TableInv
  <2>2. queue' = queue \/ queue' = Append(queue, a)
    BY <1>3
  <2>3. queue' \in Seq(Actions \cup Casts)
    BY <2>1, <2>2, Appended
  <2>4. asked' = asked \/ asked' = [asked EXCEPT ![a.dev] = a.value]
    BY <1>3
  <2>5. asked' \in [Devs -> Values \cup {None}]
    BY <1>2, <2>1, <2>4
  <2>6. upset' \subseteq Devs /\ upset \subseteq upset'
    BY <1>2, <1>3, <2>1
  <2> QED BY <2>1, <2>3, <2>5, <2>6
<1>6. TableInv' /\ ListedOnce' /\ ListsAgree'
  BY <1>1, <1>2, <1>4, <1>5 DEF TableInv, ListedOnce, Matched, ListsAgree, groupVars
<1>7. /\ Range(addrs) \subseteq DevsOf(list)
      /\ \A d \in Devs \ upset : asked[d] # None => d \in Range(addrs) /\ Kept(d)
  BY <1>0, <1>1, <1>2 DEF PictureSound, Carried, At
<1>8. Range(addrs') \subseteq DevsOf(Append(list, a))
  BY <1>2, <1>4, <1>7, DevsOfGrow
<1>9. ASSUME NEW d \in Devs \ upset', asked'[d] # None
      PROVE  d \in Range(addrs') /\ Kept(d)'
  <2>1. CASE UNCHANGED <<addrs, queue, asked, upset>>
    <3>1. d \in Range(addrs) /\ Kept(d)
      BY <1>7, <1>9, <2>1
    <3> QED BY <1>1, <2>1, <3>1 DEF Kept, groupVars
  <2>2. CASE queue' = Append(queue, a) /\ asked' = [asked EXCEPT ![a.dev] = a.value]
    <3>1. CASE d = a.dev
      <4>1. addrs' = Noted(a.dev)
        BY <1>3, <1>9, <2>2, <3>1
      <4>2. d \in Range(addrs')
        BY <1>2, <3>1, <4>1, NotedSound
      <4>3. Own(a, d) /\ asked'[d] = a.value
        BY <1>2, <1>5, <2>2, <3>1 DEF Own
      <4> QED BY <1>2, <1>5, <2>2, <4>2, <4>3, PushKept
    <3>2. CASE d # a.dev
      <4>1. ~Own(a, d) /\ asked'[d] = asked[d] /\ state'[d] = state[d]
        BY <1>1, <1>5, <2>2, <3>2 DEF Own, groupVars
      <4>2. d \in Range(addrs') /\ Kept(d)
        BY <1>4, <1>5, <1>7, <1>9, <4>1
      <4> QED BY <1>2, <1>5, <2>2, <4>1, <4>2, PushKept
    <3> QED BY <3>1, <3>2
  <2> QED BY <1>3, <2>1, <2>2
<1> DEFINE j == [job[t] EXCEPT !.at = "action"]
<1>11. /\ DOMAIN j = DOMAIN Idle /\ j.at = "action" /\ j.id = s /\ j.op = "scene"
       /\ j.todo = job[t].todo /\ j.next = 1 /\ j.user = job[t].user /\ Go(t, j)
  BY <1>0, <1>1, <1>2 DEF Idle
<1> HIDE DEF j
<1>12. ASSUME job'[t] = j PROVE Agreeable(t)
  <2>1. Carried(t)' = Append(list, a)
    <3>1. job'[t].at = "action" /\ job'[t].id = s /\ Head(job'[t].todo) = a /\ scene'[s].has = list
      BY <1>0, <1>1, <1>11, <1>12
    <3> QED BY <3>1 DEF Carried, At
  <2>2. PictureSound(t)'
    <3>1. Range(addrs') \subseteq DevsOf(Carried(t)')
      BY <1>8, <2>1
    <3>2. SceneReadable(job[t].id)' /\ job'[t].op = "scene" /\ job'[t].id \in Scenes
          /\ job'[t].at = "action"
      BY <1>1, <1>2, <1>11, <1>12 DEF SceneReadable
    <3> QED BY <1>9, <3>1, <3>2 DEF PictureSound, At, DevsOf
  <2> QED BY <1>2, <1>6, <1>11, <1>12, <2>2 DEF Agreeable, PairSound, TodoSound, CastSound, At
<1> QED BY <1>1, <1>6, <1>11, <1>12, Working DEF Handling


LEMMA AddActionStep ==
    ASSUME Inv, NEW t \in Clients, AddAction(t)
    PROVE  Inv'
<1>0. PICK s, a, list : s = job[t].id /\ a = Head(job[t].todo) /\ list = scene[s].has
  OBVIOUS
<1>1. /\ job[t].at = "action" /\ Within /\ UNCHANGED <<groupVars, addrs, queue, holds, asked, upset>>
      /\ \/ /\ scene' = [scene EXCEPT ![s] = File(Append(list, a))]
            /\ Go(t, [job[t] EXCEPT !.todo = Tail(@),
                        !.at = IF Len(job[t].todo) = 1 THEN "store" ELSE "state"])
         \/ scene' = scene /\ Finish(t)
  BY <1>0 DEF AddAction, At, ActionAdded
<1>2. /\ DOMAIN job[t] = DOMAIN Idle /\ s \in Scenes /\ job[t].op = "scene" /\ scene[s].is = "good"
      /\ list \in Seq(Actions) /\ TableInv /\ ListedOnce /\ Matched /\ PictureSound(t)
      /\ job[t].todo \in Seq(Actions) /\ job[t].todo # <<>> /\ job[t].next = 1
      /\ a \in Actions
  BY <1>0, <1>1, MakingScene
<1>3. CASE scene' = scene /\ Finish(t)
  <2>1. Within /\ UNCHANGED <<groupVars, sceneVars>>
    BY <1>1, <1>3 DEF sceneVars
  <2> QED BY <1>1, <1>3, <2>1, QuietFinish DEF Handling
<1>4. ASSUME scene' = [scene EXCEPT ![s] = File(Append(list, a))],
             Go(t, [job[t] EXCEPT !.todo = Tail(@),
                      !.at = IF Len(job[t].todo) = 1 THEN "store" ELSE "state"])
      PROVE  Inv'
  <2>1. PICK acts : acts = Append(list, a)
    OBVIOUS
  <2>2. acts \in Seq(Actions)
    BY <1>2, <2>1, Appended
  <2>3. /\ DOMAIN scene' = Scenes /\ scene'[s].is = "good" /\ scene'[s].has = acts
        /\ \A x \in Scenes : x # s => scene'[x] = scene[x]
    BY <1>2, <1>4, <2>1 DEF TableInv, File
  <2>4. TableInv' /\ ListedOnce' /\ ListsAgree'
    <3>1. \A x \in Scenes : scene'[x].is \in {"none", "good"} /\ scene'[x].has \in Seq(Actions)
      <4> TAKE x \in Scenes
      <4>1. CASE x = s
        BY <2>2, <2>3, <4>1
      <4>2. CASE x # s
        BY <1>2, <2>3, <4>2 DEF TableInv
      <4> QED BY <4>1, <4>2
    <3> QED BY <1>1, <1>2, <2>3, <3>1 DEF TableInv, ListedOnce, ListsAgree, Matched, groupVars
  <2> DEFINE j == [job[t] EXCEPT !.todo = Tail(@),
                     !.at = IF Len(job[t].todo) = 1 THEN "store" ELSE "state"]
  <2>5. /\ DOMAIN j = DOMAIN Idle /\ j.at = IF Len(job[t].todo) = 1 THEN "store" ELSE "state"
        /\ j.id = s /\ j.op = "scene" /\ j.todo = Tail(job[t].todo) /\ j.next = 1
        /\ j.user = job[t].user /\ Go(t, j)
    BY <1>0, <1>2, <1>4 DEF Idle
  <2> HIDE DEF j
  <2>6. ASSUME job'[t] = j PROVE Agreeable(t)
    <3>1. /\ job'[t].at = IF Len(job[t].todo) = 1 THEN "store" ELSE "state"
          /\ job'[t].id = s /\ job'[t].op = "scene" /\ job'[t].todo = Tail(job[t].todo)
          /\ job'[t].next = 1
      BY <2>5, <2>6
    <3>2. TodoSound(t)'
      <4>1. CASE Len(job[t].todo) = 1
        <5>1. Len(addrs') \in Nat
          BY <2>4 DEF TableInv
        <5>2. 1 \in 1..(Len(addrs') + 1)
          BY <5>1
        <5> QED BY <3>1, <4>1, <5>2 DEF TodoSound, At
      <4>2. CASE Len(job[t].todo) # 1
        <5>1. Tail(job[t].todo) \in Seq(Actions) /\ Tail(job[t].todo) # <<>>
          BY <1>2, <4>2, Shortened
        <5> QED BY <3>1, <4>2, <5>1 DEF TodoSound, At
      <4> QED BY <4>1, <4>2
    <3>3. PictureSound(t)'
      <4>1. Carried(t)' = acts /\ Carried(t) = acts
        BY <1>0, <1>1, <2>1, <2>3, <3>1 DEF Carried, At
      <4>2. /\ Range(addrs) \subseteq DevsOf(Carried(t))
            /\ \A d \in Devs \ upset : asked[d] # None => d \in Range(addrs) /\ Kept(d)
        BY <1>1, <1>2 DEF PictureSound
      <4>3. Range(addrs') \subseteq DevsOf(Carried(t)')
        BY <1>1, <4>1, <4>2
      <4>4. \A d \in Devs \ upset' : asked'[d] # None => d \in Range(addrs') /\ Kept(d)'
        BY <1>1, <4>2 DEF Kept, groupVars
      <4>5. \A m \in 1..(job'[t].next - 1) : FALSE
        BY <3>1
      <4>6. SceneReadable(job[t].id)' /\ job'[t].op = "scene" /\ job'[t].id \in Scenes
        BY <1>2, <2>3, <3>1 DEF SceneReadable
      <4> QED BY <3>1, <4>3, <4>4, <4>5, <4>6 DEF PictureSound, DevsOf
    <3> QED BY <2>4, <3>1, <3>2, <3>3 DEF Agreeable, PairSound, CastSound, At
  <2>7. j.at \in Handling \ {"wipe"}
    BY <2>5 DEF Handling
  <2>8. job[t].at \in Handling \ {"wipe"}
    BY <1>1 DEF Handling
  <2> QED BY <1>1, <2>4, <2>5, <2>6, <2>7, <2>8, Working
<1> QED BY <1>1, <1>3, <1>4

\* A device notes the picture, or forgets it.
LEMMA HoldsStay ==
    ASSUME TableInv, NEW d \in Devs, NEW x, NEW v \in Values \cup {None},
           holds' = holds \/ holds' = [holds EXCEPT ![d][x] = v]
    PROVE  holds' \in [Devs -> [Scenes -> Values \cup {None}]]
<1>1. holds \in [Devs -> [Scenes -> Values \cup {None}]]
  BY DEF TableInv
<1>2. [holds[d] EXCEPT ![x] = v] \in [Scenes -> Values \cup {None}]
  BY <1>1
<1> QED BY <1>1, <1>2

LEMMA StoreSceneStep ==
    ASSUME Inv, NEW t \in Clients, StoreScene(t)
    PROVE  Inv'
<1>0. PICK s, n, d : s = job[t].id /\ n = job[t].next /\ d = addrs[n]
  OBVIOUS
<1>1. /\ job[t].at = "store" /\ n <= Len(addrs) /\ Within
      /\ UNCHANGED <<groupVars, addrs, queue, scene, asked>>
      /\ Go(t, [job[t] EXCEPT !.next = @ + 1])
  BY <1>0 DEF StoreScene, At
<1>2. /\ DOMAIN job[t] = DOMAIN Idle /\ s \in Scenes /\ job[t].op = "scene" /\ scene[s].is = "good"
      /\ TableInv /\ ListedOnce /\ Matched /\ PictureSound(t) /\ n \in 1..(Len(addrs) + 1)
  BY <1>0, <1>1, MakingScene DEF TodoSound, At
<1>3. n \in 1..Len(addrs) /\ d \in Devs /\ addrs \in Seq(Devs)
  <2>1. addrs \in Seq(Devs) /\ Len(addrs) \in Nat
    BY <1>2 DEF TableInv
  <2>2. n \in 1..Len(addrs)
    BY <1>1, <1>2, <2>1
  <2> QED BY <1>0, <2>1, <2>2
<1>4. \/ d \notin known /\ UNCHANGED <<holds, upset>>
      \/ \E r \in Outcomes :
            /\ holds' = IF Acts(r) THEN [holds EXCEPT ![d][s] = state[d]] ELSE holds
            /\ upset' = IF Acts(r) /\ d \notin Waiting(queue) THEN upset ELSE upset \cup {d}
  BY <1>0 DEF StoreScene
<1>5. /\ holds' = holds \/ holds' = [holds EXCEPT ![d][s] = state[d]]
      /\ upset' = upset \/ upset' = upset \cup {d}
  BY <1>4
<1>6. TableInv' /\ ListedOnce' /\ ListsAgree'
  <2>1. holds' \in [Devs -> [Scenes -> Values \cup {None}]]
    <3>1. state[d] \in Values \cup {None}
      BY <1>2, <1>3 DEF TableInv
    <3> QED BY <1>2, <1>3, <1>5, <3>1, HoldsStay
  <2>2. upset' \subseteq Devs
    BY <1>2, <1>3, <1>5 DEF TableInv
  <2> QED BY <1>1, <1>2, <2>1, <2>2 DEF TableInv, ListedOnce, ListsAgree, Matched, groupVars
<1>7. d \in known \ upset' => d \notin Waiting(queue) /\ holds'[d][s] = state[d]
  <2> SUFFICES ASSUME d \in known \ upset' PROVE d \notin Waiting(queue) /\ holds'[d][s] = state[d]
    OBVIOUS
  <2>1. PICK r \in Outcomes :
            /\ holds' = IF Acts(r) THEN [holds EXCEPT ![d][s] = state[d]] ELSE holds
            /\ upset' = IF Acts(r) /\ d \notin Waiting(queue) THEN upset ELSE upset \cup {d}
    BY <1>4
  <2>2. Acts(r) /\ d \notin Waiting(queue)
    BY <2>1
  <2> QED BY <1>2, <1>3, <2>1, <2>2 DEF TableInv
<1>8. /\ \A y \in Devs : y # d => holds'[y] = holds[y]
      /\ upset \subseteq upset'
  BY <1>2, <1>5 DEF TableInv
<1> DEFINE j == [job[t] EXCEPT !.next = @ + 1]
<1>9. /\ DOMAIN j = DOMAIN Idle /\ j.at = "store" /\ j.id = s /\ j.op = "scene"
      /\ j.next = n + 1 /\ j.user = job[t].user /\ Go(t, j)
  BY <1>0, <1>1, <1>2 DEF Idle
<1> HIDE DEF j
<1>10. ASSUME job'[t] = j PROVE Agreeable(t)
  <2>1. /\ job'[t].at = "store" /\ job'[t].id = s /\ job'[t].op = "scene" /\ job'[t].next = n + 1
    BY <1>9, <1>10
  <2>2. TodoSound(t)'
    <3>1. n + 1 \in 1..(Len(addrs') + 1)
      BY <1>1, <1>3
    <3> QED BY <2>1, <3>1 DEF TodoSound, At
  <2>3. PictureSound(t)'
    <3>1. Carried(t)' = Carried(t)
      BY <1>0, <1>1, <2>1 DEF Carried, At
    <3>2. /\ Range(addrs) \subseteq DevsOf(Carried(t))
          /\ \A e \in Devs \ upset : asked[e] # None => e \in Range(addrs) /\ Kept(e)
          /\ \A m \in 1..(n - 1) :
                addrs[m] \in known \ upset /\ asked[addrs[m]] # None =>
                    holds[addrs[m]][s] = asked[addrs[m]]
      BY <1>0, <1>1, <1>2 DEF PictureSound, At
    <3>3. Range(addrs') \subseteq DevsOf(Carried(t)')
      BY <1>1, <3>1, <3>2
    <3>4. \A e \in Devs : Kept(e)' <=> Kept(e)
      BY <1>1 DEF Kept, groupVars
    <3>5. \A e \in Devs \ upset' : asked'[e] # None => e \in Range(addrs') /\ Kept(e)'
      BY <1>1, <1>8, <3>2, <3>4
    <3>6. ASSUME NEW m \in 1..n, addrs[m] \in known \ upset', asked[addrs[m]] # None
          PROVE  holds'[addrs[m]][s] = asked[addrs[m]]
      <4>1. CASE addrs[m] = d
        <5>1. Kept(d) /\ d \notin Waiting(queue) /\ holds'[d][s] = state[d]
          BY <1>3, <1>7, <1>8, <3>2, <3>6, <4>1
        <5> QED BY <4>1, <5>1 DEF Kept
      <4>2. CASE addrs[m] # d
        <5>1. m \in 1..(n - 1) /\ addrs[m] \in Devs
          BY <1>0, <1>3, <4>2
        <5>2. holds[addrs[m]][s] = asked[addrs[m]]
          BY <1>8, <3>2, <3>6, <5>1
        <5> QED BY <1>8, <4>2, <5>1, <5>2
      <4> QED BY <4>1, <4>2
    <3>7. \A m \in 1..(job'[t].next - 1) :
             addrs'[m] \in known' \ upset' /\ asked'[addrs'[m]] # None =>
                 holds'[addrs'[m]][job'[t].id] = asked'[addrs'[m]]
      <4>1. job'[t].next - 1 = n /\ job'[t].id = s
        BY <1>3, <2>1
      <4> QED BY <1>1, <3>6, <4>1 DEF groupVars
    <3>8. SceneReadable(job[t].id)' /\ job'[t].op = "scene" /\ job'[t].id \in Scenes
      BY <1>1, <1>2, <2>1 DEF SceneReadable
    <3> QED BY <3>3, <3>5, <3>7, <3>8 DEF PictureSound, DevsOf
  <2> QED BY <1>6, <2>1, <2>2, <2>3 DEF Agreeable, PairSound, CastSound, At
<1> QED BY <1>1, <1>6, <1>9, <1>10, Working DEF Handling


LEMMA SceneStoredStep ==
    ASSUME Inv, NEW t \in Clients, SceneStored(t)
    PROVE  Inv'
<1>1. /\ job[t].at = "store" /\ Within /\ UNCHANGED <<groupVars, queue, scene, holds>>
      /\ addrs' = <<>> /\ asked' = NothingAsked /\ upset' = {} /\ Finish(t)
  BY DEF SceneStored, At
<1>2. TableInv /\ ListedOnce /\ Matched
  BY <1>1, MakingScene
<1>3. TableInv' /\ ListedOnce' /\ ListsAgree'
  <2>1. addrs' \in Seq(Devs) /\ Cardinality(Range(addrs')) = Len(addrs')
    BY <1>1, NoneNoted, Zenon
  <2> QED BY <1>1, <1>2, <2>1
          DEF TableInv, NothingAsked, ListedOnce, ListsAgree, Matched, groupVars
<1>4. users' \subseteq Users /\ gate' = gate /\ buf' = buf
  BY <1>1 DEF Within, Inv, GateInv
<1> QED BY <1>1, <1>3, <1>4, Finished DEF Handling


-----------------------------------------------------------------------------
(* Scenes are recalled and deleted.                                         *)

LEMMA RecallSceneStep ==
    ASSUME Inv, NEW t \in Clients, NEW s \in Scenes, RecallScene(t, s)
    PROVE  Inv'
<1>1. /\ Handle(t, "recall_scene", Answer(1))
      /\ UNCHANGED <<known, obeys, group, strays, sceneVars>>
      /\ \E heard \in SUBSET {d \in Devs : holds[d][s] # None} :
            state' = [d \in Devs |-> IF d \in heard THEN holds[d][s] ELSE state[d]]
  BY DEF RecallScene
<1>2. Matched /\ TableInv /\ ListedOnce
  BY <1>1, EntersMatched
<1>3. state' \in [Devs -> Values]
  <2>1. PICK heard \in SUBSET {d \in Devs : holds[d][s] # None} :
            state' = [d \in Devs |-> IF d \in heard THEN holds[d][s] ELSE state[d]]
    BY <1>1
  <2>2. \A d \in heard : holds[d][s] \in Values
    BY <1>2 DEF TableInv
  <2> QED BY <1>2, <2>1, <2>2 DEF TableInv
<1>4. TableInv' /\ ListedOnce' /\ ListsAgree'
  BY <1>1, <1>2, <1>3 DEF TableInv, ListedOnce, Matched, ListsAgree, sceneVars
<1> QED BY <1>1, <1>4, AnsweredEntry

LEMMA DeleteSceneStep ==
    ASSUME Inv, NEW t \in Clients, NEW s \in Scenes, DeleteScene(t, s)
    PROVE  Inv'
<1>1. PICK del : del = [k \in DOMAIN scene[s].has |-> scene[s].has[k].dev]
  OBVIOUS
<1> DEFINE j == [Idle EXCEPT !.at = "forget", !.op = "drop", !.id = s, !.del = del]
<1>2. /\ DOMAIN j = DOMAIN Idle /\ j.at = "forget" /\ Handle(t, "del_scene", j)
      /\ UNCHANGED <<groupVars, sceneVars>>
  BY <1>1 DEF DeleteScene, Idle
<1> HIDE DEF j
<1> QED BY <1>2, QuietEntry

LEMMA ForgetSceneStep ==
    ASSUME Inv, NEW t \in Clients, ForgetScene(t)
    PROVE  Inv'
<1>0. PICK s, d : s = job[t].id /\ d = Head(job[t].del)
  OBVIOUS
<1>1. /\ job[t].at = "forget" /\ Within /\ UNCHANGED <<groupVars, addrs, queue, scene, asked, upset>>
      /\ Go(t, [job[t] EXCEPT !.del = Tail(@)]) /\ DOMAIN job[t] = DOMAIN Idle
      /\ TableInv /\ ListedOnce
  BY DEF ForgetScene, At, Inv, GateInv, Tasks
<1>2. Matched
  BY <1>1, MatchedBefore
<1>3. holds' = holds \/ (d \in known /\ holds' = [holds EXCEPT ![d][s] = None])
  BY <1>0 DEF ForgetScene
<1>4. TableInv' /\ ListedOnce' /\ ListsAgree'
  <2>1. holds' \in [Devs -> [Scenes -> Values \cup {None}]]
    <3>1. CASE holds' = holds
      BY <1>1, <3>1 DEF TableInv
    <3>2. CASE d \in known /\ holds' = [holds EXCEPT ![d][s] = None]
      BY <1>1, <3>2, HoldsStay DEF TableInv
    <3> QED BY <1>3, <3>1, <3>2
  <2> QED BY <1>1, <1>2, <2>1 DEF TableInv, ListedOnce, ListsAgree, Matched, groupVars
<1> DEFINE j == [job[t] EXCEPT !.del = Tail(@)]
<1>5. DOMAIN j = DOMAIN Idle /\ j.at = "forget" /\ j.user = job[t].user /\ Go(t, j)
  BY <1>1 DEF Idle
<1> HIDE DEF j
<1>6. job'[t] = j => Agreeable(t)
  BY <1>4, <1>5 DEF Agreeable, PairSound, TodoSound, PictureSound, CastSound, At
<1> QED BY <1>1, <1>4, <1>5, <1>6, Working DEF Handling

LEMMA DropSceneStep ==
    ASSUME Inv, NEW t \in Clients, DropScene(t)
    PROVE  Inv'
<1>1. /\ job[t].at = "forget" /\ Within /\ UNCHANGED <<groupVars, addrs, queue, holds, asked, upset>>
      /\ scene' = [scene EXCEPT ![job[t].id] = NoFile] /\ Finish(t)
      /\ TableInv /\ ListedOnce
  BY DEF DropScene, At, Inv
<1>2. Matched
  BY <1>1, MatchedBefore
<1>3. TableInv' /\ ListedOnce' /\ ListsAgree'
  <2>1. NoFile.is = "none" /\ NoFile.has = <<>> /\ <<>> \in Seq(Actions)
    BY DEF NoFile
  <2>2. \A x \in Scenes : scene'[x] = NoFile \/ scene'[x] = scene[x]
    BY <1>1 DEF TableInv
  <2>3. DOMAIN scene' = Scenes
        /\ \A x \in Scenes : scene'[x].is \in {"none", "good"} /\ scene'[x].has \in Seq(Actions)
    BY <1>1, <2>1, <2>2 DEF TableInv
  <2> QED BY <1>1, <1>2, <2>3 DEF TableInv, ListedOnce, ListsAgree, Matched, groupVars
<1>4. users' \subseteq Users /\ gate' = gate /\ buf' = buf
  BY <1>1 DEF Within, Inv, GateInv
<1> QED BY <1>1, <1>3, <1>4, Finished DEF Handling

LEMMA SceneSteps ==
    ASSUME Inv, NEW t \in Tasks, SceneRequest(t) \/ SceneStep(t)
    PROVE  Inv'
<1>1. t \in Clients
  <2>1. t \in Clients \/ t \in Engines
    BY DEF Tasks
  <2>2. ASSUME t \in Engines PROVE t \in Clients
    <3>1. job[t].at \in {"idle", "cast"}
      BY <2>2 DEF Inv, GateInv
    <3> QED BY <3>1 DEF SceneRequest, SceneStep, CreateScene, RecallScene, DeleteScene, Handle, Enter,
                        SetState, AddAction, StoreScene, SceneStored, ForgetScene, DropScene, At
  <2> QED BY <2>1, <2>2
<1>2. CASE CreateScene(t) \/ \E s \in Scenes : RecallScene(t, s) \/ DeleteScene(t, s)
  BY <1>1, <1>2, CreateSceneStep, RecallSceneStep, DeleteSceneStep
<1>3. CASE SceneStep(t)
  BY <1>1, <1>3, SetStateStep, AddActionStep, StoreSceneStep, SceneStoredStep, ForgetSceneStep,
     DropSceneStep DEF SceneStep
<1> QED BY <1>2, <1>3 DEF SceneRequest

-----------------------------------------------------------------------------
(* Stops and starts.                                                        *)

LEMMA RestartStep ==
    ASSUME Inv, Restart
    PROVE  Inv'
<1>1. /\ gate' = 1 /\ buf' = <<>> /\ job' = [t \in Tasks |-> Idle] /\ addrs' = <<>>
      /\ queue' = <<>> /\ asked' = NothingAsked /\ upset' = {}
      /\ UNCHANGED <<known, obeys, state, group, scene, holds, users>>
      /\ strays' = strays \cup
           {p \in Groups \X Devs : Between("record", p[1], p[2]) \cup Between("unrecord", p[1], p[2]) # {}}
  BY DEF Restart, GateRestart
<1>2. \A t \in Tasks : job'[t] = Idle /\ job'[t].at = "idle"
  BY <1>1 DEF Idle
<1>3. GateInv'
  BY <1>1, <1>2 DEF Inv, GateInv, Places, Tasks
<1>4. BufInv'
  BY <1>1, GateAssumption DEF BufInv
<1>5. TableInv' /\ ListedOnce'
  <2>1. addrs' \in Seq(Devs) /\ Cardinality(Range(addrs')) = Len(addrs')
    BY <1>1, NoneNoted, Zenon
  <2>2. queue' \in Seq(Actions \cup Casts) /\ asked' \in [Devs -> Values \cup {None}]
    BY <1>1 DEF NothingAsked
  <2> QED BY <1>1, <2>1, <2>2 DEF Inv, TableInv, ListedOnce
<1>6. ListsAgree'
  <2> SUFFICES ASSUME NEW g \in Groups, NEW d \in Devs, <<g, d>> \notin strays'
               PROVE  (d \in Range(group'[g].has)) = (g \in obeys'[d])
    BY DEF ListsAgree
  <2>1. <<g, d>> \notin strays /\ Between("record", g, d) \cup Between("unrecord", g, d) = {}
    BY <1>1
  <2> QED BY <1>1, <2>1 DEF Inv, ListsAgree
<1>7. \A t \in Tasks : Sound(t)' /\ CastSound(t)'
  BY <1>2 DEF Sound, AnswerSound, UserSound, PairSound, TodoSound, PictureSound, CastSound, At,
              Handling
<1> QED BY <1>3, <1>4, <1>5, <1>6, <1>7 DEF Inv, Tasks

\* A step that leaves all the invariant speaks of alone.
LEMMA StillStep ==
    ASSUME Inv, UNCHANGED <<groupVars, sceneVars, gate, buf, users, job>>
    PROVE  Inv'
<1>1. GateInv' /\ BufInv' /\ TableInv' /\ ListedOnce'
  BY DEF Inv, GateInv, BufInv, TableInv, ListedOnce, groupVars, sceneVars
<1>2. ListsAgree'
  BY DEF Inv, ListsAgree, Between, At, groupVars
<1>3. ASSUME NEW t \in Clients PROVE Sound(t)'
  <2>1. Sound(t)
    BY DEF Inv
  <2>2. AnswerSound(t)' /\ UserSound(t)' /\ PairSound(t)' /\ TodoSound(t)'
    BY <2>1 DEF Sound, AnswerSound, UserSound, Known, PairSound, TodoSound, At, groupVars, sceneVars
  <2>3. PictureSound(t)'
    BY <2>1 DEF Sound, PictureSound, At, SceneReadable, Carried, Kept, groupVars, sceneVars
  <2> QED BY <2>2, <2>3 DEF Sound
<1>4. \A t \in Tasks : CastSound(t)'
  BY DEF Inv, CastSound, At
<1> QED BY <1>1, <1>2, <1>3, <1>4 DEF Inv

LEMMA InitInv == Init => Inv
<1> SUFFICES ASSUME Init PROVE Inv
  OBVIOUS
<1>1. \A t \in Tasks : job[t] = Idle /\ job[t].at = "idle"
  BY DEF Init, GateInit, Idle
<1>2. GateInv
  BY <1>1 DEF Init, GateInit, GateInv, Places, Tasks
<1>3. BufInv
  BY GateAssumption DEF Init, GateInit, BufInv
<1>4. ASSUME NEW g \in Groups
      PROVE  \/ group[g] = NoFile
             \/ \E s \in Seq(Devs) :
                   Len(s) <= MemberMax /\ Cardinality(Range(s)) = Len(s) /\ group[g] = File(s)
  <2>1. group[g] \in {NoFile} \cup Before
    BY DEF Init, GroupInit
  <2>2. ASSUME group[g] \in Before
        PROVE  \E s \in Seq(Devs) :
                  Len(s) <= MemberMax /\ Cardinality(Range(s)) = Len(s) /\ group[g] = File(s)
    <3>1. PICK s \in Lists(Devs, MemberMax) :
             Cardinality(Range(s)) = Len(s) /\ group[g] = File(s)
      BY <2>2 DEF Before
    <3>2. PICK n \in 0..MemberMax : s \in [1..n -> Devs]
      BY <3>1 DEF Lists
    <3>3. s \in Seq(Devs) /\ Len(s) = n /\ n <= MemberMax
      BY <3>2, GroupAssumption
    <3> QED BY <3>1, <3>3
  <2> QED BY <2>1, <2>2
<1>5. /\ NoFile.has \in Seq(Devs) /\ NoFile.has \in Seq(Actions) /\ Len(NoFile.has) <= MemberMax
      /\ NoFile.is = "none" /\ NoFile.has = <<>> /\ DOMAIN NoFile = {"is", "has"}
      /\ Cardinality(Range(NoFile.has)) = Len(NoFile.has)
  <2>1. NoFile.is = "none" /\ NoFile.has = <<>> /\ DOMAIN NoFile = {"is", "has"}
    BY DEF NoFile
  <2>2. Len(<<>>) = 0 /\ <<>> \in Seq(Devs) /\ <<>> \in Seq(Actions) /\ 0 <= MemberMax
    BY GroupAssumption
  <2> QED BY <2>1, <2>2, NoneNoted
<1>6. \A g \in Groups :
         /\ DOMAIN group[g] = {"is", "has"} /\ group[g].is \in {"none", "raw", "good"}
         /\ group[g].has \in Seq(Devs) /\ Len(group[g].has) <= MemberMax
         /\ group[g].is # "good" => group[g].has = <<>>
         /\ Cardinality(Range(group[g].has)) = Len(group[g].has)
  <2> TAKE g \in Groups
  <2>1. CASE group[g] = NoFile
    BY <1>5, <2>1
  <2>2. ASSUME NEW s \in Seq(Devs), Len(s) <= MemberMax, Cardinality(Range(s)) = Len(s),
               group[g] = File(s)
        PROVE  /\ DOMAIN group[g] = {"is", "has"} /\ group[g].is \in {"none", "raw", "good"}
               /\ group[g].has \in Seq(Devs) /\ Len(group[g].has) <= MemberMax
               /\ group[g].is # "good" => group[g].has = <<>>
               /\ Cardinality(Range(group[g].has)) = Len(group[g].has)
    BY <2>2 DEF File
  <2> QED BY <1>4, <2>1, <2>2
<1>10. ListedOnce
  BY <1>6 DEF ListedOnce
<1>7. TableInv
  <2>1. DOMAIN group = Groups
    BY DEF Init, GroupInit
  <2>2. addrs \in Seq(Devs) /\ Cardinality(Range(addrs)) = Len(addrs)
    BY NoneNoted, Zenon DEF Init
  <2>3. \A s \in Scenes : scene[s].is \in {"none", "good"} /\ scene[s].has \in Seq(Actions)
    BY <1>5 DEF Init
  <2>4. state \in [Devs -> Values] /\ holds \in [Devs -> [Scenes -> Values \cup {None}]]
    BY DEF Init, GroupInit, Values
  <2>5. /\ known \subseteq Devs /\ obeys \in [Devs -> SUBSET Groups] /\ DOMAIN scene = Scenes
        /\ asked \in [Devs -> Values \cup {None}] /\ upset \subseteq Devs
        /\ queue \in Seq(Actions \cup Casts)
    BY DEF Init, GroupInit, NothingAsked
  <2> QED BY <1>6, <2>1, <2>2, <2>3, <2>4, <2>5 DEF TableInv
<1>8. ListsAgree
  BY DEF Init, GroupInit, ListsAgree
<1>9. \A t \in Tasks : Sound(t) /\ CastSound(t)
  BY <1>1, IdleSound
<1> QED BY <1>2, <1>3, <1>7, <1>8, <1>9, <1>10 DEF Inv, Tasks

LEMMA NextInv == Inv /\ [Next]_vars => Inv'
<1> SUFFICES ASSUME Inv, [Next]_vars PROVE Inv'
  OBVIOUS
<1>1. ASSUME NEW t \in Tasks,
             \/ GateStep(t) \/ GroupRequest(t) \/ GroupStep(t) \/ SceneRequest(t) \/ SceneStep(t)
      PROVE  Inv'
  BY <1>1, GateSteps, GroupSteps, SceneSteps
<1>2. ASSUME NEW t \in Tasks, Reboot(t) PROVE Inv'
  BY <1>2, RestartStep DEF Reboot
<1>3. CASE Crash
  BY <1>3, RestartStep DEF Crash
<1>4. ASSUME NEW g \in Groups, ReadRaw(g) \/ WarnGroup(g) PROVE Inv'
  BY <1>4, StillStep DEF ReadRaw, WarnGroup
<1>6. ASSUME NEW t \in Tasks, CommandDevice(t) PROVE Inv'
  BY <1>6, CommandDeviceStep
<1>7. CASE SendNext
  BY <1>7, SendNextStep
<1>5. CASE UNCHANGED vars
  BY <1>5, StillStep DEF vars, gateVars, groupVars, sceneVars
<1> QED BY <1>1, <1>2, <1>3, <1>4, <1>5, <1>6, <1>7 DEF Next

LEMMA SpecInv == Spec => []Inv
BY InitInv, NextInv, PTL DEF Spec

-----------------------------------------------------------------------------
\* The list of a group names each device once, and says what the devices
\* have in their own tables, but for the pairs that a lost answer, a failed
\* write, a crash or a deletion has parted (group_dev_join, group_dev_del).
THEOREM GroupsAgree == Spec => []ListsSound
<1>1. Inv => ListsSound
  BY DEF Inv, GateInv, BufInv, TableInv, ListsSound, TypeOK, GateTypeOK, GroupTypeOK
<1> QED BY <1>1, SpecInv, PTL

\* Whatever is sent is one whole answer of this client, or one error
\* (api_deal, api_answer_segment_send).
THEOREM OneAnswer == Spec => []AnswerWhole
<1>1. Inv => AnswerWhole
  BY DEF Inv, Sound, AnswerSound, AnswerWhole, Begun, Headed, At
<1> QED BY <1>1, SpecInv, PTL

\* Who asks is the super user, or a user until the request has been carried
\* out, unless it is the request that deletes the users (api_parse,
\* user_verify, database_del_all).
THEOREM UsersOnly == Spec => []OnlyUsersAct
<1>1. Inv => OnlyUsersAct
  BY DEF Inv, GateInv, Sound, UserSound, Known, OnlyUsersAct, Places, Handling, At, Tasks
<1> QED BY <1>1, SpecInv, PTL

\* A scene is stored by its own devices only, and by each with the state it was
\* asked for last, unless its command was still in the queue, it heard something
\* else in between, or it did not hear one of the two (scene_create,
\* scene_atcmd_send, zigbee_at_cmd_query_task).
THEOREM PicturesTrue == Spec => ScenesSound
<1>1. ASSUME Inv, NEW t \in Clients, At(t, "store"), StoreScene(t)
      PROVE  addrs[job[t].next] \in DevsOf(scene[job[t].id].has)
  <2>1. PictureSound(t) /\ TodoSound(t) /\ job[t].at = "store" /\ job[t].next <= Len(addrs)
        /\ addrs \in Seq(Devs)
    BY <1>1 DEF Inv, Sound, TableInv, At, StoreScene
  <2>2. Range(addrs) \subseteq DevsOf(scene[job[t].id].has)
    BY <2>1 DEF PictureSound, Carried, At
  <2>3. job[t].next \in 1..Len(addrs)
    BY <2>1 DEF TodoSound, At
  <2>4. addrs[job[t].next] \in Range(addrs)
    BY <2>1, <2>3 DEF Range
  <2> QED BY <2>2, <2>4
<1>2. ASSUME Inv, NEW t \in Clients, At(t, "store"), SceneStored(t),
             NEW d \in known \ upset, asked[d] # None
      PROVE  holds[d][job[t].id] = asked[d]
  <2>1. /\ PictureSound(t) /\ TodoSound(t) /\ job[t].at = "store" /\ job[t].next > Len(addrs)
        /\ addrs \in Seq(Devs) /\ d \in Devs
    BY <1>2 DEF Inv, Sound, TableInv, At, SceneStored
  <2>2. job[t].next - 1 = Len(addrs)
    BY <2>1 DEF TodoSound, At
  <2>3. d \in Range(addrs)
    BY <1>2, <2>1 DEF PictureSound
  <2>4. PICK m \in 1..Len(addrs) : addrs[m] = d
    BY <2>1, <2>3 DEF Range
  <2> QED BY <1>2, <2>1, <2>2, <2>4 DEF PictureSound, At
<1>3. Inv => \A t \in Clients :
         At(t, "store") /\ StoreScene(t) /\ SceneReadable(job[t].id) =>
            addrs[job[t].next] \in DevsOf(scene[job[t].id].has)
  BY <1>1
<1>4. Inv => \A t \in Clients :
         At(t, "store") /\ SceneStored(t) =>
            \A d \in known \ upset :
               asked[d] # None => holds[d][job[t].id] = asked[d]
  BY <1>2
<1> QED BY <1>3, <1>4, SpecInv, PTL DEF ScenesSound, OnlyItsDevices, PictureAsAsked

=============================================================================
