------------------------------ MODULE UserTable ------------------------------
(***************************************************************************)
(* database/user_data.c: the users of the API, a file with a sorted list   *)
(* of names, and a cache in memory of the users seen last.                 *)
(*                                                                         *)
(*   user_verify --> cache, else binary search in the file --> cache       *)
(*   user_add, user_del --> entries of the file one by one, then its       *)
(*                          count, then the indices kept in the cache      *)
(*                                                                         *)
(* The time a user was last seen is noted in the cache; it is written to   *)
(* the file when the user leaves the cache.                                *)
(*                                                                         *)
(* Every operation holds both semaphores from its first access to its      *)
(* last.  What other threads see of it is a time-out that changes nothing, *)
(* so only one operation is in the state.  A crash can fall between any    *)
(* two writes to the file, and any access to the file can fail.            *)
(***************************************************************************)
EXTENDS Integers, SequencesExt

CONSTANTS
    Names,      \* names of users: positive numbers, in the order of memcmp
    UserMax,    \* MUI_USER_NUM_MAX
    CacheMax,   \* MUI_USER_COMMON_NUM_MAX
    MaxTime,    \* bound: the clock
    MaxFaults   \* bound: crashes and failed accesses

ASSUME UserAssumption ==
    /\ Names \subseteq Nat \ {0} /\ UserMax \in Nat \ {0} /\ CacheMax \in Nat \ {0, 1}
    /\ MaxTime \in Nat /\ MaxFaults \in Nat

Slots == 0..(UserMax - 1)
Nobody == [name |-> 0, seen |-> 0]

VARIABLES
    list, total,  \* the file: asUserData and ui16Total
    cache,        \* s_sUserStateData up to the first empty entry
    pc, job,      \* the operation in progress
    now,          \* time()
    said,         \* the answer of the last operation
    torn,         \* history: an update of the file was cut short
    stale,        \* history: an access to the file failed since the start
    faults

vars == <<list, total, cache, pc, job, now, said, torn, stale, faults>>
Entry == [name: Names \cup {0}, seen: 0..MaxTime]
NoJob == [op |-> "none", name |-> 0, pos |-> 0, k |-> 0, before |-> <<>>]

Listed == [k \in 1..total |-> list[k - 1].name]
Named == Range(Listed)

-----------------------------------------------------------------------------
(* The file and the cache. *)

\* Where a name belongs: behind the last name looked at if that is smaller.
Place(m, up) == IF up THEN m + 1 ELSE m

\* s_user_rom_search_by_fd: the index of a name, and if it is not there
\* (found = FALSE) the index where it belongs.
Window == [lo: 0..UserMax, hi: 0..UserMax, last: 0..UserMax, up: BOOLEAN]
Search(n) ==
    LET find[w \in Window] ==
            LET m == (w.lo + w.hi) \div 2
                x == list[m].name
            IN  CASE m = w.last -> [found |-> FALSE, pos |-> Place(m, w.up)]
                  [] m # w.last /\ x = n -> [found |-> TRUE, pos |-> m]
                  [] m # w.last /\ x < n ->
                        find[[w EXCEPT !.lo = m, !.last = m, !.up = TRUE]]
                  [] OTHER -> find[[w EXCEPT !.hi = m, !.last = m, !.up = FALSE]]
    IN  find[[lo |-> 0, hi |-> total, last |-> total, up |-> FALSE]]

\* s_user_ram_search
Cached(n) == \E i \in DOMAIN cache : cache[i].name = n
CachedAt(n) == SelectInSeq(cache, LAMBDA c : c.name = n)

Touched(i) == [cache EXCEPT ![i].seen = now]

\* s_user_rom_bring_in_ram_by_fd: the entry that leaves the cache is written
\* back, the entry at "pos" comes first.
Evicted == Len(cache) = CacheMax
BringIn(c, l, pos) ==
    SubSeq(<<[idx |-> pos, name |-> l[pos].name, seen |-> now]>> \o c,
           1, IF Evicted THEN CacheMax ELSE Len(c) + 1)

\* Slip: the entry is dropped without a write.
WriteBackNever(c, l) == l

WriteBack(c, l) ==
    IF Evicted THEN [l EXCEPT ![Last(c).idx].seen = Last(c).seen] ELSE l

\* The same when the entry cannot be read: it gets the new index, with the
\* data of the entry that was first.
BringInUnread(pos) ==
    IF cache = <<>> THEN cache
    ELSE SubSeq(<<[cache[1] EXCEPT !.idx = pos, !.seen = now]>> \o cache,
                1, IF Evicted THEN CacheMax ELSE Len(cache) + 1)

\* Slip: the entry that was at the place keeps its index.
BumpedAfter(pos) ==
    [i \in DOMAIN cache |->
        [cache[i] EXCEPT !.idx = IF @ > pos THEN @ + 1 ELSE @]]

\* The indices after an insertion, and after a removal.
Bumped(pos) ==
    [i \in DOMAIN cache |->
        [cache[i] EXCEPT !.idx = IF @ >= pos THEN @ + 1 ELSE @]]

FirstAt(pos) == SelectInSeq(cache, LAMBDA c : c.idx = pos)

\* Slip: the removed user stays in the cache.
PulledKeep(pos) ==
    [i \in DOMAIN cache |->
        [cache[i] EXCEPT !.idx = IF @ > pos THEN @ - 1 ELSE @]]

Pulled(pos) ==
    LET c == IF FirstAt(pos) = 0 THEN cache ELSE RemoveAt(cache, FirstAt(pos))
    IN  [i \in DOMAIN c |-> [c[i] EXCEPT !.idx = IF @ > pos THEN @ - 1 ELSE @]]

-----------------------------------------------------------------------------
(* Operations. *)

Idle == pc = "idle"
Answer(n, a) == said' = <<n, a>>
History == UNCHANGED <<now, torn, stale, faults>>

\* user_data_init on an empty disk.
Init ==
    /\ list = [k \in Slots |-> Nobody] /\ total = 0 /\ cache = <<>>
    /\ pc = "idle" /\ job = NoJob /\ now = 0 /\ said = <<0, "none">>
    /\ torn = FALSE /\ stale = FALSE /\ faults = 0

\* user_data_verify
VerifyCached(n) ==
    /\ Idle /\ Cached(n)
    /\ cache' = Touched(CachedAt(n)) /\ Answer(n, "yes")
    /\ UNCHANGED <<list, total, pc, job>> /\ History

VerifyListed(n) ==
    /\ Idle /\ ~Cached(n) /\ Search(n).found
    /\ cache' = BringIn(cache, list, Search(n).pos)
    /\ list' = WriteBack(cache, list) /\ Answer(n, "yes")
    /\ UNCHANGED <<total, pc, job>> /\ History

VerifyUnknown(n) ==
    /\ Idle /\ ~Cached(n) /\ ~Search(n).found
    /\ Answer(n, "no")
    /\ UNCHANGED <<list, total, cache, pc, job>> /\ History

\* user_data_add
MayAdd(n) == ~Cached(n) /\ total < UserMax /\ ~Search(n).found

AddRefused(n) ==
    /\ Idle /\ ~MayAdd(n) /\ Answer(n, "no")
    /\ UNCHANGED <<list, total, cache, pc, job>> /\ History

AddStart(n) ==
    /\ Idle /\ MayAdd(n)
    /\ pc' = "shift"
    /\ job' = [op |-> "add", name |-> n, pos |-> Search(n).pos, k |-> total,
               before |-> Listed]
    /\ UNCHANGED <<list, total, cache, said>> /\ History

\* s_user_rom_insert_by_fd: the entries behind the place move up, the last
\* one first.
Shift ==
    /\ pc = "shift" /\ job.k > job.pos
    /\ list' = [list EXCEPT ![job.k] = list[job.k - 1]]
    /\ job' = [job EXCEPT !.k = @ - 1]
    /\ UNCHANGED <<total, cache, pc, said>> /\ History

Insert ==
    /\ pc = "shift" /\ job.k = job.pos
    /\ list' = [list EXCEPT ![job.pos] = [name |-> job.name, seen |-> now]]
    /\ pc' = "count"
    /\ UNCHANGED <<total, cache, job, said>> /\ History

CountUp ==
    /\ pc = "count"
    /\ total' = total + 1 /\ cache' = Bumped(job.pos) /\ pc' = "bring"
    /\ UNCHANGED <<list, job, said>> /\ History

AddDone ==
    /\ pc = "bring"
    /\ cache' = BringIn(cache, list, job.pos) /\ list' = WriteBack(cache, list)
    /\ Answer(job.name, "yes") /\ pc' = "idle" /\ job' = NoJob
    /\ UNCHANGED total /\ History

\* user_data_del
DelUnknown(n) ==
    /\ Idle /\ ~Search(n).found /\ Answer(n, "no")
    /\ UNCHANGED <<list, total, cache, pc, job>> /\ History

DelStart(n) ==
    /\ Idle /\ Search(n).found
    /\ pc' = "pull"
    /\ job' = [op |-> "del", name |-> n, pos |-> Search(n).pos, k |-> Search(n).pos,
               before |-> Listed]
    /\ UNCHANGED <<list, total, cache, said>> /\ History

\* s_user_rom_del_by_fd
Pull ==
    /\ pc = "pull" /\ job.k < total - 1
    /\ list' = [list EXCEPT ![job.k] = list[job.k + 1]]
    /\ job' = [job EXCEPT !.k = @ + 1]
    /\ UNCHANGED <<total, cache, pc, said>> /\ History

CountDown ==
    /\ pc = "pull" /\ job.k = total - 1
    /\ total' = total - 1 /\ cache' = Pulled(job.pos)
    /\ Answer(job.name, "yes") /\ pc' = "idle" /\ job' = NoJob
    /\ UNCHANGED list /\ History

\* user_data_del_all
DelAll ==
    /\ Idle
    /\ total' = 0 /\ cache' = <<>> /\ Answer(0, "yes")
    /\ torn' = FALSE /\ stale' = FALSE
    /\ UNCHANGED <<list, pc, job, now, faults>>

-----------------------------------------------------------------------------
(* The environment. *)

Tick == now < MaxTime /\ now' = now + 1
        /\ UNCHANGED <<list, total, cache, pc, job, said, torn, stale, faults>>

Fault == faults < MaxFaults /\ faults' = faults + 1

\* A read or write fails: the operation ends where it is, with the file as it
\* is then and the cache as it was.
AccessFails ==
    /\ pc \in {"shift", "count", "pull"} /\ Fault
    /\ Answer(job.name, "error") /\ pc' = "idle" /\ job' = NoJob
    /\ torn' = (torn \/ Listed # job.before)
    /\ stale' = (stale \/ Listed # job.before)
    /\ UNCHANGED <<list, total, cache, now>>

\* The entry cannot be read into the cache.
UnreadVerify(n) ==
    /\ Idle /\ ~Cached(n) /\ Search(n).found /\ Fault
    /\ cache' = BringInUnread(Search(n).pos) /\ list' = WriteBack(cache, list)
    /\ Answer(n, "error") /\ stale' = TRUE
    /\ UNCHANGED <<total, pc, job, now, torn>>

UnreadAdd ==
    /\ pc = "bring" /\ Fault
    /\ cache' = BringInUnread(job.pos) /\ list' = WriteBack(cache, list)
    /\ Answer(job.name, "error") /\ stale' = TRUE /\ pc' = "idle" /\ job' = NoJob
    /\ UNCHANGED <<total, now, torn>>

\* user_data_init after a crash: the file as it is, the cache empty.
Crash ==
    /\ Fault
    /\ cache' = <<>> /\ pc' = "idle" /\ job' = NoJob /\ said' = <<0, "none">>
    /\ torn' = (torn \/ (pc \in {"shift", "count", "pull"} /\ Listed # job.before))
    /\ stale' = FALSE
    /\ UNCHANGED <<list, total, now>>

Verify(n) == VerifyCached(n) \/ VerifyListed(n) \/ VerifyUnknown(n)
Add(n) == AddRefused(n) \/ AddStart(n)
Del(n) == DelUnknown(n) \/ DelStart(n)

Next ==
    \/ \E n \in Names : Verify(n) \/ Add(n) \/ Del(n) \/ UnreadVerify(n)
    \/ Shift \/ Insert \/ CountUp \/ AddDone \/ Pull \/ CountDown \/ DelAll
    \/ Tick \/ AccessFails \/ UnreadAdd \/ Crash

Spec == Init /\ [][Next]_vars

-----------------------------------------------------------------------------
(* Properties. *)

\* The state stays in its ranges: at most UserMax users, at most CacheMax of
\* them in the cache.
TypeOK ==
    /\ list \in [Slots -> Entry] /\ total \in 0..UserMax
    /\ cache \in Seq([idx: Nat, name: Names, seen: 0..MaxTime]) /\ Len(cache) <= CacheMax
    /\ pc \in {"idle", "shift", "count", "bring", "pull"}
    /\ job \in [op: {"none", "add", "del"}, name: Names \cup {0}, pos: 0..UserMax,
                k: 0..UserMax, before: Seq(Names)]

\* What the binary search relies on: the list is in order at every instant,
\* in the middle of an update, after a failed one and after a crash.
FileSorted == \A i \in 0..(total - 2) : list[i].name <= list[i + 1].name

\* An entry of the cache has the index of its user in the file, and no user
\* is there twice; its time of use will be written to that index.
CacheAgrees ==
    (Idle /\ ~stale) =>
        /\ \A i \in DOMAIN cache :
              cache[i].idx < total /\ list[cache[i].idx].name = cache[i].name
        /\ \A i, j \in DOMAIN cache : cache[i].name = cache[j].name => i = j

\* The time a user was last seen, as the program would find it, never goes
\* back while it runs: it is not lost when the user leaves the cache.
Seen(n) ==
    IF Cached(n) THEN cache[CachedAt(n)].seen
    ELSE list[CHOOSE k \in 0..(total - 1) : list[k].name = n].seen
SeenKept ==
    [][(faults' = faults /\ ~torn' /\ ~stale')
          => \A n \in Named \cap Named' : Seen(n)' >= Seen(n)]_vars

\* The list keeps the promise of UserSet.  The set is the one before the
\* update until the count is written.
Users == IF pc \in {"shift", "count", "pull"} THEN Range(job.before) ELSE Named
Promise == INSTANCE UserSet WITH users <- Users
KeepsPromise == Promise!Spec

\* The file can be searched and the cache points to the right entries of it.
ListSound == TypeOK /\ FileSorted /\ CacheAgrees
=============================================================================
