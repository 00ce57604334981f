--------------------------- MODULE UserTableProofs ---------------------------
(***************************************************************************)
(* The list of users for any number of names, any size of list and cache:  *)
(* the binary search finds what is there, the file stays in order through  *)
(* every write, failure and crash, the cache points where it should, the   *)
(* list implements the abstract set of users, and the time a user was last *)
(* seen never goes back.  After it the other table that is kept twice:     *)
(* G_Schedule_Ram follows the files, for any number of schedules.          *)
(***************************************************************************)
EXTENDS UserTable, ScheduleTable, FiniteSetTheorems, WellFoundedInduction, TLAPS

-----------------------------------------------------------------------------
(* Tail recursion that gets smaller: it has a value, and what a step hands *)
(* on holds of every argument.                                             *)

LEMMA LeastBy ==
    ASSUME NEW S, S \subseteq Nat, S # {}, NEW R, IsWellFoundedOn(R, Nat),
           \A x, y \in Nat : <<y, x>> \in R <=> y < x
    PROVE  \E x \in S : \A y \in S : x <= y
<1>1. PICK x \in S : \A y \in S : <<y, x>> \notin R
  BY WFMin
<1>2. ASSUME NEW y \in S PROVE x <= y
  <2>1. ~(y < x) /\ x \in Nat /\ y \in Nat
    BY <1>1, <1>2
  <2> QED BY <2>1
<1> QED BY <1>2

\* A set of numbers has a smallest one.
LEMMA HasLeast ==
    ASSUME NEW S, S \subseteq Nat, S # {}
    PROVE  \E x \in S : \A y \in S : x <= y
<1>1. IsWellFoundedOn(OpToRel(<, Nat), Nat)
  BY NatLessThanWellFounded
<1>2. \A x, y \in Nat : <<y, x>> \in OpToRel(<, Nat) <=> y < x
  BY DEF OpToRel
<1> QED BY <1>1, <1>2, LeastBy, Zenon

\* Where "stop" says so the result is "res", elsewhere that of "next".
Turn(A, stop, next, res, f) == [a \in A |-> IF a \in stop THEN res[a] ELSE f[next[a]]]
Shrinks(A, stop, next, size) == \A a \in A \ stop : size[next[a]] < size[a]

\* A loop that shrinks has a result.
LEMMA LoopEnds ==
    ASSUME NEW A, NEW stop, NEW next \in [A -> A], NEW res,
           NEW N \in Nat, NEW size \in [A -> 0..N], Shrinks(A, stop, next, size)
    PROVE  \E f : f = Turn(A, stop, next, res, f)
<1> DEFINE Holds(n, f) == \A a \in A : size[a] < n =>
                              f[a] = IF a \in stop THEN res[a] ELSE f[next[a]]
           Bad == {n \in Nat : \A f : ~Holds(n, f)}
<1>1. ASSUME NEW n \in Nat, NEW f, Holds(n, f)
      PROVE  Holds(n + 1, Turn(A, stop, next, res, f))
  <2> DEFINE g == Turn(A, stop, next, res, f)
  <2>1. \A a \in A : g[a] = IF a \in stop THEN res[a] ELSE f[next[a]]
    BY DEF Turn
  <2> HIDE DEF g
  <2>2. ASSUME NEW a \in A, size[a] < n + 1, a \notin stop
        PROVE  g[a] = g[next[a]]
    <3>1. next[a] \in A /\ size[next[a]] < size[a]
      BY <2>2 DEF Shrinks
    <3>2. size[next[a]] < n
      BY <2>2, <3>1
    <3> QED BY <2>1, <2>2, <3>1, <3>2, <1>1
  <2>3. ASSUME NEW a \in A, a \in stop PROVE g[a] = res[a]
    BY <2>1, <2>3
  <2>4. Holds(n + 1, g)
    BY <2>2, <2>3
  <2> QED BY <2>4 DEF g
<1>2. Bad = {}
  <2>1. SUFFICES ASSUME Bad # {} PROVE FALSE
    OBVIOUS
  <2>2. PICK n \in Bad : \A m \in Bad : n <= m
    BY <2>1, HasLeast
  <2>3. CASE n = 0
    <3>1. Holds(0, res)
      OBVIOUS
    <3> QED BY <2>3, <3>1
  <2>4. CASE n # 0
    <3>1. n - 1 \in Nat /\ n - 1 \notin Bad /\ (n - 1) + 1 = n
      BY <2>2, <2>4
    <3>2. PICK f : Holds(n - 1, f)
      BY <3>1
    <3>3. Holds(n, Turn(A, stop, next, res, f))
      <4> HIDE DEF Holds
      <4> QED BY <1>1, <3>1, <3>2
    <3> HIDE DEF Holds
    <3> QED BY <3>3
  <2> QED BY <2>3, <2>4
<1>3. PICK f : Holds(N + 1, f)
  <2>1. N + 1 \in Nat
    OBVIOUS
  <2> HIDE DEF Holds
  <2> QED BY <1>2, <2>1
<1> DEFINE g == [a \in A |-> f[a]]
<1>4. \A a \in A : size[a] < N + 1
  OBVIOUS
<1>5. \A a \in A : g[a] = IF a \in stop THEN res[a] ELSE g[next[a]]
  BY <1>3, <1>4
<1>6. g = Turn(A, stop, next, res, g)
  BY <1>5 DEF Turn
<1> QED BY <1>6

\* What holds where it stops, and before a step if after it, holds everywhere.
LEMMA LoopKeeps ==
    ASSUME NEW A, NEW stop, NEW next \in [A -> A],
           NEW N \in Nat, NEW size \in [A -> 0..N], Shrinks(A, stop, next, size),
           NEW S, \A a \in A : a \in stop \/ next[a] \in S => a \in S
    PROVE  A \subseteq S
<1> SUFFICES ASSUME NEW b \in A, b \notin S PROVE FALSE
  OBVIOUS
<1> DEFINE M == {size[a] : a \in A \ S}
<1>1. M \subseteq Nat /\ M # {}
  OBVIOUS
<1>2. PICK n \in M : \A m \in M : n <= m
  BY <1>1, HasLeast
<1>3. PICK a \in A \ S : n = size[a]
  OBVIOUS
<1>4. a \notin stop /\ next[a] \notin S /\ next[a] \in A
  BY <1>3
<1>5. size[next[a]] < size[a] /\ size[next[a]] \in M
  BY <1>3, <1>4 DEF Shrinks
<1>6. size[a] <= size[next[a]] /\ size[a] \in Int /\ size[next[a]] \in Int
  BY <1>2, <1>3, <1>4, <1>5
<1> QED BY <1>5, <1>6

-----------------------------------------------------------------------------
(* The binary search. *)

Mid(w) == (w.lo + w.hi) \div 2
Over(n) == {w \in Window : Mid(w) = w.last \/ list[Mid(w)].name = n}
Half(n) ==
    [w \in Window |->
        IF list[Mid(w)].name < n THEN [w EXCEPT !.lo = Mid(w), !.last = Mid(w), !.up = TRUE]
        ELSE [w EXCEPT !.hi = Mid(w), !.last = Mid(w), !.up = FALSE]]
Found == [w \in Window |->
             IF Mid(w) = w.last THEN [found |-> FALSE, pos |-> Place(Mid(w), w.up)]
             ELSE [found |-> TRUE, pos |-> Mid(w)]]
Gap(lo, hi) == IF lo <= hi THEN hi - lo ELSE lo - hi
Width(w) == Gap(w.lo, w.hi)
Left == [w \in Window |-> 2 * Width(w) + (IF Mid(w) = w.last THEN 0 ELSE 1)]
Looking(n, f) == Turn(Window, Over(n), Half(n), Found, f)
Whole == [lo |-> 0, hi |-> total, last |-> total, up |-> FALSE]

LEMMA MidType ==
    ASSUME NEW w \in Window
    PROVE  /\ Mid(w) \in 0..UserMax
           /\ w.lo <= w.hi => w.lo <= Mid(w) /\ Mid(w) <= w.hi
           /\ w.lo < w.hi => Mid(w) < w.hi
           /\ w.lo > w.hi => w.hi <= Mid(w) /\ Mid(w) < w.lo
BY UserAssumption DEF Mid, Window

LEMMA HalfType ==
    ASSUME NEW n
    PROVE  Half(n) \in [Window -> Window]
<1>1. ASSUME NEW w \in Window PROVE Half(n)[w] \in Window
  BY MidType DEF Half, Window
<1> QED BY <1>1 DEF Half

LEMMA LeftType ==
    /\ 2 * UserMax + 1 \in Nat
    /\ Left \in [Window -> 0..(2 * UserMax + 1)]
<1>1. UserMax \in Nat
  BY UserAssumption
<1>2. ASSUME NEW w \in Window PROVE Left[w] \in 0..(2 * UserMax + 1)
  <2>1. Width(w) \in 0..UserMax
    BY <1>1 DEF Width, Gap, Window
  <2> DEFINE last == IF Mid(w) = w.last THEN 0 ELSE 1
  <2>2. Left[w] = 2 * Width(w) + last /\ last \in {0, 1}
    BY DEF Left
  <2> HIDE DEF last
  <2> QED BY <1>1, <2>1, <2>2
<1> QED BY <1>1, <1>2 DEF Left

\* The window gets narrower, or the next look is the last one.
LEMMA Narrows ==
    ASSUME NEW n
    PROVE  Shrinks(Window, Over(n), Half(n), Left)
<1> SUFFICES ASSUME NEW w \in Window, w \notin Over(n)
             PROVE  Left[Half(n)[w]] < Left[w]
  BY DEF Shrinks
<1> DEFINE v == Half(n)[w]
           m == Mid(w)
<1>1. v \in Window /\ m # w.last /\ m \in 0..UserMax
  BY HalfType, MidType DEF Over
<1>2. /\ v.last = m
      /\ \/ v.lo = m /\ v.hi = w.hi
         \/ v.lo = w.lo /\ v.hi = m
  BY DEF Half, Window
<1>3. Left[w] = 2 * Width(w) + 1
  BY <1>1 DEF Left
<1>4. Left[v] = 2 * Width(v) + (IF Mid(v) = m THEN 0 ELSE 1)
  BY <1>1, <1>2 DEF Left
<1>5. w.lo \in 0..UserMax /\ w.hi \in 0..UserMax
  BY DEF Window
<1>6. Width(v) < Width(w) \/ (Width(v) = Width(w) /\ Mid(v) = m)
  <2>1. /\ w.lo \in Int /\ w.hi \in Int /\ v.lo \in Int /\ v.hi \in Int /\ m \in Int
        /\ m = (w.lo + w.hi) \div 2
    BY <1>1, <1>5, UserAssumption DEF Window, Mid
  <2>2. Mid(v) = (v.lo + v.hi) \div 2 /\ Width(v) = Gap(v.lo, v.hi)
    BY DEF Mid, Width
  <2>3. Width(w) = Gap(w.lo, w.hi)
    BY DEF Width
  <2>4. (v.lo = m /\ v.hi = w.hi) \/ (v.lo = w.lo /\ v.hi = m)
    BY <1>2
  <2> HIDE DEF v, m
  <2>5. \/ Gap(v.lo, v.hi) < Gap(w.lo, w.hi)
        \/ Gap(v.lo, v.hi) = Gap(w.lo, w.hi) /\ (v.lo + v.hi) \div 2 = m
    <3>1. PICK a, b, c, d : a = w.lo /\ b = w.hi /\ c = v.lo /\ d = v.hi
      OBVIOUS
    <3>2. a \in Int /\ b \in Int /\ c \in Int /\ d \in Int /\ m \in Int
          /\ m = (a + b) \div 2 /\ ((c = m /\ d = b) \/ (c = a /\ d = m))
      BY <3>1, <2>1, <2>4
    <3>3. Gap(c, d) < Gap(a, b) \/ (Gap(c, d) = Gap(a, b) /\ (c + d) \div 2 = m)
      BY <3>2 DEF Gap
    <3> QED BY <3>1, <3>3
  <2> QED BY <2>2, <2>3, <2>5
<1>7. Width(v) \in Nat /\ Width(w) \in Nat
  BY <1>1, UserAssumption DEF Width, Gap, Window
<1> HIDE DEF v, m
<1> QED BY <1>3, <1>4, <1>6, <1>7 DEF v

\* The search is that loop.
LEMMA SearchLoops ==
    ASSUME NEW n \in Nat
    PROVE  \E f : f = Looking(n, f) /\ Search(n) = f[Whole]
<1> DEFINE Body(f) ==
            [w \in Window |->
               LET m == (w.lo + w.hi) \div 2
                   x == list[m].name
               IN  CASE m = w.last -> [found |-> FALSE, pos |-> Place(m, w.up)]
                     [] m # w.last /\ x = n -> [found |-> TRUE, pos |-> m]
                     [] m # w.last /\ x < n ->
                           f[[w EXCEPT !.lo = m, !.last = m, !.up = TRUE]]
                     [] OTHER -> f[[w EXCEPT !.hi = m, !.last = m, !.up = FALSE]]]
<1>1. ASSUME NEW f PROVE Body(f) = Looking(n, f)
  <2>1. ASSUME NEW w \in Window PROVE Body(f)[w] = Looking(n, f)[w]
    <3> DEFINE m == Mid(w)
               x == list[Mid(w)].name
    <3>1. Looking(n, f)[w] = IF w \in Over(n) THEN Found[w] ELSE f[Half(n)[w]]
      BY DEF Looking, Turn
    <3>2. CASE m = w.last
      BY <3>1, <3>2 DEF Over, Found, Mid
    <3>3. CASE m # w.last /\ x = n
      BY <3>1, <3>3 DEF Over, Found, Mid
    <3>4. CASE m # w.last /\ x # n /\ x < n
      BY <3>1, <3>4 DEF Over, Half, Mid
    <3>5. CASE m # w.last /\ x # n /\ ~(x < n)
      BY <3>1, <3>5 DEF Over, Half, Mid
    <3> QED BY <3>2, <3>3, <3>4, <3>5
  <2> QED BY <2>1 DEF Looking, Turn
<1>2. \E f : f = Looking(n, f)
  BY HalfType, LeftType, Narrows, LoopEnds DEF Looking
<1>3. \E f : f = Body(f)
  BY <1>1, <1>2
<1>4. PICK f : f = CHOOSE g : g = Body(g)
  OBVIOUS
<1>5. f = Body(f)
  <2> HIDE DEF Body
  <2> QED BY <1>3, <1>4
<1>6. Search(n) = f[Whole]
  BY <1>4 DEF Search, Whole
<1> QED BY <1>1, <1>5, <1>6

Ascends ==
    /\ total \in 0..UserMax /\ \A i \in 0..(total - 1) : list[i].name \in Nat
    /\ \A i, j \in 0..(total - 1) : i <= j => list[i].name <= list[j].name

Right(n, r) ==
    /\ r.found \in BOOLEAN
    /\ r.found => r.pos \in 0..(total - 1) /\ list[r.pos].name = n
    /\ ~r.found => /\ r.pos \in 0..total
                   /\ \A i \in 0..(r.pos - 1) : list[i].name < n
                   /\ \A i \in r.pos..(total - 1) : n < list[i].name

\* All before the window is smaller and all behind it greater.
Fits(n, w) ==
    /\ w.lo <= w.hi /\ w.hi <= total
    /\ w.lo = 0 \/ (w.lo < total /\ list[w.lo].name < n)
    /\ w.hi = total \/ n < list[w.hi].name
    /\ w.up => w.last = w.lo /\ w.lo < w.hi /\ list[w.lo].name < n
    /\ ~w.up => w.last = w.hi

LEMMA LastLook ==
    ASSUME NEW n \in Nat, Ascends, NEW w \in Window, Fits(n, w), Mid(w) = w.last
    PROVE  Right(n, [found |-> FALSE, pos |-> Place(Mid(w), w.up)])
<1> PICK lo, hi, t : lo = w.lo /\ hi = w.hi /\ t = total
  OBVIOUS
<1> DEFINE L(i) == list[i].name
<1>1. /\ lo \in Int /\ hi \in Int /\ t \in Int /\ 0 <= lo /\ lo <= hi /\ hi <= t
      /\ w.up \in BOOLEAN
  BY UserAssumption DEF Window, Fits, Ascends
<1>2. \A i \in 0..(t - 1) : L(i) \in Nat
  BY DEF Ascends
<1>3. \A i, j \in 0..(t - 1) : i <= j => L(i) <= L(j)
  BY DEF Ascends
<1>4. lo = 0 \/ (lo < t /\ L(lo) < n)
  BY DEF Fits
<1>5. hi = t \/ n < L(hi)
  BY DEF Fits
<1>6. CASE w.up
  <2>1. (lo + hi) \div 2 = lo /\ lo < hi /\ L(lo) < n /\ Mid(w) = lo
    BY <1>6 DEF Fits, Mid
  <2>2. hi = lo + 1
    BY <1>1, <2>1
  <2>3. \A i \in 0..lo : L(i) < n
    <3> HIDE DEF L
    <3> TAKE i \in 0..lo
    <3>1. i \in 0..(t - 1) /\ lo \in 0..(t - 1) /\ i <= lo
      BY <1>1, <2>2
    <3>2. L(i) <= L(lo) /\ L(i) \in Nat /\ L(lo) \in Nat
      BY <1>2, <1>3, <3>1
    <3> QED BY <2>1, <3>2
  <2>4. \A i \in (lo + 1)..(t - 1) : n < L(i)
    <3> HIDE DEF L
    <3> TAKE i \in (lo + 1)..(t - 1)
    <3>1. i \in 0..(t - 1) /\ hi \in 0..(t - 1) /\ hi <= i
      BY <1>1, <2>2
    <3>2. L(hi) <= L(i) /\ L(i) \in Nat /\ L(hi) \in Nat /\ n < L(hi)
      BY <1>2, <1>3, <1>5, <3>1
    <3> QED BY <3>2
  <2>5. Place(Mid(w), w.up) = lo + 1 /\ lo + 1 \in 0..t /\ (lo + 1) - 1 = lo
    BY <1>1, <1>6, <2>1 DEF Place
  <2> QED BY <2>3, <2>4, <2>5 DEF Right
<1>7. CASE ~w.up
  <2>1. (lo + hi) \div 2 = hi /\ Mid(w) = hi
    BY <1>7 DEF Fits, Mid
  <2>2. lo = hi
    BY <1>1, <2>1
  <2>3. lo = 0
    <3> HIDE DEF L
    <3>1. lo < t => L(lo) \in Nat
      BY <1>1, <1>2
    <3> QED BY <1>1, <1>4, <1>5, <2>2, <3>1
  <2>4. \A i \in hi..(t - 1) : n < L(i)
    <3> HIDE DEF L
    <3> QED BY <1>1, <1>2, <1>3, <1>5, <2>2, <2>3
  <2>5. Place(Mid(w), w.up) = hi /\ hi \in 0..t /\ \A i \in 0..(hi - 1) : L(i) < n
    BY <1>1, <1>7, <2>1, <2>2, <2>3 DEF Place
  <2> QED BY <2>4, <2>5 DEF Right
<1> QED BY <1>6, <1>7

LEMMA NextLook ==
    ASSUME NEW n \in Nat, Ascends, NEW w \in Window, Fits(n, w), Mid(w) # w.last
    PROVE  /\ Mid(w) \in 0..(total - 1)
           /\ list[Mid(w)].name # n => Fits(n, Half(n)[w])
<1> PICK m : m = Mid(w)
  OBVIOUS
<1>1. /\ w.lo \in 0..UserMax /\ w.hi \in 0..UserMax /\ w.up \in BOOLEAN
      /\ w.last \in 0..UserMax /\ total \in 0..UserMax /\ UserMax \in Nat
  BY UserAssumption DEF Window, Ascends
<1>2. w.lo <= m /\ m <= w.hi /\ w.lo <= w.hi /\ w.hi <= total /\ m \in 0..UserMax
  BY MidType DEF Fits
<1>3. w.lo < w.hi
  <2>1. CASE w.lo = w.hi
    <3>1. m = w.lo
      BY <1>1, <1>2, <2>1
    <3> QED BY <2>1, <3>1 DEF Fits
  <2> QED BY <1>1, <1>2, <2>1
<1>4. m < w.hi /\ m \in 0..(total - 1)
  BY <1>1, <1>2, <1>3, MidType
<1>5. list[m].name \in Nat
  BY <1>4 DEF Ascends
<1>6. CASE list[m].name < n
  <2>1. Half(n)[w] = [w EXCEPT !.lo = m, !.last = m, !.up = TRUE]
    BY <1>6 DEF Half
  <2>2. PICK v : v = Half(n)[w]
    OBVIOUS
  <2>3. v.lo = m /\ v.hi = w.hi /\ v.last = m /\ v.up
    BY <2>1, <2>2 DEF Window
  <2>4. Fits(n, v)
    BY <1>1, <1>2, <1>4, <1>6, <2>3 DEF Fits
  <2> QED BY <1>4, <2>2, <2>4
<1>7. CASE n < list[m].name
  <2>1. Half(n)[w] = [w EXCEPT !.hi = m, !.last = m, !.up = FALSE]
    BY <1>5, <1>7 DEF Half
  <2>2. PICK v : v = Half(n)[w]
    OBVIOUS
  <2>3. v.lo = w.lo /\ v.hi = m /\ v.last = m /\ ~v.up
    BY <2>1, <2>2 DEF Window
  <2>4. Fits(n, v)
    BY <1>1, <1>2, <1>4, <1>7, <2>3 DEF Fits
  <2> QED BY <1>4, <2>2, <2>4
<1> QED BY <1>4, <1>5, <1>6, <1>7

\* The search finds a name that is in a list in order, and where it belongs if
\* it is not.
LEMMA SearchRight ==
    ASSUME NEW n \in Nat, Ascends
    PROVE  Right(n, Search(n))
<1>1. PICK f : f = Looking(n, f) /\ Search(n) = f[Whole]
  BY SearchLoops
<1> DEFINE S == {w \in Window : Fits(n, w) => Right(n, f[w])}
<1>2. ASSUME NEW w \in Window
      PROVE  f[w] = IF w \in Over(n) THEN Found[w] ELSE f[Half(n)[w]]
  BY <1>1 DEF Looking, Turn
<1>3. ASSUME NEW w \in Window, w \in Over(n) \/ Half(n)[w] \in S
      PROVE  w \in S
  <2> SUFFICES ASSUME Fits(n, w) PROVE Right(n, f[w])
    OBVIOUS
  <2>1. CASE Mid(w) = w.last
    <3>1. f[w] = [found |-> FALSE, pos |-> Place(Mid(w), w.up)]
      BY <1>2, <2>1 DEF Over, Found
    <3> QED BY <2>1, <3>1, LastLook
  <2>2. CASE Mid(w) # w.last /\ list[Mid(w)].name = n
    <3>1. f[w] = [found |-> TRUE, pos |-> Mid(w)]
      BY <1>2, <2>2 DEF Over, Found
    <3>2. Mid(w) \in 0..(total - 1)
      BY <2>2, NextLook
    <3> QED BY <2>2, <3>1, <3>2 DEF Right
  <2>3. CASE Mid(w) # w.last /\ list[Mid(w)].name # n
    <3>1. w \notin Over(n)
      BY <2>3 DEF Over
    <3>2. f[w] = f[Half(n)[w]] /\ Half(n)[w] \in S
      BY <1>2, <1>3, <3>1
    <3>3. Fits(n, Half(n)[w])
      BY <2>3, NextLook
    <3> QED BY <3>2, <3>3
  <2> QED BY <2>1, <2>2, <2>3
<1>4. Window \subseteq S
  <2> HIDE DEF S
  <2> QED BY <1>3, HalfType, LeftType, Narrows, LoopKeeps
<1>5. Whole \in Window /\ Fits(n, Whole)
  BY UserAssumption DEF Whole, Window, Fits, Ascends
<1> QED BY <1>1, <1>4, <1>5

-----------------------------------------------------------------------------
(* The invariant, part by part. *)

Updating == pc \in {"shift", "count", "pull"}

\* The list as it was before the update that is under way.
Base == IF Updating THEN job.before ELSE Listed

Ordered(s) == \A i, j \in 1..Len(s) : i <= j => s[i] <= s[j]
Strict(s) == \A i, j \in 1..Len(s) : i < j => s[i] < s[j]

BaseInv ==
    /\ Base \in Seq(Names) /\ Len(Base) = total /\ Ordered(Base)
    /\ ~torn => Strict(Base)

\* Entries of the cache point to their users, and no user is there twice.
Points(c, s) ==
    /\ \A i \in 1..Len(c) : c[i].idx < Len(s) /\ s[c[i].idx + 1] = c[i].name
    /\ \A i, j \in 1..Len(c) : c[i].name = c[j].name => i = j
CacheInv == ~stale => Points(cache, Base)

\* Entry i while the entries behind "pos" move up, once the new one is in, and
\* while they move down.
Moving(i) ==
    /\ i <= job.k /\ i < total => list[i].name = job.before[i + 1]
    /\ job.k < i /\ i <= total => list[i].name = job.before[i]
Grown(s, p, n, i) == IF i < p THEN s[i + 1] ELSE IF i = p THEN n ELSE s[i]
Closing(i) ==
    list[i].name = IF i < job.pos \/ job.k <= i THEN job.before[i + 1] ELSE job.before[i + 2]

\* The name to be added is new, and this is its place.
NewHere ==
    /\ job.op = "add" /\ total < UserMax /\ job.pos \in 0..total
    /\ \A i \in 1..job.pos : job.before[i] < job.name
    /\ \A i \in (job.pos + 1)..total : job.name < job.before[i]
    /\ ~stale => ~Cached(job.name)

JobInv ==
    /\ pc # "idle" => job.name \in Names
    /\ pc = "shift" => NewHere /\ job.k \in job.pos..total /\ \A i \in 0..total : Moving(i)
    /\ pc = "count" => NewHere /\ \A i \in 0..total :
           list[i].name = Grown(job.before, job.pos, job.name, i)
    /\ pc = "bring" => /\ job.pos \in 0..(total - 1) /\ list[job.pos].name = job.name
                       /\ ~stale => ~Cached(job.name)
    /\ pc = "pull" => /\ job.op = "del" /\ job.pos \in 0..(total - 1)
                      /\ job.before[job.pos + 1] = job.name
                      /\ job.k \in job.pos..(total - 1)
                      /\ \A i \in 0..(total - 1) : Closing(i)

Inv == /\ TypeOK /\ now \in 0..MaxTime /\ torn \in BOOLEAN /\ stale \in BOOLEAN
       /\ BaseInv /\ CacheInv /\ JobInv

-----------------------------------------------------------------------------
(* Sequences and the cache. *)

Cell == [idx: Nat, name: Names, seen: 0..MaxTime]
CacheType(c) == c \in Seq(Cell) /\ Len(c) <= CacheMax

LEMMA CellIs ==
    ASSUME NEW c, CacheType(c), NEW i \in 1..Len(c)
    PROVE  c[i] \in Cell /\ c[i].idx \in Nat /\ c[i].name \in Names
<1>1. c[i] \in Cell
  BY DEF CacheType
<1> QED BY <1>1 DEF Cell

LEMMA PointsAt ==
    ASSUME NEW c, NEW s, Points(c, s), NEW i \in 1..Len(c)
    PROVE  c[i].idx < Len(s) /\ s[c[i].idx + 1] = c[i].name
BY Zenon DEF Points

LEMMA Pushed ==
    ASSUME NEW S, NEW c \in Seq(S), NEW e \in S, NEW n \in 1..(Len(c) + 1)
    PROVE  LET r == SubSeq(<<e>> \o c, 1, n)
           IN  /\ r \in Seq(S) /\ Len(r) = n
               /\ \A i \in 1..n : r[i] = IF i = 1 THEN e ELSE c[i - 1]
<1> DEFINE s == <<e>> \o c
<1>1. s \in Seq(S) /\ Len(s) = Len(c) + 1 /\ \A i \in 1..Len(s) : s[i] = IF i = 1 THEN e ELSE c[i - 1]
  OBVIOUS
<1> HIDE DEF s
<1>2. SubSeq(s, 1, n) \in Seq(S) /\ Len(SubSeq(s, 1, n)) = n
      /\ \A i \in 1..n : SubSeq(s, 1, n)[i] = s[i]
  BY <1>1
<1> QED BY <1>1, <1>2 DEF s

LEMMA Joined ==
    ASSUME NEW S, NEW a \in Seq(S), NEW b \in Seq(S)
    PROVE  /\ a \o b \in Seq(S) /\ Len(a \o b) = Len(a) + Len(b)
           /\ \A i \in 1..(Len(a) + Len(b)) :
                 (a \o b)[i] = IF i <= Len(a) THEN a[i] ELSE b[i - Len(a)]
OBVIOUS

LEMMA Removed ==
    ASSUME NEW S, NEW c \in Seq(S), NEW p \in 1..Len(c)
    PROVE  /\ RemoveAt(c, p) \in Seq(S) /\ Len(RemoveAt(c, p)) = Len(c) - 1
           /\ \A i \in 1..(Len(c) - 1) :
                 RemoveAt(c, p)[i] = IF i < p THEN c[i] ELSE c[i + 1]
<1> DEFINE a == SubSeq(c, 1, p - 1)
           b == SubSeq(c, p + 1, Len(c))
<1>1. a \in Seq(S) /\ Len(a) = p - 1 /\ \A i \in 1..(p - 1) : a[i] = c[i]
  OBVIOUS
<1>2. b \in Seq(S) /\ Len(b) = Len(c) - p /\ \A i \in 1..(Len(c) - p) : b[i] = c[i + p]
  OBVIOUS
<1>3. RemoveAt(c, p) = a \o b
  BY DEF RemoveAt
<1> HIDE DEF a, b
<1>4. a \o b \in Seq(S) /\ Len(a \o b) = Len(c) - 1
  <2>1. a \o b \in Seq(S) /\ Len(a \o b) = Len(a) + Len(b)
    BY <1>1, <1>2, Joined
  <2>2. Len(c) \in Nat
    OBVIOUS
  <2>3. (p - 1) + (Len(c) - p) = Len(c) - 1
    BY <2>2
  <2> QED BY <1>1, <1>2, <2>1, <2>3
<1>5. ASSUME NEW i \in 1..(Len(c) - 1) PROVE (a \o b)[i] = IF i < p THEN c[i] ELSE c[i + 1]
  <2>1. CASE i < p
    BY <1>1, <1>2, <2>1
  <2>2. CASE ~(i < p)
    <3>1. (a \o b)[i] = b[i - (p - 1)] /\ i - (p - 1) \in 1..(Len(c) - p)
      BY <1>1, <1>2, <2>2
    <3> QED BY <1>2, <2>2, <3>1
  <2> QED BY <2>1, <2>2
<1> QED BY <1>3, <1>4, <1>5

\* The smallest index of an entry like that, or 0.
LEMMA FirstIndex ==
    ASSUME NEW I, I \subseteq Nat, NEW m, m = IF I # {} THEN Min(I) ELSE 0
    PROVE  IF I = {} THEN m = 0 ELSE m \in I
<1>1. I # {} => \E x \in I : \A y \in I : x <= y
  BY HasLeast
<1> QED BY <1>1 DEF Min

LEMMA CachedAtFinds ==
    ASSUME NEW n, Cached(n), cache \in Seq(Cell)
    PROVE  CachedAt(n) \in 1..Len(cache) /\ cache[CachedAt(n)].name = n
<1> DEFINE I == {i \in 1..Len(cache) : cache[i].name = n}
<1>1. CachedAt(n) = IF I # {} THEN Min(I) ELSE 0
  BY DEF CachedAt, SelectInSeq
<1>2. I # {} /\ I \subseteq Nat
  BY DEF Cached
<1> HIDE DEF I
<1>3. CachedAt(n) \in I
  BY <1>1, <1>2, FirstIndex
<1> QED BY <1>3 DEF I

LEMMA FirstAtFinds ==
    ASSUME NEW p, cache \in Seq(Cell)
    PROVE  IF \E i \in 1..Len(cache) : cache[i].idx = p
           THEN FirstAt(p) \in 1..Len(cache) /\ cache[FirstAt(p)].idx = p
           ELSE FirstAt(p) = 0
<1> DEFINE I == {i \in 1..Len(cache) : cache[i].idx = p}
<1>1. FirstAt(p) = IF I # {} THEN Min(I) ELSE 0
  BY DEF FirstAt, SelectInSeq
<1>2. I \subseteq Nat
  OBVIOUS
<1>3. I # {} <=> \E i \in 1..Len(cache) : cache[i].idx = p
  OBVIOUS
<1>4. I # {} => FirstAt(p) \in 1..Len(cache) /\ cache[FirstAt(p)].idx = p
  <2>1. I # {} => FirstAt(p) \in I
    <3> HIDE DEF I
    <3> QED BY <1>1, <1>2, FirstIndex
  <2> QED BY <2>1
<1>5. I = {} => FirstAt(p) = 0
  BY <1>1
<1> HIDE DEF I
<1> QED BY <1>3, <1>4, <1>5

-----------------------------------------------------------------------------
(* What the steps do to the cache and the file. *)

LEMMA Sizes == UserMax \in Nat /\ CacheMax \in Nat /\ CacheMax >= 2 /\ MaxTime \in Nat
               /\ Names \subseteq Nat
BY UserAssumption

LEMMA ListedIs ==
    ASSUME total \in 0..UserMax, \A i \in 0..(total - 1) : list[i].name \in Names
    PROVE  /\ Listed \in Seq(Names) /\ Len(Listed) = total
           /\ \A i \in 0..(total - 1) : Listed[i + 1] = list[i].name
           /\ \A i \in 1..total : Listed[i] = list[i - 1].name
<1>1. total \in Nat
  BY Sizes
<1>2. \A k \in 1..total : list[k - 1].name \in Names
  BY <1>1
<1>3. Listed \in [1..total -> Names]
  BY <1>2 DEF Listed
<1> QED BY <1>1, <1>3 DEF Listed

\* The same list of names.
LEMMA SameNames ==
    ASSUME total' = total, \A i \in 0..(total - 1) : list'[i].name = list[i].name,
           total \in 0..UserMax
    PROVE  Listed' = Listed
<1>1. \A k \in 1..total : k - 1 \in 0..(total - 1)
  BY Sizes
<1> QED BY <1>1 DEF Listed

LEMMA WriteBackSame ==
    ASSUME TypeOK
    PROVE  /\ WriteBack(cache, list) \in [Slots -> Entry]
           /\ \A i \in Slots : WriteBack(cache, list)[i].name = list[i].name
<1>1. CASE Evicted
  <2> DEFINE e == Last(cache)
             l == [list EXCEPT ![e.idx].seen = e.seen]
  <2>1. Len(cache) \in 1..Len(cache) /\ cache[Len(cache)] \in Cell
    <3>1. cache \in Seq(Cell)
      BY DEF TypeOK, Cell
    <3> QED BY <1>1, <3>1, Sizes DEF Evicted
  <2>2. e.seen \in 0..MaxTime
    BY <2>1 DEF Last, Cell
  <2> HIDE DEF e
  <2>3. ASSUME NEW i \in Slots PROVE l[i] \in Entry /\ l[i].name = list[i].name
    BY <2>2 DEF TypeOK, Entry
  <2>4. l \in [Slots -> Entry]
    BY <2>3 DEF TypeOK
  <2> QED BY <1>1, <2>3, <2>4 DEF WriteBack, e
<1>2. CASE ~Evicted
  BY <1>2 DEF WriteBack, TypeOK
<1> QED BY <1>1, <1>2

LEMMA BringInIs ==
    ASSUME CacheType(cache), NEW pos \in 0..(UserMax - 1), list[pos].name \in Names,
           now \in 0..MaxTime
    PROVE  LET c == BringIn(cache, list, pos)
           IN  /\ CacheType(c)
               /\ Len(c) \in 1..(Len(cache) + 1)
               /\ \A i \in 1..Len(c) :
                     /\ i = 1 => c[i].idx = pos /\ c[i].name = list[pos].name
                     /\ i # 1 => c[i] = cache[i - 1] /\ i - 1 \in 1..Len(cache)
<1> DEFINE e == [idx |-> pos, name |-> list[pos].name, seen |-> now]
           n == IF Evicted THEN CacheMax ELSE Len(cache) + 1
<1>1. e \in Cell
  BY Sizes DEF Cell
<1>2. cache \in Seq(Cell) /\ Len(cache) \in Nat /\ Len(cache) <= CacheMax
  BY DEF CacheType
<1>3. n \in 1..(Len(cache) + 1) /\ n <= CacheMax
  BY <1>2, Sizes DEF Evicted
<1>4. BringIn(cache, list, pos) = SubSeq(<<e>> \o cache, 1, n)
  BY DEF BringIn
<1>5. PICK c : c = BringIn(cache, list, pos)
  OBVIOUS
<1>6. e.idx = pos /\ e.name = list[pos].name
  OBVIOUS
<1> HIDE DEF e, n
<1>7. c \in Seq(Cell) /\ Len(c) = n /\ \A i \in 1..n : c[i] = IF i = 1 THEN e ELSE cache[i - 1]
  BY <1>1, <1>2, <1>3, <1>4, <1>5, Pushed
<1>8. ASSUME NEW i \in 1..Len(c), i # 1 PROVE c[i] = cache[i - 1] /\ i - 1 \in 1..Len(cache)
  BY <1>2, <1>3, <1>7, <1>8
<1>9. 1 \in 1..Len(c) => c[1] = e
  BY <1>7
<1> QED BY <1>3, <1>5, <1>6, <1>7, <1>8, <1>9 DEF CacheType

LEMMA Moved ==
    ASSUME NEW x \in Cell, NEW p \in Nat, NEW t \in 0..MaxTime
    PROVE  [x EXCEPT !.idx = p, !.seen = t] \in Cell
BY DEF Cell

LEMMA BringInUnreadIs ==
    ASSUME CacheType(cache), NEW pos \in 0..(UserMax - 1), now \in 0..MaxTime
    PROVE  CacheType(BringInUnread(pos))
<1>1. CASE cache = <<>>
  BY <1>1 DEF BringInUnread
<1>2. CASE cache # <<>>
  <2> DEFINE e == [cache[1] EXCEPT !.idx = pos, !.seen = now]
             n == IF Evicted THEN CacheMax ELSE Len(cache) + 1
  <2>1. cache \in Seq(Cell) /\ Len(cache) \in Nat /\ Len(cache) <= CacheMax /\ cache[1] \in Cell
    BY <1>2 DEF CacheType
  <2>2. e \in Cell
    <3>1. pos \in Nat
      BY Sizes
    <3> QED BY <2>1, <3>1, Moved, Zenon
  <2>3. n \in 1..(Len(cache) + 1) /\ n <= CacheMax
    BY <2>1, Sizes DEF Evicted
  <2>4. BringInUnread(pos) = SubSeq(<<e>> \o cache, 1, n)
    BY <1>2 DEF BringInUnread
  <2> HIDE DEF e, n
  <2> QED BY <2>1, <2>2, <2>3, <2>4, Pushed DEF CacheType
<1> QED BY <1>1, <1>2

\* The user that is brought in was not in the cache.
LEMMA BringInPoints ==
    ASSUME CacheType(cache), NEW s, Points(cache, s), NEW pos \in 0..(UserMax - 1),
           Len(s) \in Nat, pos < Len(s), s[pos + 1] = list[pos].name, list[pos].name \in Names,
           now \in 0..MaxTime, ~Cached(list[pos].name)
    PROVE  Points(BringIn(cache, list, pos), s)
<1>1. PICK c : c = BringIn(cache, list, pos)
  OBVIOUS
<1>2. /\ Len(c) \in Nat
      /\ \A i \in 1..Len(c) :
            /\ i = 1 => c[i].idx = pos /\ c[i].name = list[pos].name
            /\ i # 1 => c[i] = cache[i - 1] /\ i - 1 \in 1..Len(cache)
  BY <1>1, BringInIs, Sizes DEF CacheType
<1>3. \A i \in 1..Len(cache) : cache[i].name # list[pos].name
  BY DEF Cached, CacheType
<1>4. ASSUME NEW i \in 1..Len(c) PROVE c[i].idx < Len(s) /\ s[c[i].idx + 1] = c[i].name
  <2>1. CASE i = 1
    BY <1>2, <2>1
  <2>2. CASE i # 1
    <3>1. PICK k \in 1..Len(cache) : c[i] = cache[k]
      BY <1>2, <2>2
    <3> QED BY <3>1 DEF Points
  <2> QED BY <2>1, <2>2
<1>5. ASSUME NEW i \in 1..Len(c), NEW j \in 1..Len(c), c[i].name = c[j].name PROVE i = j
  <2>1. CASE i = 1 \/ j = 1
    BY <1>2, <1>3, <1>5, <2>1
  <2>2. CASE i # 1 /\ j # 1
    <3>1. c[i] = cache[i - 1] /\ i - 1 \in 1..Len(cache)
          /\ c[j] = cache[j - 1] /\ j - 1 \in 1..Len(cache)
      BY <1>2, <2>2
    <3>2. i - 1 = j - 1
      BY <1>5, <3>1 DEF Points
    <3> QED BY <1>2, <3>2
  <2> QED BY <2>1, <2>2
<1> QED BY <1>1, <1>4, <1>5 DEF Points

LEMMA TouchedIs ==
    ASSUME CacheType(cache), now \in 0..MaxTime, NEW k \in 1..Len(cache)
    PROVE  /\ CacheType(Touched(k)) /\ Len(Touched(k)) = Len(cache)
           /\ \A i \in 1..Len(cache) :
                 Touched(k)[i].idx = cache[i].idx /\ Touched(k)[i].name = cache[i].name
<1>1. cache \in [1..Len(cache) -> Cell] /\ Len(cache) \in Nat /\ Len(cache) <= CacheMax
  BY DEF CacheType
<1>2. ASSUME NEW i \in 1..Len(cache)
      PROVE  /\ Touched(k)[i] \in Cell
             /\ Touched(k)[i].idx = cache[i].idx /\ Touched(k)[i].name = cache[i].name
  <2>1. cache[i] \in Cell
    BY <1>1
  <2>2. Touched(k)[i] = IF i = k THEN [cache[i] EXCEPT !.seen = now] ELSE cache[i]
    BY <1>1 DEF Touched
  <2>3. [cache[i] EXCEPT !.seen = now]
           = [idx |-> cache[i].idx, name |-> cache[i].name, seen |-> now]
    BY <2>1 DEF Cell
  <2> QED BY <2>1, <2>2, <2>3 DEF Cell
<1>3. Touched(k) \in [1..Len(cache) -> Cell]
  <2>1. DOMAIN Touched(k) = 1..Len(cache)
    BY <1>1 DEF Touched
  <2>2. Touched(k) = [i \in 1..Len(cache) |-> Touched(k)[i]]
    BY <1>1 DEF Touched
  <2> QED BY <1>2, <2>1, <2>2
<1>4. Touched(k) \in Seq(Cell) /\ Len(Touched(k)) = Len(cache)
  BY <1>1, <1>3
<1> QED BY <1>1, <1>2, <1>4 DEF CacheType

LEMMA TouchedPoints ==
    ASSUME CacheType(cache), now \in 0..MaxTime, NEW k \in 1..Len(cache),
           NEW s, Points(cache, s)
    PROVE  Points(Touched(k), s)
<1>1. PICK c : c = Touched(k)
  OBVIOUS
<1>2. /\ Len(c) = Len(cache)
      /\ \A i \in 1..Len(cache) : c[i].idx = cache[i].idx /\ c[i].name = cache[i].name
  BY <1>1, TouchedIs
<1>3. Points(c, s)
  BY <1>2 DEF Points
<1> QED BY <1>1, <1>3

\* Indices from "p" on are "d" higher or lower.
Shifted(c, p, d) == [i \in DOMAIN c |-> [c[i] EXCEPT !.idx = IF @ >= p THEN @ + d ELSE @]]

LEMMA ShiftedIs ==
    ASSUME NEW c, CacheType(c), NEW p \in Nat, NEW d \in {-1, 1}, p + d \in Nat
    PROVE  /\ CacheType(Shifted(c, p, d)) /\ Len(Shifted(c, p, d)) = Len(c)
           /\ \A i \in 1..Len(c) :
                 /\ Shifted(c, p, d)[i].name = c[i].name
                 /\ Shifted(c, p, d)[i].idx = IF c[i].idx >= p THEN c[i].idx + d ELSE c[i].idx
<1>1. c \in [1..Len(c) -> Cell] /\ Len(c) \in Nat /\ Len(c) <= CacheMax /\ DOMAIN c = 1..Len(c)
  BY DEF CacheType
<1>2. ASSUME NEW i \in 1..Len(c)
      PROVE  /\ Shifted(c, p, d)[i] \in Cell
             /\ Shifted(c, p, d)[i].name = c[i].name
             /\ Shifted(c, p, d)[i].idx = IF c[i].idx >= p THEN c[i].idx + d ELSE c[i].idx
  <2>1. c[i] \in Cell /\ c[i].idx \in Nat
    BY <1>1 DEF Cell
  <2> DEFINE n == IF c[i].idx >= p THEN c[i].idx + d ELSE c[i].idx
  <2>2. Shifted(c, p, d)[i] = [c[i] EXCEPT !.idx = n]
    BY <1>1 DEF Shifted
  <2>3. n \in Nat
    BY <2>1
  <2>4. [c[i] EXCEPT !.idx = n] = [idx |-> n, name |-> c[i].name, seen |-> c[i].seen]
    BY <2>1 DEF Cell
  <2> HIDE DEF n
  <2>5. Shifted(c, p, d)[i].name = c[i].name /\ Shifted(c, p, d)[i].idx = n
        /\ Shifted(c, p, d)[i] \in Cell
    BY <2>1, <2>2, <2>3, <2>4 DEF Cell
  <2> QED BY <2>5 DEF n
<1>3. Shifted(c, p, d) \in [1..Len(c) -> Cell]
  BY <1>1, <1>2 DEF Shifted
<1>4. Shifted(c, p, d) \in Seq(Cell) /\ Len(Shifted(c, p, d)) = Len(c)
  BY <1>1, <1>3
<1> QED BY <1>1, <1>2, <1>4 DEF CacheType

\* After an insertion.
LEMMA BumpedPoints ==
    ASSUME CacheType(cache), NEW s, Points(cache, s), Len(s) \in Nat, NEW p \in 0..Len(s), NEW n,
           NEW r, Len(r) = Len(s) + 1, \A i \in 0..Len(s) : r[i + 1] = Grown(s, p, n, i)
    PROVE  Points(Bumped(p), r)
<1>1. Bumped(p) = Shifted(cache, p, 1)
  BY DEF Bumped, Shifted
<1>2. PICK c : c = Bumped(p)
  OBVIOUS
<1>3. /\ Len(c) = Len(cache)
      /\ \A i \in 1..Len(cache) :
            /\ c[i].name = cache[i].name
            /\ c[i].idx = IF cache[i].idx >= p THEN cache[i].idx + 1 ELSE cache[i].idx
  BY <1>1, <1>2, ShiftedIs
<1>4. ASSUME NEW i \in 1..Len(cache) PROVE c[i].idx < Len(r) /\ r[c[i].idx + 1] = c[i].name
  <2>1. cache[i].idx \in Nat /\ cache[i].idx < Len(s) /\ s[cache[i].idx + 1] = cache[i].name
    BY CellIs, PointsAt
  <2>2. CASE cache[i].idx >= p
    <3>1. c[i].idx = cache[i].idx + 1 /\ c[i].idx \in 0..Len(s) /\ ~(c[i].idx < p) /\ c[i].idx # p
      BY <1>3, <2>1, <2>2
    <3> QED BY <1>3, <1>4, <2>1, <3>1 DEF Grown
  <2>3. CASE ~(cache[i].idx >= p)
    <3>1. c[i].idx = cache[i].idx /\ c[i].idx \in 0..Len(s) /\ c[i].idx < p
      BY <1>3, <2>1, <2>3
    <3> QED BY <1>3, <2>1, <3>1 DEF Grown
  <2> QED BY <2>2, <2>3
<1>5. \A i, j \in 1..Len(c) : c[i].name = c[j].name => i = j
  BY <1>3 DEF Points
<1> QED BY <1>2, <1>3, <1>4, <1>5 DEF Points

LEMMA BumpedIs ==
    ASSUME CacheType(cache), NEW p \in Nat
    PROVE  /\ CacheType(Bumped(p)) /\ Len(Bumped(p)) = Len(cache)
           /\ \A i \in 1..Len(cache) : Bumped(p)[i].name = cache[i].name
<1>1. Bumped(p) = Shifted(cache, p, 1)
  BY DEF Bumped, Shifted
<1>2. 1 \in {-1, 1} /\ p + 1 \in Nat
  OBVIOUS
<1>3. /\ CacheType(Shifted(cache, p, 1)) /\ Len(Shifted(cache, p, 1)) = Len(cache)
      /\ \A i \in 1..Len(cache) : Shifted(cache, p, 1)[i].name = cache[i].name
  BY <1>2, ShiftedIs
<1> QED BY <1>1, <1>3

\* What is left once the entry of "p" is gone.
LEMMA WithoutIs ==
    ASSUME CacheType(cache), NEW p, NEW c,
           c = IF FirstAt(p) = 0 THEN cache ELSE RemoveAt(cache, FirstAt(p))
    PROVE  /\ CacheType(c)
           /\ \A s : Points(cache, s) => Points(c, s) /\ \A i \in 1..Len(c) : c[i].idx # p
<1>0. cache \in Seq(Cell) /\ Len(cache) \in Nat /\ Len(cache) <= CacheMax
  BY DEF CacheType
<1>1. CASE ~\E i \in 1..Len(cache) : cache[i].idx = p
  BY <1>0, <1>1, FirstAtFinds DEF CacheType
<1>2. CASE \E i \in 1..Len(cache) : cache[i].idx = p
  <2>1. PICK q \in 1..Len(cache) : q = FirstAt(p) /\ cache[q].idx = p
    BY <1>0, <1>2, FirstAtFinds
  <2>2. c = RemoveAt(cache, q)
    BY <2>1
  <2>3. /\ c \in Seq(Cell) /\ Len(c) = Len(cache) - 1
        /\ \A i \in 1..Len(c) : c[i] = IF i < q THEN cache[i] ELSE cache[i + 1]
    BY <1>0, <2>2, Removed
  <2>4. CacheType(c)
    BY <1>0, <2>3, Sizes DEF CacheType
  <2>5. ASSUME NEW s, Points(cache, s)
        PROVE  Points(c, s) /\ \A i \in 1..Len(c) : c[i].idx # p
    <3>1. ASSUME NEW i \in 1..Len(c)
          PROVE  \E k \in 1..Len(cache) : c[i] = cache[k] /\ k # q
                                          /\ k = IF i < q THEN i ELSE i + 1
      BY <1>0, <2>3
    <3>2. ASSUME NEW i \in 1..Len(c) PROVE c[i].idx < Len(s) /\ s[c[i].idx + 1] = c[i].name
      <4>1. PICK k \in 1..Len(cache) : c[i] = cache[k]
        BY <3>1
      <4> QED BY <2>5, <4>1, PointsAt
    <3>3. ASSUME NEW i \in 1..Len(c), NEW j \in 1..Len(c), c[i].name = c[j].name PROVE i = j
      <4>1. PICK k \in 1..Len(cache) : c[i] = cache[k] /\ k = IF i < q THEN i ELSE i + 1
        BY <3>1
      <4>2. PICK m \in 1..Len(cache) : c[j] = cache[m] /\ m = IF j < q THEN j ELSE j + 1
        BY <3>1
      <4>3. k = m
        BY <2>5, <3>3, <4>1, <4>2 DEF Points
      <4>4. q \in Int /\ i \in Int /\ j \in Int
        OBVIOUS
      <4> QED BY <4>1, <4>2, <4>3, <4>4
    <3>4. ASSUME NEW i \in 1..Len(c) PROVE c[i].idx # p
      <4>1. PICK k \in 1..Len(cache) : c[i] = cache[k] /\ k # q
        BY <3>1
      <4>2. cache[k].idx = cache[q].idx => cache[k].name = cache[q].name
        BY <2>5 DEF Points
      <4>3. cache[k].name = cache[q].name => k = q
        BY <2>5 DEF Points
      <4> QED BY <2>1, <4>1, <4>2, <4>3
    <3> QED BY <3>2, <3>3, <3>4 DEF Points
  <2> QED BY <2>4, <2>5
<1> QED BY <1>1, <1>2

\* After a removal.
LEMMA PulledPoints ==
    ASSUME CacheType(cache), NEW p \in Nat
    PROVE  /\ CacheType(Pulled(p))
           /\ \A s, r : Points(cache, s) /\ Len(s) \in Nat /\ p < Len(s) /\ Len(r) = Len(s) - 1
                        /\ (\A i \in 0..(Len(r) - 1) : r[i + 1] = IF i < p THEN s[i + 1] ELSE s[i + 2])
                           => Points(Pulled(p), r)
<1> DEFINE c == IF FirstAt(p) = 0 THEN cache ELSE RemoveAt(cache, FirstAt(p))
<1>1. /\ CacheType(c)
      /\ \A s : Points(cache, s) => Points(c, s) /\ \A i \in 1..Len(c) : c[i].idx # p
  BY WithoutIs
<1>2. Pulled(p) = [i \in DOMAIN c |-> [c[i] EXCEPT !.idx = IF @ > p THEN @ - 1 ELSE @]]
  BY DEF Pulled
<1> HIDE DEF c
<1>3. \A i \in DOMAIN c : c[i].idx \in Nat
  <2>1. DOMAIN c = 1..Len(c)
    BY <1>1 DEF CacheType
  <2> QED BY <1>1, <2>1, CellIs
<1>4. Pulled(p) = Shifted(c, p + 1, -1)
  <2>1. \A i \in DOMAIN c : (c[i].idx > p) <=> (c[i].idx >= p + 1)
    BY <1>3
  <2>2. \A i \in DOMAIN c : c[i].idx - 1 = c[i].idx + (-1)
    BY <1>3
  <2> QED BY <1>2, <2>1, <2>2 DEF Shifted
<1>5. PICK d : d = Pulled(p)
  OBVIOUS
<1>6. /\ CacheType(d) /\ Len(d) = Len(c)
      /\ \A i \in 1..Len(c) :
            /\ d[i].name = c[i].name
            /\ d[i].idx = IF c[i].idx >= p + 1 THEN c[i].idx + (-1) ELSE c[i].idx
  <2>1. p + 1 \in Nat /\ (p + 1) + (-1) \in Nat
    OBVIOUS
  <2> QED BY <1>1, <1>4, <1>5, <2>1, ShiftedIs
<1>7. ASSUME NEW s, NEW r, Points(cache, s), Len(s) \in Nat, p < Len(s), Len(r) = Len(s) - 1,
             \A i \in 0..(Len(r) - 1) : r[i + 1] = IF i < p THEN s[i + 1] ELSE s[i + 2]
      PROVE  Points(d, r)
  <2>1. Points(c, s) /\ \A i \in 1..Len(c) : c[i].idx # p
    BY <1>1, <1>7
  <2>2. ASSUME NEW i \in 1..Len(c) PROVE d[i].idx < Len(r) /\ r[d[i].idx + 1] = d[i].name
    <3>1. c[i].idx \in Nat /\ c[i].idx < Len(s) /\ s[c[i].idx + 1] = c[i].name /\ c[i].idx # p
      BY <1>1, <2>1, CellIs, PointsAt
    <3>2. CASE c[i].idx >= p + 1
      <4>1. d[i].idx = c[i].idx - 1 /\ d[i].idx \in 0..(Len(r) - 1) /\ ~(d[i].idx < p)
        BY <1>6, <1>7, <3>1, <3>2
      <4>2. r[d[i].idx + 1] = s[d[i].idx + 2] /\ d[i].idx + 2 = c[i].idx + 1
        BY <1>7, <3>1, <4>1
      <4>3. r[d[i].idx + 1] = d[i].name
        BY <1>6, <3>1, <4>2, Zenon
      <4>4. d[i].idx < Len(r)
        BY <1>7, <3>1, <4>1
      <4> QED BY <4>3, <4>4
    <3>3. CASE ~(c[i].idx >= p + 1)
      <4>1. d[i].idx = c[i].idx /\ c[i].idx < p
        BY <1>6, <3>1, <3>3
      <4>2. d[i].idx \in 0..(Len(r) - 1)
        BY <1>7, <3>1, <4>1
      <4>3. r[d[i].idx + 1] = IF d[i].idx < p THEN s[d[i].idx + 1] ELSE s[d[i].idx + 2]
        BY <1>7, <4>2, Zenon
      <4>4. d[i].idx < Len(r)
        BY <1>7, <3>1, <4>1
      <4>5. r[d[i].idx + 1] = s[c[i].idx + 1]
        BY <4>1, <4>3
      <4> QED BY <1>6, <3>1, <4>4, <4>5
    <3> QED BY <3>2, <3>3
  <2>3. \A i, j \in 1..Len(d) : d[i].name = d[j].name => i = j
    BY <1>6, <2>1 DEF Points
  <2> QED BY <1>6, <2>2, <2>3 DEF Points
<1> QED BY <1>5, <1>6, <1>7

-----------------------------------------------------------------------------
(* The invariant is kept. *)

JobType == [op: {"none", "add", "del"}, name: Names \cup {0}, pos: 0..UserMax,
            k: 0..UserMax, before: Seq(Names)]

LEMMA TypeIs ==
    TypeOK <=> /\ list \in [Slots -> Entry] /\ total \in 0..UserMax /\ CacheType(cache)
               /\ pc \in {"idle", "shift", "count", "bring", "pull"} /\ job \in JobType
BY DEF TypeOK, CacheType, Cell, JobType

LEMMA Typed ==
    ASSUME list' \in [Slots -> Entry], total' \in 0..UserMax, CacheType(cache)',
           pc' \in {"idle", "shift", "count", "bring", "pull"}, job' \in JobType
    PROVE  TypeOK'
BY DEF TypeOK, CacheType, Cell, JobType

LEMMA JobIs ==
    ASSUME TypeOK
    PROVE  /\ job.op \in {"none", "add", "del"} /\ job.pos \in 0..UserMax /\ job.k \in 0..UserMax
           /\ job.before \in Seq(Names) /\ job \in JobType /\ NoJob \in JobType
BY Sizes, TypeIs DEF JobType, NoJob

LEMMA JobMoves ==
    ASSUME NEW j \in JobType, NEW x \in 0..UserMax, NEW r, r = [j EXCEPT !.k = x]
    PROVE  /\ r \in JobType /\ r.k = x /\ r.pos = j.pos /\ r.before = j.before
           /\ r.name = j.name /\ r.op = j.op
BY DEF JobType

\* The file is in order at every instant.
LEMMA NowSound ==
    ASSUME Inv
    PROVE  /\ Ascends /\ \A i \in 0..(total - 1) : list[i].name \in Names
           /\ Listed \in Seq(Names) /\ Len(Listed) = total /\ Ordered(Listed)
           /\ \A i \in 1..total : Listed[i] = list[i - 1].name
<1>1. total \in 0..UserMax /\ total \in Nat /\ pc \in {"idle", "shift", "count", "bring", "pull"}
  BY Sizes DEF Inv, TypeOK
<1> DEFINE L(i) == list[i].name
<1>2. /\ \A i \in 0..(total - 1) : L(i) \in Names
      /\ \A i, j \in 0..(total - 1) : i <= j => L(i) <= L(j)
  <2> PICK b : b = job.before
    OBVIOUS
  <2>1. CASE ~Updating
    <3>1. Listed \in Seq(Names) /\ Len(Listed) = total /\ Ordered(Listed)
      BY <2>1 DEF Inv, BaseInv, Base
    <3>2. \A i \in 0..(total - 1) : L(i) = Listed[i + 1] /\ i + 1 \in 1..total
      BY <1>1 DEF Listed
    <3> HIDE DEF L
    <3>3. \A i \in 0..(total - 1) : L(i) \in Names
      BY <3>1, <3>2
    <3>4. \A i, j \in 0..(total - 1) : i <= j => L(i) <= L(j)
      BY <1>1, <3>1, <3>2 DEF Ordered
    <3> QED BY <3>3, <3>4
  <2>2. Updating => b \in Seq(Names) /\ Len(b) = total /\ Ordered(b)
    BY DEF Inv, BaseInv, Base
  <2>3. Updating => \A i \in 1..total : b[i] \in Names /\ b[i] \in Nat
    <3>1. SUFFICES ASSUME Updating, NEW i \in 1..total PROVE b[i] \in Names
      BY Sizes
    <3> QED BY <2>2, <3>1
  <2>4. Updating => \A i, j \in 1..total : i <= j => b[i] <= b[j]
    BY <2>2 DEF Ordered
  <2>5. Updating => job.name \in Names /\ job.name \in Nat /\ job.pos \in 0..UserMax
                    /\ job.k \in 0..UserMax
    BY JobIs, Sizes DEF Inv, JobInv, Updating
  <2>6. CASE pc = "shift"
    <3>1. \A i \in 0..(total - 1) :
             (i <= job.k /\ L(i) = b[i + 1]) \/ (job.k < i /\ L(i) = b[i])
      BY <1>1, <2>5, <2>6, Sizes DEF Inv, JobInv, Moving, Updating
    <3> HIDE DEF L
    <3>2. ASSUME NEW i \in 0..(total - 1) PROVE L(i) \in Names
      BY <1>1, <2>3, <2>5, <2>6, <3>1, Sizes DEF Updating
    <3>3. ASSUME NEW i \in 0..(total - 1), NEW j \in 0..(total - 1), i <= j PROVE L(i) <= L(j)
      BY <1>1, <2>3, <2>4, <2>5, <2>6, <3>1, <3>3, Sizes DEF Updating
    <3> QED BY <3>2, <3>3
  <2>7. CASE pc = "count"
    <3>1. \A i \in 0..(total - 1) :
             L(i) = IF i < job.pos THEN b[i + 1] ELSE IF i = job.pos THEN job.name ELSE b[i]
      BY <1>1, <2>7 DEF Inv, JobInv, Grown
    <3>2. \A i \in 1..job.pos : b[i] < job.name
      BY <2>7 DEF Inv, JobInv, NewHere
    <3>3. \A i \in (job.pos + 1)..total : job.name < b[i]
      BY <2>7 DEF Inv, JobInv, NewHere
    <3> HIDE DEF L
    <3>4. ASSUME NEW i \in 0..(total - 1) PROVE L(i) \in Names
      BY <1>1, <2>3, <2>5, <2>7, <3>1, Sizes DEF Updating
    <3>5. ASSUME NEW i \in 0..(total - 1), NEW j \in 0..(total - 1), i <= j PROVE L(i) <= L(j)
      BY <1>1, <2>3, <2>4, <2>5, <2>7, <3>1, <3>2, <3>3, <3>5, Sizes DEF Updating
    <3> QED BY <3>4, <3>5
  <2>8. CASE pc = "pull"
    <3>1. \A i \in 0..(total - 1) :
             L(i) = IF i < job.pos \/ job.k <= i THEN b[i + 1] ELSE b[i + 2]
      BY <1>1, <2>8 DEF Inv, JobInv, Closing
    <3>2. job.k < total /\ job.pos <= job.k
      BY <1>1, <2>5, <2>8, Sizes DEF Inv, JobInv, Updating
    <3> HIDE DEF L
    <3>4. ASSUME NEW i \in 0..(total - 1) PROVE L(i) \in Names
      BY <1>1, <2>3, <2>5, <2>8, <3>1, <3>2, Sizes DEF Updating
    <3>5. ASSUME NEW i \in 0..(total - 1), NEW j \in 0..(total - 1), i <= j PROVE L(i) <= L(j)
      BY <1>1, <2>3, <2>4, <2>5, <2>8, <3>1, <3>2, <3>5, Sizes DEF Updating
    <3> QED BY <3>4, <3>5
  <2> HIDE DEF L
  <2> QED BY <1>1, <2>1, <2>6, <2>7, <2>8 DEF Updating
<1>3. /\ Listed \in Seq(Names) /\ Len(Listed) = total
      /\ \A i \in 1..total : Listed[i] = L(i - 1)
  BY <1>1, <1>2, ListedIs
<1>4. Ordered(Listed)
  <2> HIDE DEF L
  <2>1. ASSUME NEW i \in 1..total, NEW j \in 1..total, i <= j PROVE Listed[i] <= Listed[j]
    <3>1. i - 1 \in 0..(total - 1) /\ j - 1 \in 0..(total - 1) /\ i - 1 <= j - 1
      BY <1>1, <2>1
    <3> QED BY <1>2, <1>3, <3>1
  <2> QED BY <1>3, <2>1 DEF Ordered
<1>5. \A i \in 0..(total - 1) : L(i) \in Nat
  <2> HIDE DEF L
  <2> QED BY <1>2, Sizes
<1> QED BY <1>1, <1>2, <1>3, <1>4, <1>5 DEF Ascends

\* An operation is over, and names and count are what they were.
LEMMA QuietNext ==
    ASSUME Inv, pc \in {"idle", "bring"}, pc' = "idle", job' = job \/ job' = NoJob,
           total' = total, list' \in [Slots -> Entry], \A i \in Slots : list'[i].name = list[i].name,
           CacheType(cache)', now' = now, torn' = torn, stale' \in BOOLEAN,
           ~stale' => Points(cache, Listed)'
    PROVE  Inv'
<1>1. TypeOK' /\ TypeOK
  <2>1. total' \in 0..UserMax /\ job' \in JobType
    BY JobIs DEF Inv, TypeOK
  <2> QED BY <2>1, Typed DEF Inv
<1>2. Listed' = Listed
  <2>1. \A i \in 0..(total - 1) : i \in Slots
    BY <1>1, Sizes DEF TypeOK, Slots
  <2> QED BY <1>1, <2>1, SameNames DEF TypeOK
<1>3. Base = Listed /\ Base' = Listed'
  BY DEF Base, Updating
<1>4. BaseInv'
  BY <1>2, <1>3 DEF Inv, BaseInv, Ordered, Strict
<1>5. CacheInv'
  BY <1>3 DEF CacheInv
<1>6. JobInv'
  BY DEF JobInv
<1> QED BY <1>1, <1>4, <1>5, <1>6 DEF Inv

\* What is known when a name is looked up in a quiet list.
LEMMA QuietLook ==
    ASSUME Inv, Idle, NEW n \in Names
    PROVE  /\ Base = Listed /\ CacheType(cache) /\ TypeOK /\ n \in Nat /\ Right(n, Search(n))
           /\ ~stale => Points(cache, Listed)
           /\ \A i \in 0..(total - 1) : i \in Slots /\ i \in 0..(UserMax - 1)
<1>1. Base = Listed
  BY DEF Base, Updating, Idle
<1>2. Right(n, Search(n)) /\ n \in Nat
  BY NowSound, SearchRight, Sizes
<1>3. total \in 0..UserMax
  BY DEF Inv, TypeOK
<1> QED BY <1>1, <1>2, <1>3, TypeIs, Sizes DEF Inv, CacheInv, Slots

LEMMA LookStep ==
    ASSUME Inv, NEW n \in Names,
           VerifyUnknown(n) \/ AddRefused(n) \/ DelUnknown(n)
    PROVE  Inv'
<1>1. /\ UNCHANGED <<list, total, cache, pc, job, now, torn, stale>>
      /\ Idle
  BY DEF VerifyUnknown, AddRefused, DelUnknown, History
<1>2. CacheType(cache)' /\ (~stale' => Points(cache, Listed)') /\ stale' \in BOOLEAN
      /\ list' \in [Slots -> Entry]
  <2>1. Listed' = Listed
    BY <1>1 DEF Listed
  <2> QED BY <1>1, <2>1, QuietLook DEF CacheType, Inv, Points, TypeOK
<1> QED BY <1>1, <1>2, QuietNext DEF Idle

LEMMA VerifyCachedStep ==
    ASSUME Inv, NEW n \in Names, VerifyCached(n)
    PROVE  Inv'
<1>1. /\ Idle /\ Cached(n) /\ UNCHANGED <<list, total, pc, job, now, torn, stale>>
      /\ cache' = Touched(CachedAt(n))
  BY DEF VerifyCached, History
<1>2. PICK k \in 1..Len(cache) : k = CachedAt(n)
  BY <1>1, QuietLook, CachedAtFinds DEF CacheType
<1>3. now \in 0..MaxTime
  BY DEF Inv
<1>4. CacheType(cache')
  BY <1>1, <1>2, <1>3, QuietLook, TouchedIs
<1>5. ~stale => Points(cache', Listed)
  BY <1>1, <1>2, <1>3, QuietLook, TouchedPoints
<1>6. Listed' = Listed
  BY <1>1 DEF Listed
<1>7. list' \in [Slots -> Entry] /\ stale' \in BOOLEAN
  BY <1>1 DEF Inv, TypeOK
<1>8. CacheType(cache)' /\ (~stale' => Points(cache, Listed)')
  BY <1>1, <1>4, <1>5, <1>6 DEF CacheType, Points
<1> QED BY <1>1, <1>7, <1>8, QuietNext DEF Idle

\* An entry comes into the cache, and another one may leave it.
LEMMA BroughtIn ==
    ASSUME Inv, pc \in {"idle", "bring"}, pc' = "idle", job' = job \/ job' = NoJob,
           total' = total, now' = now, torn' = torn, stale' = stale,
           NEW p \in 0..(total - 1), ~stale => ~Cached(list[p].name),
           cache' = BringIn(cache, list, p), list' = WriteBack(cache, list)
    PROVE  Inv'
<1>1. /\ CacheType(cache) /\ TypeOK /\ now \in 0..MaxTime /\ total \in 0..UserMax
      /\ Base = Listed /\ (~stale => Points(cache, Listed)) /\ stale' \in BOOLEAN
  <2>1. TypeOK /\ Base = Listed
    BY DEF Base, Updating, Inv
  <2> QED BY <2>1, TypeIs DEF Inv, CacheInv
<1>2. /\ Listed \in Seq(Names) /\ Len(Listed) = total /\ Listed[p + 1] = list[p].name
      /\ list[p].name \in Names /\ p \in 0..(UserMax - 1) /\ Len(Listed) \in Nat /\ p < Len(Listed)
  <2>1. p + 1 \in 1..total /\ (p + 1) - 1 = p /\ p \in 0..(UserMax - 1) /\ p < total /\ total \in Nat
    BY <1>1, Sizes
  <2> QED BY <2>1, NowSound
<1>3. CacheType(cache')
  BY <1>1, <1>2, BringInIs
<1>4. ~stale => Points(cache', Listed)
  BY <1>1, <1>2, BringInPoints
<1>5. list' \in [Slots -> Entry] /\ \A i \in Slots : list'[i].name = list[i].name
  BY <1>1, WriteBackSame
<1>6. Listed' = Listed
  <2>1. \A i \in 0..(total - 1) : i \in Slots
    BY <1>1, Sizes DEF Slots
  <2> QED BY <1>1, <1>5, <2>1, SameNames
<1>7. CacheType(cache)' /\ (~stale' => Points(cache, Listed)')
  BY <1>3, <1>4, <1>6 DEF CacheType, Points
<1> QED BY <1>1, <1>5, <1>7, QuietNext

LEMMA VerifyListedStep ==
    ASSUME Inv, NEW n \in Names, VerifyListed(n)
    PROVE  Inv'
<1>1. /\ Idle /\ ~Cached(n) /\ Search(n).found /\ UNCHANGED <<total, pc, job, now, torn, stale>>
      /\ cache' = BringIn(cache, list, Search(n).pos) /\ list' = WriteBack(cache, list)
  BY DEF VerifyListed, History
<1>2. PICK p \in 0..(total - 1) : p = Search(n).pos /\ list[p].name = n
  BY <1>1, QuietLook DEF Right
<1> QED BY <1>1, <1>2, BroughtIn DEF Idle

LEMMA AddDoneStep ==
    ASSUME Inv, AddDone
    PROVE  Inv'
<1>1. /\ pc = "bring" /\ pc' = "idle" /\ job' = NoJob /\ UNCHANGED <<total, now, torn, stale>>
      /\ cache' = BringIn(cache, list, job.pos) /\ list' = WriteBack(cache, list)
  BY DEF AddDone, History
<1>2. job.pos \in 0..(total - 1) /\ (~stale => ~Cached(list[job.pos].name))
  BY <1>1 DEF Inv, JobInv
<1> QED BY <1>1, <1>2, BroughtIn

LEMMA UnreadStep ==
    ASSUME Inv, UnreadAdd \/ \E n \in Names : UnreadVerify(n)
    PROVE  Inv'
<1>1. PICK p \in 0..(total - 1) :
         /\ cache' = BringInUnread(p) /\ list' = WriteBack(cache, list)
         /\ pc \in {"idle", "bring"} /\ pc' = "idle" /\ job' \in {job, NoJob}
         /\ stale' = TRUE /\ UNCHANGED <<total, now, torn>>
  <2>1. CASE UnreadAdd
    <3>1. pc = "bring"
      BY <2>1 DEF UnreadAdd
    <3>2. job.pos \in 0..(total - 1)
      BY <3>1 DEF Inv, JobInv
    <3> QED BY <2>1, <3>1, <3>2 DEF UnreadAdd
  <2>2. CASE \E n \in Names : UnreadVerify(n)
    <3>1. PICK n \in Names : UnreadVerify(n)
      BY <2>2
    <3>2. Idle /\ Search(n).found
      BY <3>1 DEF UnreadVerify
    <3>3. Search(n).pos \in 0..(total - 1)
      BY <3>2, QuietLook DEF Right
    <3> QED BY <3>1, <3>2, <3>3 DEF UnreadVerify, Idle
  <2> QED BY <2>1, <2>2
<1>2. TypeOK /\ CacheType(cache) /\ now \in 0..MaxTime /\ total \in 0..UserMax
  BY TypeIs DEF Inv
<1>3. p \in 0..(UserMax - 1)
  BY <1>2, Sizes
<1>4. CacheType(cache')
  BY <1>1, <1>2, <1>3, BringInUnreadIs
<1>5. list' \in [Slots -> Entry] /\ \A i \in Slots : list'[i].name = list[i].name
  BY <1>1, <1>2, WriteBackSame
<1>6. CacheType(cache)'
  BY <1>4 DEF CacheType
<1>7. stale' \in BOOLEAN /\ stale' /\ (job' = job \/ job' = NoJob)
  BY <1>1
<1> QED BY <1>1, <1>5, <1>6, <1>7, QuietNext

\* An update is under way before and after, in the same place of the list.
LEMMA UpdateNext ==
    ASSUME Inv, Updating, Updating', job' \in JobType, job'.before = job.before,
           total' = total, list' \in [Slots -> Entry], UNCHANGED <<cache, now, torn, stale>>,
           JobInv'
    PROVE  Inv'
<1>1. Base = job.before /\ Base' = job.before
  BY DEF Base
<1>2. BaseInv' /\ CacheInv'
  BY <1>1 DEF Inv, BaseInv, CacheInv, Ordered, Strict, Points
<1>3. TypeOK'
  <2>1. total' \in 0..UserMax /\ CacheType(cache)'
    BY TypeIs DEF Inv, CacheType
  <2>2. pc' \in {"idle", "shift", "count", "bring", "pull"}
    BY DEF Updating
  <2> QED BY <2>1, <2>2, Typed
<1> QED BY <1>2, <1>3 DEF Inv

\* An update begins.
LEMMA StartNext ==
    ASSUME Inv, Idle, Updating', job' \in JobType, job'.before = Listed,
           UNCHANGED <<list, total, cache, now, torn, stale>>, JobInv'
    PROVE  Inv'
<1>1. Base = Listed /\ Base' = Listed
  BY DEF Base, Updating, Idle
<1>2. BaseInv' /\ CacheInv'
  BY <1>1 DEF Inv, BaseInv, CacheInv, Ordered, Strict, Points
<1>3. TypeOK'
  <2>1. total' \in 0..UserMax /\ CacheType(cache)' /\ list' \in [Slots -> Entry]
    BY TypeIs DEF Inv, CacheType
  <2>2. pc' \in {"idle", "shift", "count", "bring", "pull"}
    BY DEF Updating
  <2> QED BY <2>1, <2>2, Typed
<1> QED BY <1>2, <1>3 DEF Inv

LEMMA AddStartStep ==
    ASSUME Inv, NEW n \in Names, AddStart(n)
    PROVE  Inv'
<1>1. /\ Idle /\ ~Cached(n) /\ total < UserMax /\ ~Search(n).found /\ pc' = "shift"
      /\ job' = [op |-> "add", name |-> n, pos |-> Search(n).pos, k |-> total, before |-> Listed]
      /\ UNCHANGED <<list, total, cache, now, torn, stale>>
  BY DEF AddStart, MayAdd, History
<1>2. PICK p \in 0..total :
         /\ p = Search(n).pos
         /\ \A i \in 0..(p - 1) : list[i].name < n
         /\ \A i \in p..(total - 1) : n < list[i].name
  BY <1>1, QuietLook DEF Right
<1>3. /\ job'.op = "add" /\ job'.name = n /\ job'.pos = p /\ job'.k = total
      /\ job'.before = Listed
  BY <1>1, <1>2
<1>4. total \in 0..UserMax /\ total \in Nat /\ Listed \in Seq(Names) /\ Len(Listed) = total
      /\ \A i \in 1..total : Listed[i] = list[i - 1].name
  BY NowSound, Sizes DEF Inv, TypeOK
<1>5. job' \in JobType
  BY <1>1, <1>2, <1>4, Sizes DEF JobType
<1>6. NewHere'
  <2>1. \A i \in 1..p : Listed[i] < n
    <3> TAKE i \in 1..p
    <3>1. i - 1 \in 0..(p - 1) /\ i \in 1..total
      BY <1>4
    <3> QED BY <1>2, <1>4, <3>1
  <2>2. \A i \in (p + 1)..total : n < Listed[i]
    <3> TAKE i \in (p + 1)..total
    <3>1. i - 1 \in p..(total - 1) /\ i \in 1..total
      BY <1>4
    <3> QED BY <1>2, <1>4, <3>1
  <2>3. ~Cached(n)'
    BY <1>1 DEF Cached
  <2> QED BY <1>1, <1>3, <2>1, <2>2, <2>3 DEF NewHere, Cached
<1>7. \A i \in 0..total : Moving(i)'
  <2> TAKE i \in 0..total
  <2>1. i < total => list[i].name = Listed[i + 1]
    <3> SUFFICES ASSUME i < total PROVE list[i].name = Listed[i + 1]
      OBVIOUS
    <3>1. i + 1 \in 1..total /\ (i + 1) - 1 = i
      BY <1>4
    <3> QED BY <1>4, <3>1
  <2> QED BY <1>1, <1>3, <1>4, <2>1 DEF Moving
<1>8. JobInv'
  BY <1>1, <1>3, <1>4, <1>6, <1>7, Sizes DEF JobInv
<1> QED BY <1>1, <1>3, <1>5, <1>8, StartNext DEF Updating

LEMMA ShiftStep ==
    ASSUME Inv, Shift
    PROVE  Inv'
<1>1. /\ pc = "shift" /\ job.k > job.pos /\ list' = [list EXCEPT ![job.k] = list[job.k - 1]]
      /\ job' = [job EXCEPT !.k = @ - 1] /\ pc' = pc
      /\ UNCHANGED <<total, cache, now, torn, stale>>
  BY DEF Shift, History
<1>2. NewHere /\ job.k \in job.pos..total /\ (\A i \in 0..total : Moving(i)) /\ job.name \in Names
  BY <1>1 DEF Inv, JobInv
<1>3. PICK k, p : k = job.k /\ p = job.pos
  OBVIOUS
<1>4. total \in Nat /\ total < UserMax /\ p \in 0..total /\ k \in 1..total /\ k > p
      /\ list \in [Slots -> Entry]
  BY <1>1, <1>2, <1>3, Sizes DEF NewHere, Inv, TypeOK
<1>5. /\ job' \in JobType /\ job'.k = k - 1 /\ job'.pos = p /\ job'.before = job.before
      /\ job'.name = job.name /\ job'.op = job.op
  <2>1. k - 1 \in 0..UserMax /\ job \in JobType
    BY <1>4, JobIs, Sizes DEF Inv
  <2>2. job' = [job EXCEPT !.k = k - 1]
    BY <1>1, <1>3
  <2>3. PICK r : r = job'
    OBVIOUS
  <2> QED BY <1>3, <2>1, <2>2, <2>3, JobMoves
<1>6. k \in Slots /\ k - 1 \in Slots
  BY <1>4, Sizes DEF Slots
<1>7. list' \in [Slots -> Entry]
  BY <1>1, <1>3, <1>4, <1>6
<1>8. \A i \in 0..total : Moving(i)'
  <2> TAKE i \in 0..total
  <2>0. i \in Slots
    BY <1>4, Sizes DEF Slots
  <2>1. list'[i] = IF i = k THEN list[k - 1] ELSE list[i]
    BY <1>1, <1>3, <1>4, <2>0
  <2>2. i = k => list[k - 1].name = job.before[k]
    <3>1. Moving(k - 1) /\ k - 1 < total /\ k - 1 <= k /\ (k - 1) + 1 = k
      BY <1>2, <1>4
    <3> QED BY <1>3, <3>1 DEF Moving
  <2>3. Moving(i) /\ total' = total
    BY <1>1, <1>2
  <2>4. i <= k - 1 /\ i < total => list'[i].name = job.before[i + 1]
    BY <1>3, <1>4, <2>1, <2>3 DEF Moving
  <2>5. k - 1 < i /\ i <= total => list'[i].name = job.before[i]
    <3>1. k - 1 < i => i = k \/ k < i
      BY <1>4
    <3> QED BY <1>3, <1>4, <2>1, <2>2, <2>3, <3>1 DEF Moving
  <2> QED BY <1>5, <2>3, <2>4, <2>5 DEF Moving
<1>9. NewHere'
  BY <1>1, <1>2, <1>5 DEF NewHere, Cached
<1>10. JobInv'
  BY <1>1, <1>2, <1>4, <1>5, <1>8, <1>9 DEF JobInv
<1> QED BY <1>1, <1>5, <1>7, <1>10, UpdateNext DEF Updating

LEMMA InsertStep ==
    ASSUME Inv, Insert
    PROVE  Inv'
<1>1. /\ pc = "shift" /\ job.k = job.pos /\ pc' = "count" /\ job' = job
      /\ list' = [list EXCEPT ![job.pos] = [name |-> job.name, seen |-> now]]
      /\ UNCHANGED <<total, cache, now, torn, stale>>
  BY DEF Insert, History
<1>2. NewHere /\ (\A i \in 0..total : Moving(i)) /\ job.name \in Names
  BY <1>1 DEF Inv, JobInv
<1>3. PICK p : p = job.pos
  OBVIOUS
<1>4. total \in Nat /\ total < UserMax /\ p \in 0..total /\ list \in [Slots -> Entry]
      /\ now \in 0..MaxTime
  BY <1>2, <1>3, Sizes DEF NewHere, Inv, TypeOK
<1>5. list' \in [Slots -> Entry]
  <2>1. [name |-> job.name, seen |-> now] \in Entry
    BY <1>2, <1>4 DEF Entry
  <2> QED BY <1>1, <1>4, <2>1
<1>6. \A i \in 0..total : list'[i].name = Grown(job.before, p, job.name, i)
  <2> TAKE i \in 0..total
  <2>0. i \in Slots
    BY <1>4, Sizes DEF Slots
  <2>1. list'[i] = IF i = p THEN [name |-> job.name, seen |-> now] ELSE list[i]
    BY <1>1, <1>3, <1>4, <2>0
  <2>2. Moving(i)
    BY <1>2
  <2>3. CASE i < p
    BY <1>1, <1>3, <1>4, <2>1, <2>2, <2>3 DEF Moving, Grown
  <2>4. CASE i = p
    BY <1>4, <2>1, <2>4 DEF Grown
  <2>5. CASE p < i
    BY <1>1, <1>3, <1>4, <2>1, <2>2, <2>5 DEF Moving, Grown
  <2> QED BY <1>4, <2>3, <2>4, <2>5
<1>7. NewHere' /\ \A i \in 0..total' : (list[i].name = Grown(job.before, job.pos, job.name, i))'
  BY <1>1, <1>2, <1>3, <1>6 DEF NewHere, Cached
<1>8. JobInv'
  BY <1>1, <1>2, <1>7 DEF JobInv
<1>9. job' \in JobType
  BY <1>1, JobIs DEF Inv
<1> QED BY <1>1, <1>5, <1>8, <1>9, UpdateNext DEF Updating

LEMMA DelStartStep ==
    ASSUME Inv, NEW n \in Names, DelStart(n)
    PROVE  Inv'
<1>1. /\ Idle /\ Search(n).found /\ pc' = "pull"
      /\ job' = [op |-> "del", name |-> n, pos |-> Search(n).pos, k |-> Search(n).pos,
                 before |-> Listed]
      /\ UNCHANGED <<list, total, cache, now, torn, stale>>
  BY DEF DelStart, History
<1>2. PICK p \in 0..(total - 1) : p = Search(n).pos /\ list[p].name = n
  BY <1>1, QuietLook DEF Right
<1>3. /\ job'.op = "del" /\ job'.name = n /\ job'.pos = p /\ job'.k = p /\ job'.before = Listed
  BY <1>1, <1>2
<1>4. total \in 0..UserMax /\ total \in Nat /\ Listed \in Seq(Names) /\ Len(Listed) = total
      /\ \A i \in 1..total : Listed[i] = list[i - 1].name
  BY NowSound, Sizes DEF Inv, TypeOK
<1>5. job' \in JobType
  BY <1>1, <1>2, <1>4, Sizes DEF JobType
<1>6. \A i \in 0..(total - 1) : Listed[i + 1] = list[i].name
  <2> TAKE i \in 0..(total - 1)
  <2>1. i + 1 \in 1..total /\ (i + 1) - 1 = i
    BY <1>4
  <2> QED BY <1>4, <2>1
<1>7. JobInv'
  <2>1. \A i \in 0..(total - 1) : Closing(i)'
    BY <1>1, <1>2, <1>3, <1>4, <1>6 DEF Closing
  <2>2. p \in p..(total - 1) /\ Listed[p + 1] = n
    BY <1>2, <1>4, <1>6
  <2> QED BY <1>1, <1>2, <1>3, <2>1, <2>2 DEF JobInv
<1> QED BY <1>1, <1>3, <1>5, <1>7, StartNext DEF Updating

LEMMA PullStep ==
    ASSUME Inv, Pull
    PROVE  Inv'
<1>1. /\ pc = "pull" /\ job.k < total - 1 /\ list' = [list EXCEPT ![job.k] = list[job.k + 1]]
      /\ job' = [job EXCEPT !.k = @ + 1] /\ pc' = pc
      /\ UNCHANGED <<total, cache, now, torn, stale>>
  BY DEF Pull, History
<1>2. /\ job.op = "del" /\ job.pos \in 0..(total - 1) /\ job.before[job.pos + 1] = job.name
      /\ job.k \in job.pos..(total - 1) /\ (\A i \in 0..(total - 1) : Closing(i))
      /\ job.name \in Names
  BY <1>1 DEF Inv, JobInv
<1>3. PICK k, p : k = job.k /\ p = job.pos
  OBVIOUS
<1>4. total \in Nat /\ total <= UserMax /\ p \in 0..(total - 1) /\ k \in 0..(total - 2) /\ p <= k
      /\ list \in [Slots -> Entry]
  BY <1>1, <1>2, <1>3, Sizes DEF Inv, TypeOK
<1>5. /\ job' \in JobType /\ job'.k = k + 1 /\ job'.pos = p /\ job'.before = job.before
      /\ job'.name = job.name /\ job'.op = job.op
  <2>1. k + 1 \in 0..UserMax /\ job \in JobType
    BY <1>4, JobIs, Sizes DEF Inv
  <2>2. job' = [job EXCEPT !.k = k + 1]
    BY <1>1, <1>3
  <2>3. PICK r : r = job'
    OBVIOUS
  <2> QED BY <1>3, <2>1, <2>2, <2>3, JobMoves
<1>6. k \in Slots /\ k + 1 \in Slots
  BY <1>4, Sizes DEF Slots
<1>7. list' \in [Slots -> Entry]
  BY <1>1, <1>3, <1>4, <1>6
<1>8. \A i \in 0..(total - 1) : Closing(i)'
  <2> TAKE i \in 0..(total - 1)
  <2>0. i \in Slots
    BY <1>4, Sizes DEF Slots
  <2>1. list'[i] = IF i = k THEN list[k + 1] ELSE list[i]
    BY <1>1, <1>3, <1>4, <2>0
  <2>2. list[k + 1].name = job.before[k + 2]
    <3>1. Closing(k + 1) /\ k <= k + 1 /\ (k + 1) + 1 = k + 2
      BY <1>2, <1>4
    <3> QED BY <1>3, <3>1 DEF Closing
  <2>3. Closing(i)
    BY <1>2
  <2>4. list'[i].name = IF i < p \/ k + 1 <= i THEN job.before[i + 1] ELSE job.before[i + 2]
    <3>1. CASE i = k
      BY <1>4, <2>1, <2>2, <3>1
    <3>2. CASE i # k
      <4>1. (i < p \/ k <= i) <=> (i < p \/ k + 1 <= i)
        BY <1>4, <3>2
      <4> QED BY <1>3, <2>1, <2>3, <3>2, <4>1 DEF Closing
    <3> QED BY <3>1, <3>2
  <2> QED BY <1>5, <2>4 DEF Closing
<1>9. JobInv'
  <2>1. k + 1 \in p..(total - 1)
    BY <1>4
  <2> QED BY <1>1, <1>2, <1>3, <1>5, <1>8, <2>1 DEF JobInv
<1> QED BY <1>1, <1>5, <1>7, <1>9, UpdateNext DEF Updating

LEMMA CountUpStep ==
    ASSUME Inv, CountUp
    PROVE  Inv'
<1>1. /\ pc = "count" /\ total' = total + 1 /\ cache' = Bumped(job.pos) /\ pc' = "bring"
      /\ UNCHANGED <<list, job, now, torn, stale>>
  BY DEF CountUp, History
<1>2. NewHere /\ job.name \in Names /\ \A i \in 0..total :
          list[i].name = Grown(job.before, job.pos, job.name, i)
  BY <1>1 DEF Inv, JobInv
<1>3. PICK p, b, n : p = job.pos /\ b = job.before /\ n = job.name
  OBVIOUS
<1>4. total \in Nat /\ total < UserMax /\ p \in 0..total /\ p \in Nat /\ CacheType(cache)
      /\ list \in [Slots -> Entry] /\ n \in Nat
  <2>1. total \in 0..UserMax /\ CacheType(cache) /\ list \in [Slots -> Entry]
    BY TypeIs DEF Inv
  <2>2. total < UserMax /\ p \in 0..total
    BY <1>2, <1>3 DEF NewHere
  <2>3. total \in Nat /\ n \in Nat
    <3>1. total \in Nat
      BY <2>1, Sizes
    <3>2. n \in Names
      BY <1>2, <1>3
    <3> QED BY <3>1, <3>2, Sizes
  <2> QED BY <2>1, <2>2, <2>3
<1>5. b \in Seq(Names) /\ Len(b) = total /\ Ordered(b) /\ (~torn => Strict(b))
      /\ (~stale => Points(cache, b))
  BY <1>1, <1>3 DEF Inv, BaseInv, CacheInv, Base, Updating
<1>6. /\ \A i \in 1..p : b[i] < n
      /\ \A i \in (p + 1)..total : n < b[i]
  BY <1>2, <1>3 DEF NewHere
<1>7. ASSUME NEW i \in 1..total PROVE b[i] \in Names /\ b[i] \in Nat
  <2>1. b[i] \in Names
    BY <1>5
  <2> QED BY <2>1, Sizes
<1>8. PICK r : r = Listed'
  OBVIOUS
<1>9. ASSUME NEW i \in 0..total PROVE list[i].name = Grown(b, p, n, i) /\ list[i].name \in Names
  <2>1. list[i].name = Grown(b, p, n, i)
    BY <1>2, <1>3
  <2> QED BY <1>2, <1>3, <1>4, <1>7, <2>1 DEF Grown
<1>10. /\ r \in Seq(Names) /\ Len(r) = total + 1 /\ Len(r) \in Nat
       /\ \A i \in 1..(total + 1) : r[i] = list[i - 1].name
  <2>1. r = [i \in 1..(total + 1) |-> list[i - 1].name]
    BY <1>1, <1>8 DEF Listed
  <2>2. \A i \in 1..(total + 1) : list[i - 1].name \in Names
    <3> TAKE i \in 1..(total + 1)
    <3>1. i - 1 \in 0..total
      BY <1>4
    <3> QED BY <1>9, <3>1
  <2>3. total + 1 \in Nat
    BY <1>4
  <2> QED BY <2>1, <2>2, <2>3
<1>11. \A i \in 0..total : r[i + 1] = Grown(b, p, n, i)
  <2> TAKE i \in 0..total
  <2>1. i + 1 \in 1..(total + 1) /\ (i + 1) - 1 = i
    BY <1>4
  <2> QED BY <1>9, <1>10, <2>1
<1>12. ASSUME NEW i \in 1..(total + 1)
       PROVE  r[i] = IF i <= p THEN b[i] ELSE IF i = p + 1 THEN n ELSE b[i - 1]
  <2>1. i - 1 \in 0..total /\ (i - 1) + 1 = i
    BY <1>4
  <2>2. r[i] = Grown(b, p, n, i - 1)
    BY <1>11, <2>1
  <2> QED BY <1>4, <2>1, <2>2 DEF Grown
<1>13. ASSUME NEW i \in 1..(total + 1), NEW j \in 1..(total + 1), i < j
       PROVE  r[i] <= r[j] /\ (~torn => r[i] < r[j])
  <2>1. \A k, m \in 1..total : k <= m => b[k] <= b[m]
    BY <1>5 DEF Ordered
  <2>2. ~torn => \A k, m \in 1..total : k < m => b[k] < b[m]
    BY <1>5 DEF Strict
  <2>3. CASE j <= p
    BY <1>4, <1>12, <1>13, <2>1, <2>2, <2>3
  <2>4. CASE j = p + 1
    BY <1>4, <1>6, <1>7, <1>12, <1>13, <2>4
  <2>5. CASE p + 1 < j /\ i <= p
    <3>1. r[i] = b[i] /\ r[j] = b[j - 1] /\ i \in 1..total /\ j - 1 \in 1..total /\ i < j - 1
      BY <1>4, <1>12, <1>13, <2>5
    <3> QED BY <2>1, <2>2, <3>1
  <2>6. CASE p + 1 < j /\ i = p + 1
    <3>1. r[i] = n /\ r[j] = b[j - 1] /\ j - 1 \in 1..total /\ j - 1 \in (p + 1)..total
      BY <1>4, <1>12, <1>13, <2>6
    <3> QED BY <1>4, <1>6, <1>7, <3>1
  <2>7. CASE p + 1 < i
    <3>1. r[i] = b[i - 1] /\ r[j] = b[j - 1] /\ i - 1 \in 1..total /\ j - 1 \in 1..total
          /\ i - 1 < j - 1
      BY <1>4, <1>12, <1>13, <2>7
    <3> QED BY <2>1, <2>2, <3>1
  <2> QED BY <1>4, <1>13, <2>3, <2>4, <2>5, <2>6, <2>7
<1>14. Ordered(r) /\ (~torn => Strict(r))
  <2>1. \A i \in 1..(total + 1) : r[i] <= r[i]
    <3>1. \A i \in 1..(total + 1) : r[i] \in Nat
      <4> TAKE i \in 1..(total + 1)
      <4>1. r[i] \in Names
        BY <1>10
      <4> QED BY <4>1, Sizes
    <3> QED BY <3>1
  <2>2. \A i, j \in 1..(total + 1) : i <= j => i = j \/ i < j
    BY <1>4
  <2>3. \A i, j \in 1..(total + 1) : i <= j => r[i] <= r[j]
    BY <1>13, <2>1, <2>2
  <2>4. ~torn => \A i, j \in 1..(total + 1) : i < j => r[i] < r[j]
    BY <1>13
  <2> QED BY <1>10, <2>3, <2>4 DEF Ordered, Strict
<1>15. Base' = r
  BY <1>1, <1>8 DEF Base, Updating
<1>16. BaseInv'
  BY <1>1, <1>10, <1>14, <1>15 DEF BaseInv, Ordered, Strict
<1>17. CacheType(cache)' /\ (~stale => Points(cache', r))
       /\ Len(cache') = Len(cache) /\ \A i \in 1..Len(cache) : cache'[i].name = cache[i].name
  <2>1. CacheType(cache') /\ Len(cache') = Len(cache)
        /\ \A i \in 1..Len(cache) : cache'[i].name = cache[i].name
    BY <1>1, <1>3, <1>4, BumpedIs
  <2>2. ~stale => Points(cache', r)
    <3>1. Len(b) \in Nat /\ p \in 0..Len(b) /\ Len(r) = Len(b) + 1
          /\ \A i \in 0..Len(b) : r[i + 1] = Grown(b, p, n, i)
      BY <1>4, <1>5, <1>10, <1>11
    <3>2. Points(cache, b) => Points(Bumped(p), r)
      BY <1>4, <3>1, BumpedPoints
    <3> QED BY <1>1, <1>3, <1>5, <3>2
  <2> QED BY <2>1, <2>2 DEF CacheType
<1>18. CacheInv'
  BY <1>1, <1>15, <1>17 DEF CacheInv, Points
<1>19. JobInv'
  <2>1. list[p].name = n /\ p \in 0..((total + 1) - 1)
    BY <1>4, <1>9 DEF Grown
  <2>2. DOMAIN cache = 1..Len(cache) /\ DOMAIN cache' = 1..Len(cache)
    BY <1>4, <1>17 DEF CacheType
  <2>3. Cached(n)' => Cached(n)
    BY <1>17, <2>2 DEF Cached
  <2>4. ~stale' => ~Cached(n)'
    BY <1>1, <1>2, <1>3, <2>3 DEF NewHere
  <2>5. job' = job /\ n \in Names
    BY <1>1, <1>2, <1>3
  <2> QED BY <1>1, <1>3, <2>1, <2>4, <2>5 DEF JobInv, Cached
<1>20. TypeOK'
  <2>1. total' \in 0..UserMax /\ job' \in JobType /\ list' \in [Slots -> Entry]
    BY <1>1, <1>4, JobIs, Sizes DEF Inv
  <2> QED BY <1>1, <1>17, <2>1, Typed
<1> QED BY <1>1, <1>16, <1>18, <1>19, <1>20 DEF Inv

LEMMA CountDownStep ==
    ASSUME Inv, CountDown
    PROVE  Inv'
<1>1. /\ pc = "pull" /\ job.k = total - 1 /\ total' = total - 1 /\ cache' = Pulled(job.pos)
      /\ pc' = "idle" /\ job' = NoJob /\ UNCHANGED <<list, now, torn, stale>>
  BY DEF CountDown, History
<1>2. /\ job.pos \in 0..(total - 1) /\ job.k \in job.pos..(total - 1)
      /\ \A i \in 0..(total - 1) : Closing(i)
  BY <1>1 DEF Inv, JobInv
<1>3. PICK p, b, t : p = job.pos /\ b = job.before /\ t = total - 1
  OBVIOUS
<1>4. total \in Nat /\ total <= UserMax /\ p \in 0..t /\ p \in Nat /\ t \in Nat /\ total = t + 1
      /\ CacheType(cache) /\ list \in [Slots -> Entry]
  BY <1>2, <1>3, TypeIs, Sizes DEF Inv
<1>5. b \in Seq(Names) /\ Len(b) = total /\ Ordered(b) /\ (~torn => Strict(b))
      /\ (~stale => Points(cache, b))
  BY <1>1, <1>3 DEF Inv, BaseInv, CacheInv, Base, Updating
<1>6. PICK r : r = Listed'
  OBVIOUS
<1>7. \A i \in 0..(t - 1) : list[i].name = IF i < p THEN b[i + 1] ELSE b[i + 2]
  <2> TAKE i \in 0..(t - 1)
  <2>1. Closing(i) /\ job.k = t /\ ~(t <= i) /\ i \in 0..(total - 1)
    BY <1>1, <1>2, <1>3, <1>4
  <2> QED BY <1>3, <2>1 DEF Closing
<1>8. ASSUME NEW i \in 1..t
      PROVE  /\ list[i - 1].name = IF i <= p THEN b[i] ELSE b[i + 1]
             /\ list[i - 1].name \in Names
  <2>1. i - 1 \in 0..(t - 1) /\ (i - 1) + 1 = i /\ (i - 1) + 2 = i + 1 /\ (i - 1 < p <=> i <= p)
        /\ i \in 1..Len(b) /\ i + 1 \in 1..Len(b)
    BY <1>4, <1>5
  <2>2. list[i - 1].name = IF i <= p THEN b[i] ELSE b[i + 1]
    BY <1>7, <2>1
  <2>3. b[i] \in Names /\ b[i + 1] \in Names
    BY <1>5, <2>1
  <2> QED BY <2>2, <2>3
<1>9. r \in Seq(Names) /\ Len(r) = t /\ \A i \in 1..t : r[i] = IF i <= p THEN b[i] ELSE b[i + 1]
  <2>1. r = [i \in 1..t |-> list[i - 1].name]
    BY <1>1, <1>3, <1>6 DEF Listed
  <2>2. r \in [1..t -> Names]
    BY <1>8, <2>1
  <2>3. r \in Seq(Names) /\ Len(r) = t
    BY <1>4, <2>2
  <2> QED BY <1>8, <2>1, <2>3
<1>10. \A i \in 0..(t - 1) : r[i + 1] = IF i < p THEN b[i + 1] ELSE b[i + 2]
  <2> TAKE i \in 0..(t - 1)
  <2>1. i + 1 \in 1..t /\ (i + 1 <= p <=> i < p) /\ (i + 1) + 1 = i + 2
    BY <1>4
  <2> QED BY <1>9, <2>1
<1>11. Ordered(r) /\ (~torn => Strict(r))
  <2>1. \A i \in 1..t : \E k \in 1..Len(b) : r[i] = b[k] /\ k = IF i <= p THEN i ELSE i + 1
    BY <1>4, <1>5, <1>9
  <2>2. ASSUME NEW i \in 1..t, NEW j \in 1..t, i <= j
        PROVE  r[i] <= r[j] /\ (~torn /\ i < j => r[i] < r[j])
    <3>1. PICK k \in 1..Len(b) : r[i] = b[k] /\ k = IF i <= p THEN i ELSE i + 1
      BY <2>1
    <3>2. PICK m \in 1..Len(b) : r[j] = b[m] /\ m = IF j <= p THEN j ELSE j + 1
      BY <2>1
    <3>3. k <= m /\ (i < j => k < m)
      BY <1>4, <2>2, <3>1, <3>2
    <3> QED BY <1>5, <3>1, <3>2, <3>3 DEF Ordered, Strict
  <2> QED BY <1>9, <2>2 DEF Ordered, Strict
<1>12. Base' = r
  BY <1>1, <1>6 DEF Base, Updating
<1>13. BaseInv'
  BY <1>1, <1>3, <1>9, <1>11, <1>12 DEF BaseInv, Ordered, Strict
<1>14. CacheType(cache)' /\ (~stale => Points(cache', r))
  <2>1. /\ CacheType(cache')
        /\ \A s, q : Points(cache, s) /\ Len(s) \in Nat /\ p < Len(s) /\ Len(q) = Len(s) - 1
                     /\ (\A i \in 0..(Len(q) - 1) : q[i + 1] = IF i < p THEN s[i + 1] ELSE s[i + 2])
                        => Points(cache', q)
    BY <1>1, <1>3, <1>4, PulledPoints
  <2>2. Len(b) \in Nat /\ p < Len(b) /\ Len(r) = Len(b) - 1
    BY <1>4, <1>5, <1>9
  <2> QED BY <1>5, <1>9, <1>10, <2>1, <2>2 DEF CacheType
<1>15. CacheInv'
  BY <1>1, <1>12, <1>14 DEF CacheInv, Points
<1>16. JobInv'
  BY <1>1 DEF JobInv
<1>17. TypeOK'
  <2>1. total' \in 0..UserMax /\ job' \in JobType /\ list' \in [Slots -> Entry]
    BY <1>1, <1>3, <1>4, JobIs, Sizes DEF Inv
  <2> QED BY <1>1, <1>14, <2>1, Typed
<1> QED BY <1>1, <1>13, <1>15, <1>16, <1>17 DEF Inv

LEMMA DelAllStep ==
    ASSUME Inv, DelAll
    PROVE  Inv'
<1>1. /\ pc = "idle" /\ total' = 0 /\ cache' = <<>> /\ torn' = FALSE /\ stale' = FALSE
      /\ UNCHANGED <<list, pc, job, now>>
  BY DEF DelAll, Idle
<1>2. Base' = Listed' /\ Listed' = <<>>
  BY <1>1 DEF Base, Updating, Listed
<1>3. BaseInv' /\ CacheInv' /\ JobInv'
  BY <1>1, <1>2 DEF BaseInv, CacheInv, JobInv, Ordered, Strict, Points
<1>4. TypeOK'
  BY <1>1, Typed, TypeIs, Sizes DEF Inv, CacheType
<1> QED BY <1>1, <1>3, <1>4 DEF Inv

\* An operation is cut short: the file is as it is.
LEMMA CutShort ==
    ASSUME Inv, pc' = "idle", job' = NoJob, UNCHANGED <<list, total, now>>,
           torn' = (torn \/ (Updating /\ Listed # job.before)), stale' \in BOOLEAN,
           CacheType(cache)', ~stale' => Points(cache, Listed)'
    PROVE  Inv'
<1>1. Base' = Listed /\ Listed' = Listed
  BY DEF Base, Updating, Listed
<1>2. BaseInv'
  <2>1. ~torn' => Strict(Listed)
    <3> SUFFICES ASSUME ~torn' PROVE Strict(Listed)
      OBVIOUS
    <3>1. ~torn /\ (Updating => Listed = job.before)
      OBVIOUS
    <3>2. Base = Listed
      BY <3>1 DEF Base
    <3> QED BY <3>1, <3>2 DEF Inv, BaseInv
  <2> QED BY <1>1, <2>1, NowSound DEF BaseInv, Ordered, Strict
<1>3. CacheInv'
  BY <1>1 DEF CacheInv, Points
<1>4. JobInv'
  BY DEF JobInv
<1>5. TypeOK'
  <2>1. total' \in 0..UserMax /\ job' \in JobType /\ list' \in [Slots -> Entry]
    BY JobIs DEF Inv, TypeOK
  <2> QED BY <2>1, Typed
<1>6. torn' \in BOOLEAN
  OBVIOUS
<1> QED BY <1>2, <1>3, <1>4, <1>5, <1>6 DEF Inv

LEMMA FailStep ==
    ASSUME Inv, AccessFails
    PROVE  Inv'
<1>1. /\ Updating /\ pc' = "idle" /\ job' = NoJob /\ UNCHANGED <<list, total, now, cache>>
      /\ torn' = (torn \/ Listed # job.before) /\ stale' = (stale \/ Listed # job.before)
  BY DEF AccessFails, Updating
<1>2. CacheType(cache)' /\ Listed' = Listed
  BY <1>1, TypeIs DEF Inv, CacheType, Listed
<1>3. ~stale' => Points(cache, Listed)'
  <2>1. ~stale' => ~stale /\ Base = Listed
    BY <1>1 DEF Base
  <2> QED BY <1>1, <1>2, <2>1 DEF Inv, CacheInv, Points
<1>4. torn' = (torn \/ (Updating /\ Listed # job.before))
  BY <1>1
<1>5. stale' \in BOOLEAN
  BY <1>1 DEF Inv
<1> QED BY <1>1, <1>2, <1>3, <1>4, <1>5, CutShort

LEMMA CrashStep ==
    ASSUME Inv, Crash
    PROVE  Inv'
<1>1. /\ cache' = <<>> /\ pc' = "idle" /\ job' = NoJob /\ UNCHANGED <<list, total, now>>
      /\ torn' = (torn \/ (Updating /\ Listed # job.before)) /\ stale' = FALSE
  BY DEF Crash, Updating
<1>2. CacheType(cache)' /\ Points(cache, Listed)'
  BY <1>1, Sizes DEF CacheType, Points
<1> QED BY <1>1, <1>2, CutShort

\* Nothing but the clock, the answer or the count of faults changes.
LEMMA StillStep ==
    ASSUME Inv, UNCHANGED <<list, total, cache, pc, job, torn, stale>>, now' \in 0..MaxTime
    PROVE  Inv'
<1>1. Listed' = Listed /\ Base' = Base
  BY DEF Listed, Base, Updating
<1>2. BaseInv' /\ CacheInv'
  BY <1>1 DEF Inv, BaseInv, CacheInv, Ordered, Strict, Points
<1>3. TypeOK'
  BY DEF Inv, TypeOK
<1>4. NewHere => NewHere'
  BY DEF NewHere, Cached
<1>5. \A i : (Moving(i) => Moving(i)') /\ (Closing(i) => Closing(i)')
  BY DEF Moving, Closing
<1>6. Cached(job.name)' <=> Cached(job.name)
  BY DEF Cached
<1>7. JobInv'
  BY <1>4, <1>5, <1>6 DEF Inv, JobInv
<1> QED BY <1>2, <1>3, <1>7 DEF Inv

LEMMA InitHolds ==
    ASSUME Init
    PROVE  Inv
<1>1. Listed = <<>> /\ Base = <<>>
  BY DEF Init, Listed, Base, Updating
<1>2. BaseInv /\ CacheInv /\ JobInv
  BY <1>1 DEF Init, BaseInv, CacheInv, JobInv, Ordered, Strict, Points
<1>3. TypeOK
  <2>1. list \in [Slots -> Entry]
    BY Sizes DEF Init, Nobody, Entry
  <2>2. CacheType(cache) /\ job \in JobType
    BY Sizes DEF Init, CacheType, NoJob, JobType
  <2> QED BY <2>1, <2>2, TypeIs, Sizes DEF Init
<1>4. now \in 0..MaxTime
  BY Sizes DEF Init
<1>5. torn \in BOOLEAN /\ stale \in BOOLEAN
  BY DEF Init
<1> QED BY <1>2, <1>3, <1>4, <1>5 DEF Inv

LEMMA NextKeeps ==
    ASSUME Inv, [Next]_vars
    PROVE  Inv'
<1>1. ASSUME NEW n \in Names, Verify(n) PROVE Inv'
  BY <1>1, VerifyCachedStep, VerifyListedStep, LookStep DEF Verify
<1>2. ASSUME NEW n \in Names, Add(n) PROVE Inv'
  BY <1>2, LookStep, AddStartStep DEF Add
<1>3. ASSUME NEW n \in Names, Del(n) PROVE Inv'
  BY <1>3, LookStep, DelStartStep DEF Del
<1>4. ASSUME NEW n \in Names, UnreadVerify(n) PROVE Inv'
  BY <1>4, UnreadStep
<1>5. CASE Tick
  <2>1. now' \in 0..MaxTime /\ UNCHANGED <<list, total, cache, pc, job, torn, stale>>
    BY <1>5, Sizes DEF Tick, Inv
  <2> QED BY <2>1, StillStep
<1>6. CASE UNCHANGED vars
  <2>1. now' \in 0..MaxTime /\ UNCHANGED <<list, total, cache, pc, job, torn, stale>>
    BY <1>6 DEF vars, Inv
  <2> QED BY <2>1, StillStep
<1>7. CASE Shift \/ Insert \/ CountUp \/ AddDone \/ Pull \/ CountDown \/ DelAll
  BY <1>7, ShiftStep, InsertStep, CountUpStep, AddDoneStep, PullStep, CountDownStep, DelAllStep
<1>8. CASE AccessFails \/ UnreadAdd \/ Crash
  BY <1>8, FailStep, UnreadStep, CrashStep
<1> QED BY <1>1, <1>2, <1>3, <1>4, <1>5, <1>6, <1>7, <1>8 DEF Next

\* The invariant gives the promise of ListSound.
LEMMA InvImpliesSound ==
    ASSUME Inv
    PROVE  ListSound
<1>1. FileSorted
  <2> SUFFICES ASSUME NEW i \in 0..(total - 2) PROVE list[i].name <= list[i + 1].name
    BY DEF FileSorted
  <2>1. total \in Nat
    BY Sizes DEF Inv, TypeOK
  <2>2. i \in 0..(total - 1) /\ i + 1 \in 0..(total - 1) /\ i <= i + 1
    BY <2>1
  <2> QED BY <2>2, NowSound DEF Ascends
<1>2. CacheAgrees
  <2> SUFFICES ASSUME Idle, ~stale
               PROVE  /\ \A i \in 1..Len(cache) :
                            cache[i].idx < total /\ list[cache[i].idx].name = cache[i].name
                      /\ \A i, j \in 1..Len(cache) : cache[i].name = cache[j].name => i = j
    <3>1. DOMAIN cache = 1..Len(cache)
      BY TypeIs DEF Inv, CacheType
    <3> QED BY <3>1 DEF CacheAgrees
  <2>1. CacheType(cache) /\ Base = Listed /\ Points(cache, Listed)
    BY TypeIs DEF Inv, CacheInv, Base, Updating, Idle
  <2>2. ASSUME NEW i \in 1..Len(cache)
        PROVE  cache[i].idx < total /\ list[cache[i].idx].name = cache[i].name
    <3>1. cache[i].idx \in Nat /\ cache[i].idx < Len(Listed)
          /\ Listed[cache[i].idx + 1] = cache[i].name
      BY <2>1, CellIs, PointsAt
    <3>2. total \in Nat /\ cache[i].idx < total
      <4>1. total \in 0..UserMax
        BY DEF Inv, TypeOK
      <4>2. Len(Listed) = total
        BY NowSound
      <4> QED BY <3>1, <4>1, <4>2, Sizes
    <3>3. cache[i].idx + 1 \in 1..total /\ (cache[i].idx + 1) - 1 = cache[i].idx
      BY <3>1, <3>2
    <3> QED BY <3>1, <3>2, <3>3, NowSound
  <2> QED BY <2>1, <2>2 DEF Points
<1> QED BY <1>1, <1>2 DEF ListSound, Inv

\* Safety: the file is in order at every instant, in the middle of an update,
\* after a failed one and after a crash, so that the binary search of
\* user_data.c may rely on it; and each entry of the cache has the index of its
\* user.
THEOREM UserSafety == Spec => []ListSound
<1>1. Init => Inv
  BY InitHolds
<1>2. Inv /\ [Next]_vars => Inv'
  BY NextKeeps
<1>3. Inv => ListSound
  BY InvImpliesSound
<1> QED BY <1>1, <1>2, <1>3, PTL DEF Spec

-----------------------------------------------------------------------------
(* The list implements the set of users. *)

LEMMA Counted ==
    ASSUME NEW S, NEW s \in Seq(S)
    PROVE  /\ IsFiniteSet(Range(s)) /\ Cardinality(Range(s)) \in Nat
           /\ Cardinality(Range(s)) <= Len(s)
           /\ (\A i, j \in 1..Len(s) : s[i] = s[j] => i = j) => Cardinality(Range(s)) = Len(s)
<1>1. Len(s) \in Nat /\ DOMAIN s = 1..Len(s) /\ s \in [1..Len(s) -> S]
  OBVIOUS
<1>2. IsFiniteSet(1..Len(s)) /\ Cardinality(1..Len(s)) = Len(s)
  <2>1. Cardinality(1..Len(s)) = IF 1 > Len(s) THEN 0 ELSE Len(s) - 1 + 1
    BY <1>1, FS_Interval
  <2>2. IsFiniteSet(1..Len(s))
    BY <1>1, FS_Interval
  <2> QED BY <1>1, <2>1, <2>2
<1>3. s \in Surjection(1..Len(s), Range(s))
  BY <1>1 DEF Surjection, Range
<1>4. (\A i, j \in 1..Len(s) : s[i] = s[j] => i = j) => s \in Injection(1..Len(s), Range(s))
  BY <1>1 DEF Injection, Range, IsInjective
<1>5. /\ IsFiniteSet(Range(s)) /\ Cardinality(Range(s)) <= Len(s)
      /\ Cardinality(Range(s)) = Len(s) <=> s \in Injection(1..Len(s), Range(s))
  BY <1>2, <1>3, FS_Surjection
<1> QED BY <1>4, <1>5, FS_CardinalityType

\* Who is a user.
LEMMA UsersAre ==
    ASSUME Inv
    PROVE  /\ Users = Range(Base) /\ Users \subseteq Names
           /\ \A n : n \in Users <=> \E i \in 1..total : Base[i] = n
           /\ Cardinality(Users) \in Nat /\ Cardinality(Users) <= total
           /\ ~torn => Cardinality(Users) = total
<1>1. Users = Range(Base)
  BY DEF Users, Base, Updating, Named
<1>2. Base \in Seq(Names) /\ Len(Base) = total /\ (~torn => Strict(Base))
  BY DEF Inv, BaseInv
<1>3. DOMAIN Base = 1..total
  BY <1>2
<1>4. \A n : n \in Users <=> \E i \in 1..total : Base[i] = n
  BY <1>1, <1>3 DEF Range
<1>5. \A i \in 1..total : Base[i] \in Names
  BY <1>2
<1>6. ~torn => \A i, j \in 1..Len(Base) : Base[i] = Base[j] => i = j
  <2> SUFFICES ASSUME ~torn, NEW i \in 1..total, NEW j \in 1..total, Base[i] = Base[j], i # j
               PROVE  FALSE
    BY <1>2
  <2>1. Base[i] \in Nat /\ Base[j] \in Nat
    BY <1>5, Sizes
  <2>2. i < j \/ j < i
    OBVIOUS
  <2> QED BY <1>2, <2>1, <2>2 DEF Strict
<1> QED BY <1>1, <1>2, <1>4, <1>5, <1>6, Counted

\* What a search in a quiet list says of the users.
LEMMA QuietUsers ==
    ASSUME Inv, Idle, NEW n \in Names
    PROVE  /\ Users = Named /\ (Search(n).found <=> n \in Users)
           /\ ~stale /\ Cached(n) => n \in Users
<1>1. Users = Named
  BY DEF Users, Idle
<1>2. total \in Nat /\ Base = Listed /\ \A i \in 1..total : Listed[i] = list[i - 1].name
  BY QuietLook, NowSound, Sizes DEF Inv, TypeOK
<1>3. n \in Users <=> \E i \in 0..(total - 1) : list[i].name = n
  <2>1. \A i \in 0..(total - 1) : i + 1 \in 1..total /\ Listed[i + 1] = list[i].name
    <3> TAKE i \in 0..(total - 1)
    <3>1. i + 1 \in 1..total /\ (i + 1) - 1 = i
      BY <1>2
    <3> QED BY <1>2, <3>1
  <2>2. \A i \in 1..total : i - 1 \in 0..(total - 1)
    BY <1>2
  <2> QED BY <1>2, <2>1, <2>2, UsersAre
<1>4. ASSUME ~Search(n).found, NEW i \in 0..(total - 1) PROVE list[i].name # n
  <2>1. /\ Search(n).pos \in 0..total
        /\ \A k \in 0..(Search(n).pos - 1) : list[k].name < n
        /\ \A k \in Search(n).pos..(total - 1) : n < list[k].name
    BY <1>4, QuietLook DEF Right
  <2>2. i \in 0..(Search(n).pos - 1) \/ i \in Search(n).pos..(total - 1)
    BY <1>2, <2>1
  <2>3. list[i].name \in Nat /\ n \in Nat
    BY NowSound, Sizes
  <2> QED BY <2>1, <2>2, <2>3
<1>5. Search(n).found => n \in Users
  BY <1>3, QuietLook DEF Right
<1>6. ASSUME ~stale, Cached(n) PROVE n \in Users
  <2>1. CacheType(cache) /\ Points(cache, Listed) /\ DOMAIN cache = 1..Len(cache)
    BY <1>6, QuietLook DEF CacheType
  <2>2. PICK i \in 1..Len(cache) : cache[i].name = n
    BY <1>6, <2>1 DEF Cached
  <2>3. cache[i].idx \in Nat /\ cache[i].idx < Len(Listed) /\ Listed[cache[i].idx + 1] = n
    BY <2>1, <2>2, CellIs, PointsAt
  <2>4. Len(Listed) = total
    BY NowSound
  <2>5. cache[i].idx + 1 \in 1..total
    BY <1>2, <2>3, <2>4
  <2> QED BY <1>2, <2>3, <2>5, UsersAre
<1> QED BY <1>1, <1>3, <1>4, <1>5, <1>6

LEMMA NamesOf ==
    ASSUME NEW t \in Nat, NEW L, NEW r, r = [k \in 1..t |-> L[k - 1].name]
    PROVE  \A n : n \in Range(r) <=> \E i \in 0..(t - 1) : L[i].name = n
<1> TAKE n
<1>1. DOMAIN r = 1..t /\ \A i \in 1..t : r[i] = L[i - 1].name
  OBVIOUS
<1>2. n \in Range(r) <=> \E i \in 1..t : r[i] = n
  BY <1>1 DEF Range
<1>3. ASSUME n \in Range(r) PROVE \E i \in 0..(t - 1) : L[i].name = n
  <2>1. PICK i \in 1..t : r[i] = n
    BY <1>2, <1>3
  <2>2. i - 1 \in 0..(t - 1)
    OBVIOUS
  <2> QED BY <1>1, <2>1, <2>2
<1>4. ASSUME NEW i \in 0..(t - 1), L[i].name = n PROVE n \in Range(r)
  <2>1. i + 1 \in 1..t /\ (i + 1) - 1 = i
    OBVIOUS
  <2> QED BY <1>1, <1>2, <1>4, <2>1
<1> QED BY <1>3, <1>4

\* Who is named in the file.
LEMMA NamedIs ==
    ASSUME Inv
    PROVE  /\ Named \subseteq Names
           /\ \A n : n \in Named <=> \E i \in 0..(total - 1) : list[i].name = n
<1>1. total \in Nat
  BY Sizes DEF Inv, TypeOK
<1>2. \A n : n \in Named <=> \E i \in 0..(total - 1) : list[i].name = n
  BY <1>1, NamesOf DEF Named, Listed
<1> QED BY <1>2, NowSound

\* In the middle of an update the file names the users of before, but for one
\* that may be missing and one that may be new.
LEMMA UpdateNear ==
    ASSUME Inv, Updating
    PROVE  \E l, e : Users \subseteq Named \cup {l} /\ Named \subseteq Users \cup {e}
<1>1. PICK b, p, k, n : b = job.before /\ p = job.pos /\ k = job.k /\ n = job.name
  OBVIOUS
<1>2. total \in Nat /\ p \in Nat /\ k \in Nat
  BY <1>1, JobIs, Sizes DEF Inv, TypeOK
<1> DEFINE L(i) == list[i].name
<1>3. /\ \A x : x \in Users <=> \E i \in 1..total : b[i] = x
      /\ \A x : x \in Named <=> \E i \in 0..(total - 1) : L(i) = x
  BY <1>1, UsersAre, NamedIs DEF Base
<1>4. CASE pc = "shift"
  <2>1. \A i \in 0..(total - 1) : (i <= k => L(i) = b[i + 1]) /\ (k < i => L(i) = b[i])
    BY <1>1, <1>2, <1>4 DEF Inv, JobInv, Moving
  <2> HIDE DEF L
  <2>2. ASSUME NEW i \in 0..(total - 1) PROVE \E j \in 1..total : b[j] = L(i)
    <3>1. (i <= k /\ i + 1 \in 1..total) \/ (k < i /\ i \in 1..total)
      BY <1>2
    <3> QED BY <2>1, <3>1
  <2>3. ASSUME NEW j \in 1..total, b[j] # b[total]
        PROVE  \E i \in 0..(total - 1) : L(i) = b[j]
    <3>1. j # total
      BY <2>3
    <3>2. CASE j <= k + 1
      <4>1. j - 1 \in 0..(total - 1) /\ j - 1 <= k /\ (j - 1) + 1 = j
        BY <1>2, <3>2
      <4> QED BY <2>1, <4>1
    <3>3. CASE k + 1 < j
      <4>1. j \in 0..(total - 1) /\ k < j
        BY <1>2, <3>1, <3>3
      <4> QED BY <2>1, <4>1
    <3> QED BY <1>2, <3>2, <3>3
  <2>4. Users \subseteq Named \cup {b[total]} /\ Named \subseteq Users \cup {n}
    BY <1>3, <2>2, <2>3
  <2> QED BY <2>4
<1>5. CASE pc = "count"
  <2>1. \A i \in 0..(total - 1) : L(i) = Grown(b, p, n, i)
    BY <1>1, <1>2, <1>5 DEF Inv, JobInv
  <2> HIDE DEF L
  <2>2. ASSUME NEW i \in 0..(total - 1), L(i) # n PROVE \E j \in 1..total : b[j] = L(i)
    <3>1. (i < p /\ i + 1 \in 1..total) \/ i = p \/ (p < i /\ i \in 1..total)
      BY <1>2
    <3> QED BY <1>2, <2>1, <2>2, <3>1 DEF Grown
  <2>3. ASSUME NEW j \in 1..total, b[j] # b[total]
        PROVE  \E i \in 0..(total - 1) : L(i) = b[j]
    <3>1. j # total
      BY <2>3
    <3>2. CASE j <= p
      <4>1. j - 1 \in 0..(total - 1) /\ j - 1 < p /\ (j - 1) + 1 = j
        BY <1>2, <3>2
      <4> QED BY <2>1, <4>1 DEF Grown
    <3>3. CASE p < j
      <4>1. j \in 0..(total - 1) /\ ~(j < p) /\ j # p
        BY <1>2, <3>1, <3>3
      <4> QED BY <2>1, <4>1 DEF Grown
    <3> QED BY <1>2, <3>2, <3>3
  <2>4. Users \subseteq Named \cup {b[total]} /\ Named \subseteq Users \cup {n}
    BY <1>3, <2>2, <2>3
  <2> QED BY <2>4
<1>6. CASE pc = "pull"
  <2>1. p <= k /\ k <= total - 1
    BY <1>1, <1>2, <1>6 DEF Inv, JobInv
  <2>2. \A i \in 0..(total - 1) : L(i) = IF i < p \/ k <= i THEN b[i + 1] ELSE b[i + 2]
    BY <1>1, <1>6 DEF Inv, JobInv, Closing
  <2> HIDE DEF L
  <2>3. ASSUME NEW i \in 0..(total - 1) PROVE \E j \in 1..total : b[j] = L(i)
    <3>1. i + 1 \in 1..total /\ (~(i < p \/ k <= i) => i + 2 \in 1..total)
      BY <1>2, <2>1
    <3> QED BY <2>2, <3>1
  <2>4. ASSUME NEW j \in 1..total, b[j] # b[p + 1]
        PROVE  \E i \in 0..(total - 1) : L(i) = b[j]
    <3>1. j # p + 1
      BY <2>4
    <3>2. CASE j <= p \/ k < j
      <4>1. j - 1 \in 0..(total - 1) /\ (j - 1 < p \/ k <= j - 1) /\ (j - 1) + 1 = j
        BY <1>2, <3>2
      <4> QED BY <2>2, <4>1
    <3>3. CASE p < j /\ j <= k
      <4>1. j - 2 \in 0..(total - 1) /\ ~(j - 2 < p) /\ ~(k <= j - 2) /\ (j - 2) + 2 = j
        BY <1>2, <2>1, <3>1, <3>3
      <4> QED BY <2>2, <4>1
    <3> QED BY <1>2, <3>2, <3>3
  <2>5. Users \subseteq Named \cup {b[p + 1]} /\ Named \subseteq Users \cup {n}
    BY <1>3, <2>3, <2>4
  <2> QED BY <2>5
<1> QED BY <1>4, <1>5, <1>6 DEF Updating

\* What the list may be after an update that was cut short.
LEMMA NearSet ==
    ASSUME NEW U, NEW V \in SUBSET Names,
           \E l, e : U \subseteq V \cup {l} /\ V \subseteq U \cup {e}
    PROVE  \E lost \in SUBSET U, new \in SUBSET Names :
              /\ Cardinality(lost) <= 1 /\ Cardinality(new) <= 1
              /\ V = (U \ lost) \cup new
<1>1. PICK l, e : U \subseteq V \cup {l} /\ V \subseteq U \cup {e}
  OBVIOUS
<1>2. U \ V \in SUBSET {l} /\ V \ U \in SUBSET {e}
  BY <1>1
<1>3. ASSUME NEW x, NEW T \in SUBSET {x} PROVE Cardinality(T) <= 1
  <2>1. IsFiniteSet({x}) /\ Cardinality({x}) = 1
    BY FS_Singleton
  <2>2. Cardinality(T) <= Cardinality({x})
    BY <2>1, FS_Subset
  <2> QED BY <2>1, <2>2
<1>4. Cardinality(U \ V) <= 1 /\ Cardinality(V \ U) <= 1
  BY <1>2, <1>3
<1>5. V = (U \ (U \ V)) \cup (V \ U)
  OBVIOUS
<1> QED BY <1>4, <1>5

LEMMA CutUsers ==
    ASSUME Inv
    PROVE  \E lost \in SUBSET Users, new \in SUBSET Names :
              /\ Cardinality(lost) <= 1 /\ Cardinality(new) <= 1
              /\ Named = (Users \ lost) \cup new
<1>1. PICK U, V : U = Users /\ V = Named
  OBVIOUS
<1>2. V \in SUBSET Names
  BY <1>1, NamedIs
<1>3. \E l, e : U \subseteq V \cup {l} /\ V \subseteq U \cup {e}
  <2>1. ~Updating => U = V
    BY <1>1 DEF Users, Updating
  <2> QED BY <1>1, <2>1, UpdateNear
<1>4. \E lost \in SUBSET U, new \in SUBSET Names :
         Cardinality(lost) <= 1 /\ Cardinality(new) <= 1 /\ V = (U \ lost) \cup new
  BY <1>2, <1>3, NearSet
<1> QED BY <1>1, <1>4

\* The promise counts with the operator of the library.
LEMMA SameCount == \A S : Promise!Cardinality(S) = Cardinality(S)
BY DEF Promise!Cardinality, Cardinality

LEMMA NamesStay ==
    ASSUME Inv, total' = total, \A i \in Slots : list'[i].name = list[i].name
    PROVE  Listed' = Listed /\ Named' = Named
<1>1. total \in 0..UserMax
  BY DEF Inv, TypeOK
<1>2. \A i \in 0..(total - 1) : i \in Slots
  BY <1>1, Sizes DEF Slots
<1>3. Listed' = Listed
  BY <1>1, <1>2, SameNames
<1> QED BY <1>3 DEF Named

\* Questions, and what is answered without an update.
LEMMA AskStep ==
    ASSUME Inv, NEW n \in Names, Verify(n)
    PROVE  Promise!Ask(n)
<1>1. Idle /\ pc' = pc /\ UNCHANGED <<total, torn, stale>>
  BY DEF Verify, VerifyCached, VerifyListed, VerifyUnknown, History
<1>2. \A i \in Slots : list'[i].name = list[i].name
  BY WriteBackSame DEF Inv, Verify, VerifyCached, VerifyListed, VerifyUnknown
<1>3. Users' = Users
  BY <1>1, <1>2, NamesStay DEF Users, Idle
<1>4. \E a \in {"yes", "no"} : (stale \/ (a = "yes" <=> n \in Users)) /\ said' = <<n, a>>
  <2>1. CASE VerifyCached(n) \/ VerifyListed(n)
    <3>1. said' = <<n, "yes">> /\ (stale \/ n \in Users)
      BY <1>1, <2>1, QuietUsers DEF VerifyCached, VerifyListed, Answer
    <3> QED BY <3>1
  <2>2. CASE VerifyUnknown(n)
    <3>1. said' = <<n, "no">> /\ n \notin Users /\ "no" # "yes"
      BY <1>1, <2>2, QuietUsers DEF VerifyUnknown, Answer
    <3> QED BY <3>1
  <2> QED BY <2>1, <2>2 DEF Verify
<1> QED BY <1>1, <1>3, <1>4 DEF Promise!Ask, Promise!Says

LEMMA RefuseStep ==
    ASSUME Inv, NEW n \in Names, AddRefused(n)
    PROVE  Promise!Refuse(n)
<1>1. Idle /\ ~MayAdd(n) /\ said' = <<n, "no">> /\ UNCHANGED <<list, total, pc, torn, stale>>
  BY DEF AddRefused, History, Answer
<1>2. Users' = Users
  BY <1>1, NamesStay DEF Users, Idle
<1>3. torn \/ stale \/ n \in Users \/ Cardinality(Users) = UserMax
  <2>1. total = UserMax \/ total < UserMax
    BY Sizes DEF Inv, TypeOK
  <2>2. CASE Cached(n) \/ Search(n).found
    BY <1>1, <2>2, QuietUsers
  <2>3. CASE total = UserMax
    BY <2>3, UsersAre
  <2> QED BY <1>1, <2>1, <2>2, <2>3 DEF MayAdd
<1>4. said' = <<n, "no">> /\ Users' = Users /\ torn' = torn /\ stale' = stale
  BY <1>1, <1>2
<1> QED BY <1>3, <1>4, SameCount DEF Promise!Refuse, Promise!Says

LEMMA UnknownStep ==
    ASSUME Inv, NEW n \in Names, DelUnknown(n)
    PROVE  Promise!Unknown(n)
<1>1. Idle /\ ~Search(n).found /\ said' = <<n, "no">>
      /\ UNCHANGED <<list, total, pc, torn, stale>>
  BY DEF DelUnknown, History, Answer
<1>2. Users' = Users /\ n \notin Users
  BY <1>1, NamesStay, QuietUsers DEF Users, Idle
<1> QED BY <1>1, <1>2 DEF Promise!Unknown, Promise!Says

\* The entry is in the cache: the user that was added is one.
LEMMA AnswerStep ==
    ASSUME Inv, AddDone
    PROVE  Promise!Ask(job.name) /\ job.name \in Names
<1>1. /\ pc = "bring" /\ pc' = "idle" /\ said' = <<job.name, "yes">>
      /\ list' = WriteBack(cache, list) /\ UNCHANGED <<total, torn, stale>>
  BY DEF AddDone, History, Answer
<1>2. Users' = Named' /\ Users = Named
  BY <1>1 DEF Users
<1>3. Named' = Named
  BY <1>1, WriteBackSame, NamesStay DEF Inv
<1>4. job.name \in Names /\ job.pos \in 0..(total - 1) /\ list[job.pos].name = job.name
  BY <1>1 DEF Inv, JobInv
<1>5. job.name \in Users
  BY <1>2, <1>4, NamedIs
<1>6. \E a \in {"yes", "no"} : (stale \/ (a = "yes" <=> job.name \in Users))
                               /\ said' = <<job.name, a>>
  BY <1>1, <1>5
<1> QED BY <1>1, <1>2, <1>3, <1>4, <1>6 DEF Promise!Ask, Promise!Says

\* Steps of an update that the set of users does not see.
LEMMA InnerStep ==
    ASSUME Inv,
           \/ \E n \in Names : AddStart(n) \/ DelStart(n)
           \/ Shift \/ Insert \/ Pull \/ Tick \/ UNCHANGED vars
    PROVE  UNCHANGED Promise!vars
<1>1. CASE \E n \in Names : AddStart(n) \/ DelStart(n)
  <2>1. /\ Idle /\ pc' \in {"shift", "pull"} /\ job'.before = Listed
        /\ UNCHANGED <<torn, stale, said>>
    BY <1>1 DEF AddStart, DelStart, History
  <2>2. Users = Named /\ Users' = Range(Listed)
    BY <2>1 DEF Users, Idle
  <2> QED BY <2>1, <2>2 DEF Named, Promise!vars
<1>2. CASE Shift \/ Insert \/ Pull
  <2>1. /\ pc \in {"shift", "pull"} /\ pc' \in {"shift", "count", "pull"}
        /\ UNCHANGED <<torn, stale, said>>
    BY <1>2 DEF Shift, Insert, Pull, History
  <2>2. job'.before = job.before
    <3>1. PICK r, k : r = job' /\ k = job.k
      OBVIOUS
    <3>2. CASE Insert
      BY <3>2 DEF Insert
    <3>3. CASE Shift
      BY <3>3, JobIs DEF Shift, Inv, JobType
    <3>4. CASE Pull
      BY <3>4, JobIs DEF Pull, Inv, JobType
    <3> QED BY <1>2, <3>2, <3>3, <3>4
  <2>3. Users = Range(job.before) /\ Users' = Range(job'.before)
    BY <2>1 DEF Users
  <2> QED BY <2>1, <2>2, <2>3 DEF Promise!vars
<1>3. CASE Tick \/ UNCHANGED vars
  <2>1. UNCHANGED <<list, total, pc, job, torn, stale, said>>
    BY <1>3 DEF Tick, vars
  <2>2. Users' = Users
    BY <2>1 DEF Users, Named, Listed
  <2> QED BY <2>1, <2>2 DEF Promise!vars
<1> QED BY <1>1, <1>2, <1>3

\* The new count is in the file: the new user is one.
LEMMA AdmitStep ==
    ASSUME Inv, CountUp
    PROVE  Promise!Admit(job.name) /\ job.name \in Names
<1>1. /\ pc = "count" /\ total' = total + 1 /\ pc' = "bring"
      /\ UNCHANGED <<list, job, torn, stale, said>>
  BY DEF CountUp, History
<1>2. PICK b, p, n : b = job.before /\ p = job.pos /\ n = job.name
  OBVIOUS
<1>3. NewHere /\ n \in Names /\ \A i \in 0..total : list[i].name = Grown(b, p, n, i)
  BY <1>1, <1>2 DEF Inv, JobInv
<1>4. total \in Nat /\ total < UserMax /\ p \in 0..total /\ p \in Nat /\ UserMax \in Nat
  BY <1>2, <1>3, Sizes DEF NewHere, Inv, TypeOK
<1>5. Base = b /\ \A x : x \in Users <=> \E i \in 1..total : b[i] = x
  BY <1>1, <1>2, UsersAre DEF Base, Updating
<1>6. \A i \in 1..total : b[i] \in Nat /\ b[i] # n
  <2>1. ASSUME NEW i \in 1..total PROVE b[i] \in Nat /\ b[i] # n
    <3>1. b[i] \in Users /\ Users \subseteq Names
      BY <1>5, UsersAre
    <3>2. b[i] \in Nat /\ n \in Nat
      BY <1>3, <3>1, Sizes
    <3>3. (\A j \in 1..p : b[j] < n) /\ (\A j \in (p + 1)..total : n < b[j])
      BY <1>2, <1>3 DEF NewHere
    <3>4. i \in 1..p \/ i \in (p + 1)..total
      BY <1>4
    <3> QED BY <3>2, <3>3, <3>4
  <2> QED BY <2>1
<1>7. n \notin Users /\ Cardinality(Users) < UserMax
  <2>1. n \notin Users
    BY <1>5, <1>6
  <2>2. Cardinality(Users) \in Nat /\ Cardinality(Users) <= total
    BY UsersAre
  <2> QED BY <1>4, <2>1, <2>2
<1>8. \A x : x \in Users' <=> \E i \in 0..total : list[i].name = x
  <2>1. Users' = Range(Listed') /\ Listed' = [i \in 1..(total + 1) |-> list[i - 1].name]
    BY <1>1 DEF Users, Named, Listed
  <2>2. total + 1 \in Nat /\ (total + 1) - 1 = total
    BY <1>4
  <2>3. PICK r, t : r = Listed' /\ t = total + 1
    OBVIOUS
  <2>4. r = [k \in 1..t |-> list[k - 1].name] /\ t \in Nat
    BY <2>1, <2>2, <2>3
  <2>5. \A x : x \in Range(r) <=> \E i \in 0..(t - 1) : list[i].name = x
    BY <2>4, NamesOf
  <2> QED BY <2>1, <2>2, <2>3, <2>5
<1>9. ASSUME NEW x PROVE x \in Users' <=> x \in Users \cup {n}
  <2>1. ASSUME NEW i \in 0..total PROVE list[i].name = n \/ \E j \in 1..total : b[j] = list[i].name
    <3>1. (i < p /\ i + 1 \in 1..total) \/ i = p \/ (p < i /\ i \in 1..total)
      BY <1>4
    <3>2. list[i].name = Grown(b, p, n, i)
      BY <1>3
    <3> QED BY <1>4, <3>1, <3>2 DEF Grown
  <2>2. ASSUME NEW j \in 1..total PROVE \E i \in 0..total : list[i].name = b[j]
    <3>1. CASE j <= p
      <4>1. j - 1 \in 0..total /\ j - 1 < p /\ (j - 1) + 1 = j
        BY <1>4, <3>1
      <4> QED BY <1>3, <4>1 DEF Grown
    <3>2. CASE p < j
      <4>1. j \in 0..total /\ ~(j < p) /\ j # p
        BY <1>4, <3>2
      <4> QED BY <1>3, <4>1 DEF Grown
    <3> QED BY <1>4, <3>1, <3>2
  <2>3. p \in 0..total /\ list[p].name = n
    BY <1>3, <1>4 DEF Grown
  <2> QED BY <1>5, <1>8, <2>1, <2>2, <2>3
<1>10. Users' = Users \cup {n}
  BY <1>9
<1>11. torn' = torn /\ stale' = stale /\ said' = said
  BY <1>1
<1> QED BY <1>2, <1>3, <1>7, <1>10, <1>11, SameCount DEF Promise!Admit

\* The removal is in the file.
LEMMA ExpelStep ==
    ASSUME Inv, CountDown
    PROVE  Promise!Expel(job.name) /\ job.name \in Names
<1>1. /\ pc = "pull" /\ job.k = total - 1 /\ total' = total - 1 /\ pc' = "idle"
      /\ said' = <<job.name, "yes">> /\ UNCHANGED <<list, torn, stale>>
  BY DEF CountDown, History, Answer
<1>2. PICK b, p, t, n : b = job.before /\ p = job.pos /\ t = total - 1 /\ n = job.name
  OBVIOUS
<1>3. /\ p \in 0..t /\ b[p + 1] = n /\ n \in Names /\ (\A i \in 0..t : Closing(i))
  BY <1>1, <1>2 DEF Inv, JobInv
<1>4. total \in Nat /\ p \in Nat /\ t \in Nat /\ total = t + 1
  <2>1. total \in Nat /\ t \in Int
    BY <1>2, Sizes DEF Inv, TypeOK
  <2> QED BY <1>2, <1>3, <2>1
<1>5. Base = b /\ \A x : x \in Users <=> \E i \in 1..total : b[i] = x
  BY <1>1, <1>2, UsersAre DEF Base, Updating
<1>6. ASSUME NEW i \in 0..(t - 1)
      PROVE  list[i].name = IF i < p THEN b[i + 1] ELSE b[i + 2]
  <2>1. Closing(i) /\ ~(t <= i)
    BY <1>3, <1>4
  <2> QED BY <1>1, <1>2, <2>1 DEF Closing
<1>7. \A x : x \in Users' <=> \E i \in 0..(t - 1) : list[i].name = x
  <2>1. Users' = Range(Listed') /\ Listed' = [i \in 1..t |-> list[i - 1].name]
    BY <1>1, <1>2 DEF Users, Named, Listed
  <2>2. PICK r : r = Listed'
    OBVIOUS
  <2>3. PICK L : L = list
    OBVIOUS
  <2>4. r = [k \in 1..t |-> L[k - 1].name] /\ t \in Nat
    BY <1>4, <2>1, <2>2, <2>3
  <2>5. \A x : x \in Range(r) <=> \E i \in 0..(t - 1) : L[i].name = x
    BY <2>4, NamesOf
  <2>6. \A x : x \in Range(r) <=> \E i \in 0..(t - 1) : list[i].name = x
    BY <2>3, <2>5
  <2>7. Users' = Range(r)
    BY <2>1, <2>2
  <2> QED BY <2>6, <2>7
<1>8. \A x : x \in Users' <=> \E j \in 1..total : j # p + 1 /\ b[j] = x
  <2>1. ASSUME NEW i \in 0..(t - 1) PROVE \E j \in 1..total : j # p + 1 /\ b[j] = list[i].name
    <3>1. (i < p /\ i + 1 \in 1..total /\ i + 1 # p + 1)
          \/ (~(i < p) /\ i + 2 \in 1..total /\ i + 2 # p + 1)
      BY <1>3, <1>4
    <3> QED BY <1>6, <3>1
  <2>2. ASSUME NEW j \in 1..total, j # p + 1 PROVE \E i \in 0..(t - 1) : list[i].name = b[j]
    <3>1. CASE j <= p
      <4>1. j - 1 \in 0..(t - 1) /\ j - 1 < p /\ (j - 1) + 1 = j
        BY <1>3, <1>4, <3>1
      <4> QED BY <1>6, <4>1
    <3>2. CASE p + 1 < j
      <4>1. j - 2 \in 0..(t - 1) /\ ~(j - 2 < p) /\ (j - 2) + 2 = j
        BY <1>3, <1>4, <3>2
      <4> QED BY <1>6, <4>1
    <3> QED BY <1>4, <2>2, <3>1, <3>2
  <2>3. ASSUME NEW x, x \in Users' PROVE \E j \in 1..total : j # p + 1 /\ b[j] = x
    <3>1. PICK i \in 0..(t - 1) : list[i].name = x
      BY <1>7, <2>3
    <3> QED BY <2>1, <3>1
  <2>4. ASSUME NEW j \in 1..total, j # p + 1 PROVE b[j] \in Users'
    <3>1. PICK i \in 0..(t - 1) : list[i].name = b[j]
      BY <2>2, <2>4
    <3> QED BY <1>7, <3>1
  <2> QED BY <2>3, <2>4
<1>9. n \in Users
  <2>1. p + 1 \in 1..total
    BY <1>3, <1>4
  <2> QED BY <1>3, <1>5, <2>1
<1>10. \A x : x \in Users' => x \in Users
  BY <1>5, <1>8
<1>11. \A x : x \in Users /\ x # n => x \in Users'
  <2> SUFFICES ASSUME NEW x, x \in Users, x # n PROVE x \in Users'
    OBVIOUS
  <2>1. PICK j \in 1..total : b[j] = x
    BY <1>5
  <2>2. j # p + 1
    BY <1>3, <2>1
  <2> QED BY <1>8, <2>1, <2>2
<1>12. ASSUME n \in Users' PROVE torn
  <2>1. PICK j \in 1..total : j # p + 1 /\ b[j] = n
    BY <1>8, <1>12
  <2>2. p + 1 \in 1..total /\ b[p + 1] \in Users /\ n \in Nat
    BY <1>3, <1>4, <1>9, Sizes
  <2>3. ~torn => Strict(b) /\ Len(b) = total
    BY <1>5 DEF Inv, BaseInv
  <2>4. j < p + 1 \/ p + 1 < j
    BY <1>4, <2>1
  <2> QED BY <1>3, <2>1, <2>2, <2>3, <2>4 DEF Strict
<1>13. Users' = Users \ {n} \/ (torn /\ Users' = Users)
  <2>1. CASE n \in Users'
    <3>1. Users' = Users
      BY <1>10, <1>11, <2>1
    <3> QED BY <1>12, <2>1, <3>1
  <2>2. CASE n \notin Users'
    BY <1>10, <1>11, <2>2
  <2> QED BY <2>1, <2>2
<1>14. torn' = torn /\ stale' = stale /\ said' = <<n, "yes">>
  BY <1>1, <1>2
<1> QED BY <1>2, <1>3, <1>9, <1>13, <1>14 DEF Promise!Expel, Promise!Says

LEMMA ClearStep ==
    ASSUME DelAll
    PROVE  Promise!Clear
<1>1. /\ pc' = "idle" /\ total' = 0 /\ said' = <<0, "yes">> /\ torn' = FALSE /\ stale' = FALSE
  BY DEF DelAll, Idle, Answer
<1>2. Users' = Range(Listed') /\ Listed' = <<>>
  BY <1>1 DEF Users, Named, Listed
<1>3. Users' = {}
  BY <1>2 DEF Range
<1> QED BY <1>1, <1>3 DEF Promise!Clear, Promise!Says

\* What the set becomes when an operation ends where it is.
LEMMA CutSet ==
    ASSUME Inv, pc' = "idle", UNCHANGED <<list, total>>
    PROVE  /\ \E lost \in SUBSET Users, new \in SUBSET Names :
                 /\ Promise!Cardinality(lost) <= 1 /\ Promise!Cardinality(new) <= 1
                 /\ Users' = (Users \ lost) \cup new
           /\ Users' # Users => Updating /\ Listed # job.before
<1>1. Users' = Named
  BY DEF Users, Named, Listed
<1>2. \E lost \in SUBSET Users, new \in SUBSET Names :
         /\ Promise!Cardinality(lost) <= 1 /\ Promise!Cardinality(new) <= 1
         /\ Users' = (Users \ lost) \cup new
  BY <1>1, CutUsers, SameCount
<1>3. Users' # Users => Updating /\ Listed # job.before
  BY <1>1 DEF Users, Named, Updating
<1> QED BY <1>2, <1>3

LEMMA CrashSet ==
    ASSUME Inv, Crash
    PROVE  Promise!Crash
<1>1. /\ pc' = "idle" /\ UNCHANGED <<list, total>> /\ said' = <<0, "none">> /\ stale' = FALSE
      /\ torn' = (torn \/ (Updating /\ Listed # job.before))
  BY DEF Crash, Updating
<1>2. torn' \in {torn, TRUE}
  BY <1>1 DEF Inv
<1>3. Users' # Users => torn'
  BY <1>1, CutSet
<1> QED BY <1>1, <1>2, <1>3, CutSet DEF Promise!Crash

LEMMA FailSet ==
    ASSUME Inv, AccessFails
    PROVE  Promise!Fail
<1>1. /\ Updating /\ pc' = "idle" /\ UNCHANGED <<list, total>> /\ said' = <<job.name, "error">>
      /\ torn' = (torn \/ Listed # job.before) /\ stale' = (stale \/ Listed # job.before)
  BY DEF AccessFails, Updating, Answer
<1>2. torn' \in {torn, TRUE} /\ stale' \in {stale, TRUE}
  BY <1>1 DEF Inv
<1>3. Users' # Users => torn'
  BY <1>1, CutSet
<1>4. \E n \in Names : said' = <<n, "error">>
  BY <1>1 DEF Inv, JobInv, Updating
<1> QED BY <1>1, <1>2, <1>3, <1>4, CutSet DEF Promise!Fail, Promise!Says

\* The entry could not be read: the set is what it was.
LEMMA UnreadSet ==
    ASSUME Inv, UnreadAdd \/ \E n \in Names : UnreadVerify(n)
    PROVE  Promise!Fail
<1>1. /\ pc \in {"idle", "bring"} /\ pc' = "idle" /\ total' = total
      /\ list' = WriteBack(cache, list) /\ stale' = TRUE /\ torn' = torn
  BY DEF UnreadAdd, UnreadVerify, Idle
<1>2. Named' = Named
  BY <1>1, WriteBackSame, NamesStay DEF Inv
<1>3. Users' = Users
  BY <1>1, <1>2 DEF Users
<1>4. \E n \in Names : said' = <<n, "error">>
  <2>1. pc = "bring" => job.name \in Names
    BY DEF Inv, JobInv
  <2> QED BY <2>1 DEF UnreadAdd, UnreadVerify, Answer
<1>5. \E lost \in SUBSET Users, new \in SUBSET Names :
         /\ Promise!Cardinality(lost) <= 1 /\ Promise!Cardinality(new) <= 1
         /\ Users' = (Users \ lost) \cup new
  <2>1. {} \in SUBSET Users /\ {} \in SUBSET Names /\ Users = (Users \ {}) \cup {}
    OBVIOUS
  <2>2. Promise!Cardinality({}) <= 1
    BY FS_EmptySet, SameCount
  <2> QED BY <1>3, <2>1, <2>2
<1> QED BY <1>1, <1>3, <1>4, <1>5 DEF Promise!Fail, Promise!Says

LEMMA StepsMap ==
    ASSUME Inv, [Next]_vars
    PROVE  [Promise!Next]_(Promise!vars)
<1>1. ASSUME NEW n \in Names, Verify(n) PROVE Promise!Next
  BY <1>1, AskStep DEF Promise!Next
<1>2. ASSUME NEW n \in Names, AddRefused(n) PROVE Promise!Next
  BY <1>2, RefuseStep DEF Promise!Next
<1>3. ASSUME NEW n \in Names, DelUnknown(n) PROVE Promise!Next
  BY <1>3, UnknownStep DEF Promise!Next
<1>4. CASE AddDone
  BY <1>4, AnswerStep DEF Promise!Next
<1>5. CASE CountUp
  BY <1>5, AdmitStep DEF Promise!Next
<1>6. CASE CountDown
  BY <1>6, ExpelStep DEF Promise!Next
<1>7. CASE DelAll
  BY <1>7, ClearStep DEF Promise!Next
<1>8. CASE AccessFails
  BY <1>8, FailSet DEF Promise!Next
<1>9. CASE Crash
  BY <1>9, CrashSet DEF Promise!Next
<1>10. CASE UnreadAdd \/ \E n \in Names : UnreadVerify(n)
  BY <1>10, UnreadSet DEF Promise!Next
<1>11. CASE \/ \E n \in Names : AddStart(n) \/ DelStart(n)
            \/ Shift \/ Insert \/ Pull \/ Tick \/ UNCHANGED vars
  BY <1>11, InnerStep
<1> QED BY <1>1, <1>2, <1>3, <1>4, <1>5, <1>6, <1>7, <1>8, <1>9, <1>10, <1>11
        DEF Next, Add, Del

LEMMA InitMaps ==
    ASSUME Init
    PROVE  Promise!Init
<1>1. Users = Range(Listed) /\ Listed = <<>>
  BY DEF Init, Users, Named, Listed
<1>2. Users = {}
  BY <1>1 DEF Range
<1> QED BY <1>2 DEF Init, Promise!Init

\* Refinement: the file, its cache and the binary search implement a set of
\* users of bounded size.  Every answer of user_data_verify, user_data_add and
\* user_data_del is true of that set, and a crash or a failed access costs it at
\* most the user that was being worked on and one other.
THEOREM UserImplements == Spec => KeepsPromise
<1>1. Init => Inv
  BY InitHolds
<1>2. Inv /\ [Next]_vars => Inv'
  BY NextKeeps
<1>3. Init => Promise!Init
  BY InitMaps
<1>4. Inv /\ [Next]_vars => [Promise!Next]_(Promise!vars)
  BY StepsMap
<1> QED BY <1>1, <1>2, <1>3, <1>4, PTL DEF Spec, KeepsPromise, Promise!Spec

-----------------------------------------------------------------------------
(* When users were last seen.                                              *)

SeenIn(c, l, t, n) ==
    IF \E i \in DOMAIN c : c[i].name = n
    THEN c[SelectInSeq(c, LAMBDA e : e.name = n)].seen
    ELSE l[CHOOSE k \in 0..(t - 1) : l[k].name = n].seen

\* The same without a choice.
SeenAt(c, l, t, n, x) ==
    \/ \E i \in 1..Len(c) : c[i].name = n /\ c[i].seen = x
    \/ /\ \A i \in 1..Len(c) : c[i].name # n
       /\ \E k \in 0..(t - 1) : l[k].name = n /\ l[k].seen = x

Once(c) == \A i, j \in 1..Len(c) : c[i].name = c[j].name => i = j

\* While the entries move, one is there twice.
Twins(l, t) == \A i, j \in 0..(t - 1) : l[i].name = l[j].name => l[i] = l[j]

LEMMA SeenIs ==
    ASSUME NEW c \in Seq(Cell), Once(c), NEW l, NEW t, Twins(l, t),
           NEW n, NEW x, SeenAt(c, l, t, n, x)
    PROVE  SeenIn(c, l, t, n) = x
<1>1. CASE \E i \in 1..Len(c) : c[i].name = n
  <2> DEFINE I == {i \in 1..Len(c) : c[i].name = n}
             q == SelectInSeq(c, LAMBDA e : e.name = n)
  <2>1. q = IF I # {} THEN Min(I) ELSE 0
    BY DEF SelectInSeq
  <2>2. I # {} /\ I \subseteq Nat
    BY <1>1
  <2> HIDE DEF I
  <2>3. q \in I
    BY <2>1, <2>2, FirstIndex
  <2> USE DEF I
  <2>4. SeenIn(c, l, t, n) = c[q].seen
    BY <1>1 DEF SeenIn
  <2> HIDE DEF q
  <2>5. PICK i \in 1..Len(c) : c[i].name = n /\ c[i].seen = x
    BY <1>1 DEF SeenAt
  <2>6. i = q
    BY <2>3, <2>5 DEF Once
  <2> QED BY <2>4, <2>5, <2>6
<1>2. CASE ~\E i \in 1..Len(c) : c[i].name = n
  <2>1. PICK k \in 0..(t - 1) : l[k].name = n /\ l[k].seen = x
    BY <1>2 DEF SeenAt
  <2>2. PICK m : m = CHOOSE j \in 0..(t - 1) : l[j].name = n
    OBVIOUS
  <2>3. m \in 0..(t - 1) /\ l[m].name = n
    BY <2>1, <2>2
  <2>4. l[m] = l[k]
    BY <2>1, <2>3 DEF Twins
  <2>5. SeenIn(c, l, t, n) = l[m].seen
    BY <1>2, <2>2 DEF SeenIn
  <2> QED BY <2>1, <2>4, <2>5
<1> QED BY <1>1, <1>2

LEMMA SeenSome ==
    ASSUME NEW c \in Seq(Cell), NEW l \in [Slots -> Entry], NEW t \in 0..UserMax,
           NEW k \in 0..(t - 1)
    PROVE  \E x \in Nat : SeenAt(c, l, t, l[k].name, x)
<1>1. k \in Slots /\ l[k] \in Entry
  BY Sizes DEF Slots
<1>2. l[k].seen \in Nat
  BY <1>1, Sizes DEF Entry
<1>3. CASE \E i \in 1..Len(c) : c[i].name = l[k].name
  <2>1. PICK i \in 1..Len(c) : c[i].name = l[k].name
    BY <1>3
  <2>2. c[i] \in Cell
    OBVIOUS
  <2>3. c[i].seen \in Nat
    BY <2>2, Sizes DEF Cell
  <2> QED BY <2>1, <2>3 DEF SeenAt
<1>4. CASE ~\E i \in 1..Len(c) : c[i].name = l[k].name
  BY <1>2, <1>4 DEF SeenAt
<1> QED BY <1>3, <1>4

\* No time is in the future, and entries with one name are one entry.
SeenInv ==
    /\ faults \in Nat
    /\ \A i \in Slots : list[i].seen <= now
    /\ \A i \in 1..Len(cache) : cache[i].seen <= now
    /\ Updating /\ ~torn => Twins(list, total)

\* The names of a list are its entries, if none is there twice.
LEMMA StrictTwins ==
    ASSUME NEW l, NEW t \in Nat, NEW s \in Seq(Names), Len(s) = t, Strict(s),
           \A k \in 1..t : s[k] = l[k - 1].name
    PROVE  Twins(l, t)
<1>1. ASSUME NEW i \in 0..(t - 1), NEW j \in 0..(t - 1), l[i].name = l[j].name
      PROVE  i = j
  <2>1. i + 1 \in 1..t /\ j + 1 \in 1..t /\ (i + 1) - 1 = i /\ (j + 1) - 1 = j
    OBVIOUS
  <2>2. PICK a, b : a = s[i + 1] /\ b = s[j + 1]
    OBVIOUS
  <2>3. a = l[i].name /\ b = l[j].name
    BY <2>1, <2>2
  <2>4. a \in Names /\ b \in Names
    <3>1. s \in [1..t -> Names]
      OBVIOUS
    <3> QED BY <2>1, <2>2, <3>1
  <2>5. i < j => a < b
    BY <2>1, <2>2 DEF Strict
  <2>6. j < i => b < a
    BY <2>1, <2>2 DEF Strict
  <2> QED BY <1>1, <2>3, <2>4, <2>5, <2>6, Sizes
<1> QED BY <1>1 DEF Twins

LEMMA QuietTwins ==
    ASSUME Inv, ~Updating, ~torn
    PROVE  Twins(list, total)
<1>1. Base = Listed /\ Strict(Listed) /\ Listed \in Seq(Names) /\ Len(Listed) = total
  BY DEF Base, Inv, BaseInv
<1>2. total \in Nat
  BY Sizes, TypeIs DEF Inv
<1>3. \A k \in 1..total : Listed[k] = list[k - 1].name
  BY NowSound
<1> QED BY <1>1, <1>2, <1>3, StrictTwins

LEMMA NowTwins ==
    ASSUME Inv, SeenInv, ~torn
    PROVE  Twins(list, total)
BY QuietTwins DEF SeenInv

Later(n) ==
    \A x \in Nat : SeenAt(cache, list, total, n, x) =>
        \E y \in Nat : y >= x /\ SeenAt(cache', list', total', n, y)

\* No user enters or leaves the cache.
CacheStays ==
    /\ Len(cache') = Len(cache)
    /\ \A i \in 1..Len(cache) : cache'[i].name = cache[i].name /\ cache'[i].seen >= cache[i].seen

\* What is listed under a name is what was.
ListStays(n) ==
    \A k \in 0..(total - 1), j \in 0..(total' - 1) :
        list[k].name = n /\ list'[j].name = n => list'[j].seen = list[k].seen

LEMMA StaysLater ==
    ASSUME CacheType(cache), CacheType(cache'), CacheStays, NEW n, ListStays(n),
           NEW j \in 0..(total' - 1), list'[j].name = n
    PROVE  Later(n)
<1>1. SUFFICES ASSUME NEW x \in Nat, SeenAt(cache, list, total, n, x)
               PROVE  \E y \in Nat : y >= x /\ SeenAt(cache', list', total', n, y)
  BY DEF Later
<1>2. CASE \E i \in 1..Len(cache) : cache[i].name = n
  <2>1. PICK i \in 1..Len(cache) : cache[i].name = n /\ cache[i].seen = x
    BY <1>1, <1>2 DEF SeenAt
  <2>2. i \in 1..Len(cache') /\ cache'[i].name = n /\ cache'[i].seen >= x
    BY <2>1 DEF CacheStays
  <2>3. cache'[i].seen \in Nat
    <3>1. PICK d : d = cache'
      OBVIOUS
    <3>2. CacheType(d) /\ i \in 1..Len(d)
      BY <2>2, <3>1
    <3>3. d[i] \in Cell
      BY <3>2, CellIs
    <3> QED BY <3>1, <3>3, Sizes DEF Cell
  <2> QED BY <2>2, <2>3 DEF SeenAt
<1>3. CASE ~\E i \in 1..Len(cache) : cache[i].name = n
  <2>1. PICK k \in 0..(total - 1) : list[k].name = n /\ list[k].seen = x
    BY <1>1, <1>3 DEF SeenAt
  <2>2. list'[j].seen = x
    BY <2>1 DEF ListStays
  <2>3. \A i \in 1..Len(cache') : cache'[i].name # n
    BY <1>3 DEF CacheStays
  <2> QED BY <2>2, <2>3 DEF SeenAt
<1> QED BY <1>2, <1>3

LEMMA CacheSame ==
    ASSUME CacheType(cache), cache' = cache
    PROVE  CacheStays /\ CacheType(cache')
<1>1. \A i \in 1..Len(cache) : cache[i].seen \in Nat
  <2> TAKE i \in 1..Len(cache)
  <2>1. cache[i] \in Cell
    BY CellIs
  <2> QED BY <2>1, Sizes DEF Cell
<1> QED BY <1>1 DEF CacheStays, CacheType

LEMMA SeenNat ==
    ASSUME Inv
    PROVE  /\ CacheType(cache) /\ cache \in Seq(Cell) /\ Len(cache) \in Nat
           /\ total \in 0..UserMax /\ total \in Nat /\ now \in Nat /\ list \in [Slots -> Entry]
           /\ \A i \in Slots : list[i].seen \in Nat /\ list[i] \in Entry
           /\ \A i \in 1..Len(cache) : cache[i].seen \in Nat
<1>1. CacheType(cache) /\ total \in 0..UserMax /\ list \in [Slots -> Entry] /\ now \in 0..MaxTime
  BY TypeIs DEF Inv
<1>2. \A i \in 1..Len(cache) : cache[i].seen \in Nat
  <2> TAKE i \in 1..Len(cache)
  <2>1. cache[i] \in Cell
    BY <1>1, CellIs
  <2> QED BY <2>1, Sizes DEF Cell
<1>3. \A i \in Slots : list[i].seen \in Nat /\ list[i] \in Entry
  <2> TAKE i \in Slots
  <2>1. list[i] \in Entry
    BY <1>1
  <2> QED BY <2>1, Sizes DEF Entry
<1>4. cache \in Seq(Cell) /\ Len(cache) \in Nat
  BY <1>1 DEF CacheType
<1> QED BY <1>1, <1>2, <1>3, <1>4, Sizes

\* One entry moves one place, or none does.
LEMMA MovesStay ==
    ASSUME Twins(list, total), total \in Nat, total' = total,
           \A j \in 0..(total - 1) : \E k \in 0..(total - 1) : list'[j] = list[k]
    PROVE  Twins(list', total') /\ \A n : ListStays(n)
<1>1. ASSUME NEW i \in 0..(total - 1), NEW j \in 0..(total - 1), list'[i].name = list'[j].name
      PROVE  list'[i] = list'[j]
  <2>1. PICK k \in 0..(total - 1) : list'[i] = list[k]
    OBVIOUS
  <2>2. PICK m \in 0..(total - 1) : list'[j] = list[m]
    OBVIOUS
  <2> QED BY <1>1, <2>1, <2>2 DEF Twins
<1>2. ASSUME NEW n, NEW k \in 0..(total - 1), NEW j \in 0..(total - 1),
             list[k].name = n, list'[j].name = n
      PROVE  list'[j].seen = list[k].seen
  <2>1. PICK m \in 0..(total - 1) : list'[j] = list[m]
    OBVIOUS
  <2> QED BY <1>2, <2>1 DEF Twins
<1> QED BY <1>1, <1>2 DEF Twins, ListStays

LEMMA ShiftTwins ==
    ASSUME Inv, SeenInv, Shift
    PROVE  /\ ~torn => Twins(list', total') /\ \A n : ListStays(n)
           /\ \A i \in Slots : list'[i].seen <= now
<1>1. pc = "shift" /\ job.k > job.pos /\ list' = [list EXCEPT ![job.k] = list[job.k - 1]] /\ total' = total
  BY DEF Shift
<1>2. job.k \in job.pos..total /\ job.pos \in 0..total /\ total \in Nat /\ total < UserMax
  BY <1>1, SeenNat DEF Inv, JobInv, NewHere
<1>3. PICK k : k = job.k
  OBVIOUS
<1>4. k \in 1..total /\ k - 1 \in 0..(total - 1) /\ k - 1 \in Slots /\ k \in Slots
  BY <1>1, <1>2, <1>3, Sizes DEF Slots
<1>5. \A i \in Slots : list'[i] = IF i = k THEN list[k - 1] ELSE list[i]
  BY <1>1, <1>3, <1>4, SeenNat
<1>6. ASSUME NEW j \in 0..(total - 1) PROVE \E m \in 0..(total - 1) : list'[j] = list[m]
  <2>1. j \in Slots
    BY <1>2, Sizes DEF Slots
  <2> QED BY <1>4, <1>5, <2>1
<1>7. ~torn => Twins(list, total)
  BY NowTwins
<1>8. \A i \in Slots : list'[i].seen <= now
  BY <1>4, <1>5 DEF SeenInv
<1> QED BY <1>1, <1>2, <1>6, <1>7, <1>8, MovesStay

LEMMA PullTwins ==
    ASSUME Inv, SeenInv, Pull
    PROVE  /\ ~torn => Twins(list', total') /\ \A n : ListStays(n)
           /\ \A i \in Slots : list'[i].seen <= now
<1>1. pc = "pull" /\ job.k < total - 1 /\ list' = [list EXCEPT ![job.k] = list[job.k + 1]] /\ total' = total
  BY DEF Pull
<1>2. job.k \in job.pos..(total - 1) /\ job.pos \in 0..(total - 1) /\ total \in 0..UserMax
  BY <1>1, SeenNat DEF Inv, JobInv
<1>3. PICK k : k = job.k
  OBVIOUS
<1>4. /\ total \in Nat /\ total <= UserMax /\ UserMax \in Nat
      /\ k \in 0..(total - 1) /\ k + 1 \in 0..(total - 1) /\ k + 1 \in Slots /\ k \in Slots
  BY <1>1, <1>2, <1>3, Sizes DEF Slots
<1>5. \A i \in Slots : list'[i] = IF i = k THEN list[k + 1] ELSE list[i]
  BY <1>1, <1>3, <1>4, SeenNat
<1>6. ASSUME NEW j \in 0..(total - 1) PROVE \E m \in 0..(total - 1) : list'[j] = list[m]
  <2>1. j \in Slots
    BY <1>4, Sizes DEF Slots
  <2> QED BY <1>4, <1>5, <2>1
<1>7. ~torn => Twins(list, total)
  BY NowTwins
<1>8. \A i \in Slots : list'[i].seen <= now
  BY <1>4, <1>5 DEF SeenInv
<1> QED BY <1>1, <1>4, <1>6, <1>7, <1>8, MovesStay

LEMMA InsertTwins ==
    ASSUME Inv, SeenInv, Insert
    PROVE  /\ ~torn => Twins(list', total') /\ \A n : ListStays(n)
           /\ \A i \in Slots : list'[i].seen <= now
<1>1. /\ pc = "shift" /\ job.k = job.pos /\ total' = total
      /\ list' = [list EXCEPT ![job.pos] = [name |-> job.name, seen |-> now]]
  BY DEF Insert
<1>2. PICK p, b, m : p = job.pos /\ b = job.before /\ m = job.name
  OBVIOUS
<1>3. /\ p \in 0..total /\ total \in Nat /\ total < UserMax /\ m \in Names /\ m \in Nat
      /\ \A i \in 1..p : b[i] < m
      /\ \A i \in (p + 1)..total : m < b[i]
  BY <1>1, <1>2, SeenNat, Sizes DEF Inv, JobInv, NewHere
<1>4. p \in Slots /\ \A i \in 0..(total - 1) : i \in Slots
  BY <1>3, Sizes DEF Slots
<1>5. \A i \in Slots : list'[i] = IF i = p THEN [name |-> m, seen |-> now] ELSE list[i]
  BY <1>1, <1>2, <1>4, SeenNat
<1>6. b \in Seq(Names) /\ Len(b) = total
  BY <1>1, <1>2 DEF Inv, BaseInv, Base, Updating
<1>7. ASSUME NEW i \in 0..(total - 1) PROVE list[i].name # m
  <2>1. Moving(i) /\ i \in 0..total
    BY <1>1, <1>3 DEF Inv, JobInv
  <2>2. CASE i <= p
    <3>1. list[i].name = b[i + 1] /\ i + 1 \in 1..total
      BY <1>1, <1>2, <1>3, <2>1, <2>2 DEF Moving
    <3>2. b[i + 1] < m \/ m < b[i + 1]
      BY <1>3, <2>2, <3>1
    <3>3. b[i + 1] \in Names
      BY <1>6, <3>1
    <3> QED BY <1>3, <3>1, <3>2, <3>3, Sizes
  <2>3. CASE p < i
    <3>1. list[i].name = b[i] /\ i \in (p + 1)..total /\ i \in 1..total
      BY <1>1, <1>2, <1>3, <2>1, <2>3 DEF Moving
    <3>2. b[i] \in Names
      BY <1>6, <3>1
    <3> QED BY <1>3, <3>1, <3>2, Sizes
  <2> QED BY <1>3, <2>2, <2>3
<1>8. ASSUME Twins(list, total) PROVE Twins(list', total') /\ \A n : ListStays(n)
  <2>1. ASSUME NEW i \in 0..(total - 1), NEW j \in 0..(total - 1), list'[i].name = list'[j].name
        PROVE  list'[i] = list'[j]
    <3>1. i = p /\ j # p => FALSE
      BY <1>4, <1>5, <1>7, <2>1
    <3>2. i # p /\ j = p => FALSE
      BY <1>4, <1>5, <1>7, <2>1
    <3>3. i # p /\ j # p => list'[i] = list[i] /\ list'[j] = list[j]
      BY <1>4, <1>5
    <3> QED BY <1>8, <2>1, <3>1, <3>2, <3>3 DEF Twins
  <2>2. ASSUME NEW n, NEW k \in 0..(total - 1), NEW j \in 0..(total - 1),
               list[k].name = n, list'[j].name = n
        PROVE  list'[j].seen = list[k].seen
    <3>1. n # m
      BY <1>7, <2>2
    <3>2. list'[j] = list[j]
      BY <1>4, <1>5, <2>2, <3>1
    <3> QED BY <1>8, <2>2, <3>2 DEF Twins
  <2> QED BY <1>1, <2>1, <2>2 DEF Twins, ListStays
<1>9. \A i \in Slots : list'[i].seen <= now
  <2> TAKE i \in Slots
  <2>1. now <= now
    BY SeenNat
  <2> QED BY <1>5, <2>1 DEF SeenInv
<1>10. ~torn => Twins(list, total)
  BY NowTwins
<1> QED BY <1>8, <1>9, <1>10

LEMMA BumpedSeen ==
    ASSUME CacheType(cache), NEW p \in Nat
    PROVE  \A i \in 1..Len(cache) : Bumped(p)[i].seen = cache[i].seen
<1>1. cache \in [1..Len(cache) -> Cell]
  BY DEF CacheType
<1>2. ASSUME NEW i \in 1..Len(cache)
      PROVE  Bumped(p)[i].seen = cache[i].seen
  <2>1. cache[i] \in Cell
    BY <1>1
  <2>2. Bumped(p)[i] = [cache[i] EXCEPT !.idx = IF @ >= p THEN @ + 1 ELSE @]
    BY <1>1 DEF Bumped
  <2> QED BY <2>1, <2>2 DEF Cell
<1> QED BY <1>2

LEMMA CountUpSeen ==
    ASSUME Inv, Inv', SeenInv, CountUp
    PROVE  /\ CacheStays /\ CacheType(cache') /\ list' = list
           /\ ~torn => \A n : ListStays(n)
           /\ \A i \in 1..Len(cache') : cache'[i].seen <= now
<1>1. /\ pc = "count" /\ total' = total + 1 /\ cache' = Bumped(job.pos) /\ pc' = "bring"
      /\ list' = list /\ torn' = torn
  BY DEF CountUp, History
<1>2. job.pos \in Nat
  BY JobIs, Sizes DEF Inv
<1>3. CacheType(cache') /\ Len(cache') = Len(cache)
      /\ \A i \in 1..Len(cache) : cache'[i].name = cache[i].name /\ cache'[i].seen = cache[i].seen
  BY <1>1, <1>2, SeenNat, BumpedIs, BumpedSeen
<1>4. CacheStays
  BY <1>3, SeenNat DEF CacheStays
<1>5. ASSUME ~torn, NEW n PROVE ListStays(n)
  <2>1. Base' = Listed' /\ Strict(Listed') /\ Listed' \in Seq(Names) /\ Len(Listed') = total'
    BY <1>1, <1>5 DEF Base, Inv, BaseInv, Updating
  <2>2. total' \in Nat
    BY <1>1, SeenNat
  <2>3. \A k \in 1..total' : Listed'[k] = list'[k - 1].name
    BY DEF Listed
  <2>4. Twins(list', total')
    <3>1. PICK s, t, l : s = Listed' /\ t = total' /\ l = list'
      OBVIOUS
    <3>2. Strict(s) /\ s \in Seq(Names) /\ Len(s) = t /\ t \in Nat
          /\ \A k \in 1..t : s[k] = l[k - 1].name
      BY <2>1, <2>2, <2>3, <3>1 DEF Strict
    <3>3. Twins(l, t)
      BY <3>2, StrictTwins
    <3> QED BY <3>1, <3>3 DEF Twins
  <2>5. \A k \in 0..(total - 1) : k \in 0..(total' - 1)
    BY <1>1, SeenNat
  <2> QED BY <1>1, <2>4, <2>5 DEF ListStays, Twins
<1>6. \A i \in 1..Len(cache') : cache'[i].seen <= now
  BY <1>3 DEF SeenInv
<1> QED BY <1>1, <1>3, <1>4, <1>5, <1>6

LEMMA WriteBackIs ==
    ASSUME CacheType(cache), list \in [Slots -> Entry], NEW k \in Slots
    PROVE  /\ Evicted => Len(cache) \in 1..Len(cache) /\ Len(cache) = CacheMax
           /\ WriteBack(cache, list)[k].seen
                = IF Evicted /\ k = cache[Len(cache)].idx THEN cache[Len(cache)].seen
                  ELSE list[k].seen
           /\ WriteBack(cache, list)[k].name = list[k].name
<1>1. Evicted => Len(cache) \in 1..Len(cache) /\ Len(cache) = CacheMax
  BY Sizes DEF Evicted
<1>2. list[k] \in Entry
  OBVIOUS
<1>3. WriteBack(cache, list)[k]
        = IF Evicted /\ k = cache[Len(cache)].idx THEN [list[k] EXCEPT !.seen = cache[Len(cache)].seen]
          ELSE list[k]
  BY DEF WriteBack, Last
<1> QED BY <1>1, <1>2, <1>3 DEF Entry

LEMMA BringInSeen ==
    ASSUME CacheType(cache), NEW pos \in 0..(UserMax - 1), list[pos].name \in Names,
           now \in 0..MaxTime
    PROVE  /\ Len(BringIn(cache, list, pos)) = IF Evicted THEN CacheMax ELSE Len(cache) + 1
           /\ BringIn(cache, list, pos)[1].seen = now
           /\ 1 \in 1..Len(BringIn(cache, list, pos))
<1> DEFINE e == [idx |-> pos, name |-> list[pos].name, seen |-> now]
           n == IF Evicted THEN CacheMax ELSE Len(cache) + 1
<1>1. e \in Cell /\ e.seen = now
  BY Sizes DEF Cell
<1>2. cache \in Seq(Cell) /\ Len(cache) \in Nat /\ Len(cache) <= CacheMax
  BY DEF CacheType
<1>3. n \in 1..(Len(cache) + 1)
  BY <1>2, Sizes DEF Evicted
<1>4. BringIn(cache, list, pos) = SubSeq(<<e>> \o cache, 1, n)
  BY DEF BringIn
<1>5. PICK c : c = BringIn(cache, list, pos)
  OBVIOUS
<1> HIDE DEF e
<1>6. Len(c) = n /\ 1 \in 1..n
  <2> HIDE DEF n
  <2> QED BY <1>1, <1>2, <1>3, <1>4, <1>5, Pushed
<1>7. c[1] = e
  <2> HIDE DEF n
  <2> QED BY <1>1, <1>2, <1>3, <1>4, <1>5, Pushed
<1> QED BY <1>1, <1>5, <1>6, <1>7

LEMMA BroughtSeen ==
    ASSUME Inv, SeenInv, pc \in {"idle", "bring"}, ~torn, ~stale, NEW p \in 0..(total - 1),
           ~Cached(list[p].name), total' = total,
           cache' = BringIn(cache, list, p), list' = WriteBack(cache, list), NEW n
    PROVE  Later(n)
<1>1. /\ CacheType(cache) /\ total \in Nat /\ total \in 0..UserMax /\ list \in [Slots -> Entry]
      /\ now \in 0..MaxTime /\ now \in Nat /\ Len(cache) \in Nat /\ list[p].name \in Names
  BY SeenNat, NowSound DEF Inv
<1>2. p \in 0..(UserMax - 1) /\ \A k \in 0..(total - 1) : k \in Slots
  BY <1>1, Sizes DEF Slots
<1>3. PICK c, l : c = cache' /\ l = list'
  OBVIOUS
<1>4. /\ Len(c) = IF Evicted THEN CacheMax ELSE Len(cache) + 1
      /\ c[1].seen = now /\ 1 \in 1..Len(c)
  BY <1>1, <1>2, <1>3, BringInSeen
<1>5. \A i \in 1..Len(c) :
          /\ i = 1 => c[i].name = list[p].name
          /\ i # 1 => c[i] = cache[i - 1] /\ i - 1 \in 1..Len(cache)
  <2>1. PICK d : d = BringIn(cache, list, p)
    OBVIOUS
  <2>2. \A i \in 1..Len(d) :
          /\ i = 1 => d[i].idx = p /\ d[i].name = list[p].name
          /\ i # 1 => d[i] = cache[i - 1] /\ i - 1 \in 1..Len(cache)
    BY <1>1, <1>2, <2>1, BringInIs
  <2> QED BY <1>3, <2>1, <2>2
<1>6. /\ Evicted => Len(cache) \in 1..Len(cache) /\ Len(cache) = CacheMax
      /\ \A k \in 0..(total - 1) :
            /\ l[k].name = list[k].name
            /\ l[k].seen = IF Evicted /\ k = cache[Len(cache)].idx THEN cache[Len(cache)].seen
                           ELSE list[k].seen
  <2>1. Evicted => Len(cache) \in 1..Len(cache) /\ Len(cache) = CacheMax
    BY <1>1, Sizes DEF Evicted
  <2> QED BY <1>1, <1>2, <1>3, <2>1, WriteBackIs
<1>7. Points(cache, Listed) /\ Len(Listed) = total /\ \A i \in 1..total : Listed[i] = list[i - 1].name
  BY NowSound DEF Inv, CacheInv, Base, Updating
<1>8. ASSUME NEW i \in 1..Len(cache)
      PROVE  cache[i].idx \in 0..(total - 1) /\ list[cache[i].idx].name = cache[i].name
  <2>1. cache[i].idx < total /\ Listed[cache[i].idx + 1] = cache[i].name /\ cache[i].idx \in Nat
    BY <1>1, <1>7, PointsAt, CellIs
  <2>2. cache[i].idx + 1 \in 1..total /\ (cache[i].idx + 1) - 1 = cache[i].idx
    BY <1>1, <2>1
  <2>3. Listed[cache[i].idx + 1] = list[(cache[i].idx + 1) - 1].name
    BY <1>7, <2>2
  <2> QED BY <1>1, <2>1, <2>2, <2>3
<1>9. \A i \in 1..Len(cache) : cache[i].name # list[p].name
  BY <1>1 DEF Cached, CacheType
<1>10. SUFFICES ASSUME NEW x \in Nat, SeenAt(cache, list, total, n, x)
                PROVE  \E y \in Nat : y >= x /\ SeenAt(c, l, total, n, y)
  BY <1>3 DEF Later
<1>11. CASE \E i \in 1..Len(cache) : cache[i].name = n
  <2>1. PICK i \in 1..Len(cache) : cache[i].name = n /\ cache[i].seen = x
    BY <1>10, <1>11 DEF SeenAt
  <2>2. CASE i + 1 \in 1..Len(c)
    <3>1. i + 1 # 1 /\ (i + 1) - 1 = i
      BY <1>1
    <3>2. c[i + 1] = cache[i]
      BY <1>5, <2>2, <3>1
    <3>3. SeenAt(c, l, total, n, x)
      BY <2>1, <2>2, <3>2 DEF SeenAt
    <3> QED BY <3>3
  <2>3. CASE i + 1 \notin 1..Len(c)
    <3>1. Evicted /\ i = Len(cache) /\ Len(c) = Len(cache)
      BY <1>1, <1>4, <1>6, <2>3, Sizes
    <3>2. ASSUME NEW j \in 1..Len(c) PROVE c[j].name # n
      <4>1. CASE j = 1
        BY <1>5, <1>9, <2>1, <4>1
      <4>2. CASE j # 1
        <5>1. c[j] = cache[j - 1] /\ j - 1 \in 1..Len(cache)
          BY <1>5, <4>2
        <5>2. cache[j - 1].name = cache[i].name => j - 1 = i
          BY <1>7, <5>1 DEF Points
        <5>3. j - 1 # i
          BY <1>1, <3>1
        <5> QED BY <2>1, <5>1, <5>2, <5>3
      <4> QED BY <4>1, <4>2
    <3>3. PICK k \in 0..(total - 1) : k = cache[i].idx /\ list[k].name = n
      BY <1>8, <2>1
    <3>4. l[k].name = n /\ l[k].seen = x
      BY <1>6, <2>1, <3>1, <3>3
    <3>5. SeenAt(c, l, total, n, x)
      BY <3>2, <3>4 DEF SeenAt
    <3> QED BY <3>5
  <2> QED BY <2>2, <2>3
<1>12. CASE ~\E i \in 1..Len(cache) : cache[i].name = n
  <2>1. PICK k \in 0..(total - 1) : list[k].name = n /\ list[k].seen = x
    BY <1>10, <1>12 DEF SeenAt
  <2>2. CASE n = list[p].name
    <3>1. now >= x
      BY <1>1, <1>2, <2>1 DEF SeenInv
    <3>2. SeenAt(c, l, total, n, now)
      BY <1>4, <1>5, <2>2 DEF SeenAt
    <3> QED BY <1>1, <3>1, <3>2
  <2>3. CASE n # list[p].name
    <3>1. \A j \in 1..Len(c) : c[j].name # n
      BY <1>5, <1>12, <2>3
    <3>2. ~(Evicted /\ k = cache[Len(cache)].idx)
      BY <1>6, <1>8, <1>12, <2>1
    <3>3. l[k].name = n /\ l[k].seen = x
      BY <1>6, <2>1, <3>2
    <3>4. SeenAt(c, l, total, n, x)
      BY <3>1, <3>3 DEF SeenAt
    <3> QED BY <3>4
  <2> QED BY <2>2, <2>3
<1> QED BY <1>11, <1>12

LEMMA TouchedSeen ==
    ASSUME Inv, SeenInv, NEW k \in 1..Len(cache), cache' = Touched(k)
    PROVE  /\ CacheStays /\ CacheType(cache')
           /\ \A i \in 1..Len(cache') : cache'[i].seen <= now
<1>1. CacheType(cache) /\ now \in Nat /\ now \in 0..MaxTime
  BY SeenNat DEF Inv
<1>2. /\ CacheType(cache') /\ Len(cache') = Len(cache)
      /\ \A i \in 1..Len(cache) : cache'[i].name = cache[i].name
  <2>1. PICK d : d = Touched(k)
    OBVIOUS
  <2>2. /\ CacheType(d) /\ Len(d) = Len(cache)
        /\ \A i \in 1..Len(cache) : d[i].name = cache[i].name
    BY <1>1, <2>1, TouchedIs
  <2> QED BY <2>1, <2>2
<1>3. ASSUME NEW i \in 1..Len(cache)
      PROVE  cache'[i].seen = IF i = k THEN now ELSE cache[i].seen
  <2>1. cache \in [1..Len(cache) -> Cell]
    BY <1>1 DEF CacheType
  <2>2. cache'[i] = IF i = k THEN [cache[i] EXCEPT !.seen = now] ELSE cache[i]
    BY <2>1 DEF Touched
  <2>3. cache[i] \in Cell
    BY <2>1
  <2> QED BY <2>2, <2>3 DEF Cell
<1>4. \A i \in 1..Len(cache) : cache[i].seen \in Nat /\ cache[i].seen <= now
  BY SeenNat DEF SeenInv
<1> QED BY <1>1, <1>2, <1>3, <1>4 DEF CacheStays

\* Only the user at the place leaves the cache.
LEMMA PulledIs ==
    ASSUME CacheType(cache), NEW p \in Nat
    PROVE  /\ \A j \in 1..Len(Pulled(p)) : \E i \in 1..Len(cache) :
                 Pulled(p)[j].name = cache[i].name /\ Pulled(p)[j].seen = cache[i].seen
           /\ \A i \in 1..Len(cache) : cache[i].idx # p =>
                 \E j \in 1..Len(Pulled(p)) :
                    Pulled(p)[j].name = cache[i].name /\ Pulled(p)[j].seen = cache[i].seen
<1>0. cache \in Seq(Cell) /\ Len(cache) \in Nat /\ Len(cache) <= CacheMax
  BY DEF CacheType
<1>1. PICK c : c = IF FirstAt(p) = 0 THEN cache ELSE RemoveAt(cache, FirstAt(p))
  OBVIOUS
<1>2. CacheType(c)
  BY <1>1, WithoutIs
<1>3. Pulled(p) = [i \in DOMAIN c |-> [c[i] EXCEPT !.idx = IF @ > p THEN @ - 1 ELSE @]]
  BY <1>1 DEF Pulled
<1>4. PICK d : d = Pulled(p)
  OBVIOUS
<1>5. DOMAIN c = 1..Len(c) /\ Len(c) \in Nat
  BY <1>2 DEF CacheType
<1>6. DOMAIN d = 1..Len(c)
  BY <1>3, <1>4, <1>5
<1>7. Len(d) = Len(c)
  <2>1. CacheType(d)
    BY <1>4, PulledPoints
  <2>2. DOMAIN d = 1..Len(d) /\ Len(d) \in Nat
    BY <2>1 DEF CacheType
  <2> QED BY <1>5, <1>6, <2>2
<1>8. ASSUME NEW j \in 1..Len(c) PROVE d[j].name = c[j].name /\ d[j].seen = c[j].seen
  <2>1. d[j] = [c[j] EXCEPT !.idx = IF @ > p THEN @ - 1 ELSE @]
    BY <1>3, <1>4, <1>5
  <2>2. c[j] \in Cell
    BY <1>2, CellIs
  <2> QED BY <2>1, <2>2 DEF Cell
<1>9. /\ \A j \in 1..Len(c) : \E i \in 1..Len(cache) : c[j] = cache[i]
      /\ \A i \in 1..Len(cache) : cache[i].idx # p => \E j \in 1..Len(c) : c[j] = cache[i]
  <2>1. CASE ~\E i \in 1..Len(cache) : cache[i].idx = p
    <3>1. c = cache
      BY <1>0, <1>1, <2>1, FirstAtFinds
    <3> QED BY <3>1
  <2>2. CASE \E i \in 1..Len(cache) : cache[i].idx = p
    <3>1. PICK q \in 1..Len(cache) : q = FirstAt(p) /\ cache[q].idx = p
      BY <1>0, <2>2, FirstAtFinds
    <3>2. c = RemoveAt(cache, q)
      BY <1>1, <3>1
    <3>3. /\ Len(c) = Len(cache) - 1
          /\ \A i \in 1..Len(c) : c[i] = IF i < q THEN cache[i] ELSE cache[i + 1]
      BY <1>0, <3>2, Removed
    <3>4. ASSUME NEW j \in 1..Len(c) PROVE \E i \in 1..Len(cache) : c[j] = cache[i]
      <4>1. j \in 1..Len(cache) /\ j + 1 \in 1..Len(cache)
        BY <1>0, <3>3
      <4> QED BY <3>3, <4>1
    <3>5. ASSUME NEW i \in 1..Len(cache), cache[i].idx # p PROVE \E j \in 1..Len(c) : c[j] = cache[i]
      <4>1. CASE i < q
        <5>1. i \in 1..Len(c)
          BY <1>0, <3>3, <4>1
        <5> QED BY <3>3, <4>1, <5>1
      <4>2. CASE ~(i < q)
        <5>1. i # q
          BY <3>1, <3>5
        <5>2. i - 1 \in 1..Len(c) /\ ~(i - 1 < q) /\ (i - 1) + 1 = i
          BY <1>0, <3>3, <4>2, <5>1
        <5> QED BY <3>3, <5>2
      <4> QED BY <4>1, <4>2
    <3> QED BY <3>4, <3>5
  <2> QED BY <2>1, <2>2
<1>10. ASSUME NEW j \in 1..Len(d)
       PROVE  \E i \in 1..Len(cache) : d[j].name = cache[i].name /\ d[j].seen = cache[i].seen
  <2>1. j \in 1..Len(c)
    BY <1>7
  <2>2. PICK i \in 1..Len(cache) : c[j] = cache[i]
    BY <1>9, <2>1
  <2> QED BY <1>8, <2>1, <2>2
<1>11. ASSUME NEW i \in 1..Len(cache), cache[i].idx # p
       PROVE  \E j \in 1..Len(d) : d[j].name = cache[i].name /\ d[j].seen = cache[i].seen
  <2>1. PICK j \in 1..Len(c) : c[j] = cache[i]
    BY <1>9, <1>11
  <2> QED BY <1>7, <1>8, <2>1
<1> QED BY <1>4, <1>10, <1>11

LEMMA CountDownSeen ==
    ASSUME Inv, SeenInv, CountDown, ~torn, ~stale,
           NEW n, NEW h \in 0..(total' - 1), list'[h].name = n
    PROVE  Later(n)
<1>1. /\ pc = "pull" /\ job.k = total - 1 /\ total' = total - 1 /\ cache' = Pulled(job.pos) /\ list' = list
  BY DEF CountDown, History
<1>2. PICK p, b, t : p = job.pos /\ b = job.before /\ t = total - 1
  OBVIOUS
<1>3. /\ job.pos \in 0..(total - 1) /\ CacheType(cache) /\ total \in Nat
      /\ \A i \in 0..(total - 1) : Closing(i)
  BY <1>1, SeenNat DEF Inv, JobInv
<1>4. p \in 0..t /\ p \in Nat /\ t \in Nat /\ total = t + 1
  BY <1>2, <1>3
<1>5. b \in Seq(Names) /\ Len(b) = total /\ Strict(b) /\ Points(cache, b)
  BY <1>1, <1>2 DEF Inv, BaseInv, CacheInv, Base, Updating
<1>6. h \in 0..(t - 1) /\ h \in 0..(total - 1) /\ list[h].name = n
  BY <1>1, <1>2, <1>4
<1>7. n # b[p + 1]
  <2>1. list[h].name = IF h < p THEN b[h + 1] ELSE b[h + 2]
    <3>1. Closing(h) /\ ~(t <= h) /\ job.k = t
      BY <1>1, <1>2, <1>3, <1>4, <1>6
    <3> QED BY <1>2, <3>1 DEF Closing
  <2>2. h + 1 \in 1..Len(b) /\ h + 2 \in 1..Len(b) /\ p + 1 \in 1..Len(b)
    BY <1>4, <1>5, <1>6
  <2>3. b[h + 1] \in Names /\ b[h + 2] \in Names /\ b[p + 1] \in Names
    BY <1>5, <2>2
  <2>4. h < p => h + 1 < p + 1 /\ b[h + 1] < b[p + 1]
    BY <1>4, <1>5, <1>6, <2>2 DEF Strict
  <2>5. ~(h < p) => p + 1 < h + 2 /\ b[p + 1] < b[h + 2]
    BY <1>4, <1>5, <1>6, <2>2 DEF Strict
  <2>6. b[h + 1] \in Nat /\ b[h + 2] \in Nat /\ b[p + 1] \in Nat
    BY <2>3, Sizes
  <2>7. PICK u, v, w : u = b[h + 1] /\ v = b[h + 2] /\ w = b[p + 1]
    OBVIOUS
  <2>8. CASE h < p
    BY <1>6, <2>1, <2>4, <2>6, <2>7, <2>8
  <2>9. CASE ~(h < p)
    BY <1>6, <2>1, <2>5, <2>6, <2>7, <2>9
  <2> QED BY <2>8, <2>9
<1>8. SUFFICES ASSUME NEW x \in Nat, SeenAt(cache, list, total, n, x)
               PROVE  \E y \in Nat : y >= x /\ SeenAt(cache', list', total', n, y)
  BY DEF Later
<1>9. PICK d : d = cache'
  OBVIOUS
<1>10. /\ \A j \in 1..Len(d) : \E i \in 1..Len(cache) :
             d[j].name = cache[i].name /\ d[j].seen = cache[i].seen
       /\ \A i \in 1..Len(cache) : cache[i].idx # p =>
             \E j \in 1..Len(d) : d[j].name = cache[i].name /\ d[j].seen = cache[i].seen
  BY <1>1, <1>2, <1>3, <1>4, <1>9, PulledIs
<1>11. CASE \E i \in 1..Len(cache) : cache[i].name = n
  <2>1. PICK i \in 1..Len(cache) : cache[i].name = n /\ cache[i].seen = x
    BY <1>8, <1>11 DEF SeenAt
  <2>2. cache[i].idx # p
    BY <1>5, <1>7, <2>1, PointsAt
  <2>3. \E j \in 1..Len(d) : d[j].name = n /\ d[j].seen = x
    BY <1>10, <2>1, <2>2
  <2>4. SeenAt(d, list', total', n, x)
    BY <2>3 DEF SeenAt
  <2> QED BY <1>9, <2>4
<1>12. CASE ~\E i \in 1..Len(cache) : cache[i].name = n
  <2>1. PICK k \in 0..(total - 1) : list[k].name = n /\ list[k].seen = x
    BY <1>8, <1>12 DEF SeenAt
  <2>2. list[h].seen = x
    BY <1>6, <2>1, NowTwins DEF Twins
  <2>3. \A j \in 1..Len(d) : d[j].name # n
    BY <1>10, <1>12
  <2>4. SeenAt(d, list', total', n, x)
    BY <1>1, <1>6, <2>2, <2>3 DEF SeenAt
  <2> QED BY <1>9, <2>4
<1> QED BY <1>11, <1>12

Unhurt == faults' = faults /\ ~torn' /\ ~stale'
Keeps ==
    /\ SeenInv'
    /\ Unhurt => \A n : \A j \in 0..(total' - 1) : list'[j].name = n => Later(n)

LEMMA CacheSoon ==
    ASSUME SeenInv, Inv, cache' = cache, now' \in Nat, now' >= now
    PROVE  \A i \in 1..Len(cache') : cache'[i].seen <= now'
<1>1. ASSUME NEW i \in 1..Len(cache) PROVE cache[i].seen <= now'
  <2>1. cache[i].seen \in Nat /\ now \in Nat /\ cache[i].seen <= now
    BY SeenNat DEF SeenInv
  <2> QED BY <2>1
<1> QED BY <1>1

LEMMA StillSeen ==
    ASSUME Inv, SeenInv, UNCHANGED <<list, total, cache>>, now' \in Nat, now' >= now,
           faults' \in Nat, Updating' => torn' = torn, Unhurt => ~torn
    PROVE  Keeps
<1>1. ASSUME NEW i \in Slots PROVE list'[i].seen <= now'
  <2>1. list[i].seen \in Nat /\ now \in Nat /\ list[i].seen <= now
    BY SeenNat DEF SeenInv
  <2> QED BY <2>1
<1>2. Updating' /\ ~torn' => Twins(list', total')
  BY NowTwins DEF Twins
<1>3. ASSUME Unhurt, NEW n, NEW j \in 0..(total' - 1), list'[j].name = n PROVE Later(n)
  <2>1. ListStays(n)
    BY <1>3, NowTwins DEF ListStays, Twins
  <2>2. CacheStays /\ CacheType(cache) /\ CacheType(cache')
    BY SeenNat, CacheSame
  <2> QED BY <1>3, <2>1, <2>2, StaysLater
<1>4. SeenInv'
  BY <1>1, <1>2, CacheSoon DEF SeenInv
<1> QED BY <1>3, <1>4 DEF Keeps

LEMMA MovingSeen ==
    ASSUME Inv, SeenInv, Shift \/ Insert \/ Pull, faults' = faults
    PROVE  Keeps
<1>1. cache' = cache /\ torn' = torn /\ now' = now /\ now \in Nat
  BY SeenNat DEF Shift, Insert, Pull, History
<1>2. /\ ~torn => Twins(list', total') /\ \A n : ListStays(n)
      /\ \A i \in Slots : list'[i].seen <= now
  BY ShiftTwins, InsertTwins, PullTwins
<1>3. ASSUME Unhurt, NEW n, NEW j \in 0..(total' - 1), list'[j].name = n PROVE Later(n)
  <2>1. ListStays(n)
    BY <1>1, <1>2, <1>3 DEF Unhurt
  <2>2. CacheStays /\ CacheType(cache) /\ CacheType(cache')
    BY <1>1, SeenNat, CacheSame
  <2> QED BY <1>3, <2>1, <2>2, StaysLater
<1>4. \A i \in 1..Len(cache') : cache'[i].seen <= now'
  BY <1>1, CacheSoon
<1>5. SeenInv'
  <2>1. faults' \in Nat
    BY DEF SeenInv
  <2> QED BY <1>1, <1>2, <1>4, <2>1 DEF SeenInv
<1> QED BY <1>3, <1>5 DEF Keeps

LEMMA CountUpKeeps ==
    ASSUME Inv, Inv', SeenInv, CountUp, faults' = faults
    PROVE  Keeps
<1>1. now' = now /\ torn' = torn /\ list' = list /\ pc' = "bring"
  BY DEF CountUp, History
<1>2. /\ CacheStays /\ CacheType(cache') /\ CacheType(cache)
      /\ ~torn => \A n : ListStays(n)
      /\ \A i \in 1..Len(cache') : cache'[i].seen <= now
  BY SeenNat, CountUpSeen
<1>3. ASSUME Unhurt, NEW n, NEW j \in 0..(total' - 1), list'[j].name = n PROVE Later(n)
  <2>1. ListStays(n)
    BY <1>1, <1>2, <1>3 DEF Unhurt
  <2> QED BY <1>2, <1>3, <2>1, StaysLater
<1>4. SeenInv'
  BY <1>1, <1>2 DEF SeenInv, Updating
<1> QED BY <1>3, <1>4 DEF Keeps

LEMMA CountDownKeeps ==
    ASSUME Inv, SeenInv, CountDown, faults' = faults
    PROVE  Keeps
<1>1. /\ now' = now /\ torn' = torn /\ stale' = stale /\ list' = list /\ pc' = "idle"
      /\ cache' = Pulled(job.pos) /\ job.pos \in Nat /\ CacheType(cache)
  BY JobIs, SeenNat, Sizes DEF CountDown, History, Inv
<1>2. ASSUME Unhurt, NEW n, NEW j \in 0..(total' - 1), list'[j].name = n PROVE Later(n)
  BY <1>1, <1>2, CountDownSeen DEF Unhurt
<1>3. ASSUME NEW j \in 1..Len(cache') PROVE cache'[j].seen <= now
  <2>1. PICK i \in 1..Len(cache) : cache'[j].seen = cache[i].seen
    BY <1>1, PulledIs
  <2> QED BY <2>1 DEF SeenInv
<1>4. SeenInv'
  BY <1>1, <1>3 DEF SeenInv, Updating
<1> QED BY <1>2, <1>4 DEF Keeps

LEMMA VerifyCachedKeeps ==
    ASSUME Inv, SeenInv, NEW m \in Names, VerifyCached(m), faults' = faults
    PROVE  Keeps
<1>1. /\ Idle /\ Cached(m) /\ cache' = Touched(CachedAt(m))
      /\ UNCHANGED <<list, total, pc, now, torn>>
  BY DEF VerifyCached, History
<1>2. CachedAt(m) \in 1..Len(cache)
  BY <1>1, SeenNat, CachedAtFinds
<1>3. /\ CacheStays /\ CacheType(cache') /\ CacheType(cache)
      /\ \A i \in 1..Len(cache') : cache'[i].seen <= now
  <2>1. PICK k : k = CachedAt(m)
    OBVIOUS
  <2> QED BY <1>1, <1>2, <2>1, SeenNat, TouchedSeen
<1>4. ASSUME Unhurt, NEW n, NEW j \in 0..(total' - 1), list'[j].name = n PROVE Later(n)
  <2>1. ListStays(n)
    BY <1>1, <1>4, NowTwins DEF ListStays, Twins, Unhurt
  <2> QED BY <1>3, <1>4, <2>1, StaysLater
<1>5. SeenInv'
  BY <1>1, <1>3 DEF SeenInv, Updating, Idle
<1> QED BY <1>4, <1>5 DEF Keeps

LEMMA WrittenSeen ==
    ASSUME Inv, SeenInv, list' = WriteBack(cache, list)
    PROVE  \A k \in Slots : list'[k].seen <= now
<1> TAKE k \in Slots
<1>1. /\ Evicted => Len(cache) \in 1..Len(cache)
      /\ list'[k].seen = IF Evicted /\ k = cache[Len(cache)].idx THEN cache[Len(cache)].seen
                         ELSE list[k].seen
  BY SeenNat, WriteBackIs
<1> QED BY <1>1 DEF SeenInv

LEMMA BroughtKeeps ==
    ASSUME Inv, SeenInv, pc \in {"idle", "bring"}, pc' = "idle", NEW p \in 0..(total - 1),
           ~stale => ~Cached(list[p].name), UNCHANGED <<total, now, torn, stale, faults>>,
           cache' = BringIn(cache, list, p), list' = WriteBack(cache, list)
    PROVE  Keeps
<1>1. ASSUME Unhurt, NEW n PROVE Later(n)
  BY <1>1, BroughtSeen DEF Unhurt
<1>2. ASSUME NEW i \in 1..Len(cache') PROVE cache'[i].seen <= now
  <2>1. PICK d : d = BringIn(cache, list, p)
    OBVIOUS
  <2>2. /\ p \in 0..(UserMax - 1) /\ list[p].name \in Names /\ CacheType(cache)
        /\ now \in Nat /\ now \in 0..MaxTime
    <3>1. total \in 0..UserMax
      BY SeenNat
    <3> QED BY <3>1, SeenNat, NowSound, Sizes DEF Inv
  <2>3. \A j \in 1..Len(d) : j # 1 => d[j] = cache[j - 1] /\ j - 1 \in 1..Len(cache)
    BY <2>1, <2>2, BringInIs
  <2>4. d[1].seen = now
    BY <2>1, <2>2, BringInSeen
  <2>5. i \in 1..Len(d) /\ cache'[i] = d[i]
    BY <2>1
  <2>6. CASE i = 1
    BY <2>2, <2>4, <2>5, <2>6
  <2>7. CASE i # 1
    BY <2>3, <2>5, <2>7 DEF SeenInv
  <2> QED BY <2>6, <2>7
<1>3. SeenInv'
  BY <1>2, WrittenSeen DEF SeenInv, Updating
<1> QED BY <1>1, <1>3 DEF Keeps

LEMMA AskedKeeps ==
    ASSUME Inv, SeenInv, AddDone \/ \E m \in Names : VerifyListed(m), faults' = faults
    PROVE  Keeps
<1>1. CASE AddDone
  <2>1. /\ pc = "bring" /\ pc' = "idle" /\ UNCHANGED <<total, now, torn, stale>>
        /\ cache' = BringIn(cache, list, job.pos) /\ list' = WriteBack(cache, list)
    BY <1>1 DEF AddDone, History
  <2>2. /\ job.pos \in 0..(total - 1) /\ list[job.pos].name = job.name
        /\ ~stale => ~Cached(job.name)
    BY <2>1 DEF Inv, JobInv
  <2> QED BY <2>1, <2>2, BroughtKeeps
<1>2. ASSUME NEW m \in Names, VerifyListed(m) PROVE Keeps
  <2>1. /\ Idle /\ ~Cached(m) /\ Search(m).found /\ cache' = BringIn(cache, list, Search(m).pos)
        /\ list' = WriteBack(cache, list) /\ UNCHANGED <<total, pc, now, torn, stale>>
    BY <1>2 DEF VerifyListed, History
  <2>2. PICK p : p = Search(m).pos
    OBVIOUS
  <2>3. p \in 0..(total - 1) /\ list[p].name = m
    BY <2>1, <2>2, QuietLook DEF Right
  <2> QED BY <2>1, <2>2, <2>3, BroughtKeeps DEF Idle
<1> QED BY <1>1, <1>2

\* An entry that could not be read has the time of this access.
LEMMA UnreadSeen ==
    ASSUME Inv, SeenInv, NEW pos \in 0..(UserMax - 1)
    PROVE  \A i \in 1..Len(BringInUnread(pos)) : BringInUnread(pos)[i].seen <= now
<1>0. CacheType(cache) /\ now \in 0..MaxTime /\ now \in Nat
  BY SeenNat DEF Inv
<1>1. CASE cache = <<>>
  BY <1>1 DEF BringInUnread
<1>2. CASE cache # <<>>
  <2> DEFINE e == [cache[1] EXCEPT !.idx = pos, !.seen = now]
             n == IF Evicted THEN CacheMax ELSE Len(cache) + 1
  <2>1. cache \in Seq(Cell) /\ Len(cache) \in Nat /\ Len(cache) <= CacheMax /\ cache[1] \in Cell
    BY <1>0, <1>2 DEF CacheType
  <2>2. e \in Cell
    <3>1. pos \in Nat
      BY Sizes
    <3> QED BY <1>0, <2>1, <3>1, Moved, Zenon
  <2>3. e.seen = now
    BY <2>1 DEF Cell
  <2>4. n \in 1..(Len(cache) + 1)
    BY <2>1, Sizes DEF Evicted
  <2>5. BringInUnread(pos) = SubSeq(<<e>> \o cache, 1, n)
    BY <1>2 DEF BringInUnread
  <2>6. PICK d : d = BringInUnread(pos)
    OBVIOUS
  <2> HIDE DEF e, n
  <2>7. Len(d) = n /\ \A i \in 1..n : d[i] = IF i = 1 THEN e ELSE cache[i - 1]
    BY <2>1, <2>2, <2>4, <2>5, <2>6, Pushed
  <2>8. ASSUME NEW i \in 1..Len(d) PROVE d[i].seen <= now
    <3>1. CASE i = 1
      BY <1>0, <2>3, <2>7, <2>8, <3>1
    <3>2. CASE i # 1
      <4>1. d[i] = cache[i - 1] /\ i - 1 \in 1..Len(cache)
        BY <2>1, <2>4, <2>7, <3>2
      <4> QED BY <4>1 DEF SeenInv
    <3> QED BY <3>1, <3>2
  <2> QED BY <2>6, <2>8
<1> QED BY <1>1, <1>2

LEMMA UnreadKeeps ==
    ASSUME Inv, SeenInv, UnreadAdd \/ \E m \in Names : UnreadVerify(m)
    PROVE  Keeps
<1>1. PICK p \in 0..(UserMax - 1) :
          /\ cache' = BringInUnread(p) /\ list' = WriteBack(cache, list)
          /\ faults' = faults + 1 /\ now' = now /\ pc' = "idle"
  <2>0. total \in 0..UserMax
    BY SeenNat
  <2>1. CASE UnreadAdd
    <3>1. job.pos \in 0..(total - 1)
      BY <2>1 DEF UnreadAdd, Inv, JobInv
    <3>2. job.pos \in 0..(UserMax - 1)
      BY <2>0, <3>1, Sizes
    <3> QED BY <2>1, <3>2 DEF UnreadAdd, Fault
  <2>2. ASSUME NEW m \in Names, UnreadVerify(m)
        PROVE  \E p \in 0..(UserMax - 1) :
                  /\ cache' = BringInUnread(p) /\ list' = WriteBack(cache, list)
                  /\ faults' = faults + 1 /\ now' = now /\ pc' = "idle"
    <3>1. Idle /\ Search(m).found
      BY <2>2 DEF UnreadVerify
    <3>2. PICK p : p = Search(m).pos
      OBVIOUS
    <3>3. p \in 0..(total - 1)
      BY <3>1, <3>2, QuietLook DEF Right
    <3>4. p \in 0..(UserMax - 1)
      BY <2>0, <3>3, Sizes
    <3> QED BY <2>2, <3>2, <3>4 DEF UnreadVerify, Fault, Idle
  <2> QED BY <2>1, <2>2
<1>2. faults' \in Nat /\ ~Unhurt
  BY <1>1 DEF SeenInv, Unhurt
<1>3. SeenInv'
  BY <1>1, <1>2, WrittenSeen, UnreadSeen DEF SeenInv, Updating
<1> QED BY <1>2, <1>3 DEF Keeps

LEMMA CutKeeps ==
    ASSUME Inv, SeenInv, Crash \/ DelAll
    PROVE  Keeps
<1>1. cache' = <<>> /\ list' = list /\ now' = now /\ pc' = "idle" /\ faults' \in Nat
  BY DEF Crash, DelAll, Fault, Idle, SeenInv
<1>2. SeenInv'
  BY <1>1 DEF SeenInv, Updating
<1>3. CASE Crash
  <2>1. ~Unhurt
    BY <1>3 DEF Crash, Fault, SeenInv, Unhurt
  <2> QED BY <1>2, <2>1 DEF Keeps
<1>4. CASE DelAll
  <2>1. total' = 0
    BY <1>4 DEF DelAll
  <2> QED BY <1>2, <2>1 DEF Keeps
<1> QED BY <1>3, <1>4

LEMMA StepKeeps ==
    ASSUME Inv, Inv', SeenInv, [Next]_vars
    PROVE  Keeps
<1>0. now \in Nat /\ now + 1 \in Nat /\ now + 1 >= now /\ now >= now /\ faults \in Nat /\ faults + 1 \in Nat
  BY SeenNat DEF SeenInv
<1>1. ASSUME UNCHANGED <<list, total, cache, torn, faults>>, now' \in {now, now + 1} PROVE Keeps
  BY <1>0, <1>1, StillSeen DEF Unhurt
<1>2. ASSUME NEW n \in Names, Verify(n) PROVE Keeps
  <2>1. faults' = faults
    BY <1>2 DEF Verify, VerifyCached, VerifyListed, VerifyUnknown, History
  <2>2. CASE VerifyUnknown(n)
    BY <1>1, <2>2 DEF VerifyUnknown, History
  <2> QED BY <1>2, <2>1, <2>2, VerifyCachedKeeps, AskedKeeps DEF Verify
<1>3. ASSUME NEW n \in Names, Add(n) \/ Del(n) PROVE Keeps
  BY <1>1, <1>3 DEF Add, Del, AddRefused, AddStart, DelUnknown, DelStart, History
<1>4. CASE \E n \in Names : UnreadVerify(n)
  BY <1>4, UnreadKeeps
<1>5. CASE Shift \/ Insert \/ CountUp \/ AddDone \/ Pull \/ CountDown
  <2>1. faults' = faults
    BY <1>5 DEF Shift, Insert, CountUp, AddDone, Pull, CountDown, History
  <2> QED BY <1>5, <2>1, MovingSeen, CountUpKeeps, AskedKeeps, CountDownKeeps
<1>6. CASE Tick \/ UNCHANGED vars
  BY <1>1, <1>6 DEF Tick, vars
<1>7. CASE AccessFails
  <2>1. /\ UNCHANGED <<list, total, cache, now>> /\ faults' = faults + 1 /\ pc' = "idle"
    BY <1>7 DEF AccessFails, Fault
  <2>2. ~Unhurt /\ ~Updating'
    BY <1>0, <2>1 DEF Unhurt, Updating
  <2> QED BY <1>0, <2>1, <2>2, StillSeen
<1>8. CASE UnreadAdd \/ Crash \/ DelAll
  BY <1>8, UnreadKeeps, CutKeeps
<1> QED BY <1>2, <1>3, <1>4, <1>5, <1>6, <1>7, <1>8 DEF Next

LEMMA SeenStart ==
    ASSUME Init
    PROVE  SeenInv
<1>1. \A i \in Slots : list[i].seen = 0
  BY DEF Init, Nobody
<1> QED BY <1>1 DEF Init, SeenInv, Updating

\* What the program would find is the one time SeenAt allows.
LEMMA SeenOf ==
    ASSUME Inv, SeenInv, ~torn, ~stale, NEW n, NEW k \in 0..(total - 1), list[k].name = n
    PROVE  \E x \in Nat : SeenAt(cache, list, total, n, x)
BY SeenNat, SeenSome

LEMMA OnceNow ==
    ASSUME Inv, ~stale
    PROVE  Once(cache)
BY DEF Inv, CacheInv, Points, Once

LEMMA LaterSeen ==
    ASSUME Inv, Inv', SeenInv, Keeps, Unhurt, ~torn, ~stale, NEW n \in Named \cap Named'
    PROVE  Seen(n)' >= Seen(n)
<1>1. PICK k \in 0..(total - 1) : list[k].name = n
  BY NamedIs
<1>2. PICK x \in Nat : SeenAt(cache, list, total, n, x)
  BY <1>1, SeenOf
<1>3. Seen(n) = x
  <2>1. SeenIn(cache, list, total, n) = x
    BY <1>2, NowTwins, OnceNow, SeenNat, SeenIs
  <2> QED BY <2>1 DEF Seen, SeenIn, Cached, CachedAt
<1>4. PICK j \in 0..(total' - 1) : list'[j].name = n
  <2>1. total' \in Nat
    BY Sizes DEF Inv, TypeOK
  <2>2. PICK t, l, r : t = total' /\ l = list' /\ r = Listed'
    OBVIOUS
  <2>3. r = [i \in 1..t |-> l[i - 1].name] /\ \E i \in DOMAIN r : r[i] = n
    BY <2>2 DEF Listed, Named, Range
  <2>4. PICK i \in 1..t : l[i - 1].name = n
    BY <2>3
  <2>5. t \in Nat
    BY <2>1, <2>2
  <2>6. i - 1 \in 0..(t - 1)
    BY <2>5
  <2> QED BY <2>2, <2>4, <2>6
<1>5. PICK y \in Nat : y >= x /\ SeenAt(cache', list', total', n, y)
  BY <1>2, <1>4 DEF Keeps, Later
<1>6. Seen(n)' = y
  <2>1. SeenIn(cache', list', total', n) = y
    <3>1. PICK c, l, t : c = cache' /\ l = list' /\ t = total'
      OBVIOUS
    <3>2. c \in Seq(Cell) /\ Once(c)
      BY <3>1 DEF Unhurt, Inv, CacheInv, Points, Once, TypeOK, Cell
    <3>3. Twins(l, t)
      <4>1. CASE Updating'
        BY <3>1, <4>1 DEF Keeps, SeenInv, Unhurt, Twins
      <4>2. CASE ~Updating'
        <5>1. PICK s : s = Listed'
          OBVIOUS
        <5>2. Strict(s) /\ s \in Seq(Names) /\ Len(s) = t
          BY <3>1, <4>2, <5>1 DEF Unhurt, Inv, BaseInv, Base, Strict
        <5>3. t \in Nat /\ \A i \in 1..t : s[i] = l[i - 1].name
          <6>1. total' \in 0..UserMax
            BY DEF Inv, TypeOK
          <6> QED BY <3>1, <5>1, <6>1, Sizes DEF Listed
        <5> QED BY <5>2, <5>3, StrictTwins
      <4> QED BY <4>1, <4>2
    <3>4. SeenAt(c, l, t, n, y)
      BY <1>5, <3>1
    <3> QED BY <3>1, <3>2, <3>3, <3>4, SeenIs
  <2> QED BY <2>1 DEF Seen, SeenIn, Cached, CachedAt, SelectInSeq
<1>7. PICK a, b : a = Seen(n) /\ b = Seen(n)'
  OBVIOUS
<1>8. b >= a
  BY <1>3, <1>5, <1>6, <1>7
<1> QED BY <1>7, <1>8

LEMMA StepSeen ==
    ASSUME Inv, Inv', SeenInv, [Next]_vars
    PROVE  [(Unhurt => \A n \in Named \cap Named' : Seen(n)' >= Seen(n))]_vars
<1>1. Keeps
  BY StepKeeps
<1>2. CASE DelAll
  <2>1. total' = 0
    BY <1>2 DEF DelAll
  <2>2. Named' = {}
    <3>1. PICK r : r = Listed'
      OBVIOUS
    <3>2. r = [i \in 1..0 |-> list'[i - 1].name]
      BY <2>1, <3>1 DEF Listed
    <3>3. Range(r) = {}
      BY <3>2 DEF Range
    <3> QED BY <3>1, <3>3 DEF Named, Range
  <2> QED BY <2>2
<1>3. CASE ~DelAll
  <2>1. SUFFICES ASSUME Unhurt, ~(UNCHANGED vars)
                 PROVE  \A n \in Named \cap Named' : Seen(n)' >= Seen(n)
    OBVIOUS
  <2>2. ~Crash /\ ~AccessFails /\ ~UnreadAdd /\ ~\E n \in Names : UnreadVerify(n)
    BY <2>1 DEF Unhurt, Crash, AccessFails, UnreadAdd, UnreadVerify, Fault, SeenInv
  <2>3. torn' = torn /\ stale' = stale
    BY <1>3, <2>1, <2>2 DEF Next, Verify, VerifyCached, VerifyListed, VerifyUnknown, Add, AddRefused,
       AddStart, Del, DelUnknown, DelStart, Shift, Insert, CountUp, AddDone, Pull, CountDown, Tick,
       History
  <2>4. ~torn /\ ~stale
    BY <2>1, <2>3 DEF Unhurt
  <2> QED BY <1>1, <2>1, <2>4, LaterSeen
<1> QED BY <1>2, <1>3

\* No step back: the time at which user_data_verify or user_data_add last saw a
\* user is the same or a later one after every step, wherever user_data.c keeps
\* it: also when the user leaves the cache for another, and when the entry moves
\* in the file for a user that is added or removed.
THEOREM LastSeenKept == Spec => SeenKept
<1>1. Init => Inv /\ SeenInv
  BY InitHolds, SeenStart
<1>2. Inv /\ SeenInv /\ [Next]_vars => Inv' /\ SeenInv'
  BY NextKeeps, StepKeeps DEF Keeps
<1>3. Inv /\ Inv' /\ SeenInv /\ [Next]_vars
        => [(faults' = faults /\ ~torn' /\ ~stale')
              => \A n \in Named \cap Named' : Seen(n)' >= Seen(n)]_vars
  BY StepSeen DEF Unhurt
<1> QED BY <1>1, <1>2, <1>3, PTL DEF Spec, SeenKept

-----------------------------------------------------------------------------
(* The table of schedules in RAM and in files.                             *)

Pending(op) == call[Api] # NoCall /\ call[Api].op = op
Target == call[Api].id

\* The files as they were when G_Schedule_Ram was last brought up to date.
Before ==
    IF Pending("add") THEN Stored \ {Target}
    ELSE IF Pending("del") THEN Stored \cup {Target} ELSE Stored

Fields == [active : BOOLEAN, time : Times \cup {0}]
Calls == [pc : {"wait", "in"}, op : {"add", "del", "active", "time"}, id : Ids,
          val : Times \cup BOOLEAN \cup {0}]

Types ==
    /\ rom \in [Ids -> File \cup {NoFile}] /\ slot \in [Ids -> Fields]
    /\ call \in [Callers -> Calls \cup {NoCall}]

\* What a call knows of the file it has changed.
CallsOK ==
    /\ \A c \in Callers :
           call[c] # NoCall =>
               /\ call[c].op # "active" => c = Api
               /\ call[c].op = "active" => call[c].val \in BOOLEAN
    /\ Pending("add") \/ Pending("time") =>
           Target \in Stored /\ rom[Target].time = call[Api].val
    /\ Pending("del") => Target \notin Stored

TimesKnown ==
    \A i \in Stored :
        \/ slot[i].time = rom[i].time
        \/ (Pending("add") \/ Pending("time")) /\ i = Target

Follows == num = Cardinality(Before) /\ idList = First(Copied, Before)

ExecOK == exec.pc = "wait" => exec.id \in Ids /\ exec.val \in BOOLEAN

ScheduleInv == Types /\ CallsOK /\ TimesKnown /\ Follows /\ ExecOK

\* A restart reads the files again, whatever was before: all it needs to know
\* is that they are files.
RomOK == rom \in [Ids -> File \cup {NoFile}]
IInv == RomOK /\ (Calm => ScheduleInv)

LEMMA Finite ==
    /\ MaxNum \in Nat /\ NumWidth \in Nat \ {0} /\ MaxNum < NumWidth /\ Api \in Callers
    /\ \A S : S \subseteq Ids => IsFiniteSet(S) /\ Cardinality(S) \in 0..MaxNum
<1>1. MaxNum \in Nat /\ NumWidth \in Nat \ {0} /\ MaxNum < NumWidth /\ Api \in Callers
  BY TableAssumption
<1>2. IsFiniteSet(Ids) /\ Cardinality(Ids) = MaxNum
  BY <1>1, FS_Interval DEF Ids
<1>3. ASSUME NEW S, S \subseteq Ids
      PROVE  IsFiniteSet(S) /\ Cardinality(S) \in 0..MaxNum
  <2>1. IsFiniteSet(S) /\ Cardinality(S) <= MaxNum
    BY <1>2, <1>3, FS_Subset
  <2>2. Cardinality(S) \in Nat
    BY <2>1, FS_CardinalityType
  <2> QED
    BY <1>1, <2>1, <2>2
<1> QED
  BY <1>1, <1>3

LEMMA Steps ==
    /\ \A n \in Nat : n < MaxNum => (n + 1) % NumWidth = n + 1
    /\ \A n \in 0..MaxNum : (n + 1 + NumWidth - 1) % NumWidth = n
<1>1. MaxNum \in Nat /\ NumWidth \in Nat \ {0} /\ MaxNum < NumWidth
  BY Finite
<1>2. ASSUME NEW n \in Nat, n < MaxNum PROVE (n + 1) % NumWidth = n + 1
  BY <1>1, <1>2, SMTT(30)
<1>3. ASSUME NEW n \in 0..MaxNum PROVE (n + 1 + NumWidth - 1) % NumWidth = n
  BY <1>1, <1>3, SMTT(30)
<1> QED
  BY <1>2, <1>3

LEMMA Distinct == NoFile \notin File /\ NoCall \notin Calls
  BY TableAssumption DEF NoFile, File, NoCall, Calls

LEMMA FileFields == File \cup {NoFile} \subseteq Fields
<1>1. ASSUME NEW f \in File PROVE f \in Fields
  BY DEF File, Fields
<1>2. NoFile \in Fields
  BY DEF NoFile, Fields
<1> QED
  BY <1>1, <1>2

\* The copy that brings the list up to date can always be made.
LEMMA CopyInTime ==
    ASSUME ScheduleInv, Calm', Copy \/ NoCopy,
           \/ Pending("add") /\ num' = (num + 1) % NumWidth
           \/ Pending("del") /\ num' = (num + NumWidth - 1) % NumWidth
    PROVE  num' = Cardinality(Stored) /\ idList' = First(Copied, Stored)
<1>1. Stored \subseteq Ids /\ IsFiniteSet(Stored) /\ Cardinality(Stored) \in 0..MaxNum
  BY Finite DEF Stored
<1>2. num' = Cardinality(Stored)
  <2>1. CASE Pending("add") /\ num' = (num + 1) % NumWidth
    <3>1. num = Cardinality(Stored) - 1
      BY <1>1, <2>1, FS_RemoveElement DEF ScheduleInv, Follows, Before, CallsOK
    <3>2. Target \in Stored
      BY <2>1 DEF ScheduleInv, CallsOK
    <3>3. Cardinality(Stored) # 0
      BY <1>1, <3>2, FS_EmptySet
    <3>4. num \in Nat /\ num < MaxNum
      BY <1>1, <3>1, <3>3, Finite
    <3> QED
      BY <1>1, <2>1, <3>1, <3>4, Steps
  <2>2. CASE Pending("del") /\ num' = (num + NumWidth - 1) % NumWidth
    <3>1. Pending("del") /\ ~Pending("add") /\ Target \notin Stored
      BY <2>2 DEF ScheduleInv, CallsOK, Pending
    <3>2. num = Cardinality(Stored) + 1
      BY <1>1, <3>1, FS_AddElement DEF ScheduleInv, Follows, Before
    <3> QED
      BY <1>1, <2>2, <3>2, Steps
  <2> QED
    BY <2>1, <2>2
<1> QED
  BY <1>2 DEF Copy, NoCopy, Calm

LEMMA InitInv == ScheduleInit => ScheduleInv
<1> SUFFICES ASSUME ScheduleInit PROVE ScheduleInv
  OBVIOUS
<1>1. ~Pending("add") /\ ~Pending("del") /\ ~Pending("time")
  BY Finite DEF ScheduleInit, Pending
<1>2. Types
  <2>1. slot = rom /\ rom \in [Ids -> File \cup {NoFile}]
        /\ call = [c \in Callers |-> NoCall]
    BY DEF ScheduleInit, Loaded
  <2> QED
    BY <2>1, FileFields DEF Types
<1>3. CallsOK
  BY <1>1 DEF ScheduleInit, CallsOK
<1>4. TimesKnown /\ ExecOK
  BY DEF ScheduleInit, Loaded, TimesKnown, ExecOK, NoCall
<1>5. Follows
  BY <1>1 DEF ScheduleInit, Loaded, Follows, Before
<1> QED
  BY <1>2, <1>3, <1>4, <1>5 DEF ScheduleInv

LEMMA AddFileInv == ScheduleInv /\ AddFile => ScheduleInv'
<1> SUFFICES ASSUME ScheduleInv, AddFile PROVE ScheduleInv'
  OBVIOUS
<1>1. PICK i \in Ids \ Stored, f \in File :
          /\ rom' = [rom EXCEPT ![i] = f]
          /\ call' = [call EXCEPT ![Api] = Calling("add", i, f.time)]
          /\ call[Api] = NoCall /\ UNCHANGED <<slot, num, idList, sem, exec>>
  BY DEF AddFile
<1>2. Types'
  BY <1>1, Finite DEF ScheduleInv, Types, File, Calls, Calling
<1>3. call'[Api] = Calling("add", i, f.time) /\ call'[Api] # NoCall
  BY <1>1, Finite DEF ScheduleInv, Types, Calling, NoCall
<1>4. Pending("add")' /\ Target' = i /\ ~Pending("del")' /\ ~Pending("time")'
  BY <1>3 DEF Pending, Target, Calling
<1>5. Stored' = Stored \cup {i}
  BY <1>1, Distinct DEF ScheduleInv, Types, Stored
<1>6. CallsOK'
  BY <1>1, <1>3, <1>4, <1>5 DEF ScheduleInv, Types, CallsOK, Calling
<1>7. TimesKnown'
  BY <1>1, <1>4, <1>5 DEF ScheduleInv, Types, TimesKnown, Pending
<1>8. Before' = Before
  BY <1>1, <1>4, <1>5 DEF Before, Pending
<1> QED
  BY <1>1, <1>2, <1>6, <1>7, <1>8 DEF ScheduleInv, Follows, ExecOK

LEMMA DeleteFileInv == ScheduleInv /\ DeleteFile => ScheduleInv'
<1> SUFFICES ASSUME ScheduleInv, DeleteFile PROVE ScheduleInv'
  OBVIOUS
<1>1. PICK i \in Stored :
          /\ rom' = [rom EXCEPT ![i] = NoFile]
          /\ call' = [call EXCEPT ![Api] = Calling("del", i, 0)]
          /\ call[Api] = NoCall /\ UNCHANGED <<slot, num, idList, sem, exec>>
  BY DEF DeleteFile
<1>2. Types'
  BY <1>1, Finite DEF ScheduleInv, Types, Stored, Calls, Calling
<1>3. call'[Api] = Calling("del", i, 0) /\ call'[Api] # NoCall
  BY <1>1, Finite DEF ScheduleInv, Types, Calling, NoCall
<1>4. Pending("del")' /\ Target' = i /\ ~Pending("add")' /\ ~Pending("time")'
  BY <1>3 DEF Pending, Target, Calling
<1>5. Stored' = Stored \ {i}
  BY <1>1 DEF ScheduleInv, Types, Stored
<1>6. CallsOK'
  BY <1>1, <1>3, <1>4, <1>5 DEF ScheduleInv, Types, CallsOK, Calling
<1>7. TimesKnown'
  BY <1>1, <1>4, <1>5 DEF ScheduleInv, Types, TimesKnown, Pending
<1>8. Before' = Before
  BY <1>1, <1>4, <1>5 DEF Before, Pending
<1> QED
  BY <1>1, <1>2, <1>6, <1>7, <1>8 DEF ScheduleInv, Follows, ExecOK

\* A write to a schedule of the table changes one field of one file.
LEMMA WriteKeeps ==
    ASSUME ScheduleInv, Calm', NEW i \in Ids, NEW v, NEW field \in {"active", "time"},
           field = "active" => v \in BOOLEAN, field = "time" => v \in Times,
           Write(i, field, v)
    PROVE  /\ rom' \in [Ids -> File \cup {NoFile}] /\ Stored' = Stored /\ i \in Stored
           /\ field = "active" => \A j \in Ids : rom'[j].time = rom[j].time
           /\ field = "time" => rom'[i].time = v
           /\ \A j \in Ids : j # i => rom'[j] = rom[j]
<1>1. i \in Stored /\ rom' = [rom EXCEPT ![i][field] = v]
  BY DEF Write, Calm
<1>2. rom[i] \in File
  BY <1>1 DEF ScheduleInv, Types, Stored
<1>3. rom'[i] \in File /\ (field = "time" => rom'[i].time = v)
      /\ (field = "active" => rom'[i].time = rom[i].time)
  <2>1. rom'[i] = [rom[i] EXCEPT ![field] = v]
    BY <1>1 DEF ScheduleInv, Types
  <2> QED
    BY <1>2, <2>1 DEF File
<1>4. \A j \in Ids : j # i => rom'[j] = rom[j]
  BY <1>1 DEF ScheduleInv, Types
<1>5. rom' \in [Ids -> File \cup {NoFile}]
  BY <1>1, <1>3, <1>4 DEF ScheduleInv, Types
<1>6. Stored' = Stored
  BY <1>1, <1>3, <1>4, Distinct DEF Stored
<1> QED
  BY <1>1, <1>3, <1>4, <1>5, <1>6

LEMMA WriteActiveInv ==
    ASSUME NEW c \in Callers PROVE ScheduleInv /\ Calm' /\ WriteActive(c) => ScheduleInv'
<1> SUFFICES ASSUME ScheduleInv, Calm', WriteActive(c) PROVE ScheduleInv'
  OBVIOUS
<1>1. PICK i \in Ids, v \in BOOLEAN :
          /\ Write(i, "active", v)
          /\ call' = [call EXCEPT ![c] = Calling("active", i, v)]
          /\ call[c] = NoCall /\ UNCHANGED <<slot, num, idList, sem, exec>>
  BY DEF WriteActive
<1>2. /\ rom' \in [Ids -> File \cup {NoFile}] /\ Stored' = Stored
      /\ \A j \in Ids : rom'[j].time = rom[j].time
  BY <1>1, WriteKeeps
<1>3. Types'
  BY <1>1, <1>2 DEF ScheduleInv, Types, Calls, Calling
<1>4. /\ Pending("add")' = Pending("add") /\ Pending("del")' = Pending("del")
      /\ Pending("time")' = Pending("time")
      /\ Pending("add") \/ Pending("del") \/ Pending("time") => call'[Api] = call[Api]
  BY <1>1, Finite DEF ScheduleInv, Types, Pending, Calling, NoCall
<1>5. CallsOK'
  <2>1. ASSUME NEW e \in Callers, call'[e] # NoCall
        PROVE  /\ call'[e].op # "active" => e = Api
               /\ call'[e].op = "active" => call'[e].val \in BOOLEAN
    BY <1>1, <2>1 DEF ScheduleInv, Types, CallsOK, Calling
  <2>2. /\ (Pending("add") \/ Pending("time"))' =>
               (Target \in Stored /\ rom[Target].time = call[Api].val)'
        /\ Pending("del")' => (Target \notin Stored)'
    BY <1>2, <1>4 DEF ScheduleInv, CallsOK, Target, Stored
  <2> QED
    BY <2>1, <2>2 DEF CallsOK
<1>6. TimesKnown'
  BY <1>1, <1>2, <1>4 DEF ScheduleInv, TimesKnown, Target, Stored
<1>7. Before' = Before
  BY <1>2, <1>4 DEF Before, Target
<1> QED
  BY <1>1, <1>3, <1>5, <1>6, <1>7 DEF ScheduleInv, Follows, ExecOK

LEMMA WriteTimeInv == ScheduleInv /\ Calm' /\ WriteTime => ScheduleInv'
<1> SUFFICES ASSUME ScheduleInv, Calm', WriteTime PROVE ScheduleInv'
  OBVIOUS
<1>1. PICK i \in Ids, v \in Times :
          /\ Write(i, "time", v)
          /\ call' = [call EXCEPT ![Api] = Calling("time", i, v)]
          /\ call[Api] = NoCall /\ UNCHANGED <<slot, num, idList, sem, exec>>
  BY DEF WriteTime
<1>2. /\ rom' \in [Ids -> File \cup {NoFile}] /\ Stored' = Stored /\ i \in Stored
      /\ rom'[i].time = v /\ \A j \in Ids : j # i => rom'[j] = rom[j]
  BY <1>1, WriteKeeps
<1>3. Types'
  BY <1>1, <1>2, Finite DEF ScheduleInv, Types, Calls, Calling
<1>4. call'[Api] = Calling("time", i, v) /\ call'[Api] # NoCall
  BY <1>1, Finite DEF ScheduleInv, Types, Calling, NoCall
<1>5. Pending("time")' /\ Target' = i /\ ~Pending("add")' /\ ~Pending("del")'
  BY <1>4 DEF Pending, Target, Calling
<1>6. CallsOK'
  BY <1>1, <1>2, <1>4, <1>5 DEF ScheduleInv, Types, CallsOK, Calling
<1>7. TimesKnown'
  BY <1>1, <1>2, <1>5 DEF ScheduleInv, TimesKnown, Pending, Stored
<1>8. Before' = Before
  BY <1>1, <1>2, <1>5 DEF Before, Pending
<1> QED
  BY <1>1, <1>3, <1>6, <1>7, <1>8 DEF ScheduleInv, Follows, ExecOK

LEMMA EnterInv == ASSUME NEW c \in Callers PROVE ScheduleInv /\ Enter(c) => ScheduleInv'
<1> SUFFICES ASSUME ScheduleInv, Enter(c) PROVE ScheduleInv'
  OBVIOUS
<1>1. /\ call[c].pc = "wait" /\ call' = [call EXCEPT ![c].pc = "in"]
      /\ UNCHANGED <<rom, slot, num, idList, exec>>
  BY DEF Enter
<1>2. call[c] \in Calls
  BY <1>1 DEF ScheduleInv, Types, NoCall
<1>3. /\ call'[c] \in Calls /\ call'[c].op = call[c].op /\ call'[c].id = call[c].id
      /\ call'[c].val = call[c].val
  BY <1>1, <1>2 DEF ScheduleInv, Types, Calls
<1>4. Types'
  BY <1>1, <1>3 DEF ScheduleInv, Types
<1>5. \A e \in Callers : (call'[e] = NoCall <=> call[e] = NoCall)
                         /\ (call[e] # NoCall => call'[e].op = call[e].op
                             /\ call'[e].id = call[e].id /\ call'[e].val = call[e].val)
  BY <1>1, <1>2, <1>3, Distinct DEF ScheduleInv, Types
<1>6. /\ Pending("add")' = Pending("add") /\ Pending("del")' = Pending("del")
      /\ Pending("time")' = Pending("time")
      /\ call[Api] # NoCall => Target' = Target
  BY <1>5, Finite DEF Pending, Target
<1>7. CallsOK'
  BY <1>1, <1>5, <1>6, Finite DEF ScheduleInv, CallsOK, Stored, Pending
<1>8. TimesKnown'
  BY <1>1, <1>6 DEF ScheduleInv, TimesKnown, Stored, Pending
<1>9. Before' = Before
  BY <1>1, <1>6 DEF Before, Stored, Pending
<1> QED
  BY <1>1, <1>4, <1>7, <1>8, <1>9 DEF ScheduleInv, Follows, ExecOK

\* What the end of a call leaves of the invariant's facts about calls.
LEMMA DoneCalls ==
    ASSUME ScheduleInv, NEW c \in Callers, Done(c), rom' = rom
    PROVE  /\ call' \in [Callers -> Calls \cup {NoCall}] /\ CallsOK' /\ Stored' = Stored
           /\ c = Api => Before' = Stored /\ ~Pending("add")' /\ ~Pending("time")'
           /\ c # Api => Before' = Before /\ Target' = Target
                         /\ Pending("add")' = Pending("add")
                         /\ Pending("time")' = Pending("time")
<1>1. call' = [call EXCEPT ![c] = NoCall] /\ Stored' = Stored
  BY DEF Done, Stored
<1>2. call' \in [Callers -> Calls \cup {NoCall}]
  BY <1>1 DEF ScheduleInv, Types
<1>3. CASE c = Api
  <2>1. call'[Api] = NoCall
    BY <1>1, <1>3 DEF ScheduleInv, Types
  <2>2. ~Pending("add")' /\ ~Pending("del")' /\ ~Pending("time")'
    BY <2>1 DEF Pending
  <2>3. CallsOK'
    BY <1>1, <2>2 DEF ScheduleInv, Types, CallsOK
  <2> QED
    BY <1>1, <1>2, <1>3, <2>2, <2>3 DEF Before
<1>4. CASE c # Api
  <2>1. call'[Api] = call[Api]
    BY <1>1, <1>4, Finite DEF ScheduleInv, Types
  <2>2. CallsOK'
    BY <1>1, <2>1 DEF ScheduleInv, Types, CallsOK, Pending, Target
  <2> QED
    BY <1>1, <1>2, <1>4, <2>1, <2>2 DEF Before, Pending, Target
<1> QED
  BY <1>3, <1>4

LEMMA LeaveAddInv ==
    ASSUME NEW c \in Callers PROVE ScheduleInv /\ Calm' /\ LeaveAdd(c) => ScheduleInv'
<1> SUFFICES ASSUME ScheduleInv, Calm', LeaveAdd(c) PROVE ScheduleInv'
  OBVIOUS
<1>1. /\ call[c].pc = "in" /\ call[c].op = "add" /\ num' = (num + 1) % NumWidth
      /\ \/ Copy /\ slot' = [slot EXCEPT ![call[c].id].time = call[c].val]
         \/ NoCopy /\ slot' = slot
      /\ Done(c) /\ UNCHANGED <<rom, exec>>
  BY DEF LeaveAdd
<1>2. call[c] # NoCall /\ c = Api /\ Pending("add")
  BY <1>1 DEF NoCall, ScheduleInv, CallsOK, Pending
<1>3. num' = Cardinality(Stored) /\ idList' = First(Copied, Stored)
  <2>1. Copy \/ NoCopy
    BY <1>1
  <2>2. \/ Pending("add") /\ num' = (num + 1) % NumWidth
        \/ Pending("del") /\ num' = (num + NumWidth - 1) % NumWidth
    BY <1>1, <1>2
  <2> QED
    BY <2>1, <2>2, CopyInTime
<1>4. slot' = [slot EXCEPT ![Target].time = call[Api].val]
  BY <1>1, <1>2, <1>3 DEF NoCopy, Target, Calm
<1>5. Target \in Stored /\ rom[Target].time = call[Api].val /\ Target \in Ids
      /\ call[Api].val \in Times
  <2>1. Target \in Stored /\ rom[Target].time = call[Api].val /\ Target \in Ids
    BY <1>2 DEF ScheduleInv, CallsOK, Stored
  <2> QED
    BY <2>1 DEF ScheduleInv, Types, Stored, File
<1>6. slot' \in [Ids -> Fields] /\ slot'[Target].time = rom[Target].time
      /\ \A j \in Ids : j # Target => slot'[j] = slot[j]
  BY <1>4, <1>5 DEF ScheduleInv, Types, Fields
<1>7. Types' /\ CallsOK'
  BY <1>1, <1>6, DoneCalls DEF ScheduleInv, Types
<1>8. TimesKnown'
  BY <1>1, <1>2, <1>6, DoneCalls DEF ScheduleInv, TimesKnown, Stored
<1>9. Follows'
  BY <1>1, <1>2, <1>3, DoneCalls DEF Follows
<1> QED
  BY <1>1, <1>7, <1>8, <1>9 DEF ScheduleInv, ExecOK

LEMMA LeaveDelInv ==
    ASSUME NEW c \in Callers PROVE ScheduleInv /\ Calm' /\ LeaveDel(c) => ScheduleInv'
<1> SUFFICES ASSUME ScheduleInv, Calm', LeaveDel(c) PROVE ScheduleInv'
  OBVIOUS
<1>1. /\ call[c].pc = "in" /\ call[c].op = "del" /\ num' = (num + NumWidth - 1) % NumWidth
      /\ Copy \/ NoCopy
      /\ Done(c) /\ UNCHANGED <<rom, slot, exec>>
  BY DEF LeaveDel
<1>2. call[c] # NoCall /\ c = Api /\ Pending("del") /\ ~Pending("add") /\ ~Pending("time")
  BY <1>1 DEF NoCall, ScheduleInv, CallsOK, Pending
<1>3. num' = Cardinality(Stored) /\ idList' = First(Copied, Stored)
  BY <1>1, <1>2, CopyInTime
<1>4. Types' /\ CallsOK'
  BY <1>1, DoneCalls DEF ScheduleInv, Types
<1>5. TimesKnown'
  BY <1>1, <1>2, DoneCalls DEF ScheduleInv, TimesKnown, Stored
<1>6. Follows'
  BY <1>1, <1>2, <1>3, DoneCalls DEF Follows
<1> QED
  BY <1>1, <1>4, <1>5, <1>6 DEF ScheduleInv, ExecOK

LEMMA LeaveFieldInv == ASSUME NEW c \in Callers PROVE ScheduleInv /\ LeaveField(c) => ScheduleInv'
<1> SUFFICES ASSUME ScheduleInv, LeaveField(c) PROVE ScheduleInv'
  OBVIOUS
<1>1. /\ call[c].pc = "in" /\ call[c].op \in {"active", "time"}
      /\ slot' = [slot EXCEPT ![call[c].id][call[c].op] = call[c].val]
      /\ Done(c) /\ UNCHANGED <<rom, num, idList, exec>>
  BY DEF LeaveField
<1> DEFINE i == call[c].id
           v == call[c].val
<1>2. call[c] # NoCall /\ call[c] \in Calls /\ i \in Ids
  BY <1>1 DEF NoCall, ScheduleInv, Types, Calls
<1>3. CASE call[c].op = "active"
  <2>1. v \in BOOLEAN /\ slot' = [slot EXCEPT ![i].active = v]
    BY <1>1, <1>2, <1>3 DEF ScheduleInv, CallsOK
  <2>2. slot' \in [Ids -> Fields] /\ \A j \in Ids : slot'[j].time = slot[j].time
    BY <1>2, <2>1 DEF ScheduleInv, Types, Fields
  <2>3. c = Api => ~Pending("add") /\ ~Pending("time") /\ ~Pending("del")
    BY <1>3 DEF Pending
  <2>4. TimesKnown'
    BY <1>1, <2>2, <2>3, DoneCalls DEF ScheduleInv, TimesKnown, Stored
  <2>5. Before' = Before
    BY <1>1, <2>3, DoneCalls DEF Before
  <2>6. Types' /\ CallsOK'
    BY <1>1, <2>2, DoneCalls DEF ScheduleInv, Types
  <2> QED
    BY <1>1, <2>4, <2>5, <2>6 DEF ScheduleInv, Follows, ExecOK
<1>4. CASE call[c].op = "time"
  <2>1. c = Api /\ Pending("time") /\ ~Pending("add") /\ ~Pending("del") /\ i = Target
    BY <1>2, <1>4 DEF ScheduleInv, CallsOK, Pending, Target
  <2>2. i \in Stored /\ rom[i].time = v
    BY <2>1 DEF ScheduleInv, CallsOK, Target
  <2>3. v \in Times
    BY <1>2, <2>2 DEF ScheduleInv, Types, Stored, File
  <2>4. slot' = [slot EXCEPT ![i].time = v]
    BY <1>1, <1>4
  <2>5. slot' \in [Ids -> Fields] /\ slot'[i].time = v
        /\ \A j \in Ids : j # i => slot'[j] = slot[j]
    BY <1>2, <2>3, <2>4 DEF ScheduleInv, Types, Fields
  <2>6. TimesKnown'
    BY <1>1, <2>1, <2>2, <2>5, DoneCalls DEF ScheduleInv, TimesKnown, Stored
  <2>7. Before' = Before
    BY <1>1, <2>1, DoneCalls DEF Before
  <2>8. Types' /\ CallsOK'
    BY <1>1, <2>5, DoneCalls DEF ScheduleInv, Types
  <2> QED
    BY <1>1, <2>6, <2>7, <2>8 DEF ScheduleInv, Follows, ExecOK
<1> QED
  BY <1>1, <1>3, <1>4

LEMMA SwitchInv == ScheduleInv /\ Calm' /\ Switch => ScheduleInv'
<1> SUFFICES ASSUME ScheduleInv, Calm', Switch PROVE ScheduleInv'
  OBVIOUS
<1>1. PICK i \in Ids, v \in BOOLEAN :
          /\ Write(i, "active", v) /\ exec' = Calling("active", i, v)
          /\ UNCHANGED <<slot, num, idList, sem, call>>
  BY DEF Switch
<1>2. /\ rom' \in [Ids -> File \cup {NoFile}] /\ Stored' = Stored
      /\ \A j \in Ids : rom'[j].time = rom[j].time
  BY <1>1, WriteKeeps
<1>3. Types' /\ ExecOK'
  BY <1>1, <1>2 DEF ScheduleInv, Types, ExecOK, Calling
<1>4. CallsOK'
  BY <1>1, <1>2 DEF ScheduleInv, CallsOK, Pending, Target, Stored
<1>5. TimesKnown'
  BY <1>1, <1>2 DEF ScheduleInv, TimesKnown, Pending, Target, Stored
<1>6. Follows'
  BY <1>1, <1>2 DEF ScheduleInv, Follows, Before, Pending, Target
<1> QED
  BY <1>3, <1>4, <1>5, <1>6 DEF ScheduleInv

LEMMA ExecutorInv == ScheduleInv /\ (Begin \/ Switched \/ End) => ScheduleInv'
<1> SUFFICES ASSUME ScheduleInv, Begin \/ Switched \/ End PROVE ScheduleInv'
  OBVIOUS
<1>1. UNCHANGED <<rom, num, idList, call>>
  BY DEF Begin, Switched, End
<1>2. slot' \in [Ids -> Fields] /\ \A j \in Ids : slot'[j].time = slot[j].time
  <2>1. CASE slot' = slot
    BY <2>1 DEF ScheduleInv, Types
  <2>2. CASE Switched /\ slot' = [slot EXCEPT ![exec.id].active = exec.val]
    <3>1. exec.id \in Ids /\ exec.val \in BOOLEAN
      BY <2>2 DEF ScheduleInv, ExecOK, Switched
    <3> QED
      BY <2>2, <3>1 DEF ScheduleInv, Types, Fields
  <2> QED
    BY <2>1, <2>2 DEF Begin, Switched, End
<1>3. Types' /\ ExecOK'
  <2>1. exec'.pc # "wait"
    BY DEF Begin, Switched, End, NoCall
  <2> QED
    BY <1>1, <1>2, <2>1 DEF ScheduleInv, Types, ExecOK
<1>4. CallsOK' /\ Follows'
  BY <1>1 DEF ScheduleInv, CallsOK, Follows, Before, Pending, Target, Stored
<1>5. TimesKnown'
  BY <1>1, <1>2 DEF ScheduleInv, TimesKnown, Pending, Target, Stored
<1> QED
  BY <1>3, <1>4, <1>5 DEF ScheduleInv

LEMMA RestartInv == RomOK /\ Restart => ScheduleInv'
<1> SUFFICES ASSUME RomOK, Restart PROVE ScheduleInv'
  OBVIOUS
<1>1. /\ rom' = rom /\ slot' = rom /\ num' = Cardinality(Stored)
      /\ idList' = First(Copied, Stored) /\ call' = [c \in Callers |-> NoCall] /\ exec' = NoCall
  BY DEF Restart, Loaded
<1>2. ~Pending("add")' /\ ~Pending("del")' /\ ~Pending("time")'
  BY <1>1, Finite DEF Pending
<1>3. Types'
  BY <1>1, FileFields DEF RomOK, Types
<1>4. CallsOK' /\ ExecOK'
  BY <1>1, <1>2 DEF CallsOK, ExecOK, NoCall
<1>5. TimesKnown'
  BY <1>1 DEF TimesKnown, Stored
<1>6. Follows'
  BY <1>1, <1>2 DEF Follows, Before, Stored
<1> QED
  BY <1>3, <1>4, <1>5, <1>6 DEF ScheduleInv

LEMMA WriteRom ==
    ASSUME RomOK, NEW i \in Ids, NEW v, NEW field \in {"active", "time"},
           field = "active" => v \in BOOLEAN, field = "time" => v \in Times,
           Write(i, field, v)
    PROVE  RomOK'
<1>1. CASE i \in Stored /\ rom' = [rom EXCEPT ![i][field] = v]
  <2>1. rom[i] \in File
    BY <1>1 DEF RomOK, Stored
  <2>2. rom'[i] \in File /\ \A j \in Ids : j # i => rom'[j] = rom[j]
    BY <1>1, <2>1 DEF RomOK, File
  <2> QED
    BY <1>1, <2>2 DEF RomOK
<1>2. CASE \E f \in File : rom' = [rom EXCEPT ![i] = f]
  BY <1>2 DEF RomOK
<1> QED
  BY <1>1, <1>2 DEF Write

LEMMA RomInv == RomOK /\ [ScheduleNext]_scheduleVars => RomOK'
<1> SUFFICES ASSUME RomOK, [ScheduleNext]_scheduleVars PROVE RomOK'
  OBVIOUS
<1>1. CASE AddFile \/ DeleteFile
  BY <1>1 DEF AddFile, DeleteFile, RomOK
<1>2. CASE WriteTime
  BY <1>2, WriteRom DEF WriteTime
<1>3. ASSUME NEW c \in Callers, WriteActive(c) PROVE RomOK'
  BY <1>3, WriteRom DEF WriteActive
<1>4. CASE Switch
  BY <1>4, WriteRom DEF Switch
<1>5. CASE rom' = rom
  BY <1>5 DEF RomOK
<1>6. ASSUME NEW c \in Callers, Section(c) \/ TimeOut(c) PROVE rom' = rom
  BY <1>6 DEF Section, TimeOut, Enter, LeaveAdd, LeaveDel, LeaveField
<1>7. Begin \/ Switched \/ End \/ Restart \/ UNCHANGED scheduleVars => rom' = rom
  BY DEF Begin, Switched, End, Restart, scheduleVars
<1> QED
  BY <1>1, <1>2, <1>3, <1>4, <1>5, <1>6, <1>7 DEF ScheduleNext, Executor

\* What has once gone wrong is forgotten only by a restart.
LEMMA CalmBefore == [ScheduleNext]_scheduleVars /\ Calm' => Calm \/ Restart
<1> SUFFICES ASSUME [ScheduleNext]_scheduleVars, Calm', ~Restart PROVE Calm
  OBVIOUS
<1>1. CASE AddFile \/ DeleteFile \/ WriteTime
  BY <1>1 DEF AddFile, DeleteFile, WriteTime, Write, Calm
<1>2. ASSUME NEW c \in Callers, WriteActive(c) \/ Section(c) \/ TimeOut(c) PROVE Calm
  BY <1>2 DEF WriteActive, Write, Section, TimeOut, Enter, LeaveAdd, LeaveDel, LeaveField,
              Copy, NoCopy, Calm
<1>3. CASE Executor
  BY <1>3 DEF Executor, Begin, Switch, Write, Switched, End, Calm
<1>4. CASE UNCHANGED scheduleVars
  BY <1>4 DEF scheduleVars, Calm
<1> QED
  BY <1>1, <1>2, <1>3, <1>4 DEF ScheduleNext

LEMMA StepInv == IInv /\ [ScheduleNext]_scheduleVars => IInv'
<1> SUFFICES ASSUME IInv, [ScheduleNext]_scheduleVars, Calm' PROVE ScheduleInv'
  BY RomInv DEF IInv
<1>1. CASE Restart
  BY <1>1, RestartInv DEF IInv
<1>2. CASE ~Restart
  <2>1. ScheduleInv
    BY <1>2, CalmBefore DEF IInv
  <2>2. CASE AddFile \/ DeleteFile \/ WriteTime
    BY <2>1, <2>2, AddFileInv, DeleteFileInv, WriteTimeInv
  <2>3. ASSUME NEW c \in Callers, WriteActive(c) \/ Section(c) \/ TimeOut(c) PROVE ScheduleInv'
    <3>1. ~TimeOut(c)
      BY DEF TimeOut, Calm
    <3> QED
      BY <2>1, <2>3, <3>1, WriteActiveInv, EnterInv, LeaveAddInv, LeaveDelInv, LeaveFieldInv
         DEF Section
  <2>4. CASE Executor
    BY <2>1, <2>4, SwitchInv, ExecutorInv DEF Executor
  <2>5. CASE UNCHANGED scheduleVars
    <3>1. UNCHANGED <<rom, slot, num, idList, call, exec>>
      BY <2>5 DEF scheduleVars
    <3>2. Types' /\ ExecOK'
      BY <2>1, <3>1 DEF ScheduleInv, Types, ExecOK
    <3>3. CallsOK' /\ TimesKnown' /\ Follows'
      BY <2>1, <3>1 DEF ScheduleInv, CallsOK, TimesKnown, Follows, Before, Pending, Target, Stored
    <3> QED
      BY <3>2, <3>3 DEF ScheduleInv
  <2> QED
    BY <1>2, <2>2, <2>3, <2>4, <2>5 DEF ScheduleNext
<1> QED
  BY <1>1, <1>2

LEMMA InvImplies == IInv => ListMirrors /\ RunsOnlyStored
<1> SUFFICES ASSUME IInv PROVE ListMirrors /\ RunsOnlyStored
  OBVIOUS
<1>1. CASE ~Calm
  BY <1>1 DEF Calm, ListMirrors, RunsOnlyStored
<1>2. CASE Calm
  <2>1. ScheduleInv
    BY <1>2 DEF IInv
  <2>2. ListMirrors
    BY <2>1 DEF ScheduleInv, TimesKnown, Follows, Before, Pending, ListMirrors
  <2>3. Looked \subseteq Before
    BY <2>1 DEF ScheduleInv, Follows, Looked, First
  <2>4. RunsOnlyStored
    BY <2>3 DEF RunsOnlyStored, Before, Pending, Target
  <2> QED
    BY <2>2, <2>4
<1> QED
  BY <1>1, <1>2

LEMMA SpecInv == ScheduleSpec => []IInv
<1>1. ScheduleInit => IInv
  BY InitInv DEF IInv, RomOK, ScheduleInit
<1> QED
  BY <1>1, StepInv, PTL DEF ScheduleSpec

-----------------------------------------------------------------------------
(* The semaphore. *)

CallOK == call \in [Callers -> Calls \cup {NoCall}]
InExec == IF exec = NoCall THEN 0 ELSE 1
LInv ==
    /\ sem \in Nat /\ CallOK
    /\ sem + Inside >= 1 /\ (~late => sem + Inside = 1)

LEMMA HoldersFinite ==
    /\ IsFiniteSet(Holders) /\ Cardinality(Holders) \in Nat /\ InExec \in {0, 1}
    /\ Inside = Cardinality(Holders) + InExec
<1>1. IsFiniteSet(Holders)
  BY TableAssumption, FS_Subset DEF Holders
<1> QED
  BY <1>1, FS_CardinalityType DEF Inside, InExec

LEMMA HoldersFiniteNext ==
    /\ IsFiniteSet(Holders') /\ Cardinality(Holders') \in Nat /\ InExec' \in {0, 1}
    /\ Inside' = Cardinality(Holders') + InExec'
<1>1. IsFiniteSet(Holders')
  BY TableAssumption, FS_Subset DEF Holders
<1> QED
  BY <1>1, FS_CardinalityType DEF Inside, InExec

LEMMA InitLock == ScheduleInit => LInv
<1> SUFFICES ASSUME ScheduleInit PROVE LInv
  OBVIOUS
<1>1. Holders = {} /\ exec = NoCall /\ sem = 1
  BY DEF ScheduleInit, Holders, NoCall
<1>2. CallOK
  BY DEF ScheduleInit, CallOK
<1> QED
  BY <1>1, <1>2, FS_EmptySet DEF LInv, Inside

\* A caller goes in, and comes out.
LEMMA EnterLock == ASSUME NEW c \in Callers, LInv, Enter(c) PROVE LInv'
<1>1. /\ call[c].pc = "wait" /\ call[c] \in Calls /\ call' = [call EXCEPT ![c].pc = "in"]
      /\ sem > 0 /\ sem' = sem - 1 /\ late' = late /\ exec' = exec
  BY DEF Enter, LInv, CallOK, NoCall
<1>2. CallOK' /\ Holders' = Holders \cup {c} /\ c \notin Holders
  BY <1>1 DEF LInv, CallOK, Calls, Holders
<1>3. Cardinality(Holders') = Cardinality(Holders) + 1
  BY <1>2, HoldersFinite, FS_AddElement
<1> QED
  BY <1>1, <1>2, <1>3, HoldersFinite, HoldersFiniteNext DEF LInv, InExec

LEMMA LeaveLock ==
    ASSUME NEW c \in Callers, LInv, call[c].pc = "in", Done(c), exec' = exec,
           late' = late \/ late' = TRUE
    PROVE  LInv'
<1>1. call' = [call EXCEPT ![c] = NoCall] /\ sem' = sem + 1
  BY DEF Done
<1>2. CallOK' /\ Holders' = Holders \ {c} /\ c \in Holders
  BY <1>1 DEF LInv, CallOK, Holders, NoCall
<1>3. Cardinality(Holders') = Cardinality(Holders) - 1
  BY <1>2, HoldersFinite, FS_RemoveElement
<1> QED
  BY <1>1, <1>2, <1>3, HoldersFinite, HoldersFiniteNext DEF LInv, InExec

LEMMA TimeOutLock == ASSUME NEW c \in Callers, LInv, TimeOut(c) PROVE LInv'
<1>1. /\ call' = [call EXCEPT ![c] = NoCall] /\ call[c].pc = "wait"
      /\ sem' \in {sem, sem + 1} /\ late' = TRUE /\ exec' = exec
  BY DEF TimeOut
<1>2. CallOK' /\ Holders' = Holders
  BY <1>1 DEF LInv, CallOK, Holders, NoCall
<1> QED
  BY <1>1, <1>2, HoldersFinite, HoldersFiniteNext DEF LInv, InExec

\* A call begins: who makes it has not got the semaphore yet.
LEMMA CallLock ==
    ASSUME LInv, NEW c \in Callers, NEW k \in Calls, k.pc = "wait", call[c] = NoCall,
           call' = [call EXCEPT ![c] = k], UNCHANGED <<sem, exec, late>>
    PROVE  LInv'
<1>1. CallOK' /\ Holders' = Holders
  BY DEF LInv, CallOK, Holders, NoCall
<1> QED
  BY <1>1, HoldersFinite, HoldersFiniteNext DEF LInv, InExec

LEMMA ExecutorLock == LInv /\ Executor => LInv'
<1> SUFFICES ASSUME LInv, Executor PROVE LInv'
  OBVIOUS
<1>1. CallOK' /\ Holders' = Holders
  BY DEF Executor, Begin, Switch, Switched, End, LInv, CallOK, Holders
<1>2. CASE Begin
  <2>1. sem > 0 /\ sem' = sem - 1 /\ InExec = 0 /\ InExec' = 1 /\ late' = late
    BY <1>2 DEF Begin, InExec, NoCall
  <2> QED
    BY <1>1, <2>1, HoldersFinite, HoldersFiniteNext DEF LInv
<1>3. CASE Switch
  <2>1. sem' = sem /\ InExec = 1 /\ InExec' = 1 /\ late' = late
    BY <1>3 DEF Switch, InExec, NoCall, Calling
  <2> QED
    BY <1>1, <2>1, HoldersFinite, HoldersFiniteNext DEF LInv
<1>4. CASE Switched
  <2>1. InExec = 1 /\ InExec' = 1
    BY <1>4 DEF Switched, InExec, NoCall
  <2>2. (sem' = sem /\ late' = late) \/ (sem' = 1 /\ late' = TRUE)
    BY <1>4 DEF Switched
  <2> QED
    BY <1>1, <2>1, <2>2, HoldersFinite, HoldersFiniteNext DEF LInv
<1>5. CASE End
  <2>1. sem' = sem + 1 /\ InExec = 1 /\ InExec' = 0 /\ late' = late
    BY <1>5 DEF End, InExec, NoCall
  <2> QED
    BY <1>1, <2>1, HoldersFinite, HoldersFiniteNext DEF LInv
<1> QED
  BY <1>2, <1>3, <1>4, <1>5 DEF Executor

LEMMA StepLock == LInv /\ [ScheduleNext]_scheduleVars => LInv'
<1> SUFFICES ASSUME LInv, [ScheduleNext]_scheduleVars PROVE LInv'
  OBVIOUS
<1>1. Api \in Callers
  BY TableAssumption
<1>2. CASE AddFile
  <2>1. PICK i \in Ids, f \in File :
            call' = [call EXCEPT ![Api] = Calling("add", i, f.time)]
    BY <1>2 DEF AddFile
  <2>2. Calling("add", i, f.time) \in Calls /\ Calling("add", i, f.time).pc = "wait"
    BY DEF Calling, Calls, File
  <2> QED
    BY <1>1, <1>2, <2>1, <2>2, CallLock DEF AddFile
<1>3. CASE DeleteFile
  <2>1. PICK i \in Ids : call' = [call EXCEPT ![Api] = Calling("del", i, 0)]
    BY <1>3 DEF DeleteFile, Stored
  <2>2. Calling("del", i, 0) \in Calls /\ Calling("del", i, 0).pc = "wait"
    BY DEF Calling, Calls
  <2> QED
    BY <1>1, <1>3, <2>1, <2>2, CallLock DEF DeleteFile
<1>4. CASE WriteTime
  <2>1. PICK i \in Ids, v \in Times : call' = [call EXCEPT ![Api] = Calling("time", i, v)]
    BY <1>4 DEF WriteTime
  <2>2. Calling("time", i, v) \in Calls /\ Calling("time", i, v).pc = "wait"
    BY DEF Calling, Calls
  <2> QED
    BY <1>1, <1>4, <2>1, <2>2, CallLock DEF WriteTime
<1>5. ASSUME NEW c \in Callers, WriteActive(c) PROVE LInv'
  <2>1. PICK i \in Ids, v \in BOOLEAN : call' = [call EXCEPT ![c] = Calling("active", i, v)]
    BY <1>5 DEF WriteActive
  <2>2. Calling("active", i, v) \in Calls /\ Calling("active", i, v).pc = "wait"
    BY DEF Calling, Calls
  <2> QED
    BY <1>5, <2>1, <2>2, CallLock DEF WriteActive
<1>6. ASSUME NEW c \in Callers, Section(c) PROVE LInv'
  <2>1. CASE Enter(c)
    BY <2>1, EnterLock
  <2>2. CASE LeaveAdd(c) \/ LeaveDel(c) \/ LeaveField(c)
    <3>1. call[c].pc = "in" /\ Done(c) /\ exec' = exec /\ (late' = late \/ late' = TRUE)
      BY <2>2 DEF LeaveAdd, LeaveDel, LeaveField, Copy, NoCopy
    <3> QED
      BY <3>1, LeaveLock
  <2> QED
    BY <1>6, <2>1, <2>2 DEF Section
<1>7. CASE Restart
  <2>1. Holders' = {} /\ exec' = NoCall /\ sem' = 1 /\ CallOK'
    BY <1>7 DEF Restart, Holders, NoCall, CallOK
  <2> QED
    BY <2>1, FS_EmptySet DEF LInv, Inside
<1>8. CASE UNCHANGED scheduleVars
  BY <1>8 DEF scheduleVars, LInv, CallOK, Inside, Holders
<1> QED
  BY <1>2, <1>3, <1>4, <1>5, <1>6, <1>7, <1>8, TimeOutLock, ExecutorLock DEF ScheduleNext

LEMMA SpecLock == ScheduleSpec => []LInv
  BY InitLock, StepLock, PTL DEF ScheduleSpec

\* For any callers: s_tScheduleRamDataSem is held by one thread at a time
\* until a wait times out, and is never lost, however often waits time out:
\* calls post it that have not taken it, none keeps it (schedule.c:963-1079, 1488).
THEOREM OneAtATime == ScheduleSpec => []LockSound
<1>1. LInv => LockSound
  BY DEF LInv, LockSound, LockExclusive, LockNeverLost
<1> QED
  BY <1>1, SpecLock, PTL

-----------------------------------------------------------------------------
(* The types, also when something has gone wrong. *)

\* What a call and the executor's call of schedule_write_active are to store.
ValuesOK ==
    /\ \A c \in Callers :
           /\ call[c] # NoCall /\ call[c].op = "active" => call[c].val \in BOOLEAN
           /\ call[c] # NoCall /\ call[c].op \in {"add", "time"} => call[c].val \in Times
    /\ ExecOK

TInv ==
    /\ slot \in [Ids -> Fields] /\ num \in 0..(NumWidth - 1) /\ idList \subseteq Ids
    /\ late \in BOOLEAN /\ strange \in BOOLEAN
    /\ CallOK /\ ValuesOK

\* The number of schedules is taken modulo its width, the list from the files.
LEMMA RamTypes ==
    /\ \A n \in Int : n % NumWidth \in 0..(NumWidth - 1)
    /\ First(Copied, Stored) \subseteq Ids
    /\ NumWidth \in Nat \ {0}
<1>1. NumWidth \in Nat \ {0}
  BY Finite
<1>2. \A n \in Int : n % NumWidth \in 0..(NumWidth - 1)
  BY <1>1
<1> QED
  BY <1>1, <1>2 DEF First, Stored

LEMMA InitTypes == ScheduleInit => TInv
<1> SUFFICES ASSUME ScheduleInit PROVE TInv
  OBVIOUS
<1>1. num \in 0..(NumWidth - 1)
  <2>1. Stored \subseteq Ids /\ num = Cardinality(Stored)
    BY DEF ScheduleInit, Loaded, Stored
  <2> QED
    BY <2>1, Finite
<1>2. slot \in [Ids -> Fields]
  BY FileFields DEF ScheduleInit, Loaded
<1> QED
  BY <1>1, <1>2, RamTypes DEF ScheduleInit, Loaded, TInv, CallOK, ValuesOK, ExecOK, NoCall

\* A call begins, with a value of the right kind.
LEMMA CallTypes ==
    ASSUME TInv, NEW c \in Callers, NEW k \in Calls,
           k.op = "active" => k.val \in BOOLEAN, k.op \in {"add", "time"} => k.val \in Times,
           call' = [call EXCEPT ![c] = k],
           UNCHANGED <<slot, num, idList, exec>>,
           late' \in BOOLEAN, strange' \in BOOLEAN
    PROVE  TInv'
<1>1. CallOK'
  BY DEF TInv, CallOK
<1>2. ValuesOK'
  BY DEF TInv, CallOK, ValuesOK, ExecOK
<1> QED
  BY <1>1, <1>2 DEF TInv

LEMMA EnterTypes == ASSUME NEW c \in Callers, TInv, Enter(c) PROVE TInv'
<1>1. /\ call[c].pc = "wait" /\ call[c] \in Calls /\ call' = [call EXCEPT ![c].pc = "in"]
      /\ UNCHANGED <<slot, num, idList, exec, late, strange>>
  BY DEF Enter, TInv, CallOK, NoCall
<1>2. /\ call'[c] \in Calls /\ call'[c].op = call[c].op /\ call'[c].val = call[c].val
      /\ \A e \in Callers : e # c => call'[e] = call[e]
  BY <1>1 DEF TInv, CallOK, Calls
<1>3. CallOK'
  BY <1>1, <1>2 DEF TInv, CallOK
<1>4. ValuesOK'
  BY <1>1, <1>2, Distinct DEF TInv, ValuesOK, ExecOK
<1> QED
  BY <1>1, <1>3, <1>4 DEF TInv

\* A call ends.
LEMMA EndTypes ==
    ASSUME TInv, NEW c \in Callers, call' = [call EXCEPT ![c] = NoCall], exec' = exec,
           slot' \in [Ids -> Fields], num' \in 0..(NumWidth - 1), idList' \subseteq Ids,
           late' \in BOOLEAN, strange' \in BOOLEAN
    PROVE  TInv'
<1>1. CallOK'
  BY DEF TInv, CallOK
<1>2. ValuesOK'
  BY DEF TInv, CallOK, ValuesOK, ExecOK
<1> QED
  BY <1>1, <1>2 DEF TInv

LEMMA LeaveTypes ==
    ASSUME TInv, NEW c \in Callers, LeaveAdd(c) \/ LeaveDel(c) \/ LeaveField(c)
    PROVE  TInv'
<1>1. call[c].pc = "in" /\ call[c] \in Calls /\ call' = [call EXCEPT ![c] = NoCall] /\ exec' = exec
  BY DEF LeaveAdd, LeaveDel, LeaveField, Done, TInv, CallOK, NoCall
<1>2. call[c] # NoCall /\ call[c].id \in Ids
  BY <1>1, Distinct DEF Calls
<1>3. late' \in BOOLEAN /\ strange' \in BOOLEAN
  BY DEF LeaveAdd, LeaveDel, LeaveField, Copy, NoCopy, TInv
<1>4. idList' \subseteq Ids
  BY RamTypes DEF LeaveAdd, LeaveDel, LeaveField, Copy, NoCopy, TInv
<1>5. num' \in 0..(NumWidth - 1)
  <2>1. num + 1 \in Int /\ num + NumWidth - 1 \in Int
    BY RamTypes DEF TInv
  <2> QED
    BY <2>1, RamTypes DEF LeaveAdd, LeaveDel, LeaveField, TInv
<1>6. slot' \in [Ids -> Fields]
  <2>1. CASE LeaveAdd(c)
    <3>1. call[c].op = "add" /\ call[c].val \in Times
      BY <1>2, <2>1 DEF LeaveAdd, TInv, ValuesOK
    <3> QED
      BY <1>2, <2>1, <3>1 DEF LeaveAdd, TInv, Fields
  <2>2. CASE LeaveDel(c)
    BY <2>2 DEF LeaveDel, TInv
  <2>3. CASE LeaveField(c) /\ call[c].op = "active"
    <3>1. call[c].val \in BOOLEAN
      BY <1>2, <2>3 DEF TInv, ValuesOK
    <3> QED
      BY <1>2, <2>3, <3>1 DEF LeaveField, TInv, Fields
  <2>4. CASE LeaveField(c) /\ call[c].op = "time"
    <3>1. call[c].val \in Times
      BY <1>2, <2>4 DEF TInv, ValuesOK
    <3> QED
      BY <1>2, <2>4, <3>1 DEF LeaveField, TInv, Fields
  <2> QED
    BY <2>1, <2>2, <2>3, <2>4 DEF LeaveField
<1> QED
  BY <1>1, <1>3, <1>4, <1>5, <1>6, EndTypes

LEMMA ExecutorTypes == TInv /\ Executor => TInv'
<1> SUFFICES ASSUME TInv, Executor PROVE TInv'
  OBVIOUS
<1>1. call' = call /\ num' = num /\ idList' = idList
  BY DEF Executor, Begin, Switch, Switched, End
<1>2. late' \in BOOLEAN /\ strange' \in BOOLEAN
  BY DEF Executor, Begin, Switch, Switched, End, Write, TInv
<1>3. ExecOK' /\ slot' \in [Ids -> Fields]
  <2>1. CASE Begin \/ End
    BY <2>1 DEF Begin, End, TInv, ExecOK, NoCall
  <2>2. CASE Switch
    BY <2>2 DEF Switch, TInv, ExecOK, Calling
  <2>3. CASE Switched
    <3>1. exec.id \in Ids /\ exec.val \in BOOLEAN
      BY <2>3 DEF Switched, TInv, ValuesOK, ExecOK
    <3>2. slot' = slot \/ slot' = [slot EXCEPT ![exec.id].active = exec.val]
      BY <2>3 DEF Switched
    <3>3. slot' \in [Ids -> Fields]
      BY <3>1, <3>2 DEF TInv, Fields
    <3> QED
      BY <2>3, <3>3 DEF Switched, ExecOK
  <2> QED
    BY <2>1, <2>2, <2>3 DEF Executor
<1> QED
  BY <1>1, <1>2, <1>3 DEF TInv, CallOK, ValuesOK

LEMMA StepTypes == TInv /\ RomOK /\ [ScheduleNext]_scheduleVars => TInv'
<1> SUFFICES ASSUME TInv, RomOK, [ScheduleNext]_scheduleVars PROVE TInv'
  OBVIOUS
<1>1. Api \in Callers
  BY Finite
<1>2. CASE AddFile
  <2>1. PICK i \in Ids, f \in File :
            call' = [call EXCEPT ![Api] = Calling("add", i, f.time)]
    BY <1>2 DEF AddFile
  <2>2. f.time \in Times
    BY DEF File
  <2> DEFINE k == Calling("add", i, f.time)
  <2>0. call' = [call EXCEPT ![Api] = k]
    BY <2>1
  <2>3. k \in Calls /\ k.op = "add" /\ k.val = f.time
    BY <2>2 DEF Calling, Calls
  <2>4. UNCHANGED <<slot, num, idList, exec>> /\ late' \in BOOLEAN /\ strange' \in BOOLEAN
    BY <1>2 DEF AddFile, TInv
  <2> HIDE DEF k
  <2> QED
    BY <1>1, <2>0, <2>2, <2>3, <2>4, CallTypes
<1>3. CASE DeleteFile
  <2>1. PICK i \in Ids : call' = [call EXCEPT ![Api] = Calling("del", i, 0)]
    BY <1>3 DEF DeleteFile, Stored
  <2> DEFINE k == Calling("del", i, 0)
  <2>2. call' = [call EXCEPT ![Api] = k]
    BY <2>1
  <2>3. k \in Calls /\ k.op = "del" /\ k.val = 0
    BY DEF Calling, Calls
  <2>4. UNCHANGED <<slot, num, idList, exec>> /\ late' \in BOOLEAN /\ strange' \in BOOLEAN
    BY <1>3 DEF DeleteFile, TInv
  <2> HIDE DEF k
  <2> QED
    BY <1>1, <2>2, <2>3, <2>4, CallTypes
<1>4. CASE WriteTime
  <2>1. PICK i \in Ids, v \in Times :
            call' = [call EXCEPT ![Api] = Calling("time", i, v)] /\ strange' \in {strange, TRUE}
    BY <1>4 DEF WriteTime, Write
  <2> DEFINE k == Calling("time", i, v)
  <2>2. call' = [call EXCEPT ![Api] = k]
    BY <2>1
  <2>3. k \in Calls /\ k.op = "time" /\ k.val = v
    BY DEF Calling, Calls
  <2>4. UNCHANGED <<slot, num, idList, exec>> /\ late' \in BOOLEAN /\ strange' \in BOOLEAN
    BY <1>4, <2>1 DEF WriteTime, TInv
  <2> HIDE DEF k
  <2> QED
    BY <1>1, <2>2, <2>3, <2>4, CallTypes
<1>5. ASSUME NEW c \in Callers, WriteActive(c) PROVE TInv'
  <2>1. PICK i \in Ids, v \in BOOLEAN :
            call' = [call EXCEPT ![c] = Calling("active", i, v)] /\ strange' \in {strange, TRUE}
    BY <1>5 DEF WriteActive, Write
  <2> DEFINE k == Calling("active", i, v)
  <2>2. call' = [call EXCEPT ![c] = k]
    BY <2>1
  <2>3. k \in Calls /\ k.op = "active" /\ k.val = v
    BY DEF Calling, Calls
  <2>4. UNCHANGED <<slot, num, idList, exec>> /\ late' \in BOOLEAN /\ strange' \in BOOLEAN
    BY <1>5, <2>1 DEF WriteActive, TInv
  <2> HIDE DEF k
  <2> QED
    BY <1>1, <2>2, <2>3, <2>4, CallTypes
<1>6. ASSUME NEW c \in Callers, Section(c) \/ TimeOut(c) PROVE TInv'
  <2>1. CASE TimeOut(c)
    BY <2>1, EndTypes DEF TimeOut, TInv
  <2> QED
    BY <1>6, <2>1, EnterTypes, LeaveTypes DEF Section
<1>7. CASE Restart
  <2>1. Stored' = Stored /\ rom' = rom
    BY <1>7 DEF Restart, Stored
  <2>2. num' \in 0..(NumWidth - 1) /\ idList' \subseteq Ids
    <3>1. Stored \subseteq Ids
      BY DEF Stored
    <3>2. num' = Cardinality(Stored) /\ idList' = First(Copied, Stored)
      BY <1>7 DEF Restart, Loaded
    <3> QED
      BY <3>1, <3>2, Finite, RamTypes
  <2>3. slot' \in [Ids -> Fields]
    BY <1>7, FileFields DEF Restart, Loaded, RomOK
  <2> QED
    BY <1>7, <2>2, <2>3 DEF Restart, TInv, CallOK, ValuesOK, ExecOK, NoCall
<1>8. CASE UNCHANGED scheduleVars
  BY <1>8 DEF scheduleVars, TInv, CallOK, ValuesOK, ExecOK
<1> QED
  BY <1>2, <1>3, <1>4, <1>5, <1>6, <1>7, <1>8, ExecutorTypes DEF ScheduleNext

LEMMA SpecTypes == ScheduleSpec => []TInv
<1>1. IInv => RomOK
  BY DEF IInv
<1> QED
  BY <1>1, InitTypes, StepTypes, SpecInv, PTL DEF ScheduleSpec

\* However many schedules there are and whoever writes them: until a wait
\* times out or a schedule is written that does not exist, the executor's
\* copy follows the files, and a round looks at no schedule that is gone; a
\* restart puts right what has gone wrong.  The number stays in its width in
\* any case (schedule_ram_data_add and _del, schedule.c:993-1079;
\* schedule_RamData_init).
THEOREM TableFollows == ScheduleSpec => []TableSound
<1>1. IInv /\ LInv /\ TInv => ScheduleTypeOK
  BY DEF IInv, RomOK, LInv, TInv, ScheduleTypeOK, Fields
<1>2. IInv /\ LInv /\ TInv => TableSound
  BY <1>1, InvImplies DEF TableSound
<1> QED
  BY <1>2, SpecInv, SpecLock, SpecTypes, PTL
=============================================================================
