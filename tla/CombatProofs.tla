---------------------------- MODULE CombatProofs ----------------------------
(***************************************************************************)
(* Theorems about Combat, for any ships, weapons, shields and objects:     *)
(* about contacts and locks, and about what a shot costs hulls and shields.*)
(***************************************************************************)
EXTENDS Combat, Sums, SequenceTheorems

USE CombatAssumption DEF Objects, Computers, Systems

-----------------------------------------------------------------------------
(* Taking one contact out moves up those behind it and no other.           *)
LEMMA TakenOut ==
  ASSUME NEW S, NEW list \in Seq(S), NEW i \in 1..Len(list)
  PROVE  /\ RemoveAt(list, i) \in Seq(S) /\ Len(RemoveAt(list, i)) = Len(list) - 1
         /\ \A k \in 1..(Len(list) - 1) :
              RemoveAt(list, i)[k] = IF k < i THEN list[k] ELSE list[k + 1]
<1> DEFINE front == SubSeq(list, 1, i - 1)
           back == SubSeq(list, i + 1, Len(list))
<1>1. Len(list) \in Nat /\ i \in Nat
  OBVIOUS
<1>2. front \in Seq(S) /\ Len(front) = i - 1 /\ \A k \in 1..(i - 1) : front[k] = list[k]
  BY <1>1
<1>3. /\ back \in Seq(S) /\ Len(back) = Len(list) - i
      /\ \A k \in 1..(Len(list) - i) : back[k] = list[i + k]
  BY <1>1
<1>4. RemoveAt(list, i) = front \o back
  BY DEF RemoveAt
<1>5. front \o back \in Seq(S) /\ Len(front \o back) = Len(list) - 1
  <2> HIDE DEF front, back
  <2>0. front \in Seq(S) /\ back \in Seq(S)
    BY <1>2, <1>3
  <2>1. front \o back \in Seq(S) /\ Len(front \o back) = Len(front) + Len(back)
    BY ONLY <2>0, ConcatProperties
  <2> QED BY <1>1, <1>2, <1>3, <2>1
<1>6. ASSUME NEW k \in 1..(Len(list) - 1)
      PROVE  (front \o back)[k] = IF k < i THEN list[k] ELSE list[k + 1]
  <2> HIDE DEF front, back
  <2>1. CASE k < i
    BY <1>1, <1>2, <1>3, <2>1
  <2>2. CASE k >= i
    <3>1. (front \o back)[k] = back[k - (i - 1)]
      BY <1>1, <1>2, <1>3, <2>2
    <3>2. k - (i - 1) \in 1..(Len(list) - i) /\ i + (k - (i - 1)) = k + 1
      BY <1>1, <2>2
    <3>3. ~(k < i) /\ back[k - (i - 1)] = list[i + (k - (i - 1))]
      BY <1>1, <1>3, <2>2, <3>2
    <3>4. back[k - (i - 1)] = list[k + 1]
      BY <3>2, <3>3, Zenon
    <3> QED BY <3>1, <3>3, <3>4, Zenon
  <2>3. k < i \/ k >= i
    BY <1>1
  <2> QED BY <2>1, <2>2, <2>3
<1> QED BY <1>4, <1>5, <1>6

(* Lists of different contacts.                                            *)
Lists == {list \in Seq(Objects) : IsInjective(list)}

(* Nothing that the sensors have not seen stands behind the head.          *)
CleanBehind(list, seen) == \A k \in 2..Len(list) : list[k] \in seen

(* What is left of the list a sweep began with.                            *)
LeftOf(list, first) == Range(list) \subseteq Range(first)

(* The head of the list the sweep began with: there still if it was seen,  *)
(* gone if it was not.                                                     *)
HeadDecided(list, first, seen) ==
  IF first[1] \in seen THEN list # <<>> /\ list[1] = first[1]
  ELSE first[1] \notin Range(list)

(* A pass erases the first unseen contact it comes to, or there is none.   *)
LEMMA PassErases ==
  ASSUME NEW list \in Lists, NEW seen, NEW from \in {1, 2}
  PROVE  /\ EraseFirst(list, seen, from) \in Lists
         /\ LeftOf(EraseFirst(list, seen, from), list)
         /\ \/ /\ EraseFirst(list, seen, from) = list
               /\ \A k \in from..Len(list) : list[k] \in seen
            \/ \E i \in from..Len(list) :
                 /\ list[i] \notin seen /\ \A k \in from..Len(list) : k < i => list[k] \in seen
                 /\ Len(EraseFirst(list, seen, from)) = Len(list) - 1
                 /\ list[i] \notin Range(EraseFirst(list, seen, from))
                 /\ \A k \in 1..(i - 1) : EraseFirst(list, seen, from)[k] = list[k]
<1> DEFINE stale == {i \in from..Len(list) : list[i] \notin seen}
           left == EraseFirst(list, seen, from)
<1>0. list \in Seq(Objects) /\ IsInjective(list) /\ Len(list) \in Nat /\ DOMAIN list = 1..Len(list)
  BY DEF Lists
<1>1. CASE stale = {}
  <2>1. left = list
    BY <1>1 DEF EraseFirst
  <2>2. \A k \in from..Len(list) : list[k] \in seen
    BY <1>1
  <2> QED BY <2>1, <2>2 DEF LeftOf
<1>2. CASE stale # {}
  <2>1. stale \subseteq Int /\ IsFiniteSet(stale)
    <3>1. stale \subseteq from..Len(list) /\ IsFiniteSet(from..Len(list))
      BY <1>0, FS_Interval
    <3> QED BY <3>1, FS_Subset
  <2>2. PICK i \in stale : \A k \in stale : i <= k
    <3> HIDE DEF stale
    <3> QED BY <1>2, <2>1, FiniteHasLeast
  <2>3. Min(stale) = i
    <3>1. \A m \in stale : (\A k \in stale : m <= k) => m = i
      BY <2>1, <2>2
    <3> HIDE DEF stale
    <3> QED BY <2>2, <3>1 DEF Min
  <2>4. left = RemoveAt(list, i)
    BY <1>2, <2>3 DEF EraseFirst
  <2>5. i \in from..Len(list) /\ i \in 1..Len(list) /\ list[i] \notin seen
    BY <1>0, <2>2
  <2>6. /\ left \in Seq(Objects) /\ Len(left) = Len(list) - 1
        /\ \A k \in 1..(Len(list) - 1) : left[k] = IF k < i THEN list[k] ELSE list[k + 1]
    <3> HIDE DEF left, stale
    <3>1. i \in 1..Len(list) /\ list \in Seq(Objects)
      BY <1>0, <2>5
    <3>2. /\ RemoveAt(list, i) \in Seq(Objects) /\ Len(RemoveAt(list, i)) = Len(list) - 1
          /\ \A k \in 1..(Len(list) - 1) :
               RemoveAt(list, i)[k] = IF k < i THEN list[k] ELSE list[k + 1]
      BY <3>1, TakenOut
    <3> QED BY <2>4, <3>2
  <2>7. DOMAIN left = 1..(Len(list) - 1)
    BY <2>6
  <2> HIDE DEF left, stale
  <2>8. ASSUME NEW k \in DOMAIN left
        PROVE  \E j \in DOMAIN list : /\ left[k] = list[j] /\ j # i
                                      /\ j = IF k < i THEN k ELSE k + 1
    BY <1>0, <2>5, <2>6, <2>7
  <2>9. IsInjective(left)
    BY <1>0, <2>5, <2>7, <2>8 DEF IsInjective
  <2>10. Range(left) \subseteq Range(list)
    BY <2>8 DEF Range
  <2>11. list[i] \notin Range(left)
    <3>1. i \in DOMAIN list /\ \A j \in DOMAIN list : list[i] = list[j] => i = j
      BY <1>0, <2>5 DEF IsInjective
    <3>2. \A k \in DOMAIN left : left[k] # list[i]
      BY <2>8, <3>1
    <3> QED BY <3>2 DEF Range
  <2>12. \A k \in from..Len(list) : k < i => list[k] \in seen
    BY <2>2, <2>5 DEF stale
  <2>13. \A k \in 1..(i - 1) : left[k] = list[k]
    <3>1. \A k \in 1..(i - 1) : k \in 1..(Len(list) - 1) /\ k < i
      BY <1>0, <2>5
    <3> QED BY <2>6, <3>1
  <2>14. left \in Lists
    BY <2>6, <2>9 DEF Lists
  <2> QED BY <2>5, <2>6, <2>10, <2>11, <2>12, <2>13, <2>14 DEF LeftOf, left
<1> QED BY <1>1, <1>2

(* The passes of a sweep: each begins with what the one before has left.   *)
Passes(g, list, seen) ==
  /\ g \in [0..Len(list) -> Lists]
  /\ g[0] = EraseFirst(list, seen, 1)
  /\ \A n \in 1..Len(list) : g[n] = EraseFirst(g[n - 1], seen, 2)

(* A sweep is what its last pass leaves.                                   *)
LEMMA SweepPasses ==
  ASSUME NEW list \in Lists, NEW seen
  PROVE  \E g : Passes(g, list, seen) /\ Swept(list, seen) = g[Len(list)]
<1> DEFINE N == Len(list)
           zero == 0
           start == EraseFirst(list, seen, 1)
           pass(left) == EraseFirst(left, seen, 2)
           step == [n \in zero..N |-> [left \in Lists |-> pass(left)]]
           Solves(F) == F = [n \in zero..N |-> IF n = zero THEN start ELSE pass(F[n - 1])]
<1>1. N \in Int /\ zero \in Int /\ zero <= N
  BY DEF Lists
<1>2. start \in Lists /\ \A left \in Lists : pass(left) \in Lists
  BY PassErases
<1>3. Swept(list, seen) = (CHOOSE F : Solves(F))[N]
  BY Zenon DEF Swept
<1> HIDE DEF N, start, pass
<1>4. step \in [zero..N -> [Lists -> Lists]]
  BY <1>2
<1>5. PICK g : CountsOn(g, zero, N, Lists, start, step)
  <2> HIDE DEF step, zero
  <2> QED BY <1>1, <1>2, <1>4, RecursionSolved
<1>6. /\ g \in [zero..N -> Lists]
      /\ \A n \in zero..N : g[n] = IF n = zero THEN start ELSE step[n][g[n - 1]]
  <2> HIDE DEF step, zero
  <2> QED BY <1>5 DEF CountsOn
<1>7. \A n \in zero..N : n # zero => n - 1 \in zero..N
  BY <1>1
<1>8. \A n \in zero..N : g[n] = IF n = zero THEN start ELSE pass(g[n - 1])
  BY <1>6, <1>7
<1>9. Solves(g)
  BY <1>6, <1>8
<1> DEFINE h == CHOOSE F : Solves(F)
<1>10. Solves(h)
  <2> HIDE DEF Solves
  <2> QED BY <1>9
<1>11. h = [n \in zero..N |-> IF n = zero THEN start ELSE pass(h[n - 1])]
  BY <1>10
<1>12. h[N] = Swept(list, seen)
  BY <1>3
<1> DEFINE Typed == {n \in zero..N : h[n] \in Lists}
<1> HIDE DEF h
<1>13. zero \in Typed
  BY <1>1, <1>2, <1>11
<1>14. ASSUME NEW n \in zero..N, n # zero, n - 1 \in Typed PROVE n \in Typed
  BY <1>2, <1>11, <1>14
<1>15. zero..N \subseteq Typed
  <2> HIDE DEF Typed, zero
  <2> QED BY <1>1, <1>13, <1>14, IntervalInduction
<1>16. h \in [0..N -> Lists]
  BY <1>11, <1>15
<1>17. h[0] = start /\ \A n \in 1..N : h[n] = pass(h[n - 1])
  BY <1>1, <1>11
<1> QED BY <1>12, <1>16, <1>17 DEF Passes, N, start, pass

(* Every pass leaves a part of the list, and decides on its head; unless   *)
(* it leaves nothing behind the head that has not been seen, every pass    *)
(* has made the list one shorter.                                          *)
Progress(left, list, seen, n) ==
  /\ LeftOf(left, list)
  /\ HeadDecided(left, list, seen)
  /\ CleanBehind(left, seen) \/ Len(left) = Len(list) - (n + 1)

(* The first pass decides on the head.                                     *)
LEMMA FirstPass ==
  ASSUME NEW list \in Lists, list # <<>>, NEW seen
  PROVE  Progress(EraseFirst(list, seen, 1), list, seen, 0)
<1> DEFINE left == EraseFirst(list, seen, 1)
<1>0. Len(list) \in Nat \ {0} /\ DOMAIN list = 1..Len(list)
  BY DEF Lists
<1>1. left \in Lists /\ LeftOf(left, list)
  BY PassErases
<1>2. CASE left = list /\ \A k \in 1..Len(list) : list[k] \in seen
  <2>1. 1 \in 1..Len(list) /\ \A k \in 2..Len(list) : k \in 1..Len(list)
    BY <1>0
  <2> HIDE DEF left
  <2>2. HeadDecided(left, list, seen)
    BY <1>2, <2>1 DEF HeadDecided
  <2>3. CleanBehind(left, seen)
    BY <1>2, <2>1 DEF CleanBehind
  <2> QED BY <1>1, <2>2, <2>3 DEF Progress, left
<1>3. ASSUME NEW i \in 1..Len(list), list[i] \notin seen,
             \A k \in 1..Len(list) : k < i => list[k] \in seen,
             Len(left) = Len(list) - 1, list[i] \notin Range(left),
             \A k \in 1..(i - 1) : left[k] = list[k]
      PROVE  Progress(left, list, seen, 0)
  <2> HIDE DEF left
  <2>1. HeadDecided(left, list, seen)
    <3>1. CASE i = 1
      BY <1>3, <3>1 DEF HeadDecided
    <3>2. CASE i # 1
      <4>1. list[1] \in seen /\ left[1] = list[1]
        BY <1>0, <1>3, <3>2
      <4>2. Len(left) # 0
        <5>1. Len(list) >= 2
          BY <1>0, <3>2
        <5>2. Len(left) = Len(list) - 1
          BY <1>3
        <5> QED BY <1>0, <5>1, <5>2
      <4>3. left # <<>>
        BY <4>2
      <4> QED BY <4>1, <4>3 DEF HeadDecided
    <3> QED BY <3>1, <3>2
  <2> QED BY <1>1, <1>3, <2>1 DEF Progress
<1> QED BY <1>2, <1>3, PassErases

(* The others leave the head alone.                                        *)
LEMMA LaterPass ==
  ASSUME NEW list \in Lists, list # <<>>, NEW seen, NEW n \in Nat,
         NEW left \in Lists, Progress(left, list, seen, n)
  PROVE  Progress(EraseFirst(left, seen, 2), list, seen, n + 1)
<1> DEFINE next == EraseFirst(left, seen, 2)
<1>0. Len(list) \in Nat /\ Len(left) \in Nat /\ DOMAIN left = 1..Len(left)
  BY DEF Lists
<1>1. next \in Lists /\ LeftOf(next, list)
  BY PassErases DEF Progress, LeftOf
<1>2. CASE next = left /\ \A k \in 2..Len(left) : left[k] \in seen
  BY <1>1, <1>2 DEF Progress, CleanBehind
<1>3. ASSUME NEW i \in 2..Len(left), left[i] \notin seen,
             Len(next) = Len(left) - 1, \A k \in 1..(i - 1) : next[k] = left[k]
      PROVE  Progress(next, list, seen, n + 1)
  <2>1. ~CleanBehind(left, seen)
    BY <1>3 DEF CleanBehind
  <2>2. Len(left) = Len(list) - (n + 1)
    BY <2>1 DEF Progress
  <2>3. LeftOf(next, left)
    BY PassErases
  <2> HIDE DEF next
  <2>4. Len(next) = Len(list) - ((n + 1) + 1)
    BY <1>0, <1>3, <2>2
  <2>5. next[1] = left[1] /\ next # <<>>
    <3>1. 1 \in 1..(i - 1) /\ Len(left) >= 2
      BY <1>0
    <3>2. Len(next) # 0
      BY <1>0, <1>3, <3>1
    <3> QED BY <1>3, <3>1, <3>2
  <2>6. HeadDecided(next, list, seen)
    BY <2>3, <2>5 DEF Progress, HeadDecided, LeftOf
  <2> QED BY <1>1, <2>4, <2>6 DEF Progress
<1>4. \/ next = left /\ \A k \in 2..Len(left) : left[k] \in seen
      \/ \E i \in 2..Len(left) :
           /\ left[i] \notin seen /\ Len(next) = Len(left) - 1
           /\ \A k \in 1..(i - 1) : next[k] = left[k]
  BY PassErases
<1> HIDE DEF next
<1> QED BY <1>2, <1>3, <1>4 DEF next

(* However many contacts have not been seen and wherever they stand, the   *)
(* whole loop of HSComputer.cpp:107 leaves none of them behind the head;   *)
(* what it leaves was on the list, and the former head is kept if seen and *)
(* erased if not.                                                          *)
LEMMA SweepCleans ==
  ASSUME NEW list \in Lists, NEW seen
  PROVE  /\ Swept(list, seen) \in Lists /\ LeftOf(Swept(list, seen), list)
         /\ CleanBehind(Swept(list, seen), seen)
         /\ list # <<>> => HeadDecided(Swept(list, seen), list, seen)
<1> DEFINE N == Len(list)
           zero == 0
<1>1. PICK g : Passes(g, list, seen) /\ Swept(list, seen) = g[N]
  BY SweepPasses
<1>2. /\ N \in Nat /\ zero \in Int /\ N \in Int /\ N \in 0..N
      /\ g \in [0..N -> Lists] /\ g[0] = EraseFirst(list, seen, 1)
      /\ \A n \in 1..N : g[n] = EraseFirst(g[n - 1], seen, 2)
  BY <1>1 DEF Passes, Lists
<1>3. CASE list = <<>>
  <2>1. N = 0
    BY <1>3
  <2>2. Swept(list, seen) = EraseFirst(list, seen, 1) /\ Swept(list, seen) \in Lists
    BY <1>1, <1>2, <2>1
  <2>3. LeftOf(Swept(list, seen), list)
    BY <2>2, PassErases
  <2>4. Range(list) = {}
    BY <1>3 DEF Range
  <2>5. ASSUME NEW k \in 2..Len(Swept(list, seen)) PROVE FALSE
    <3>1. Swept(list, seen) \in Seq(Objects) /\ k \in DOMAIN Swept(list, seen)
      BY <2>2 DEF Lists
    <3>2. Swept(list, seen)[k] \in Range(Swept(list, seen))
      BY <3>1 DEF Range
    <3> QED BY <2>3, <2>4, <3>2 DEF LeftOf
  <2> QED BY <1>3, <2>2, <2>3, <2>5 DEF CleanBehind
<1>4. CASE list # <<>>
  <2> DEFINE Going == {n \in 0..N : Progress(g[n], list, seen, n)}
  <2>1. zero \in Going
    BY <1>2, <1>4, FirstPass
  <2>2. ASSUME NEW n \in zero..N, n # zero, n - 1 \in Going PROVE n \in Going
    <3>1. n - 1 \in Nat /\ n - 1 \in 0..N /\ n \in 1..N /\ (n - 1) + 1 = n
      BY <1>2, <2>2
    <3>2. Progress(g[n - 1], list, seen, n - 1) /\ g[n - 1] \in Lists
      BY <1>2, <2>2, <3>1
    <3>3. Progress(EraseFirst(g[n - 1], seen, 2), list, seen, (n - 1) + 1)
      <4> DEFINE m == n - 1
                 left == g[m]
      <4>1. m \in Nat /\ left \in Lists /\ Progress(left, list, seen, m)
        BY <3>1, <3>2
      <4> HIDE DEF m, left
      <4>2. Progress(EraseFirst(left, seen, 2), list, seen, m + 1)
        BY <1>4, <4>1, LaterPass
      <4> QED BY <4>2 DEF m, left
    <3> QED BY <1>2, <3>1, <3>3
  <2>3. zero..N \subseteq Going
    <3> HIDE DEF Going, zero, N
    <3> QED BY <1>2, <2>1, <2>2, IntervalInduction
  <2>4. Progress(g[N], list, seen, N) /\ g[N] \in Lists
    BY <1>2, <2>3
  <2>5. Len(g[N]) \in Nat
    BY <2>4 DEF Lists
  <2>6. Len(g[N]) # N - (N + 1)
    BY <1>2, <2>5
  <2> QED BY <1>1, <2>4, <2>6 DEF Progress
<1> QED BY <1>3, <1>4

-----------------------------------------------------------------------------
(* What a scan begins with: the contacts there are, and new ones behind.   *)
LEMMA NewOnesBehind ==
  ASSUME NEW list \in Lists, NEW seen \in SUBSET Objects,
         NEW new \in SetToSeqs(seen \ Range(list))
  PROVE  /\ list \o new \in Lists
         /\ LeftOf(list, list \o new)
         /\ Range(list \o new) \subseteq Range(list) \cup seen
         /\ list # <<>> => list \o new # <<>> /\ (list \o new)[1] = list[1]
         /\ list = <<>> /\ list \o new # <<>> => (list \o new)[1] \in seen
<1> DEFINE all == list \o new
           n == Len(list)
           m == Cardinality(seen \ Range(list))
<1>0. IsFiniteSet(Objects)
  BY FS_Union
<1>1. n \in Nat /\ m \in Nat /\ DOMAIN list = 1..n
  <2>1. IsFiniteSet(seen \ Range(list))
    BY <1>0, FS_Subset
  <2> QED BY <2>1, FS_CardinalityType DEF Lists
<1>2. new \in [1..m -> seen \ Range(list)] /\ \A i, j \in 1..m : i # j => new[i] # new[j]
  BY DEF SetToSeqs
<1> HIDE DEF m
<1>3. new \in Seq(Objects) /\ Len(new) = m /\ list \in Seq(Objects) /\ IsInjective(list)
  <2>1. new \in [1..m -> Objects]
    BY <1>2
  <2> QED BY <1>1, <2>1 DEF Lists
<1>4. /\ all \in Seq(Objects) /\ Len(all) = n + m
      /\ \A i \in 1..(n + m) : all[i] = IF i <= n THEN list[i] ELSE new[i - n]
  BY <1>1, <1>3
<1>5. DOMAIN all = 1..(n + m)
  BY <1>1, <1>4
<1> HIDE DEF all, n
<1>6. \A i \in 1..n : i \in 1..(n + m) /\ all[i] = list[i] /\ list[i] \in Range(list)
  <2>1. \A i \in 1..n : i \in 1..(n + m) /\ i <= n
    BY <1>1
  <2>2. \A i \in 1..n : list[i] \in Range(list)
    BY <1>1 DEF Range
  <2> QED BY <1>4, <2>1, <2>2
<1>7. \A i \in 1..(n + m) : i > n => /\ i - n \in 1..m /\ all[i] = new[i - n]
                                     /\ new[i - n] \in seen \ Range(list)
  BY <1>1, <1>2, <1>4
<1>8. ASSUME NEW i \in 1..(n + m), NEW j \in 1..(n + m), all[i] = all[j] PROVE i = j
  <2>0. \A k \in 1..(n + m) : k <= n => k \in 1..n
    BY <1>1
  <2>1. CASE i <= n /\ j <= n
    <3>1. i \in DOMAIN list /\ j \in DOMAIN list /\ list[i] = list[j]
      BY <1>1, <1>6, <1>8, <2>0, <2>1
    <3> QED BY <1>3, <3>1 DEF IsInjective
  <2>2. CASE i > n /\ j > n
    <3>1. new[i - n] = new[j - n] /\ i - n \in 1..m /\ j - n \in 1..m
      BY <1>7, <1>8, <2>2
    <3>2. i - n = j - n
      BY <1>2, <3>1
    <3> QED BY <1>1, <3>2
  <2>3. CASE i <= n /\ j > n
    BY <1>6, <1>7, <1>8, <2>0, <2>3
  <2>4. CASE i > n /\ j <= n
    BY <1>6, <1>7, <1>8, <2>0, <2>4
  <2> QED BY <1>1, <2>1, <2>2, <2>3, <2>4
<1>9. all \in Lists
  BY <1>4, <1>5, <1>8 DEF Lists, IsInjective
<1>10. Range(list) \subseteq Range(all)
  BY <1>1, <1>5, <1>6 DEF Range
<1>11. Range(all) \subseteq Range(list) \cup seen
  <2> SUFFICES ASSUME NEW i \in 1..(n + m) PROVE all[i] \in Range(list) \cup seen
    BY <1>5 DEF Range
  <2>1. CASE i <= n
    BY <1>1, <1>6, <2>1
  <2>2. CASE i > n
    BY <1>7, <2>2
  <2> QED BY <1>1, <2>1, <2>2
<1>12. list # <<>> => all # <<>> /\ all[1] = list[1]
  <2> SUFFICES ASSUME list # <<>> PROVE all # <<>> /\ all[1] = list[1]
    OBVIOUS
  <2>1. n # 0
    BY <1>3 DEF n
  <2>2. 1 \in 1..n /\ Len(all) # 0
    BY <1>1, <1>4, <2>1
  <2> QED BY <1>6, <2>2
<1>13. list = <<>> /\ all # <<>> => all[1] \in seen
  <2> SUFFICES ASSUME list = <<>>, all # <<>> PROVE all[1] \in seen
    OBVIOUS
  <2>1. n = 0 /\ Len(all) # 0
    BY <1>4 DEF n
  <2>2. 1 \in 1..(n + m) /\ 1 > n
    BY <1>1, <1>4, <2>1
  <2> QED BY <1>7, <2>2
<1> QED BY <1>9, <1>10, <1>11, <1>12, <1>13 DEF all, LeftOf

(* A scan sees what is in space only.                                      *)
LEMMA SeenInSpace ==
  ASSUME NEW s \in Ships, NEW seen \in MaySee(s)
  PROVE  seen \in SUBSET Objects /\ \A o \in seen : InSpace(o)
BY DEF MaySee

(* A cycle of an online computer in the terms of the lemmas.               *)
LEMMA ScanSweeps ==
  ASSUME BridgeTypeOK, NEW s \in Ships, Scan(s), Computer[s] \in powered
  PROVE  \E seen \in MaySee(s) : \E new \in SetToSeqs(seen \ Range(contacts[s])) :
           LET list == contacts[s] \o new
           IN  /\ list \in Lists /\ Swept(list, seen) \in Lists
               /\ contacts' = [contacts EXCEPT ![s] = Swept(list, seen)]
               /\ contacts'[s] = Swept(list, seen)
               /\ target' = TargetsAfter(s, Swept(list, seen))
<1>1. PICK seen \in MaySee(s) : \E new \in SetToSeqs(seen \ Range(contacts[s])) :
        /\ contacts' = [contacts EXCEPT ![s] = Swept(contacts[s] \o new, seen)]
        /\ target' = TargetsAfter(s, Swept(contacts[s] \o new, seen))
  BY DEF Scan
<1>2. PICK new \in SetToSeqs(seen \ Range(contacts[s])) :
        /\ contacts' = [contacts EXCEPT ![s] = Swept(contacts[s] \o new, seen)]
        /\ target' = TargetsAfter(s, Swept(contacts[s] \o new, seen))
  BY <1>1
<1>3. contacts[s] \in Lists /\ seen \in SUBSET Objects
  BY SeenInSpace DEF BridgeTypeOK, Lists
<1>4. contacts[s] \o new \in Lists
  BY <1>3, NewOnesBehind
<1>5. Swept(contacts[s] \o new, seen) \in Lists
  BY <1>4, SweepCleans
<1>6. contacts'[s] = Swept(contacts[s] \o new, seen)
  BY <1>2 DEF BridgeTypeOK
<1> QED BY <1>2, <1>4, <1>5, <1>6

(* A cycle leaves a ship's contacts and targets typed.                     *)
LEMMA ScanTyped ==
  ASSUME BridgeTypeOK, NEW s \in Ships, Scan(s)
  PROVE  /\ contacts' \in [Ships -> Seq(Objects)] /\ \A t \in Ships : IsInjective(contacts'[t])
         /\ target' \in [Weapons -> Objects \cup {None}]
<1>1. CASE UNCHANGED <<contacts, target>>
  BY <1>1 DEF BridgeTypeOK
<1>2. ASSUME NEW left \in Lists, contacts' = [contacts EXCEPT ![s] = left],
             target' = TargetsAfter(s, left)
      PROVE  /\ contacts' \in [Ships -> Seq(Objects)]
             /\ \A t \in Ships : IsInjective(contacts'[t])
             /\ target' \in [Weapons -> Objects \cup {None}]
  <2>1. left \in Seq(Objects) /\ IsInjective(left)
    BY DEF Lists
  <2>2. \A t \in Ships : contacts'[t] = IF t = s THEN left ELSE contacts[t]
    BY <1>2 DEF BridgeTypeOK
  <2>3. contacts' \in [Ships -> Seq(Objects)]
    BY <1>2, <2>1 DEF BridgeTypeOK
  <2>4. \A t \in Ships : IsInjective(contacts'[t])
    BY <2>1, <2>2 DEF BridgeTypeOK
  <2>5. target' \in [Weapons -> Objects \cup {None}]
    BY <1>2 DEF BridgeTypeOK, TargetsAfter
  <2> QED BY <2>3, <2>4, <2>5
<1>3. CASE Computer[s] \in powered
  BY <1>2, <1>3, ScanSweeps
<1> QED BY <1>1, <1>3 DEF Scan

(* A scan that drops a contact releases the weapons locked on it.          *)
LEMMA ScanKeepsLocks ==
  ASSUME BridgeTypeOK, LockIsContact, NEW s \in Ships, Scan(s)
  PROVE  LockIsContact'
<1>1. CASE UNCHANGED <<contacts, target>>
  BY <1>1 DEF LockIsContact
<1>2. ASSUME NEW left, contacts' = [contacts EXCEPT ![s] = left],
             target' = TargetsAfter(s, left)
      PROVE  LockIsContact'
  <2> SUFFICES ASSUME NEW w \in Weapons
               PROVE  target'[w] \in Range(contacts'[Owner[w]]) \cup {None}
    BY DEF LockIsContact
  <2>0. /\ target[w] \in Range(contacts[Owner[w]]) \cup {None}
        /\ target'[w] = IF Owner[w] = s /\ target[w] \in Range(contacts[s]) \ Range(left)
                        THEN None ELSE target[w]
    BY <1>2 DEF LockIsContact, TargetsAfter
  <2>1. CASE Owner[w] = s
    <3>1. contacts'[Owner[w]] = left
      BY <1>2, <2>1 DEF BridgeTypeOK
    <3> QED BY <2>0, <2>1, <3>1
  <2>2. CASE Owner[w] # s
    <3>1. contacts'[Owner[w]] = contacts[Owner[w]]
      BY <1>2, <2>2 DEF BridgeTypeOK
    <3> QED BY <2>0, <2>2, <3>1
  <2> QED BY <2>1, <2>2
<1>3. CASE Computer[s] \in powered
  BY <1>2, <1>3, ScanSweeps
<1> QED BY <1>1, <1>3 DEF Scan

(* A report puts the contacts into another order and loses none.           *)
LEMMA ReportSorts ==
  ASSUME BridgeTypeOK, NEW s \in Ships, DisplaySensorReport(s)
  PROVE  /\ contacts' \in [Ships -> Seq(Objects)] /\ \A t \in Ships : IsInjective(contacts'[t])
         /\ \A t \in Ships : Range(contacts'[t]) = Range(contacts[t])
<1>1. PICK order \in Bijection(DOMAIN contacts[s], DOMAIN contacts[s]) :
        contacts' = [contacts EXCEPT ![s] = [i \in DOMAIN contacts[s] |-> contacts[s][order[i]]]]
  BY DEF DisplaySensorReport
<1> DEFINE list == contacts[s]
           D == DOMAIN list
           sorted == [i \in D |-> list[order[i]]]
<1>2. /\ order \in [D -> D] /\ \A i, j \in D : order[i] = order[j] => i = j
      /\ \A j \in D : \E i \in D : order[i] = j
  BY DEF Bijection, Injection, Surjection, IsInjective
<1>3. list \in Seq(Objects) /\ IsInjective(list) /\ D = 1..Len(list) /\ Len(list) \in Nat
  BY DEF BridgeTypeOK
<1>4. sorted \in Seq(Objects)
  <2>1. \A i \in D : list[order[i]] \in Objects
    <3>1. \A k \in 1..Len(list) : list[k] \in Objects
      BY <1>3, ElementOfSeq
    <3> QED BY <1>2, <1>3, <3>1
  <2>2. sorted \in [1..Len(list) -> Objects]
    BY <1>3, <2>1
  <2>3. \A m \in Nat : [1..m -> Objects] \subseteq Seq(Objects)
    OBVIOUS
  <2> HIDE DEF sorted, list
  <2> QED BY <1>3, <2>2, <2>3
<1>5. IsInjective(sorted) /\ Range(sorted) = Range(list)
  <2> HIDE DEF list, D
  <2>1. DOMAIN sorted = D /\ \A i \in D : sorted[i] = list[order[i]]
    OBVIOUS
  <2>2. IsInjective(sorted)
    BY <1>2, <1>3, <2>1 DEF IsInjective, D
  <2>3. Range(sorted) = Range(list)
    BY <1>2, <2>1 DEF Range, D
  <2> QED BY <2>2, <2>3
<1>6. \A t \in Ships : contacts'[t] = IF t = s THEN sorted ELSE contacts[t]
  BY <1>1 DEF BridgeTypeOK
<1>7. contacts' \in [Ships -> Seq(Objects)]
  BY <1>1, <1>4 DEF BridgeTypeOK
<1> HIDE DEF sorted
<1>8. \A t \in Ships : IsInjective(contacts'[t]) /\ Range(contacts'[t]) = Range(contacts[t])
  BY <1>5, <1>6 DEF BridgeTypeOK
<1> QED BY <1>7, <1>8

-----------------------------------------------------------------------------
(* A weapon's charge stays within what it holds. *)
LEMMA ChargeTyped ==
  ASSUME BridgeTypeOK, NEW s \in Ships,
         charge' = [w \in Weapons |-> IF Owner[w] = s THEN Recharged(w) ELSE charge[w]]
  PROVE  charge' \in [Weapons -> Nat] /\ \A w \in Weapons : charge'[w] <= FullCharge[w]
<1> SUFFICES ASSUME NEW w \in Weapons
             PROVE  charge'[w] \in Nat /\ charge'[w] <= FullCharge[w]
  OBVIOUS
<1>1. /\ charge[w] \in Nat /\ charge[w] <= FullCharge[w]
      /\ FullCharge[w] \in Nat /\ ChargeSpeed[w] \in Nat
  BY DEF BridgeTypeOK
<1>2. Recharged(w) \in Nat /\ Recharged(w) <= FullCharge[w]
  BY <1>1 DEF Recharged, AtMost
<1> QED BY <1>1, <1>2

(* Losing power adds no system to those that have it. *)
LEMMA FireTyped ==
  ASSUME BridgeTypeOK, NEW w \in Weapons, Fire(w)
  PROVE  BridgeTypeOK'
<1>1. powered' \subseteq powered
  BY DEF Fire, HandleDamage, HullTakes
<1> QED BY <1>1 DEF Fire, Discharged, BridgeTypeOK

(* Contacts, locks, charges and the power of systems keep their types,     *)
(* whatever is shot, lands, is destroyed or restarted.                     *)
THEOREM BridgeTypeCorrect == Spec => []BridgeTypeOK
<1>1. Init => BridgeTypeOK
  <2>1. <<>> \in Seq(Objects) /\ IsInjective(<<>>)
    BY DEF IsInjective
  <2> QED BY <2>1 DEF Init, BridgeTypeOK
<1>2. BridgeTypeOK /\ [Next]_vars => BridgeTypeOK'
  <2> SUFFICES ASSUME BridgeTypeOK, [Next]_vars PROVE BridgeTypeOK'
    OBVIOUS
  <2>1. ASSUME NEW s \in Ships, CycleShip(s) PROVE BridgeTypeOK'
    <3>1. due' \subseteq Ships /\ UNCHANGED <<alive, berthed, powered>>
      BY <2>1 DEF CycleShip, BridgeTypeOK, shipVars
    <3>2. CASE UNCHANGED <<contacts, target, charge, absorption>>
      BY <3>1, <3>2 DEF BridgeTypeOK
    <3>3. CASE /\ Scan(s)
               /\ charge' = [w \in Weapons |-> IF Owner[w] = s THEN Recharged(w) ELSE charge[w]]
      BY <3>1, <3>3, ScanTyped, ChargeTyped DEF BridgeTypeOK
    <3> QED BY <2>1, <3>2, <3>3 DEF CycleShip
  <2>2. ASSUME NEW s \in Ships, NEW ws \in SUBSET WeaponsOf(s), NEW o \in Objects,
               LockWeapons(s, ws, o)
        PROVE  BridgeTypeOK'
    BY <2>2 DEF LockWeapons, BridgeTypeOK
  <2>3. ASSUME NEW s \in Ships, Land(s) \/ Launched(s) \/ RepairHull(s) PROVE BridgeTypeOK'
    BY <2>3 DEF Land, Launched, RepairHull, BridgeTypeOK
  <2>4. ASSUME NEW x \in Systems, SwitchPower(x) PROVE BridgeTypeOK'
    BY <2>4 DEF SwitchPower, BridgeTypeOK
  <2>5. ASSUME NEW o \in Objects, ObjectDestroyed(o) PROVE BridgeTypeOK'
    BY <2>5 DEF ObjectDestroyed, BridgeTypeOK
  <2>6. CASE Restart
    <3>1. <<>> \in Seq(Objects) /\ IsInjective(<<>>)
      BY DEF IsInjective
    <3> QED BY <2>6, <3>1 DEF Restart, BridgeTypeOK
  <2>7. CASE UNCHANGED vars
    BY <2>7 DEF vars, BridgeTypeOK
  <2>8. ASSUME NEW s \in Ships, DisplaySensorReport(s) PROVE BridgeTypeOK'
    BY <2>8, ReportSorts DEF DisplaySensorReport, BridgeTypeOK
  <2> QED BY <2>1, <2>2, <2>3, <2>4, <2>5, <2>6, <2>7, <2>8, FireTyped DEF Next
<1> QED BY <1>1, <1>2, PTL DEF Spec

-----------------------------------------------------------------------------
(* No weapon is locked on what its ship's computer does not have on its    *)
(* list, whatever the cycle erases and however long computers were off.    *)
THEOREM LocksAreContacts == Spec => []LockIsContact
<1>1. Init => LockIsContact
  BY DEF Init, LockIsContact
<1>2. BridgeTypeOK /\ LockIsContact /\ [Next]_vars => LockIsContact'
  <2> SUFFICES ASSUME BridgeTypeOK, LockIsContact, [Next]_vars PROVE LockIsContact'
    OBVIOUS
  <2>1. ASSUME NEW s \in Ships, CycleShip(s) PROVE LockIsContact'
    <3>1. CASE UNCHANGED <<contacts, target>>
      BY <3>1 DEF LockIsContact
    <3>2. CASE Scan(s)
      BY <3>2, ScanKeepsLocks
    <3> QED BY <2>1, <3>1, <3>2 DEF CycleShip
  <2>2. ASSUME NEW s \in Ships, NEW ws \in SUBSET WeaponsOf(s), NEW o \in Objects,
               LockWeapons(s, ws, o)
        PROVE  LockIsContact'
    <3> SUFFICES ASSUME NEW w \in Weapons
                 PROVE  target'[w] \in Range(contacts'[Owner[w]]) \cup {None}
      BY DEF LockIsContact
    <3>1. CASE w \in ws
      BY <2>2, <3>1 DEF LockWeapons, WeaponsOf
    <3>2. CASE w \notin ws
      BY <2>2, <3>2 DEF LockWeapons, LockIsContact
    <3> QED BY <3>1, <3>2
  <2>3. CASE UNCHANGED <<contacts, target>>
    BY <2>3 DEF LockIsContact
  <2>4. CASE Restart
    BY <2>4 DEF Restart, LockIsContact
  <2>6. ASSUME NEW s \in Ships, DisplaySensorReport(s) PROVE LockIsContact'
    <3> SUFFICES ASSUME NEW w \in Weapons
                 PROVE  target'[w] \in Range(contacts'[Owner[w]]) \cup {None}
      BY DEF LockIsContact
    <3>1. target' = target /\ Range(contacts'[Owner[w]]) = Range(contacts[Owner[w]])
      BY <2>6, ReportSorts DEF DisplaySensorReport
    <3> QED BY <3>1 DEF LockIsContact
  <2>5. CASE Next
    BY <2>1, <2>2, <2>3, <2>4, <2>5, <2>6
    DEF Next, Land, Launched, RepairHull, Fire, SwitchPower, ObjectDestroyed
  <2> QED BY <2>3, <2>5 DEF vars
<1> QED BY <1>1, <1>2, BridgeTypeCorrect, PTL DEF Spec

-----------------------------------------------------------------------------
(* After one cycle of an online computer at most the head of the list is   *)
(* no longer in space, however many objects have vanished and wherever     *)
(* they stood, and only when the former head has been erased: what all the *)
(* passes of the loop of HSComputer.cpp:107 come to.                       *)
THEOREM StaleStaysBounded == Spec => StaleIsBounded
<1> DEFINE Bound(s, k) ==
      /\ k = 1
      /\ contacts[s] # <<>> /\ contacts[s][1] \notin Range(contacts'[s])
<1>1. ASSUME BridgeTypeOK, NEW s \in Ships, CycleShip(s),
             hull[s] # 0, Computer[s] \in powered,
             NEW k \in DOMAIN contacts'[s], ~InSpace(contacts'[s][k])
      PROVE  Bound(s, k)
  <2>1. Scan(s)
    BY <1>1 DEF CycleShip, SystemsOf
  <2>2. PICK seen \in MaySee(s) : \E new \in SetToSeqs(seen \ Range(contacts[s])) :
          contacts'[s] = Swept(contacts[s] \o new, seen)
    BY <1>1, <2>1, ScanSweeps
  <2>3. PICK new \in SetToSeqs(seen \ Range(contacts[s])) :
          contacts'[s] = Swept(contacts[s] \o new, seen)
    BY <2>2
  <2> DEFINE old == contacts[s]
             list == old \o new
             left == Swept(list, seen)
  <2>4. old \in Lists /\ seen \in SUBSET Objects /\ \A o \in seen : InSpace(o)
    BY <1>1, SeenInSpace DEF BridgeTypeOK, Lists
  <2> HIDE DEF old
  <2>5. /\ list \in Lists
        /\ old # <<>> => list # <<>> /\ list[1] = old[1]
        /\ old = <<>> /\ list # <<>> => list[1] \in seen
    BY <2>3, <2>4, NewOnesBehind DEF old
  <2> HIDE DEF list
  <2>6. /\ left \in Lists /\ LeftOf(left, list) /\ CleanBehind(left, seen)
        /\ list # <<>> => HeadDecided(left, list, seen)
    BY <2>5, SweepCleans
  <2>7. contacts'[s] = left
    BY <2>3 DEF list, old
  <2> HIDE DEF left
  <2>8. left \in Seq(Objects) /\ k \in 1..Len(left) /\ Len(left) \in Nat
    BY <1>1, <2>6, <2>7 DEF Lists
  <2>9. left[k] \notin seen
    BY <1>1, <2>4, <2>7
  <2>10. k = 1
    BY <2>6, <2>8, <2>9 DEF CleanBehind
  <2>11. list # <<>>
    <3>1. left[k] \in Range(list)
      <4>1. k \in DOMAIN left
        BY <2>8
      <4>2. left[k] \in Range(left)
        BY <4>1 DEF Range
      <4> QED BY <2>6, <4>2 DEF LeftOf
    <3>2. CASE list = <<>>
      BY <3>1, <3>2 DEF Range
    <3> QED BY <3>2
  <2>12. list[1] \notin seen /\ list[1] \notin Range(left)
    BY <2>6, <2>9, <2>10, <2>11 DEF HeadDecided
  <2>13. old # <<>> /\ list[1] = old[1]
    BY <2>5, <2>11, <2>12
  <2> QED BY <2>7, <2>10, <2>12, <2>13 DEF old
<1>2. BridgeTypeOK /\ [Next]_vars =>
        [\A s \in Ships : CycleShip(s) /\ hull[s] # 0 /\ Computer[s] \in powered =>
           \A k \in DOMAIN contacts'[s] : ~InSpace(contacts'[s][k]) => Bound(s, k)]_vars
  <2> HIDE DEF Bound
  <2> QED BY <1>1
<1> QED BY <1>2, BridgeTypeCorrect, PTL DEF Spec, StaleIsBounded

-----------------------------------------------------------------------------
(* Damage. *)

(* Whole points of damage cost no more than the damage.                    *)
LEMMA WholePoints ==
  ASSUME NEW d \in Nat, NEW b \in Nat \ {0}
  PROVE  d \div b \in Nat /\ b * (d \div b) <= d
OBVIOUS

(* What the shields of an arc hold together, and those before one of them. *)
LEMMA CoveringHolds ==
  ASSUME HullTypeOK, NEW s \in Ships, NEW a \in Arcs
  PROVE  /\ SumFunctionOnSet(absorption, Covering(s, a)) \in Nat
         /\ \A h \in Covering(s, a) :
              LET before == {g \in Covering(s, a) : Position[g] < Position[h]}
              IN  /\ SumFunctionOnSet(absorption, before) \in Nat
                  /\ SumFunctionOnSet(absorption, before) + absorption[h]
                       <= SumFunctionOnSet(absorption, Covering(s, a))
<1>1. /\ IsFiniteSet(Covering(s, a)) /\ Covering(s, a) \subseteq Shields
      /\ \A h \in Covering(s, a) : absorption[h] \in Nat
  BY FS_Subset DEF Covering, HullTypeOK
<1>2. SumFunctionOnSet(absorption, Covering(s, a)) \in Nat
  BY ONLY <1>1, SumIsNat
<1>3. ASSUME NEW h \in Covering(s, a),
             NEW before, before = {g \in Covering(s, a) : Position[g] < Position[h]}
      PROVE  /\ SumFunctionOnSet(absorption, before) \in Nat
             /\ SumFunctionOnSet(absorption, before) + absorption[h]
                  <= SumFunctionOnSet(absorption, Covering(s, a))
  <2> DEFINE rest == Covering(s, a) \ {h}
  <2>1. /\ IsFiniteSet(rest) /\ \A g \in rest : absorption[g] \in Nat
        /\ before \in SUBSET rest
    <3>1. Position[h] \in Nat /\ ~ (Position[h] < Position[h])
      BY <1>1
    <3> QED BY <1>1, <1>3, <3>1, FS_Subset
  <2>2. /\ SumFunctionOnSet(absorption, before) \in Nat
        /\ SumFunctionOnSet(absorption, before) <= SumFunctionOnSet(absorption, rest)
    <3> HIDE DEF rest
    <3> QED BY ONLY <2>1, SumOfPart
  <2>3. SumFunctionOnSet(absorption, Covering(s, a))
          = absorption[h] + SumFunctionOnSet(absorption, rest)
    BY ONLY <1>1, SumWithout, h \in Covering(s, a), Nat \subseteq Int
  <2>4. SumFunctionOnSet(absorption, rest) \in Nat /\ absorption[h] \in Nat
    <3> HIDE DEF rest
    <3> QED BY ONLY <1>1, <2>1, SumIsNat, h \in Covering(s, a)
  <2> HIDE DEF rest
  <2> QED BY ONLY <2>2, <2>3, <2>4
<1> QED BY <1>2, <1>3

(* What gets past the shields is no more than came, and if it is anything  *)
(* every shield of the arc is down.                                        *)
LEMMA ShieldsGoFirst ==
  ASSUME HullTypeOK, NEW s \in Ships, NEW a \in Arcs, NEW d \in Nat
  PROVE  /\ GetsPast(s, a, d) \in Nat /\ GetsPast(s, a, d) <= d
         /\ GetsPast(s, a, d) # 0
              => ShieldsAfter(s, a, d)
                   = [h \in Shields |-> IF h \in Covering(s, a) THEN 0 ELSE absorption[h]]
<1> DEFINE all == SumFunctionOnSet(absorption, Covering(s, a))
<1>1. all \in Nat
  BY CoveringHolds
<1>2. GetsPast(s, a, d) = AtLeast(0, d - all)
  BY DEF GetsPast
<1>3. GetsPast(s, a, d) \in Nat /\ GetsPast(s, a, d) <= d
        /\ (GetsPast(s, a, d) # 0 => d > all)
  <2> HIDE DEF all
  <2> QED BY <1>1, <1>2 DEF AtLeast
<1>4. ASSUME GetsPast(s, a, d) # 0, NEW h \in Covering(s, a)
      PROVE  ShieldsAfter(s, a, d)[h] = 0
  <2> DEFINE before == SumFunctionOnSet(absorption,
                         {g \in Covering(s, a) : Position[g] < Position[h]})
  <2>1. before \in Nat /\ before + absorption[h] <= all
    BY CoveringHolds
  <2>2. h \in Shields /\ absorption[h] \in Nat
    BY DEF Covering, HullTypeOK
  <2>3. Passing(s, a, d, h) = AtLeast(0, d - before)
    BY DEF Passing
  <2>4. ShieldsAfter(s, a, d)[h] = AtLeast(0, absorption[h] - Passing(s, a, d, h))
    BY <2>2 DEF ShieldsAfter
  <2> HIDE DEF all, before
  <2> QED BY ONLY <1>1, <1>3, <1>4, <2>1, <2>2, <2>3, <2>4, d \in Nat DEF AtLeast
<1>5. ASSUME GetsPast(s, a, d) # 0
      PROVE  ShieldsAfter(s, a, d)
               = [h \in Shields |-> IF h \in Covering(s, a) THEN 0 ELSE absorption[h]]
  <2>1. ShieldsAfter(s, a, d) = [h \in Shields |-> ShieldsAfter(s, a, d)[h]]
    BY DEF ShieldsAfter
  <2>2. \A h \in Shields : h \notin Covering(s, a) => ShieldsAfter(s, a, d)[h] = absorption[h]
    BY DEF ShieldsAfter
  <2> QED BY <1>4, <1>5, <2>1, <2>2
<1> QED BY <1>3, <1>5

(* What the hull takes, and what the shields are left with, when damage is *)
(* handled.                                                                *)
LEMMA DamageIsPaid ==
  ASSUME HullTypeOK, NEW s \in Ships, NEW a \in Arcs, NEW d \in Nat, NEW k \in Weakenings,
         HandleDamage(s, a, d, k)
  PROVE  /\ absorption' \in [Shields -> Nat]
         /\ \A h \in Shields : absorption'[h] <= absorption[h]
         /\ \/ hull' = hull
            \/ /\ absorption' = [h \in Shields |-> IF h \in Covering(s, a) THEN 0
                                                  ELSE absorption[h]]
               /\ \E points \in Nat : Grain * points <= d /\ HullTakes(s, points)
<1>1. k \in Nat /\ Grain \in Nat \ {0}
  OBVIOUS
<1>2. CASE k = 0
  <2>1. d \div Grain \in Nat /\ Grain * (d \div Grain) <= d
    BY <1>1, WholePoints
  <2>2. HullTakes(s, d \div Grain)
        /\ absorption' = [h \in Shields |-> IF h \in Covering(s, a) THEN 0 ELSE absorption[h]]
    BY <1>2 DEF HandleDamage
  <2>3. \A h \in Shields : absorption'[h] \in Nat /\ absorption'[h] <= absorption[h]
    BY <2>2 DEF HullTypeOK
  <2> QED BY <2>1, <2>2, <2>3
<1>3. CASE k # 0
  <2> DEFINE past == GetsPast(s, a, k * d)
             points == past \div (k * Grain)
  <2>1. k * d \in Nat /\ k * Grain \in Nat \ {0}
    BY ONLY <1>1, <1>3, d \in Nat
  <2>2. /\ absorption' = ShieldsAfter(s, a, k * d)
        /\ IF past = 0 THEN UNCHANGED <<hull, powered>> ELSE HullTakes(s, points)
    BY <1>3 DEF HandleDamage
  <2>3. /\ past \in Nat /\ past <= k * d
        /\ past # 0 => ShieldsAfter(s, a, k * d)
                         = [h \in Shields |-> IF h \in Covering(s, a) THEN 0 ELSE absorption[h]]
    <3> DEFINE scaled == k * d
    <3>1. scaled \in Nat
      BY <2>1
    <3> HIDE DEF scaled
    <3>2. /\ GetsPast(s, a, scaled) \in Nat /\ GetsPast(s, a, scaled) <= scaled
          /\ GetsPast(s, a, scaled) # 0
               => ShieldsAfter(s, a, scaled)
                    = [h \in Shields |-> IF h \in Covering(s, a) THEN 0 ELSE absorption[h]]
      BY <3>1, ShieldsGoFirst
    <3> QED BY <3>2 DEF scaled
  <2>4. ASSUME NEW h \in Shields
        PROVE  absorption'[h] \in Nat /\ absorption'[h] <= absorption[h]
    <3>1. absorption[h] \in Nat
      BY DEF HullTypeOK
    <3>2. CASE h \notin Covering(s, a)
      BY <2>2, <3>1, <3>2 DEF ShieldsAfter
    <3>3. CASE h \in Covering(s, a)
      <4> DEFINE before == SumFunctionOnSet(absorption,
                             {g \in Covering(s, a) : Position[g] < Position[h]})
      <4>1. before \in Nat
        BY ONLY <3>3, HullTypeOK, s \in Ships, a \in Arcs, CoveringHolds
      <4>2. Passing(s, a, k * d, h) \in Nat
        <5>1. Passing(s, a, k * d, h) = AtLeast(0, k * d - before)
          BY DEF Passing
        <5> HIDE DEF before
        <5> QED BY ONLY <2>1, <4>1, <5>1 DEF AtLeast
      <4>3. absorption'[h] = AtLeast(0, absorption[h] - Passing(s, a, k * d, h))
        BY <2>2, <3>3 DEF ShieldsAfter
      <4> QED BY ONLY <3>1, <4>2, <4>3 DEF AtLeast
    <3> QED BY <3>2, <3>3
  <2>5. absorption' \in [Shields -> Nat]
    BY <2>2, <2>4 DEF ShieldsAfter
  <2>6. points \in Nat /\ Grain * points <= d
    <3>1. points \in Nat /\ (k * Grain) * points <= past
      <4> HIDE DEF past
      <4> QED BY <2>1, <2>3, WholePoints
    <3>2. k * (Grain * points) <= k * d
      <4> HIDE DEF past, points
      <4> QED BY ONLY <1>1, <2>1, <2>3, <3>1, d \in Nat
    <3>3. Grain * points \in Nat
      <4> HIDE DEF points
      <4> QED BY ONLY <1>1, <3>1
    <3>4. ASSUME NEW x \in Nat, k * x <= k * d PROVE x <= d
      BY ONLY <1>1, <1>3, <3>4, d \in Nat
    <3> QED BY <3>1, <3>2, <3>3, <3>4
  <2> HIDE DEF past, points
  <2> QED BY <2>2, <2>3, <2>4, <2>5, <2>6
<1> QED BY <1>2, <1>3

(* A shot is one of a weapon that is locked and charged, hits at most its  *)
(* target and is paid for with all the charge.                             *)
LEMMA ShotIsPaid ==
  ASSUME BridgeTypeOK, HullTypeOK, NEW w \in Weapons, Fire(w)
  PROVE  /\ absorption' \in [Shields -> Nat]
         /\ \A h \in Shields : absorption'[h] <= absorption[h]
         /\ \/ hull' = hull
            \/ \E a \in Arcs, points \in Nat :
                 /\ target[w] \in Ships
                 /\ absorption' = [h \in Shields |-> IF h \in Covering(target[w], a) THEN 0
                                                    ELSE absorption[h]]
                 /\ Grain * points <= charge[w]
                 /\ HullTakes(target[w], points)
<1>1. CASE UNCHANGED <<hull, powered, absorption>>
  <2>1. \A h \in Shields : absorption[h] \in Nat /\ absorption[h] <= absorption[h]
    BY DEF HullTypeOK
  <2> QED BY <1>1, <2>1 DEF HullTypeOK
<1>2. ASSUME target[w] \in Ships, NEW f \in Fadings, NEW a \in Arcs, NEW k \in Weakenings,
             charge[w] > f, HandleDamage(target[w], a, charge[w] - f, k)
      PROVE  /\ absorption' \in [Shields -> Nat]
             /\ \A h \in Shields : absorption'[h] <= absorption[h]
             /\ \/ hull' = hull
                \/ \E points \in Nat :
                     /\ absorption' = [h \in Shields |->
                          IF h \in Covering(target[w], a) THEN 0 ELSE absorption[h]]
                     /\ Grain * points <= charge[w]
                     /\ HullTakes(target[w], points)
  <2> DEFINE d == charge[w] - f
  <2>1. d \in Nat /\ d <= charge[w] /\ charge[w] \in Nat /\ Grain \in Nat
    BY <1>2 DEF BridgeTypeOK
  <2>2. HandleDamage(target[w], a, d, k)
    BY <1>2
  <2>3. \A points \in Nat : Grain * points <= d => Grain * points <= charge[w]
    <3> HIDE DEF d
    <3> QED BY ONLY <2>1
  <2> HIDE DEF d
  <2> QED BY <1>2, <2>1, <2>2, <2>3, DamageIsPaid
<1>3. \/ UNCHANGED <<hull, powered, absorption>>
      \/ /\ target[w] \in Ships
         /\ \E f \in Fadings, a \in Arcs, k \in Weakenings :
              charge[w] > f /\ HandleDamage(target[w], a, charge[w] - f, k)
  BY Zenon DEF Fire
<1> QED BY <1>1, <1>2, <1>3

(* A hull is hit on one ship, and for no more than the points it takes.    *)
LEMMA HullLosesPoints ==
  ASSUME HullTypeOK, NEW t \in Ships, NEW points \in Nat, HullTakes(t, points),
         NEW s \in Ships
  PROVE  /\ hull'[s] \in Nat /\ hull'[s] <= hull[s]
         /\ hull'[s] < hull[s] => s = t /\ hull[s] - hull'[s] <= points
<1>1. hull \in [Ships -> Nat] /\ hull[s] \in Nat
  BY DEF HullTypeOK
<1>2. hull' = [hull EXCEPT ![t] = AtLeast(0, @ - points)]
  BY Zenon DEF HullTakes
<1>3. CASE s # t
  BY <1>1, <1>2, <1>3
<1>4. CASE s = t
  <2>1. hull'[s] = AtLeast(0, hull[s] - points)
    BY <1>1, <1>2, <1>4
  <2> QED BY ONLY <1>1, <1>4, <2>1, points \in Nat DEF AtLeast
<1> QED BY <1>3, <1>4

(* Only a shot takes points from a hull. *)
LEMMA OnlyShotsHurt ==
  ASSUME BridgeTypeOK, HullTypeOK, [Next]_vars
  PROVE  \/ \E w \in Weapons : Fire(w)
         \/ /\ hull' \in [Ships -> Nat]
            /\ \A s \in Ships : hull[s] <= hull'[s] /\ hull'[s] <= HullPoints[s]
<1>0. \A s \in Ships : hull[s] \in Nat /\ hull[s] <= hull[s]
  BY DEF HullTypeOK
<1>1. CASE hull' = hull
  BY <1>0, <1>1 DEF HullTypeOK
<1>2. ASSUME NEW q \in Ships, RepairHull(q)
      PROVE  /\ hull' \in [Ships -> Nat]
             /\ \A s \in Ships : hull[s] <= hull'[s] /\ hull'[s] <= HullPoints[s]
  <2>1. hull[q] < HullPoints[q] /\ hull' = [hull EXCEPT ![q] = @ + 1]
    BY <1>2 DEF RepairHull
  <2>2. hull \in [Ships -> Nat] /\ \A s \in Ships : hull[s] <= HullPoints[s]
    BY DEF HullTypeOK
  <2>3. HullPoints \in [Ships -> Nat]
    OBVIOUS
  <2> QED BY ONLY <2>1, <2>2, <2>3, q \in Ships
<1>3. CASE UNCHANGED vars
  BY <1>1, <1>3 DEF vars
<1>4. CASE Next
  <2>1. \/ hull' = hull
        \/ \E q \in Ships : RepairHull(q)
        \/ \E w \in Weapons : Fire(w)
    BY <1>4
    DEF Next, CycleShip, shipVars, Land, Launched, DisplaySensorReport, LockWeapons, SwitchPower,
        ObjectDestroyed,
        Restart
  <2> QED BY <2>1, <1>1, <1>2
<1> QED BY <1>3, <1>4

(* Only a cycle of the ship's makes its shields stronger. *)
LEMMA OnlyCyclesMend ==
  ASSUME BridgeTypeOK, HullTypeOK, [Next]_vars
  PROVE  \/ \E w \in Weapons : Fire(w)
         \/ /\ absorption' \in [Shields -> Nat]
            /\ \A h \in Shields : absorption'[h] <= MaxAbsorption[h]
<1>1. ASSUME absorption' = absorption
      PROVE  /\ absorption' \in [Shields -> Nat]
             /\ \A h \in Shields : absorption'[h] <= MaxAbsorption[h]
  BY <1>1 DEF HullTypeOK
<1>2. ASSUME NEW s \in Ships,
             absorption' = [h \in Shields |-> IF Owner[h] = s THEN Regenerated(h)
                                             ELSE absorption[h]]
      PROVE  /\ absorption' \in [Shields -> Nat]
             /\ \A h \in Shields : absorption'[h] <= MaxAbsorption[h]
  <2>1. ASSUME NEW h \in Shields
        PROVE  absorption'[h] \in Nat /\ absorption'[h] <= MaxAbsorption[h]
    <3>1. /\ absorption[h] \in Nat /\ absorption[h] <= MaxAbsorption[h]
          /\ MaxAbsorption[h] \in Nat /\ Regen[h] \in Nat
      BY DEF HullTypeOK
    <3>2. Regenerated(h) \in Nat /\ Regenerated(h) <= MaxAbsorption[h]
      BY ONLY <3>1 DEF Regenerated, AtMost
    <3> QED BY <1>2, <3>1, <3>2
  <2> QED BY <1>2, <2>1
<1>3. ASSUME NEW s \in Ships, CycleShip(s)
      PROVE  /\ absorption' \in [Shields -> Nat]
             /\ \A h \in Shields : absorption'[h] <= MaxAbsorption[h]
  <2>1. \/ UNCHANGED <<contacts, target, charge, absorption>>
        \/ absorption' = [h \in Shields |-> IF Owner[h] = s THEN Regenerated(h)
                                            ELSE absorption[h]]
    BY <1>3, Zenon DEF CycleShip
  <2>2. CASE absorption' = [h \in Shields |-> IF Owner[h] = s THEN Regenerated(h)
                                             ELSE absorption[h]]
    BY ONLY <1>2, <2>2, s \in Ships, Zenon
  <2>3. CASE UNCHANGED <<contacts, target, charge, absorption>>
    BY <1>1, <2>3
  <2> QED BY <2>1, <2>2, <2>3
<1>4. CASE UNCHANGED vars
  BY <1>1, <1>4 DEF vars
<1>5. CASE Next
  <2>1. \/ absorption' = absorption
        \/ \E s \in Ships : CycleShip(s)
        \/ \E w \in Weapons : Fire(w)
    BY <1>5
    DEF Next, Land, Launched, DisplaySensorReport, LockWeapons, SwitchPower, ObjectDestroyed,
        RepairHull, Restart
  <2> QED BY <2>1, <1>1, <1>3
<1> QED BY <1>4, <1>5

(* Hulls and shields stay within what they can hold. *)
THEOREM CombatTypeCorrect == Spec => []TypeOK
<1>1. Init => HullTypeOK
  <2> SUFFICES ASSUME Init PROVE HullTypeOK
    OBVIOUS
  <2>1. hull = HullPoints /\ \A s \in Ships : HullPoints[s] \in Nat /\ hull[s] <= HullPoints[s]
    BY DEF Init
  <2>2. absorption = [h \in Shields |-> 0] /\ \A h \in Shields : 0 <= MaxAbsorption[h]
    BY DEF Init
  <2> QED BY <2>1, <2>2 DEF HullTypeOK
<1>2. BridgeTypeOK /\ HullTypeOK /\ [Next]_vars => HullTypeOK'
  <2> SUFFICES ASSUME BridgeTypeOK, HullTypeOK, [Next]_vars PROVE HullTypeOK'
    OBVIOUS
  <2>1. ASSUME NEW w \in Weapons, Fire(w) PROVE HullTypeOK'
    <3>1. /\ \A s \in Ships : hull[s] \in Nat /\ hull[s] <= HullPoints[s]
          /\ HullPoints \in [Ships -> Nat]
      BY DEF HullTypeOK
    <3>2. /\ absorption' \in [Shields -> Nat]
          /\ \A h \in Shields : absorption'[h] <= MaxAbsorption[h]
      <4>1. \A h \in Shields : absorption[h] \in Nat /\ absorption[h] <= MaxAbsorption[h]
                               /\ MaxAbsorption[h] \in Nat
        BY DEF HullTypeOK
      <4>2. absorption' \in [Shields -> Nat]
            /\ \A h \in Shields : absorption'[h] <= absorption[h]
        BY <2>1, ShotIsPaid
      <4> QED BY ONLY <4>1, <4>2
    <3>3. hull' \in [Ships -> Nat] /\ \A s \in Ships : hull'[s] <= hull[s]
      <4>1. CASE hull' = hull
        BY <3>1, <4>1 DEF HullTypeOK
      <4>2. ASSUME NEW t \in Ships, NEW points \in Nat, HullTakes(t, points)
            PROVE  hull' \in [Ships -> Nat] /\ \A s \in Ships : hull'[s] <= hull[s]
        <5>1. hull' = [s \in Ships |-> hull'[s]]
          BY <4>2 DEF HullTakes, HullTypeOK
        <5>2. \A s \in Ships : hull'[s] \in Nat /\ hull'[s] <= hull[s]
          BY <4>2, HullLosesPoints
        <5> QED BY <5>1, <5>2
      <4> QED BY <2>1, <4>1, <4>2, ShotIsPaid
    <3>4. \A s \in Ships : hull'[s] <= HullPoints[s]
      BY ONLY <3>1, <3>3
    <3> QED BY <3>2, <3>3, <3>4 DEF HullTypeOK
  <2>2. CASE ~ \E w \in Weapons : Fire(w)
    BY <2>2, OnlyShotsHurt, OnlyCyclesMend DEF HullTypeOK
  <2> QED BY <2>1, <2>2
<1> QED BY <1>1, <1>2, BridgeTypeCorrect, PTL DEF Spec, TypeOK

(* Whoever loses points of the hull is the target of a weapon whose charge *)
(* is spent and was worth that much.                                       *)
THEOREM HullsArePaidFor == Spec => HullPaidByCharge
<1>1. ASSUME TypeOK, [Next]_vars, NEW s \in Ships, hull'[s] < hull[s]
      PROVE  \E w \in Weapons :
               /\ target[w] = s /\ charge[w] >= MinCharge[w] /\ charge'[w] = 0
               /\ Grain * (hull[s] - hull'[s]) <= charge[w]
  <2>1. hull[s] \in Nat /\ BridgeTypeOK /\ HullTypeOK
    BY <1>1 DEF TypeOK, HullTypeOK
  <2>2. ~ (hull[s] <= hull'[s]) \/ hull'[s] \notin Nat
    BY <1>1, <2>1
  <2>3. PICK w \in Weapons : Fire(w)
    BY <1>1, <2>1, <2>2, OnlyShotsHurt
  <2>4. PICK points \in Nat : /\ target[w] \in Ships /\ Grain * points <= charge[w]
                              /\ HullTakes(target[w], points)
    <3>1. hull' # hull
      BY <1>1, <2>1
    <3> QED BY <2>1, <2>3, <3>1, ShotIsPaid
  <2>5. /\ hull'[s] \in Nat /\ s = target[w] /\ hull[s] - hull'[s] <= points
    BY <1>1, <2>1, <2>4, HullLosesPoints
  <2>6. charge[w] \in Nat /\ charge \in [Weapons -> Nat] /\ MinCharge[w] \in Nat
    BY <2>1 DEF BridgeTypeOK
  <2>7. charge[w] >= MinCharge[w] /\ charge'[w] = 0
    BY <2>3, <2>6 DEF Fire, Discharged
  <2>8. Grain * (hull[s] - hull'[s]) <= charge[w]
    <3>1. ASSUME NEW lost \in Nat, lost <= points PROVE Grain * lost <= Grain * points
      <4>1. Grain \in Nat
        OBVIOUS
      <4> QED BY ONLY <3>1, <4>1, points \in Nat
    <3>2. hull[s] - hull'[s] \in Nat
      BY <1>1, <2>1, <2>5
    <3>3. Grain \in Nat
      OBVIOUS
    <3>4. Grain * (hull[s] - hull'[s]) <= Grain * points
      BY <2>5, <3>1, <3>2
    <3> QED BY ONLY <2>4, <2>6, <3>2, <3>3, <3>4
  <2> QED BY <2>5, <2>7, <2>8
<1>2. TypeOK /\ [Next]_vars =>
        [\A s \in Ships : hull'[s] < hull[s] =>
           \E w \in Weapons :
             /\ target[w] = s /\ charge[w] >= MinCharge[w] /\ charge'[w] = 0
             /\ Grain * (hull[s] - hull'[s]) <= charge[w]]_vars
  BY <1>1
<1> QED BY <1>2, CombatTypeCorrect, PTL DEF Spec, HullPaidByCharge

(* And it is hit through one arc, whose shields have all gone down.        *)
THEOREM ShieldsGoDownFirst == Spec => ShieldsFirst
<1>1. ASSUME TypeOK, [Next]_vars, NEW s \in Ships, hull'[s] < hull[s]
      PROVE  \E a \in Arcs : \A h \in Shields :
               absorption'[h] = IF h \in Covering(s, a) THEN 0 ELSE absorption[h]
  <2>1. hull[s] \in Nat /\ BridgeTypeOK /\ HullTypeOK
    BY <1>1 DEF TypeOK, HullTypeOK
  <2>2. ~ (hull[s] <= hull'[s]) \/ hull'[s] \notin Nat
    BY <1>1, <2>1
  <2>3. PICK w \in Weapons : Fire(w)
    BY <1>1, <2>1, <2>2, OnlyShotsHurt
  <2>4. PICK a \in Arcs, points \in Nat :
          /\ target[w] \in Ships /\ HullTakes(target[w], points)
          /\ absorption' = [h \in Shields |-> IF h \in Covering(target[w], a) THEN 0
                                             ELSE absorption[h]]
    <3>1. hull' # hull
      BY <1>1, <2>1
    <3> QED BY <2>1, <2>3, <3>1, ShotIsPaid
  <2>5. s = target[w]
    BY <1>1, <2>1, <2>4, HullLosesPoints
  <2> QED BY <2>4, <2>5
<1>2. TypeOK /\ [Next]_vars =>
        [\A s \in Ships : hull'[s] < hull[s] =>
           \E a \in Arcs : \A h \in Shields :
             absorption'[h] = IF h \in Covering(s, a) THEN 0 ELSE absorption[h]]_vars
  BY <1>1
<1> QED BY <1>2, CombatTypeCorrect, PTL DEF Spec, ShieldsFirst
=============================================================================
