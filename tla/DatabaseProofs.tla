--------------------------- MODULE DatabaseProofs ---------------------------
(***************************************************************************)
(* Theorems about Database, for any things, any rows to begin with and any *)
(* number of commands and of dumps that break off.                         *)
(***************************************************************************)
EXTENDS Database, Sums

-----------------------------------------------------------------------------
(* The minimum of a finite set of numbers is in it and no greater than     *)
(* any.                                                                    *)
LEMMA MinIsLeast ==
  ASSUME NEW S, IsFiniteSet(S), S \subseteq Int, S # {}
  PROVE  Min(S) \in S /\ \A y \in S : Min(S) <= y
BY FiniteHasLeast DEF Min

(* The maximum of a finite set of numbers is in it and no less than any.   *)
LEMMA MaxIsGreatest ==
  ASSUME NEW S, IsFiniteSet(S), S \subseteq Int, S # {}
  PROVE  Max(S) \in S /\ \A y \in S : Max(S) >= y
BY FiniteHasGreatest DEF Max

-----------------------------------------------------------------------------
(* The kinds have no thing in common.                                      *)
LEMMA ThingsAreApart ==
  /\ Things = Rooms \cup Classes \cup Territories \cup Ships \cup Pods \cup Systems
                \cup Instances \cup Consoles
  /\ Rooms \cap (Classes \cup Systems \cup Bodies \cup Parts) = {}
  /\ Classes \cap (Systems \cup Bodies \cup Parts) = {}
  /\ Systems \cap (Bodies \cup Parts) = {}
  /\ Territories \cap (Ships \cup Pods \cup Parts) = {}
  /\ Ships \cap (Pods \cup Parts) = {}
  /\ Pods \cap Parts = {}
  /\ Instances \cap Consoles = {}
<1> DEFINE kinds == <<Rooms, Classes, Territories, Ships, Pods, Systems, Instances, Consoles>>
<1>1. \A m, n \in 1..8 : m # n => kinds[m] \cap kinds[n] = {}
  BY DatabaseAssumption
<1>2. /\ kinds[1] = Rooms /\ kinds[2] = Classes /\ kinds[3] = Territories /\ kinds[4] = Ships
      /\ kinds[5] = Pods /\ kinds[6] = Systems /\ kinds[7] = Instances /\ kinds[8] = Consoles
  OBVIOUS
<1> HIDE DEF kinds
<1>3. Things = Rooms \cup Classes \cup Territories \cup Ships \cup Pods \cup Systems
                 \cup Instances \cup Consoles
  BY DEF Things, Bodies, Parts
<1>4. /\ \A n \in {2, 3, 4, 5, 6, 7, 8} : Rooms \cap kinds[n] = {}
      /\ \A n \in {3, 4, 5, 6, 7, 8} : Classes \cap kinds[n] = {}
      /\ \A n \in {3, 4, 5, 7, 8} : Systems \cap kinds[n] = {}
      /\ \A n \in {4, 5, 7, 8} : Territories \cap kinds[n] = {}
      /\ \A n \in {5, 7, 8} : Ships \cap kinds[n] = {}
      /\ \A n \in {7, 8} : Pods \cap kinds[n] = {}
      /\ Instances \cap Consoles = {}
  BY <1>1, <1>2
<1> QED BY <1>2, <1>3, <1>4 DEF Bodies, Parts

(* A table has finitely many rows.                                         *)
LEMMA FiniteTables ==
  ASSUME NEW S, S \subseteq Things, NEW m
  PROVE  IsFiniteSet(Existing(S, m))
BY FS_Subset, DatabaseAssumption DEF Existing

(* The numbers in use are finitely many, and no more than the things.      *)
LEMMA NumbersAreFinite ==
  ASSUME NEW S, S \subseteq Things, NEW m
  PROVE  /\ IsFiniteSet(Numbers(S, m))
         /\ Cardinality(Numbers(S, m)) <= Cardinality(Existing(S, m))
<1> DEFINE E == Existing(S, m)
           N == Numbers(S, m)
           f == [x \in E |-> m[x].id]
<1>1. f \in [E -> N] /\ \A n \in N : \E x \in E : f[x] = n
  BY DEF Numbers
<1>2. f \in Surjection(E, N)
  BY <1>1 DEF Surjection
<1>3. IsFiniteSet(E)
  BY FiniteTables
<1> HIDE DEF f, E, N
<1>4. IsFiniteSet(N) /\ Cardinality(N) <= Cardinality(E)
  BY <1>2, <1>3, FS_Surjection
<1> QED BY <1>4 DEF E, N

(* A place where the loop of AddHullClass and AddSystem goes on.           *)
Stands(S, n) == Below(S, n) <= n /\ n < Below(S, n + 1)

(* The numbers below n are finitely many, and no more than there are.      *)
LEMMA BelowIsNatural ==
  ASSUME NEW S, S \subseteq Things, NEW n
  PROVE  Below(S, n) \in Nat /\ Below(S, n) <= Cardinality(Existing(S, mem))
<1> DEFINE E == Existing(S, mem)
           B == {x \in E : mem[x].id < n}
<1>1. IsFiniteSet(E) /\ B \in SUBSET E
  BY FiniteTables
<1> HIDE DEF B, E
<1>2. IsFiniteSet(B) /\ Cardinality(B) <= Cardinality(E)
  BY <1>1, FS_Subset
<1>3. Cardinality(B) \in Nat
  BY <1>2, FS_CardinalityType
<1> QED BY <1>2, <1>3 DEF Below, B, E

(* The loop ends at the first place where it does not go on.               *)
LEMMA LoopEnds ==
  ASSUME NEW S, S \subseteq Things
  PROVE  /\ FreeNumber(S) \in Nat /\ ~Stands(S, FreeNumber(S))
         /\ \A k \in Nat : k < FreeNumber(S) => Stands(S, k)
<1> DEFINE c == Cardinality(Existing(S, mem))
           F == {n \in 0..c : ~Stands(S, n)}
<1>1. c \in Nat
  BY FiniteTables, FS_CardinalityType
<1>2. c \in F
  BY <1>1, BelowIsNatural DEF Stands
<1>3. IsFiniteSet(0..c)
  BY <1>1, FS_Interval
<1> HIDE DEF c
<1>4. IsFiniteSet(F)
  BY <1>3, FS_Subset
<1>5. F \subseteq Int /\ F # {} /\ F \subseteq 0..c /\ \A n \in F : ~Stands(S, n)
  BY <1>1, <1>2
<1>6. \A k \in 0..c : ~Stands(S, k) => k \in F
  OBVIOUS
<1>7. FreeNumber(S) = Min(F)
  BY DEF FreeNumber, Stands, c
<1> HIDE DEF F
<1>8. Min(F) \in F /\ \A y \in F : Min(F) <= y
  BY <1>4, <1>5, MinIsLeast
<1>9. Min(F) \in 0..c /\ ~Stands(S, Min(F))
  BY <1>5, <1>8
<1>10. ASSUME NEW k \in Nat, k < Min(F) PROVE Stands(S, k)
  <2>1. k \in 0..c
    BY <1>1, <1>9, <1>10
  <2>2. k \notin F
    <3>1. ~(Min(F) <= k)
      BY <1>1, <1>9, <1>10
    <3> QED BY <1>8, <3>1
  <2> QED BY <1>6, <2>1, <2>2
<1> QED BY <1>1, <1>7, <1>9, <1>10

(* Of numbers that differ no more than n are below n.                      *)
LEMMA BelowIsBounded ==
  ASSUME NEW S, S \subseteq Things, \A x \in Existing(S, mem) : mem[x].id \in Nat,
         DistinctIn(S, mem), NEW n \in Nat
  PROVE  Below(S, n) <= n
<1> DEFINE B == {x \in Existing(S, mem) : mem[x].id < n}
           T == 0..(n - 1)
           f == [x \in B |-> mem[x].id]
<1>1. \A x \in B : mem[x].id \in T
  OBVIOUS
<1>2. \A x, y \in B : mem[x].id = mem[y].id => x = y
  BY DEF DistinctIn
<1>3. f \in [B -> T] /\ \A x \in B : f[x] = mem[x].id
  BY <1>1
<1>4. IsFiniteSet(T) /\ Cardinality(T) = n
  BY FS_Interval
<1>5. Below(S, n) = Cardinality(B)
  BY DEF Below
<1> HIDE DEF B, T, f
<1>6. f \in Injection(B, T)
  BY <1>2, <1>3 DEF Injection, IsInjective
<1>7. Cardinality(B) <= Cardinality(T)
  BY <1>4, <1>6, FS_Injection
<1> QED BY <1>4, <1>5, <1>7

(* A number in use counts below the next one.                              *)
LEMMA InUseCounts ==
  ASSUME NEW S, S \subseteq Things, \A x \in Existing(S, mem) : mem[x].id \in Nat,
         NEW z \in Existing(S, mem)
  PROVE  Below(S, mem[z].id) < Below(S, mem[z].id + 1)
<1> DEFINE n == mem[z].id
           B == {x \in Existing(S, mem) : mem[x].id < n}
           C == {x \in Existing(S, mem) : mem[x].id < n + 1}
<1>1. n \in Nat
  OBVIOUS
<1>2. z \notin B /\ z \in C
  BY <1>1
<1>3. B \subseteq C
  BY <1>1
<1>4. IsFiniteSet(B) /\ IsFiniteSet(C)
  BY FiniteTables, FS_Subset
<1>5. Below(S, n) = Cardinality(B) /\ Below(S, n + 1) = Cardinality(C)
  BY DEF Below
<1> HIDE DEF B, C, n
<1>6. Cardinality(B \cup {z}) = Cardinality(B) + 1
  BY <1>2, <1>4, FS_AddElement
<1>7. Cardinality(B \cup {z}) <= Cardinality(C)
  <2>1. B \cup {z} \in SUBSET C
    BY <1>2, <1>3
  <2> QED BY <1>4, <2>1, FS_Subset
<1>8. Cardinality(B) \in Nat /\ Cardinality(C) \in Nat
  BY <1>4, FS_CardinalityType
<1>9. Below(S, n) < Below(S, n + 1)
  BY <1>5, <1>6, <1>7, <1>8
<1> QED BY <1>9 DEF n

(* AddHullClass and AddSystem find a number that is not in use, as long as *)
(* those in use differ.                                                    *)
LEMMA FreeNumberIsFree ==
  ASSUME NEW S, S \subseteq Things, \A x \in Existing(S, mem) : mem[x].id \in Nat,
         DistinctIn(S, mem)
  PROVE  FreeNumber(S) \notin Numbers(S, mem)
<1> SUFFICES ASSUME NEW z \in Existing(S, mem), mem[z].id = FreeNumber(S) PROVE FALSE
  BY DEF Numbers
<1> DEFINE n == FreeNumber(S)
<1>1. n \in Nat /\ ~Stands(S, n) /\ \A k \in Nat : k < n => Stands(S, k)
  BY LoopEnds
<1>2. Below(S, n) <= n
  BY <1>1, BelowIsBounded
<1>3. Below(S, n) < Below(S, n + 1)
  BY InUseCounts
<1> HIDE DEF n
<1>4. Below(S, n) \in Nat /\ Below(S, n + 1) \in Nat
  BY BelowIsNatural
<1>5. n <= Below(S, n)
  <2>1. CASE n = 0
    BY <1>4, <2>1
  <2>2. CASE n > 0
    <3>1. n - 1 \in Nat /\ n - 1 < n /\ (n - 1) + 1 = n
      BY <1>1, <2>2
    <3>2. n - 1 < Below(S, n)
      BY <1>1, <3>1 DEF Stands
    <3> QED BY <1>1, <1>4, <3>2
  <2> QED BY <1>1, <2>1, <2>2
<1> QED BY <1>1, <1>2, <1>3, <1>4, <1>5 DEF Stands

(* FindObjectID finds a number below zero that is not in use.              *)
LEMMA ObjectIDIsFree ==
  ASSUME \A p \in Existing(Pods, mem) : mem[p].id \in Int /\ mem[p].id < 0
  PROVE  FindObjectID \in Int \ Numbers(Pods, mem) /\ FindObjectID < 0
<1> DEFINE taken == Numbers(Pods, mem)
           gaps == (Min(taken)..Max(taken)) \ taken
<1>1. IsFiniteSet(taken) /\ taken \subseteq Int /\ \A n \in taken : n < 0
  BY NumbersAreFinite, ThingsAreApart DEF Numbers
<1>2. CASE taken = {}
  BY <1>2 DEF FindObjectID
<1>3. CASE taken # {} 
  <2>1. /\ Min(taken) \in taken /\ Max(taken) \in taken
        /\ \A n \in taken : Min(taken) <= n
    <3> HIDE DEF taken
    <3> QED BY <1>1, <1>3, MinIsLeast, MaxIsGreatest
  <2>2. FindObjectID = IF gaps = {} THEN Min(taken) - 1 ELSE Min(gaps)
    BY <1>3 DEF FindObjectID
  <2>3. CASE gaps = {}
    <3> HIDE DEF taken
    <3>1. Min(taken) - 1 \notin taken /\ Min(taken) - 1 \in Int /\ Min(taken) - 1 < 0
      BY <1>1, <2>1
    <3> QED BY <3>1, <2>2, <2>3 DEF taken
  <2>4. CASE gaps # {}
    <3> HIDE DEF taken
    <3>1. IsFiniteSet(gaps) /\ gaps \subseteq Int
      <4>1. Min(taken) \in Int /\ Max(taken) \in Int
        BY <1>1, <2>1
      <4>2. IsFiniteSet(Min(taken)..Max(taken))
        BY <4>1, FS_Interval
      <4>3. IsFiniteSet(gaps)
        BY <4>2, FS_Difference
      <4>4. gaps \subseteq Int
        OBVIOUS
      <4> QED BY <4>3, <4>4
    <3>2. Min(gaps) \in gaps
      <4> HIDE DEF gaps
      <4> QED BY <2>4, <3>1, MinIsLeast
    <3>3. \A g \in gaps : g \in Int /\ g \notin taken /\ g < 0
      <4>1. Min(taken) \in Int /\ Max(taken) \in Int /\ Max(taken) < 0
        BY <1>1, <2>1
      <4> QED BY <4>1
    <3> QED BY <2>2, <2>4, <3>2, <3>3 DEF taken
  <2> QED BY <2>3, <2>4
<1> QED BY <1>2, <1>3

(* The universe at the head of the list is one that exists.                *)
LEMMA FirstUniverseExists ==
  ASSUME NEW m, Existing(Rooms, m) # {}, \A r \in Existing(Rooms, m) : m[r].place \in Nat
  PROVE  FirstUniverse(m) \in Existing(Rooms, m)
<1> DEFINE E == Existing(Rooms, m)
           P == {m[r].place : r \in E}
           f == [r \in E |-> m[r].place]
<1>1. f \in [E -> P] /\ \A n \in P : \E r \in E : f[r] = n
  OBVIOUS
<1>2. f \in Surjection(E, P)
  BY <1>1 DEF Surjection
<1>3. IsFiniteSet(E)
  BY FiniteTables, ThingsAreApart
<1>4. IsFiniteSet(P)
  <2> HIDE DEF f, E, P
  <2> QED BY <1>2, <1>3, FS_Surjection
<1>5. P \subseteq Int /\ P # {}
  OBVIOUS
<1>6. PICK n \in P : \A q \in P : n <= q
  <2> HIDE DEF P
  <2> QED BY <1>4, <1>5, FiniteHasLeast
<1>7. \E r \in E : \A q \in E : m[r].place <= m[q].place
  BY <1>6
<1> QED BY <1>7 DEF FirstUniverse

(* A new universe comes after those there are.                             *)
LEMMA PlaceIsNatural ==
  ASSUME \A r \in Existing(Rooms, mem) : mem[r].place \in Nat
  PROVE  1 + Max({0} \cup {mem[q].place : q \in Existing(Rooms, mem)}) \in Nat
<1> DEFINE E == Existing(Rooms, mem)
           P == {mem[r].place : r \in E}
           f == [r \in E |-> mem[r].place]
<1>1. f \in [E -> P] /\ \A n \in P : \E r \in E : f[r] = n
  OBVIOUS
<1>2. f \in Surjection(E, P)
  BY <1>1 DEF Surjection
<1>3. IsFiniteSet(E)
  BY FiniteTables, ThingsAreApart
<1>4. IsFiniteSet(P)
  <2> HIDE DEF f, E, P
  <2> QED BY <1>2, <1>3, FS_Surjection
<1>5. P \subseteq Nat
  OBVIOUS
<1>6. IsFiniteSet({0} \cup P) /\ {0} \cup P \subseteq Nat
  <2> HIDE DEF P
  <2> QED BY <1>4, <1>5, FS_AddElement
<1>7. Max({0} \cup P) \in Nat
  <2> HIDE DEF P
  <2> QED BY <1>6, MaxIsGreatest
<1> QED BY <1>7

-----------------------------------------------------------------------------
(* The things whose numbers differ: systems, each type of which has a      *)
(* table, do so unless tables of different dumps were read.                *)
Numbered(lost) == {Classes, Pods} \cup (IF lost THEN {} ELSE {Systems})

(* What is said of memory, of any rows m; lost says that tables of         *)
(* different dumps may have been read.                                     *)
Coherent(m, lost) ==
  /\ m = [x \in Things |-> m[x]]
  /\ RowOK(m) /\ FiledIn(m) /\ AboardIn(m)
  /\ \A S \in Numbered(lost) : DistinctIn(S, m)
  /\ ~lost => MeantIn(m)
  /\ \A s \in Existing(Ships, m) :
       /\ m[s].hull \in {Find(Classes, m[s].class, m), Nothing}
       /\ ~lost => m[s].hull # Nothing

(* What is asked of the first rows is what the invariant says of a         *)
(* database nothing was lost from.                                         *)
LEMMA CoherentIsSound ==
  ASSUME NEW m, m = [x \in Things |-> m[x]]
  PROVE  Sound(m) <=> Coherent(m, FALSE)
BY DEF Sound, Coherent, NamedIn, Numbered

(* What FindHullClass finds.                                               *)
LEMMA FindFinds ==
  ASSUME NEW S, NEW number, NEW m
  PROVE  \/ Find(S, number, m) = Nothing
         \/ Find(S, number, m) \in Existing(S, m) /\ m[Find(S, number, m)].id = number
BY DEF Find

(* A search by number finds the row that has it.                           *)
LEMMA FindIsUnique ==
  ASSUME NEW m, NEW lost, \A S \in Numbered(lost) : DistinctIn(S, m), NEW x \in Existing(Classes, m)
  PROVE  Find(Classes, m[x].id, m) = x /\ x # Nothing
<1>0. DistinctIn(Classes, m)
  BY DEF Numbered
<1>1. \A y \in Existing(Classes, m) : m[y].id = m[x].id => y = x
  BY <1>0 DEF DistinctIn
<1>2. {y \in Existing(Classes, m) : m[y].id = m[x].id} = {x}
  BY <1>1
<1>3. x # Nothing
  BY ThingsAreApart, DatabaseAssumption DEF Existing
<1> QED BY <1>2, <1>3 DEF Find

(* A search finds the same row while that row keeps its number.            *)
LEMMA FindStays ==
  ASSUME NEW number, NEW m, NEW n, NEW lost, \A S \in Numbered(lost) : DistinctIn(S, n),
         Find(Classes, number, m) \in Existing(Classes, n),
         n[Find(Classes, number, m)].id = number
  PROVE  Find(Classes, number, n) = Find(Classes, number, m)
BY FindIsUnique

(* A search depends on its table alone.                                    *)
LEMMA FindSame ==
  ASSUME NEW S, NEW number, NEW m, NEW n, \A x \in S : n[x] = m[x]
  PROVE  Find(S, number, n) = Find(S, number, m)
<1> DEFINE Matching(r) == {x \in Existing(S, r) : r[x].id = number}
           Pick(T) == IF T = {} THEN Nothing ELSE CHOOSE x \in T : TRUE
<1>1. Matching(n) = Matching(m)
  BY DEF Existing
<1>2. Find(S, number, n) = Pick(Matching(n)) /\ Find(S, number, m) = Pick(Matching(m))
  BY DEF Find
<1> HIDE DEF Pick, Matching
<1> QED BY <1>1, <1>2

(* What the rows refer to, by their types.                                 *)
LEMMA RowFields ==
  ASSUME NEW m, RowOK(m)
  PROVE  /\ \A b \in Existing(Bodies, m) : m[b].univ \in Rooms /\ m[b].in \in Rooms
         /\ \A s \in Existing(Ships, m) :
              m[s].class \in Nat /\ m[s].hull \in Classes \cup {Nothing}
         /\ \A p \in Existing(Parts, m) : m[p].ship \in Ships
         /\ \A i \in Existing(Instances, m) : m[i].systemId \in Nat /\ m[i].system \in Systems
<1>1. ASSUME NEW b \in Existing(Bodies, m) PROVE m[b].univ \in Rooms /\ m[b].in \in Rooms
  <2>1. m[b] \in TerritoryRows \/ m[b] \in ShipRows \/ m[b] \in PodRows
    BY DEF Bodies, Existing, RowOK
  <2> QED BY <2>1 DEF TerritoryRows, ShipRows, PodRows
<1>2. ASSUME NEW s \in Existing(Ships, m)
      PROVE  m[s].class \in Nat /\ m[s].hull \in Classes \cup {Nothing}
  BY DEF RowOK, ShipRows
<1>3. ASSUME NEW p \in Existing(Parts, m) PROVE m[p].ship \in Ships
  <2>1. m[p] \in InstanceRows \/ m[p] \in ConsoleRows
    BY DEF Parts, Existing, RowOK
  <2> QED BY <2>1 DEF InstanceRows, ConsoleRows
<1>4. ASSUME NEW i \in Existing(Instances, m)
      PROVE  m[i].systemId \in Nat /\ m[i].system \in Systems
  BY DEF RowOK, InstanceRows
<1> QED BY <1>1, <1>2, <1>3, <1>4

(* Rows that stay as they are or go away are still rows.                   *)
LEMMA RowsStay ==
  ASSUME NEW m, RowOK(m), NEW n, \A x \in Things : n[x] \in {m[x], Nothing}
  PROVE  RowOK(n)
<1>1. ASSUME NEW S, S \subseteq Things, NEW x \in Existing(S, n)
      PROVE  x \in Existing(S, m) /\ n[x] = m[x]
  BY <1>1 DEF Existing
<1>2. /\ Rooms \subseteq Things /\ Classes \cup Systems \subseteq Things
      /\ Territories \subseteq Things /\ Ships \subseteq Things /\ Pods \subseteq Things
      /\ Instances \subseteq Things /\ Consoles \subseteq Things
  BY ThingsAreApart
<1>3. /\ \A r \in Existing(Rooms, n) : n[r] \in UniverseRows
      /\ \A x \in Existing(Classes \cup Systems, n) : n[x] \in NumberedRows
  BY <1>1, <1>2 DEF RowOK
<1>4. /\ \A t \in Existing(Territories, n) : n[t] \in TerritoryRows
      /\ \A s \in Existing(Ships, n) : n[s] \in ShipRows
      /\ \A p \in Existing(Pods, n) : n[p] \in PodRows
  BY <1>1, <1>2 DEF RowOK
<1>5. /\ \A i \in Existing(Instances, n) : n[i] \in InstanceRows
      /\ \A k \in Existing(Consoles, n) : n[k] \in ConsoleRows
  BY <1>1, <1>2 DEF RowOK
<1> QED BY <1>3, <1>4, <1>5 DEF RowOK

(* Things go away together with what refers to them.                       *)
LEMMA RemovalIsCoherent ==
  ASSUME NEW m, NEW lost, Coherent(m, lost), NEW D, D \subseteq Things,
         \A b \in Existing(Bodies, m) \ D : m[b].univ \notin D,
         \A s \in Existing(Ships, m) \ D : m[s].hull \notin D,
         \A p \in Existing(Parts, m) \ D :
           m[p].ship \notin D /\ (p \in Instances => m[p].system \notin D),
         NEW n, n = [x \in Things |-> IF x \in D THEN Nothing ELSE m[x]]
  PROVE  Coherent(n, lost)
<1>1. \A S : S \subseteq Things => Existing(S, n) = Existing(S, m) \ D
  BY DEF Existing
<1>2. \A x \in Things \ D : n[x] = m[x]
  OBVIOUS
<1>3. RowOK(n)
  BY <1>2, RowsStay DEF Coherent
<1>4. FiledIn(n)
  <2> SUFFICES ASSUME NEW b \in Existing(Bodies, n)
               PROVE  n[b].in = n[b].univ /\ n[n[b].univ] # Nothing
    BY DEF FiledIn
  <2>1. b \in Existing(Bodies, m) \ D /\ n[b] = m[b]
    BY <1>1, <1>2, ThingsAreApart DEF Bodies, Existing
  <2>2. m[b].univ \in Rooms /\ m[b].in = m[b].univ /\ m[m[b].univ] # Nothing
    BY <2>1, RowFields DEF Coherent, FiledIn
  <2>3. m[b].univ \in Things \ D
    BY <2>1, <2>2, ThingsAreApart
  <2> QED BY <1>2, <2>1, <2>2, <2>3
<1>5. \A S \in Numbered(lost) : DistinctIn(S, n)
  <2> SUFFICES ASSUME NEW S \in Numbered(lost) PROVE DistinctIn(S, n)
    OBVIOUS
  <2>1. S \subseteq Things /\ DistinctIn(S, m)
    BY ThingsAreApart DEF Coherent, Numbered
  <2> QED BY <1>1, <1>2, <2>1 DEF DistinctIn, Existing
<1>6. ASSUME NEW k, Find(Classes, k, m) # Nothing, Find(Classes, k, m) \notin D
      PROVE  Find(Classes, k, n) = Find(Classes, k, m)
  <2>1. Find(Classes, k, m) \in Existing(Classes, n) /\ n[Find(Classes, k, m)].id = k
    BY <1>1, <1>2, <1>6, FindFinds, ThingsAreApart DEF Existing
  <2> QED BY <1>5, <2>1, FindIsUnique
<1>7. AboardIn(n) /\ (~lost => MeantIn(n))
  <2>1. ASSUME NEW p \in Existing(Parts, n)
        PROVE  /\ p \in Existing(Parts, m) /\ n[p] = m[p]
               /\ n[m[p].ship] = m[m[p].ship]
               /\ p \in Instances => n[m[p].system] = m[m[p].system]
    <3>1. p \in Existing(Parts, m) \ D /\ n[p] = m[p]
      BY <1>1, <1>2, ThingsAreApart DEF Parts, Existing
    <3>2. m[p].ship \in Things \ D
      BY <3>1, RowFields, ThingsAreApart DEF Coherent
    <3>3. p \in Instances => m[p].system \in Things \ D
      BY <3>1, RowFields, ThingsAreApart DEF Coherent, Existing
    <3> QED BY <1>2, <3>1, <3>2, <3>3
  <2>2. AboardIn(n)
    BY <2>1 DEF Coherent, AboardIn
  <2>3. ASSUME ~lost PROVE MeantIn(n)
    <3>1. MeantIn(m)
      BY <2>3 DEF Coherent
    <3>2. \A i \in Existing(Instances, n) : i \in Existing(Parts, n) /\ i \in Instances
      BY DEF Existing, Parts
    <3>3. \A i \in Existing(Instances, n) : i \in Existing(Instances, m)
      BY <2>1, <3>2 DEF Existing
    <3> QED BY <2>1, <3>1, <3>2, <3>3 DEF MeantIn
  <2> QED BY <2>2, <2>3
<1>8. ASSUME NEW s \in Existing(Ships, n)
      PROVE  /\ n[s].hull \in {Find(Classes, n[s].class, n), Nothing}
             /\ ~lost => n[s].hull # Nothing
  <2>1. s \in Existing(Ships, m) \ D /\ n[s] = m[s]
    BY <1>1, <1>2, ThingsAreApart DEF Existing
  <2>2. /\ m[s].hull \in {Find(Classes, m[s].class, m), Nothing}
        /\ ~lost => m[s].hull # Nothing
    BY <2>1 DEF Coherent
  <2> QED BY <2>1, <2>2, <1>6
<1> QED BY <1>3, <1>4, <1>5, <1>7, <1>8 DEF Coherent

(* What the row of an instance says of its system.                         *)
MadeFrom(i, row, m, lost) ==
  /\ m[row.system] # Nothing
  /\ ~lost /\ ~row.byHand => m[row.system].id = row.systemId /\ Type[row.system] = Type[i]

(* A new thing, with a number of its own, refers to what exists.           *)
LEMMA AdditionIsCoherent ==
  ASSUME NEW m, NEW lost, Coherent(m, lost), NEW x \in Things, m[x] = Nothing, NEW row,
         NEW n, n = [m EXCEPT ![x] = row], RowOK(n), row # Nothing,
         x \in Bodies => row.in = row.univ /\ m[row.univ] # Nothing,
         \A S \in Numbered(lost) : x \in S => row.id \notin Numbers(S, m),
         x \in Parts => m[row.ship] # Nothing,
         x \in Instances => MadeFrom(x, row, m, lost),
         x \in Ships => row.hull = Find(Classes, row.class, m) /\ row.hull # Nothing
  PROVE  Coherent(n, lost)
<1>1. n = [y \in Things |-> n[y]] /\ n[x] = row /\ \A y \in Things \ {x} : n[y] = m[y]
  BY DEF Coherent
<1>2. \A S : S \subseteq Things =>
        Existing(S, n) = IF x \in S THEN Existing(S, m) \cup {x} ELSE Existing(S, m)
  BY <1>1 DEF Existing
<1>3. \A y \in Things : m[y] # Nothing => n[y] = m[y] /\ y # x
  BY <1>1
<1>4. \A S \in Numbered(lost) : DistinctIn(S, n)
  <2> SUFFICES ASSUME NEW S \in Numbered(lost), NEW y \in Existing(S, n),
                      NEW z \in Existing(S, n), n[y].id = n[z].id
               PROVE  y = z
    BY DEF DistinctIn
  <2>1. S \subseteq Things /\ DistinctIn(S, m)
    BY ThingsAreApart DEF Coherent, Numbered
  <2>2. CASE y # x /\ z # x
    BY <1>1, <1>2, <2>1, <2>2 DEF DistinctIn, Existing
  <2>3. ASSUME NEW u \in Existing(S, n), u # x, x \in S PROVE n[u].id # row.id
    <3>1. u \in Existing(S, m) /\ n[u] = m[u]
      BY <1>1, <2>1, <2>3 DEF Existing
    <3> QED BY <3>1, <2>3 DEF Numbers
  <2>4. x = y \/ x = z => x \in S
    BY DEF Existing
  <2> QED BY <1>1, <2>2, <2>3, <2>4
<1>5. ASSUME NEW k, Find(Classes, k, m) # Nothing
      PROVE  Find(Classes, k, n) = Find(Classes, k, m)
  <2>1. Find(Classes, k, m) \in Existing(Classes, m) /\ m[Find(Classes, k, m)].id = k
    BY <1>5, FindFinds
  <2>2. ASSUME NEW y \in Existing(Classes, m) PROVE y \in Existing(Classes, n) /\ n[y] = m[y]
    <3>1. y \in Classes /\ y \in Things /\ m[y] # Nothing
      BY ThingsAreApart DEF Existing
    <3>2. n[y] = m[y]
      BY <1>3, <3>1
    <3> QED BY <3>1, <3>2 DEF Existing
  <2>3. Find(Classes, k, m) \in Existing(Classes, n) /\ n[Find(Classes, k, m)].id = k
    BY <2>1, <2>2
  <2> QED BY ONLY <1>4, <2>3, FindStays
<1>6. FiledIn(n)
  <2> SUFFICES ASSUME NEW b \in Existing(Bodies, n)
               PROVE  n[b].in = n[b].univ /\ n[n[b].univ] # Nothing
    BY DEF FiledIn
  <2>1. n[b].univ \in Things
    <3>1. n[b].univ \in Rooms
      BY RowFields, Zenon
    <3> QED BY <3>1, ThingsAreApart
  <2>2. n[b].in = n[b].univ /\ m[n[b].univ] # Nothing
    <3>1. CASE b = x
      BY <3>1, <1>1 DEF Existing
    <3>2. CASE b # x
      <4>1. b \in Existing(Bodies, m) /\ n[b] = m[b]
        BY <1>1, <3>2, ThingsAreApart DEF Existing, Bodies
      <4> QED BY <4>1 DEF Coherent, FiledIn
    <3> QED BY <3>1, <3>2
  <2> QED BY <1>3, <2>1, <2>2
<1>7. AboardIn(n) /\ (~lost => MeantIn(n))
  <2>1. ASSUME NEW p \in Existing(Parts, n)
        PROVE  /\ m[n[p].ship] # Nothing
               /\ p \in Instances => MadeFrom(p, n[p], m, lost)
    <3>1. CASE p = x
      BY <3>1, <1>1 DEF Existing
    <3>2. CASE p # x
      <4>1. p \in Existing(Parts, m) /\ n[p] = m[p]
        BY <1>1, <3>2, ThingsAreApart DEF Existing, Parts
      <4>2. p \in Instances => p \in Existing(Instances, m)
        BY <4>1 DEF Existing
      <4> QED BY <4>1, <4>2 DEF Coherent, AboardIn, MeantIn, MadeFrom
    <3> QED BY <3>1, <3>2
  <2>2. ASSUME NEW p \in Existing(Parts, n) PROVE n[p].ship \in Things
    <3>1. n[p].ship \in Ships
      BY RowFields, Zenon
    <3> QED BY <3>1, ThingsAreApart
  <2>3. ASSUME NEW i \in Existing(Instances, n)
        PROVE  /\ i \in Existing(Parts, n) /\ i \in Instances
               /\ n[n[i].system] = m[n[i].system]
    <3>1. n[i].system \in Systems
      BY RowFields, Zenon
    <3>2. n[i].system \in Things
      BY <3>1, ThingsAreApart
    <3>3. i \in Existing(Parts, n) /\ i \in Instances
      BY DEF Existing, Parts
    <3>4. m[n[i].system] # Nothing
      BY <2>1, <3>3 DEF MadeFrom
    <3> QED BY <1>3, <3>2, <3>3, <3>4
  <2>4. AboardIn(n)
    <3> SUFFICES ASSUME NEW p \in Existing(Parts, n)
                 PROVE  n[n[p].ship] # Nothing /\ (p \in Instances => n[n[p].system] # Nothing)
      BY DEF AboardIn
    <3>1. n[n[p].ship] # Nothing
      BY <1>3, <2>1, <2>2
    <3>2. p \in Instances => p \in Existing(Instances, n)
      BY DEF Existing
    <3> QED BY <2>1, <2>3, <3>1, <3>2 DEF MadeFrom
  <2>5. ASSUME ~lost PROVE MeantIn(n)
    <3> SUFFICES ASSUME NEW i \in Existing(Instances, n), ~n[i].byHand
                 PROVE  n[n[i].system].id = n[i].systemId /\ Type[n[i].system] = Type[i]
      BY DEF MeantIn
    <3>1. i \in Existing(Parts, n) /\ i \in Instances /\ n[n[i].system] = m[n[i].system]
      BY <2>3
    <3>2. MadeFrom(i, n[i], m, lost)
      BY <2>1, <3>1
    <3> QED BY <2>5, <3>1, <3>2 DEF MadeFrom
  <2> QED BY <2>4, <2>5
<1>8. ASSUME NEW s \in Existing(Ships, n)
      PROVE  /\ n[s].hull \in {Find(Classes, n[s].class, n), Nothing}
             /\ ~lost => n[s].hull # Nothing
  <2>1. /\ n[s].hull \in {Find(Classes, n[s].class, m), Nothing}
        /\ ~lost => n[s].hull # Nothing
    <3>1. CASE s = x
      BY <3>1, <1>1 DEF Existing
    <3>2. CASE s # x
      <4>1. s \in Existing(Ships, m) /\ n[s] = m[s]
        BY <1>1, <3>2, ThingsAreApart DEF Existing
      <4> QED BY <4>1 DEF Coherent
    <3> QED BY <3>1, <3>2
  <2> QED BY <1>5, <2>1
<1> QED BY <1>1, <1>4, <1>6, <1>7, <1>8 DEF Coherent

Moved(m, b, moved, r) ==
  /\ moved.univ = r /\ moved.in = r /\ moved # Nothing
  /\ b \in Territories => moved \in TerritoryRows
  /\ b \in Ships => moved \in ShipRows /\ moved.class = m[b].class /\ moved.hull = m[b].hull
  /\ b \in Pods => moved \in PodRows /\ moved.id = m[b].id

(* Setting the universe and the room of a body moves it.                   *)
LEMMA MovedRows ==
  ASSUME NEW m, RowOK(m), NEW b \in Existing(Bodies, m), NEW r \in Rooms,
         NEW moved, moved = [m[b] EXCEPT !.univ = r, !.in = r]
  PROVE  Moved(m, b, moved, r)
<1>1. CASE b \in Territories
  <2>1. m[b] \in TerritoryRows
    BY <1>1 DEF RowOK, Existing
  <2>2. r \in Rooms /\ moved = [m[b] EXCEPT !.univ = r, !.in = r]
    OBVIOUS
  <2>3. /\ moved \in TerritoryRows /\ moved.univ = r /\ moved.in = r
    BY ONLY <2>1, <2>2 DEF TerritoryRows
  <2> QED BY <1>1, <2>3, DatabaseAssumption, ThingsAreApart DEF Moved, Rows
<1>2. CASE b \in Ships
  <2>1. m[b] \in ShipRows
    BY <1>2 DEF RowOK, Existing
  <2>2. r \in Rooms /\ moved = [m[b] EXCEPT !.univ = r, !.in = r]
    OBVIOUS
  <2>3. /\ moved \in ShipRows /\ moved.univ = r /\ moved.in = r
        /\ moved.class = m[b].class /\ moved.hull = m[b].hull
    BY ONLY <2>1, <2>2 DEF ShipRows
  <2> QED BY <1>2, <2>3, DatabaseAssumption, ThingsAreApart DEF Moved, Rows
<1>3. CASE b \in Pods
  <2>1. m[b] \in PodRows
    BY <1>3 DEF RowOK, Existing
  <2>2. r \in Rooms /\ moved = [m[b] EXCEPT !.univ = r, !.in = r]
    OBVIOUS
  <2>3. /\ moved \in PodRows /\ moved.univ = r /\ moved.in = r
        /\ moved.id = m[b].id
    BY ONLY <2>1, <2>2 DEF PodRows
  <2> QED BY <1>3, <2>3, DatabaseAssumption, ThingsAreApart DEF Moved, Rows
<1> QED BY <1>1, <1>2, <1>3 DEF Existing, Bodies

(* Bodies that change universe change its list as well.                    *)
MovedTo(r, B, D, m, n) ==
  /\ B \subseteq Existing(Bodies, m)
  /\ r \in Rooms \ D /\ m[r] # Nothing
  /\ D \subseteq Rooms /\ \A b \in Existing(Bodies, m) \ B : m[b].univ \notin D
  /\ n = [x \in Things |-> n[x]]
  /\ \A b \in B : n[b] = [m[b] EXCEPT !.univ = r, !.in = r]
  /\ \A x \in D : n[x] = Nothing
  /\ \A x \in Things \ (B \cup D) : n[x] = m[x]

(* Moving bodies to an existing universe keeps the tables coherent.        *)
LEMMA MoveIsCoherent ==
  ASSUME NEW m, NEW n, NEW lost, NEW r, NEW B, NEW D,
         Coherent(m, lost), MovedTo(r, B, D, m, n)
  PROVE  Coherent(n, lost)
<1>0. /\ B \subseteq Existing(Bodies, m)
      /\ r \in Rooms \ D /\ m[r] # Nothing
      /\ D \subseteq Rooms /\ \A b \in Existing(Bodies, m) \ B : m[b].univ \notin D
      /\ n = [x \in Things |-> n[x]]
      /\ \A b \in B : n[b] = [m[b] EXCEPT !.univ = r, !.in = r]
      /\ \A x \in D : n[x] = Nothing
      /\ \A x \in Things \ (B \cup D) : n[x] = m[x]
  BY DEF MovedTo
<1>1. B \subseteq Bodies /\ B \subseteq Things /\ B \cap D = {}
  BY <1>0, ThingsAreApart DEF Existing, Bodies
<1>2. \A x \in Things \ (B \cup D) : n[x] = m[x]
  BY <1>0
<1>3. ASSUME NEW b \in B PROVE n[b] = [m[b] EXCEPT !.univ = r, !.in = r]
  BY <1>0
<1>4. ASSUME NEW b \in B PROVE Moved(m, b, n[b], r)
  <2>1. b \in Existing(Bodies, m) /\ RowOK(m)
    BY <1>0 DEF Coherent
  <2> QED BY <2>1, <1>0, <1>3, MovedRows
<1>5. \A S : S \subseteq Things /\ S \cap Rooms = {} => Existing(S, n) = Existing(S, m)
  <2>1. ASSUME NEW x \in Things \ Rooms PROVE n[x] # Nothing <=> m[x] # Nothing
    <3>1. CASE x \in B
      BY <1>0, <1>4, <3>1 DEF Existing, Moved
    <3>2. CASE x \notin B
      BY <1>0, <1>2, <3>2
    <3> QED BY <3>1, <3>2
  <2> QED BY <2>1 DEF Existing
<1>6. Existing(Rooms, n) = Existing(Rooms, m) \ D
  BY <1>0, <1>1, <1>2, ThingsAreApart DEF Existing, Bodies
<1>7. \A x \in Classes \cup Systems \cup Parts : n[x] = m[x]
  BY <1>0, <1>1, <1>2, ThingsAreApart DEF Bodies, Parts
<1>8. RowOK(n)
  <2>1. \A q \in Existing(Rooms, n) : n[q] \in UniverseRows
    BY <1>0, <1>1, <1>2, <1>6, ThingsAreApart DEF Coherent, RowOK, Existing, Bodies
  <2>2. /\ \A x \in Existing(Classes \cup Systems, n) : n[x] \in NumberedRows
        /\ \A i \in Existing(Instances, n) : n[i] \in InstanceRows
        /\ \A k \in Existing(Consoles, n) : n[k] \in ConsoleRows
    BY <1>7 DEF Coherent, RowOK, Existing, Parts
  <2>3. /\ \A t \in Existing(Territories, n) : n[t] \in TerritoryRows
        /\ \A s \in Existing(Ships, n) : n[s] \in ShipRows
        /\ \A p \in Existing(Pods, n) : n[p] \in PodRows
    <3>1. ASSUME NEW b \in Bodies, n[b] # Nothing PROVE Moved(m, b, n[b], r) \/ n[b] = m[b]
      BY <1>0, <1>2, <1>4, ThingsAreApart DEF Bodies
    <3> QED BY <3>1 DEF Coherent, RowOK, Existing, Moved, Bodies
  <2> QED BY <2>1, <2>2, <2>3 DEF RowOK
<1>9. FiledIn(n)
  <2> SUFFICES ASSUME NEW b \in Existing(Bodies, n)
               PROVE  n[b].in = n[b].univ /\ n[n[b].univ] # Nothing
    BY DEF FiledIn
  <2>1. b \in Existing(Bodies, m)
    BY <1>5, ThingsAreApart DEF Bodies
  <2>2. n[r] # Nothing
    BY <1>0, <1>1, <1>2, ThingsAreApart DEF Bodies
  <2>3. CASE b \notin B
    <3>1. n[b] = m[b] /\ m[b].univ \in Rooms \ D
      BY <1>0, <1>2, <2>1, <2>3, RowFields, ThingsAreApart DEF Coherent, Existing, Bodies
    <3>2. n[m[b].univ] = m[m[b].univ]
      BY <1>0, <1>1, <1>2, <3>1, ThingsAreApart DEF Bodies
    <3> QED BY <2>1, <3>1, <3>2 DEF Coherent, FiledIn
  <2> QED BY <1>4, <2>2, <2>3 DEF Moved
<1>10. \A S \in Numbered(lost) : DistinctIn(S, n)
  <2> SUFFICES ASSUME NEW S \in Numbered(lost), NEW x \in Existing(S, n),
                      NEW y \in Existing(S, n), n[x].id = n[y].id
               PROVE  x = y
    BY DEF DistinctIn
  <2>0. S \in {Classes, Pods, Systems} /\ DistinctIn(S, m)
    BY DEF Coherent, Numbered
  <2>1. x \in Existing(S, m) /\ y \in Existing(S, m)
    BY <1>5, <2>0, ThingsAreApart DEF Bodies, Parts
  <2>2. \A z \in Existing(S, m) : n[z].id = m[z].id
    BY <1>0, <1>1, <1>2, <1>4, <1>7, <2>0, ThingsAreApart DEF Existing, Bodies, Parts, Moved
  <2> QED BY <2>0, <2>1, <2>2 DEF DistinctIn
<1>11. \A k : Find(Classes, k, n) = Find(Classes, k, m)
  BY <1>7, FindSame
<1>12. AboardIn(n) /\ (~lost => MeantIn(n))
  <2>1. ASSUME NEW p \in Existing(Parts, n)
        PROVE  /\ p \in Existing(Parts, m) /\ n[p] = m[p]
               /\ n[m[p].ship] # Nothing
               /\ p \in Instances => n[m[p].system] = m[m[p].system]
    <3>1. p \in Existing(Parts, m) /\ n[p] = m[p]
      BY <1>7 DEF Existing
    <3>2. m[p].ship \in Existing(Ships, m)
      BY <3>1, RowFields DEF Coherent, AboardIn, Existing
    <3>3. m[p].ship \in Existing(Ships, n)
      BY <1>5, <3>2, ThingsAreApart DEF Bodies
    <3>4. p \in Instances => m[p].system \in Systems
      BY <3>1, RowFields DEF Coherent, Existing
    <3> QED BY <1>7, <3>1, <3>3, <3>4 DEF Existing
  <2>2. \A i \in Existing(Instances, n) :
          i \in Existing(Parts, n) /\ i \in Instances /\ i \in Existing(Instances, m)
    BY <1>7 DEF Existing, Parts
  <2>3. AboardIn(n)
    BY <2>1 DEF Coherent, AboardIn
  <2>4. ~lost => MeantIn(n)
    BY <2>1, <2>2 DEF Coherent, MeantIn
  <2> QED BY <2>3, <2>4
<1>13. ASSUME NEW s \in Existing(Ships, n)
       PROVE  /\ n[s].hull \in {Find(Classes, n[s].class, n), Nothing}
              /\ ~lost => n[s].hull # Nothing
  <2>1. s \in Existing(Ships, m)
    BY <1>5, ThingsAreApart DEF Bodies
  <2>2. n[s].hull = m[s].hull /\ n[s].class = m[s].class
    BY <1>0, <1>1, <1>2, <1>4, <2>1, ThingsAreApart DEF Existing, Bodies, Moved
  <2> QED BY <1>11, <2>1, <2>2 DEF Coherent
<1> QED BY <1>0, <1>8, <1>9, <1>10, <1>12, <1>13 DEF Coherent

-----------------------------------------------------------------------------
(* What a load makes of the rows of each kind.                             *)
Placed(d) == {b \in Existing(Bodies, d) : d[d[b].univ] # Nothing}

(* What a restart makes of each row.                                       *)
RowLoaded(d, first, x) ==
  /\ d[x] = Nothing => Loaded(d, first)[x] = Nothing
  /\ x \in Rooms \cup Classes \cup Systems => Loaded(d, first)[x] = d[x]
  /\ x \in Bodies \ Placed(d) => Loaded(d, first)[x] = Nothing
  /\ x \in Placed(d) \ Ships => Loaded(d, first)[x] = [d[x] EXCEPT !.in = d[x].univ]
  /\ x \in Placed(d) \cap Ships =>
       Loaded(d, first)[x] =
         [d[x] EXCEPT !.in = d[x].univ, !.hull = Find(Classes, d[x].class, d)]
  /\ x \in Existing(Instances, d) =>
       Loaded(d, first)[x] = IF d[x].ship \in Placed(d) /\ d[x].systemId \in DOMAIN first
                             THEN [d[x] EXCEPT !.system = first[d[x].systemId]]
                             ELSE Nothing
  /\ x \in Existing(Consoles, d) =>
       Loaded(d, first)[x] = IF d[x].ship \in Placed(d) THEN d[x] ELSE Nothing

(* A restart makes that of the rows.                                       *)
LEMMA LoadedRow ==
  ASSUME NEW d, NEW first, NEW x \in Things
  PROVE  RowLoaded(d, first, x)
<1>1. Placed(d) \subseteq Bodies /\ \A b \in Placed(d) : d[b] # Nothing
  BY DEF Placed, Existing
<1>2. Loaded(d, first)[x] =
        CASE d[x] = Nothing -> Nothing
          [] d[x] # Nothing /\ x \in Rooms \cup Classes \cup Systems -> d[x]
          [] x \in Placed(d) \ Ships -> [d[x] EXCEPT !.in = d[x].univ]
          [] x \in Placed(d) \cap Ships ->
               [d[x] EXCEPT !.in = d[x].univ, !.hull = Find(Classes, d[x].class, d)]
          [] x \in Existing(Instances, d) /\ d[x].ship \in Placed(d)
               /\ d[x].systemId \in DOMAIN first ->
               [d[x] EXCEPT !.system = first[d[x].systemId]]
          [] x \in Existing(Consoles, d) /\ d[x].ship \in Placed(d) -> d[x]
          [] OTHER -> Nothing
  BY DEF Loaded, Placed
<1> HIDE DEF Placed
<1>3. d[x] = Nothing => Loaded(d, first)[x] = Nothing
  BY <1>1, <1>2, ThingsAreApart DEF Existing
<1>4. x \in Rooms \cup Classes \cup Systems => Loaded(d, first)[x] = d[x]
  BY <1>1, <1>2, <1>3, ThingsAreApart DEF Existing, Parts
<1>5. /\ x \in Bodies \ Placed(d) => Loaded(d, first)[x] = Nothing
      /\ x \in Placed(d) \ Ships => Loaded(d, first)[x] = [d[x] EXCEPT !.in = d[x].univ]
      /\ x \in Placed(d) \cap Ships =>
           Loaded(d, first)[x] = [d[x] EXCEPT !.in = d[x].univ, !.hull = Find(Classes, d[x].class, d)]
  BY <1>1, <1>2, ThingsAreApart DEF Existing, Bodies, Parts
<1>6. x \in Existing(Instances, d) =>
        Loaded(d, first)[x] = IF d[x].ship \in Placed(d) /\ d[x].systemId \in DOMAIN first
                       THEN [d[x] EXCEPT !.system = first[d[x].systemId]]
                       ELSE Nothing
  BY <1>1, <1>2, ThingsAreApart DEF Existing, Bodies, Parts
<1>7. x \in Existing(Consoles, d) =>
        Loaded(d, first)[x] = IF d[x].ship \in Placed(d) THEN d[x] ELSE Nothing
  BY <1>1, <1>2, ThingsAreApart DEF Existing, Bodies, Parts
<1> QED BY <1>3, <1>4, <1>5, <1>6, <1>7 DEF RowLoaded

(* FindSystem finds a system that has the number.                          *)
LEMMA FirstFinds ==
  ASSUME NEW d, NEW first \in Found(d)
  PROVE  /\ DOMAIN first = Numbers(Systems, d)
         /\ \A n \in DOMAIN first : first[n] \in Existing(Systems, d) /\ d[first[n]].id = n
BY DEF Found

(* What is loaded exists, with a class or system that has its number.      *)
LoadedField(d, x, row) ==
  /\ row # Nothing /\ d[x] # Nothing
  /\ x \in Territories => row \in TerritoryRows
  /\ x \in Ships => row \in ShipRows /\ row.class = d[x].class
                                     /\ row.hull = Find(Classes, d[x].class, d)
  /\ x \in Pods => row \in PodRows /\ row.id = d[x].id
  /\ x \in Bodies => x \in Placed(d) /\ row.univ = d[x].univ /\ row.in = d[x].univ
  /\ x \in Instances => row \in InstanceRows /\ row.system \in Existing(Systems, d)
                                             /\ d[row.system].id = row.systemId
                                             /\ row.byHand = d[x].byHand
  /\ x \in Consoles => row \in ConsoleRows
  /\ x \in Parts => row.ship \in Placed(d) \cap Ships

(* The fields of a row that survives a restart.                            *)
LEMMA LoadedFields ==
  ASSUME NEW d, RowOK(d), NEW first \in Found(d), NEW x \in Bodies \cup Parts,
         Loaded(d, first)[x] # Nothing
  PROVE  LoadedField(d, x, Loaded(d, first)[x])
<1> DEFINE row == Loaded(d, first)[x]
<1>r. RowLoaded(d, first, x)
  BY LoadedRow, ThingsAreApart DEF Bodies, Parts
<1>0. /\ x \in Things /\ d[x] # Nothing
      /\ x \in Bodies => x \in Placed(d) /\ d[x].univ \in Rooms
      /\ Find(Classes, d[x].class, d) \in Classes \cup {Nothing}
  <2>1. x \in Things /\ d[x] # Nothing
    BY <1>r, ThingsAreApart DEF Bodies, Parts, RowLoaded
  <2>2. x \in Bodies => x \in Placed(d)
    BY <2>1, <1>r DEF RowLoaded
  <2>3. x \in Bodies => d[x].univ \in Rooms
    BY <2>1, RowFields DEF Existing
  <2> QED BY <2>1, <2>2, <2>3, FindFinds DEF Existing
<1>1. CASE x \in Territories
  <2>1. d[x] \in TerritoryRows /\ d[x].univ \in Rooms
    BY <1>0, <1>1 DEF RowOK, Existing, Bodies
  <2>2. row = [d[x] EXCEPT !.in = d[x].univ]
    BY <1>0, <1>1, <1>r, ThingsAreApart DEF Bodies, RowLoaded
  <2>3. row \in TerritoryRows /\ row.univ = d[x].univ /\ row.in = d[x].univ
    BY ONLY <2>1, <2>2 DEF TerritoryRows
  <2> QED BY <1>0, <1>1, <2>3, ThingsAreApart DEF LoadedField, Bodies, Parts
<1>2. CASE x \in Ships
  <2> DEFINE found == Find(Classes, d[x].class, d)
  <2>1. d[x] \in ShipRows /\ d[x].univ \in Rooms /\ found \in Classes \cup {Nothing}
    BY <1>0, <1>2 DEF RowOK, Existing, Bodies
  <2>2. row = [d[x] EXCEPT !.in = d[x].univ, !.hull = found]
    BY <1>0, <1>2, <1>r, ThingsAreApart DEF Bodies, RowLoaded
  <2> HIDE DEF found
  <2>3. row \in ShipRows /\ row.univ = d[x].univ /\ row.in = d[x].univ
        /\ row.class = d[x].class /\ row.hull = found
    BY ONLY <2>1, <2>2 DEF ShipRows
  <2> QED BY <1>0, <1>2, <2>3, ThingsAreApart DEF LoadedField, Bodies, Parts, found
<1>3. CASE x \in Pods
  <2>1. d[x] \in PodRows /\ d[x].univ \in Rooms
    BY <1>0, <1>3 DEF RowOK, Existing, Bodies
  <2>2. row = [d[x] EXCEPT !.in = d[x].univ]
    BY <1>0, <1>3, <1>r, ThingsAreApart DEF Bodies, RowLoaded
  <2>3. row \in PodRows /\ row.univ = d[x].univ /\ row.in = d[x].univ /\ row.id = d[x].id
    BY ONLY <2>1, <2>2 DEF PodRows
  <2> QED BY <1>0, <1>3, <2>3, ThingsAreApart DEF LoadedField, Bodies, Parts
<1>4. CASE x \in Instances
  <2> DEFINE found == first[d[x].systemId]
  <2>1. d[x] \in InstanceRows /\ x \in Existing(Instances, d)
    BY <1>0, <1>4 DEF RowOK, Existing
  <2>2. /\ d[x].ship \in Placed(d) /\ d[x].systemId \in DOMAIN first
        /\ row = [d[x] EXCEPT !.system = found]
    BY <1>0, <2>1, <1>r DEF RowLoaded
  <2>3. found \in Systems /\ found \in Existing(Systems, d) /\ d[found].id = d[x].systemId
    BY <2>2, FirstFinds DEF Existing
  <2> HIDE DEF found
  <2>4. row \in InstanceRows /\ row.ship = d[x].ship /\ row.systemId = d[x].systemId
        /\ row.system = found /\ row.byHand = d[x].byHand /\ d[x].ship \in Ships
    BY ONLY <2>1, <2>2, <2>3 DEF InstanceRows
  <2> QED BY <1>0, <1>4, <2>2, <2>3, <2>4, ThingsAreApart DEF LoadedField, Bodies, Parts
<1>5. CASE x \in Consoles
  <2>1. d[x] \in ConsoleRows /\ d[x].ship \in Ships /\ x \in Existing(Consoles, d)
    BY <1>0, <1>5 DEF RowOK, Existing, ConsoleRows
  <2>2. d[x].ship \in Placed(d) /\ row = d[x]
    BY <1>0, <2>1, <1>r DEF RowLoaded
  <2> QED BY <1>0, <1>5, <2>1, <2>2, ThingsAreApart DEF LoadedField, Bodies, Parts
<1> QED BY <1>1, <1>2, <1>3, <1>4, <1>5 DEF Bodies, Parts

(* A restart gives every thing a row or none.                              *)
LEMMA LoadedIsFunction == \A d, first : Loaded(d, first) = [x \in Things |-> Loaded(d, first)[x]]
BY DEF Loaded

(* A load makes a coherent game of any tables in which the numbers of hull *)
(* classes and of temporary objects differ.                                *)
LEMMA LoadIsCoherent ==
  ASSUME NEW d, RowOK(d), DistinctIn(Classes, d), DistinctIn(Pods, d),
         NEW first \in Found(d), NEW n, n = Loaded(d, first)
  PROVE  Coherent(n, TRUE)
<1>r. \A x \in Things : RowLoaded(d, first, x)
  BY LoadedRow
<1>1. n = [x \in Things |-> n[x]]
  BY LoadedIsFunction
<1>2. \A x \in Rooms \cup Classes \cup Systems : n[x] = d[x]
  BY <1>r, ThingsAreApart DEF RowLoaded
<1>3. ASSUME NEW x \in Bodies \cup Parts, n[x] # Nothing PROVE LoadedField(d, x, n[x])
  BY <1>3, LoadedFields
<1>4. ASSUME NEW b \in Placed(d) PROVE n[b] # Nothing
  <2>1. b \in Existing(Bodies, d) /\ b \in Things /\ d[b].univ \in Rooms
    BY RowFields, ThingsAreApart DEF Placed, Existing, Bodies
  <2>2. CASE b \in Ships
    <3> DEFINE found == Find(Classes, d[b].class, d)
    <3>1. n[b] = [d[b] EXCEPT !.in = d[b].univ, !.hull = found]
      BY <2>1, <2>2, <1>r DEF RowLoaded
    <3>2. d[b] \in ShipRows /\ d[b].univ \in Rooms /\ found \in Classes \cup {Nothing}
      BY <2>1, <2>2, FindFinds DEF RowOK, Existing
    <3> HIDE DEF found
    <3>3. n[b] \in ShipRows
      BY ONLY <3>1, <3>2 DEF ShipRows
    <3> QED BY <3>3, DatabaseAssumption DEF Rows
  <2>3. CASE b \notin Ships
    <3>1. n[b] = [d[b] EXCEPT !.in = d[b].univ]
      BY <2>1, <2>3, <1>r DEF RowLoaded
    <3>2. d[b] \in TerritoryRows \/ d[b] \in PodRows
      BY <2>1, <2>3 DEF RowOK, Existing, Bodies
    <3>3. d[b] \in TerritoryRows => n[b] \in TerritoryRows
      BY ONLY <3>1, <2>1 DEF TerritoryRows
    <3>4. d[b] \in PodRows => n[b] \in PodRows
      BY ONLY <3>1, <2>1 DEF PodRows
    <3> QED BY <3>2, <3>3, <3>4, DatabaseAssumption DEF Rows
  <2> QED BY <2>2, <2>3
<1>5. RowOK(n)
  <2>1. /\ \A r \in Existing(Rooms, n) : n[r] \in UniverseRows
        /\ \A x \in Existing(Classes \cup Systems, n) : n[x] \in NumberedRows
    BY <1>2 DEF RowOK, Existing
  <2>2. /\ \A t \in Existing(Territories, n) : n[t] \in TerritoryRows
        /\ \A s \in Existing(Ships, n) : n[s] \in ShipRows
        /\ \A p \in Existing(Pods, n) : n[p] \in PodRows
        /\ \A i \in Existing(Instances, n) : n[i] \in InstanceRows
        /\ \A k \in Existing(Consoles, n) : n[k] \in ConsoleRows
    BY <1>3 DEF LoadedField, Existing, Bodies, Parts
  <2> QED BY <2>1, <2>2 DEF RowOK
<1>6. FiledIn(n)
  <2> SUFFICES ASSUME NEW b \in Existing(Bodies, n)
               PROVE  n[b].in = n[b].univ /\ n[n[b].univ] # Nothing
    BY DEF FiledIn
  <2>1. b \in Placed(d) /\ n[b].univ = d[b].univ /\ n[b].in = d[b].univ
    BY <1>3 DEF LoadedField, Existing
  <2>2. d[b].univ \in Rooms /\ d[d[b].univ] # Nothing
    BY <2>1, RowFields DEF Placed
  <2> QED BY <1>2, <2>1, <2>2
<1>7. DistinctIn(Classes, n) /\ DistinctIn(Pods, n)
  <2>1. \A z \in Existing(Classes, n) : z \in Existing(Classes, d) /\ n[z].id = d[z].id
    BY <1>2 DEF Existing
  <2>2. \A z \in Existing(Pods, n) : z \in Existing(Pods, d) /\ n[z].id = d[z].id
    BY <1>3 DEF LoadedField, Existing, Bodies
  <2> QED BY <2>1, <2>2 DEF DistinctIn
<1>8. \A k : Find(Classes, k, n) = Find(Classes, k, d)
  BY <1>2, FindSame
<1>9. AboardIn(n)
  <2> SUFFICES ASSUME NEW p \in Existing(Parts, n)
               PROVE  n[n[p].ship] # Nothing /\ (p \in Instances => n[n[p].system] # Nothing)
    BY DEF AboardIn
  <2>1. LoadedField(d, p, n[p]) /\ p \in Parts
    BY <1>3 DEF Existing
  <2> QED BY <1>2, <1>4, <2>1 DEF LoadedField, Existing
<1>10. \A s \in Existing(Ships, n) : n[s].hull \in {Find(Classes, n[s].class, n), Nothing}
  BY <1>3, <1>8 DEF LoadedField, Existing, Bodies
<1> QED BY <1>1, <1>5, <1>6, <1>7, <1>9, <1>10 DEF Coherent, Numbered

(* What was written by one dump comes back as it was, but for an instance  *)
(* whose number was set by hand.                                           *)
LEMMA LoadBringsBack ==
  ASSUME NEW d, Coherent(d, FALSE), NEW first \in Found(d), NEW x \in Things,
         d[x] \notin RowsByHand
  PROVE  Loaded(d, first)[x] = d[x]
<1>r. RowLoaded(d, first, x)
  BY LoadedRow
<1>1. Placed(d) = Existing(Bodies, d)
  BY DEF Coherent, FiledIn, Placed, Existing
<1>2. CASE d[x] = Nothing \/ x \in Rooms \cup Classes \cup Systems
  BY <1>2, <1>r DEF RowLoaded
<1>3. CASE d[x] # Nothing /\ x \in Bodies
  <2>1. x \in Placed(d) /\ d[x].in = d[x].univ
    BY <1>1, <1>3 DEF Coherent, FiledIn, Existing
  <2>2. CASE x \in Ships
    <3> DEFINE found == Find(Classes, d[x].class, d)
    <3>1. Loaded(d, first)[x] = [d[x] EXCEPT !.in = d[x].univ, !.hull = found]
      BY <2>1, <2>2, <1>r DEF RowLoaded
    <3>2. d[x] \in ShipRows /\ d[x].hull = found
      BY <1>3, <2>2 DEF Coherent, RowOK, Existing
    <3> HIDE DEF found
    <3> QED BY ONLY <2>1, <3>1, <3>2 DEF ShipRows
  <2>3. CASE x \notin Ships
    <3>1. Loaded(d, first)[x] = [d[x] EXCEPT !.in = d[x].univ]
      BY <2>1, <2>3, <1>r DEF RowLoaded
    <3>2. d[x] \in TerritoryRows \/ d[x] \in PodRows
      BY <1>3, <2>3 DEF Coherent, RowOK, Existing, Bodies
    <3>3. d[x] \in TerritoryRows => Loaded(d, first)[x] = d[x]
      BY ONLY <2>1, <3>1 DEF TerritoryRows
    <3>4. d[x] \in PodRows => Loaded(d, first)[x] = d[x]
      BY ONLY <2>1, <3>1 DEF PodRows
    <3> QED BY <3>2, <3>3, <3>4
  <2> QED BY <2>2, <2>3
<1>4. CASE d[x] # Nothing /\ x \in Parts
  <2>1. d[x].ship \in Placed(d)
    <3>1. d[x].ship \in Ships /\ d[d[x].ship] # Nothing
      BY <1>4, RowFields DEF Coherent, AboardIn, Existing
    <3> QED BY <1>1, <3>1 DEF Existing, Bodies
  <2>2. CASE x \in Consoles
    BY <1>4, <2>1, <2>2, <1>r DEF Existing, RowLoaded
  <2>3. CASE x \in Instances
    <3> DEFINE found == first[d[x].systemId]
    <3>1. x \in Existing(Instances, d) /\ d[x] \in InstanceRows /\ ~d[x].byHand
      BY <1>4, <2>3 DEF Coherent, RowOK, Existing, RowsByHand
    <3>2. d[x].system \in Existing(Systems, d) /\ d[d[x].system].id = d[x].systemId
      <4>1. d[x].system \in Systems
        BY <3>1, RowFields DEF Coherent
      <4>2. d[d[x].system] # Nothing
        BY <1>4, <2>3 DEF Coherent, AboardIn, Existing
      <4>3. d[d[x].system].id = d[x].systemId
        BY <3>1 DEF Coherent, MeantIn
      <4> QED BY <4>1, <4>2, <4>3 DEF Existing
    <3>3. d[x].systemId \in DOMAIN first
      <4>1. d[d[x].system].id \in Numbers(Systems, d)
        BY <3>2 DEF Numbers
      <4> QED BY <3>2, <4>1, FirstFinds
    <3>4. found = d[x].system
      <4>1. found \in Existing(Systems, d) /\ d[found].id = d[x].systemId
        BY <3>3, FirstFinds
      <4>2. DistinctIn(Systems, d)
        BY DEF Coherent, Numbered
      <4> HIDE DEF found
      <4> QED BY <3>2, <4>1, <4>2 DEF DistinctIn
    <3>5. Loaded(d, first)[x] = [d[x] EXCEPT !.system = found]
      BY <2>1, <3>1, <3>3, <1>r DEF RowLoaded
    <3> HIDE DEF found
    <3> QED BY ONLY <3>1, <3>4, <3>5 DEF InstanceRows
  <2> QED BY <1>4, <2>2, <2>3 DEF Parts
<1> QED BY <1>2, <1>3, <1>4, ThingsAreApart DEF Bodies, Parts

(* A game that was saved and loaded without a failure is as coherent as it *)
(* was.                                                                    *)
LEMMA LoadStaysCoherent ==
  ASSUME NEW d, Coherent(d, FALSE), NEW first \in Found(d), NEW n, n = Loaded(d, first)
  PROVE  Coherent(n, FALSE)
<1>r. \A x \in Things : RowLoaded(d, first, x)
  BY LoadedRow
<1>1. Coherent(n, TRUE)
  BY LoadIsCoherent DEF Coherent, Numbered
<1>2. \A x \in Things : d[x] \notin RowsByHand => n[x] = d[x]
  BY LoadBringsBack
<1>3. \A x \in Systems : n[x] = d[x]
  BY <1>r, ThingsAreApart DEF RowLoaded
<1>4. DistinctIn(Systems, n)
  BY <1>3 DEF Coherent, Numbered, DistinctIn, Existing
<1>5. ASSUME NEW i \in Existing(Instances, n), ~n[i].byHand
      PROVE  n[n[i].system].id = n[i].systemId /\ Type[n[i].system] = Type[i]
  <2>1. i \in Bodies \cup Parts /\ i \in Things /\ i \in Instances /\ n[i] # Nothing
    BY ThingsAreApart DEF Existing, Parts
  <2>2. LoadedField(d, i, n[i])
    BY <2>1, LoadedFields DEF Coherent
  <2>3. i \in Existing(Instances, d) /\ ~d[i].byHand
    BY <1>5, <2>1, <2>2 DEF LoadedField, Existing
  <2>4. d[i] \notin RowsByHand
    BY <2>3 DEF RowsByHand
  <2>5. n[i] = d[i]
    BY <1>2, <2>1, <2>4
  <2>6. d[d[i].system].id = d[i].systemId /\ Type[d[i].system] = Type[i]
    BY <2>3 DEF Coherent, MeantIn
  <2>7. d[i].system \in Systems
    BY <2>3, RowFields DEF Coherent
  <2> QED BY <1>3, <2>5, <2>6, <2>7
<1>6. ASSUME NEW s \in Existing(Ships, n) PROVE n[s].hull # Nothing
  <2>1. s \in Things /\ s \in Ships /\ s \in Bodies \cup Parts /\ n[s] # Nothing
    BY ThingsAreApart DEF Existing, Bodies
  <2>2. d[s] # Nothing
    BY <2>1, <1>r DEF RowLoaded
  <2>3. LoadedField(d, s, n[s])
    BY <2>1, LoadedFields DEF Coherent
  <2>4. n[s].hull = Find(Classes, d[s].class, d)
    BY <2>1, <2>3 DEF LoadedField
  <2>5. d[s].hull = Find(Classes, d[s].class, d) /\ d[s].hull # Nothing
    BY <2>1, <2>2 DEF Coherent, Existing
  <2> QED BY <2>4, <2>5
<1> QED BY <1>1, <1>4, <1>5, <1>6 DEF Coherent, Numbered, MeantIn

-----------------------------------------------------------------------------
(* The rows a thing may have.                                              *)
RowFits(x, row) ==
  /\ x \in Rooms => row \in UniverseRows
  /\ x \in Classes \cup Systems => row \in NumberedRows
  /\ x \in Territories => row \in TerritoryRows
  /\ x \in Ships => row \in ShipRows
  /\ x \in Pods => row \in PodRows
  /\ x \in Instances => row \in InstanceRows
  /\ x \in Consoles => row \in ConsoleRows

(* Rows are correct when each one is.                                      *)
LEMMA RowsFit ==
  ASSUME NEW m
  PROVE  RowOK(m) <=> \A x \in Things : m[x] # Nothing => RowFits(x, m[x])
<1>1. ASSUME RowOK(m), NEW x \in Things, m[x] # Nothing PROVE RowFits(x, m[x])
  BY <1>1 DEF RowOK, RowFits, Existing
<1>2. ASSUME \A x \in Things : m[x] # Nothing => RowFits(x, m[x]) PROVE RowOK(m)
  BY <1>2, ThingsAreApart DEF RowOK, RowFits, Existing
<1> QED BY <1>1, <1>2

(* A correct row is not the absence of one.                                *)
LEMMA FittingRowExists ==
  ASSUME NEW x \in Things, NEW row, RowFits(x, row)
  PROVE  row # Nothing
BY ThingsAreApart, DatabaseAssumption DEF RowFits, Rows

(* Making a thing, once its row is what it should be.                      *)
LEMMA MakeIsCoherent ==
  ASSUME NEW lost, Coherent(mem, lost), NEW x \in Things, mem[x] = Nothing,
         NEW row, RowFits(x, row),
         x \in Bodies => row.in = row.univ /\ mem[row.univ] # Nothing,
         \A S \in Numbered(lost) : x \in S => row.id \notin Numbers(S, mem),
         x \in Parts => mem[row.ship] # Nothing,
         x \in Instances => MadeFrom(x, row, mem, lost),
         x \in Ships => row.hull = Find(Classes, row.class, mem) /\ row.hull # Nothing
  PROVE  Coherent([mem EXCEPT ![x] = row], lost)
<1> DEFINE n == [mem EXCEPT ![x] = row]
<1>1. row # Nothing
  BY FittingRowExists
<1>2. RowOK(n)
  <2>1. mem = [y \in Things |-> mem[y]] /\ \A y \in Things : mem[y] # Nothing => RowFits(y, mem[y])
    BY RowsFit DEF Coherent
  <2>2. \A y \in Things : n[y] = IF y = x THEN row ELSE mem[y]
    BY <2>1
  <2>3. \A y \in Things : n[y] # Nothing => RowFits(y, n[y])
    BY <2>1, <2>2
  <2> HIDE DEF n
  <2> QED BY <2>3, RowsFit
<1> QED BY <1>1, <1>2, AdditionIsCoherent

(* A new universe has a place of its own.                                  *)
LEMMA NewUniverseIsCoherent ==
  ASSUME NEW lost, Coherent(mem, lost), NEW r \in Rooms, NewUniverse(r)
  PROVE  Coherent(mem', lost)
<1> DEFINE row == [place |-> 1 + Max({0} \cup {mem[q].place : q \in Existing(Rooms, mem)})]
<1>1. mem[r] = Nothing /\ mem' = [mem EXCEPT ![r] = row]
  BY DEF NewUniverse, Make, Edit
<1>2. row \in UniverseRows
  BY PlaceIsNatural DEF UniverseRows, Coherent, RowOK
<1> HIDE DEF row
<1>3. RowFits(r, row)
  BY <1>2, ThingsAreApart DEF RowFits, Bodies, Parts
<1>4. r \in Things /\ r \notin Bodies /\ r \notin Parts /\ r \notin Ships /\ r \notin Instances
      /\ \A S \in Numbered(lost) : r \notin S
  BY ThingsAreApart DEF Bodies, Parts, Numbered
<1> QED BY <1>1, <1>3, <1>4, MakeIsCoherent

(* A new class or system has a free number.                                *)
LEMMA NewNumberedIsCoherent ==
  ASSUME NEW lost, Coherent(mem, lost), NEW S \in {Classes, Systems}, NEW x \in S,
         Make(x, [id |-> FreeNumber(S)])
  PROVE  Coherent(mem', lost)
<1> DEFINE row == [id |-> FreeNumber(S)]
<1>1. mem[x] = Nothing /\ mem' = [mem EXCEPT ![x] = row]
  BY DEF Make, Edit
<1>2. S \in Numbered(lost) => FreeNumber(S) \notin Numbers(S, mem)
  <2>1. \A y \in Existing(S, mem) : mem[y].id \in Nat
    BY DEF Coherent, RowOK, Existing, NumberedRows
  <2>2. S \in Numbered(lost) => DistinctIn(S, mem)
    BY DEF Coherent
  <2> QED BY <2>1, <2>2, FreeNumberIsFree, ThingsAreApart
<1>3. row \in NumberedRows /\ (S \in Numbered(lost) => row.id \notin Numbers(S, mem))
  <2>1. FreeNumber(S) \in Nat
    BY LoopEnds, ThingsAreApart
  <2> QED BY <1>2, <2>1 DEF NumberedRows
<1> HIDE DEF row
<1>4. RowFits(x, row)
  BY <1>3, ThingsAreApart DEF RowFits, Bodies, Parts
<1>5. \A T \in Numbered(lost) : x \in T => T = S
  BY ThingsAreApart DEF Bodies, Numbered
<1>6. x \in Things /\ x \notin Bodies /\ x \notin Parts /\ x \notin Ships /\ x \notin Instances
  BY ThingsAreApart DEF Bodies, Parts
<1>7. \A T \in Numbered(lost) : x \in T => row.id \notin Numbers(T, mem)
  BY <1>3, <1>5
<1> QED BY <1>1, <1>4, <1>6, <1>7, MakeIsCoherent

(* There is a first universe where there is any.                           *)
LEMMA FirstUniverseOfMemory ==
  ASSUME NEW lost, Coherent(mem, lost), Existing(Rooms, mem) # {}
  PROVE  FirstUniverse(mem) \in Rooms /\ mem[FirstUniverse(mem)] # Nothing
<1>1. \A r \in Existing(Rooms, mem) : mem[r].place \in Nat
  BY DEF Coherent, RowOK, UniverseRows
<1> QED BY <1>1, FirstUniverseExists DEF Existing

(* A new ship is filed in the first universe and finds its class.          *)
LEMMA AddShipIsCoherent ==
  ASSUME NEW lost, Coherent(mem, lost), NEW s \in Ships, NEW c \in Classes, AddShip(s, c)
  PROVE  Coherent(mem', lost)
<1> DEFINE first == FirstUniverse(mem)
           row == [univ |-> first, in |-> first, class |-> mem[c].id, hull |-> c]
<1>1. /\ mem[s] = Nothing /\ mem' = [mem EXCEPT ![s] = row]
      /\ Existing(Rooms, mem) # {} /\ c \in Existing(Classes, mem)
  BY DEF AddShip, Make, Edit, Existing
<1>2. first \in Rooms /\ mem[first] # Nothing
  BY <1>1, FirstUniverseOfMemory
<1>3. Find(Classes, mem[c].id, mem) = c /\ c # Nothing
  BY <1>1, FindIsUnique DEF Coherent
<1>4. mem[c].id \in Nat
  BY <1>1 DEF Coherent, RowOK, Existing, NumberedRows
<1> HIDE DEF first
<1>5. /\ row \in ShipRows /\ row.univ = first /\ row.in = first
      /\ row.class = mem[c].id /\ row.hull = c
  BY <1>2, <1>4 DEF ShipRows
<1> HIDE DEF row
<1>6. RowFits(s, row)
  BY <1>5, ThingsAreApart DEF RowFits, Bodies, Parts
<1>7. s \in Things /\ s \notin Parts /\ s \notin Instances
      /\ \A S \in Numbered(lost) : s \notin S
  BY ThingsAreApart DEF Bodies, Parts, Numbered
<1> QED BY <1>1, <1>2, <1>3, <1>5, <1>6, <1>7, MakeIsCoherent

(* A new territory is filed in the first universe.                         *)
LEMMA AddTerritoryIsCoherent ==
  ASSUME NEW lost, Coherent(mem, lost), NEW t \in Territories, AddTerritory(t)
  PROVE  Coherent(mem', lost)
<1> DEFINE first == FirstUniverse(mem)
           row == [univ |-> first, in |-> first]
<1>1. /\ mem[t] = Nothing /\ mem' = [mem EXCEPT ![t] = row] /\ Existing(Rooms, mem) # {}
  BY DEF AddTerritory, Make, Edit
<1>2. first \in Rooms /\ mem[first] # Nothing
  BY <1>1, FirstUniverseOfMemory
<1> HIDE DEF first
<1>3. row \in TerritoryRows /\ row.univ = first /\ row.in = first
  BY <1>2 DEF TerritoryRows
<1> HIDE DEF row
<1>4. RowFits(t, row)
  BY <1>3, ThingsAreApart DEF RowFits, Bodies, Parts
<1>5. t \in Things /\ t \notin Parts /\ t \notin Instances /\ t \notin Ships
      /\ \A S \in Numbered(lost) : t \notin S
  BY ThingsAreApart DEF Bodies, Parts, Numbered
<1> QED BY <1>1, <1>2, <1>3, <1>4, <1>5, MakeIsCoherent

(* A new pod is filed with its ship and has a number of its own.           *)
LEMMA JettisonIsCoherent ==
  ASSUME NEW lost, Coherent(mem, lost), NEW s \in Ships, NEW p \in Pods, Jettison(s, p)
  PROVE  Coherent(mem', lost)
<1> DEFINE number == FindObjectID
           where == mem[s].univ
           row == [univ |-> where, in |-> where, id |-> number]
<1>1. /\ mem[p] = Nothing /\ mem' = [mem EXCEPT ![p] = row] /\ s \in Existing(Bodies, mem)
  BY DEF Jettison, Make, Edit, Existing, Bodies
<1>2. where \in Rooms /\ mem[where] # Nothing
  BY <1>1, RowFields DEF Coherent, FiledIn
<1>3. number \in Int /\ number \notin Numbers(Pods, mem) /\ number < 0
  <2>1. \A q \in Existing(Pods, mem) : mem[q].id \in Int /\ mem[q].id < 0
    BY DEF Coherent, RowOK, PodRows
  <2> QED BY <2>1, ObjectIDIsFree
<1> HIDE DEF number, where
<1>4. row \in PodRows /\ row.univ = where /\ row.in = where /\ row.id = number
  BY <1>2, <1>3 DEF PodRows
<1> HIDE DEF row
<1>5. RowFits(p, row)
  BY <1>4, ThingsAreApart DEF RowFits, Bodies, Parts
<1>6. p \in Things /\ p \notin Parts /\ p \notin Instances /\ p \notin Ships
      /\ \A S \in Numbered(lost) : p \in S => S = Pods
  BY ThingsAreApart DEF Bodies, Parts, Numbered
<1> QED BY <1>1, <1>2, <1>3, <1>4, <1>5, <1>6, MakeIsCoherent

(* A system placed on a ship refers to the ship and to its default.        *)
LEMMA PlaceSystemIsCoherent ==
  ASSUME NEW lost, Coherent(mem, lost), NEW i \in Instances, NEW s \in Ships, NEW y \in Systems,
         PlaceSystem(i, s, y)
  PROVE  Coherent(mem', lost)
<1> DEFINE row == [ship |-> s, systemId |-> mem[y].id, system |-> y, byHand |-> FALSE]
<1>1. /\ mem[i] = Nothing /\ mem' = [mem EXCEPT ![i] = row]
      /\ mem[s] # Nothing /\ y \in Existing(Systems, mem) /\ Type[i] = Type[y]
  BY DEF PlaceSystem, Make, Edit, Existing
<1>2. mem[y].id \in Nat
  BY <1>1 DEF Coherent, RowOK, Existing, NumberedRows
<1>3. row \in InstanceRows /\ row.ship = s /\ row.systemId = mem[y].id /\ row.system = y
  BY <1>1, <1>2 DEF InstanceRows, Existing
<1> HIDE DEF row
<1>4. MadeFrom(i, row, mem, lost)
  BY <1>1, <1>3 DEF MadeFrom, Existing
<1>5. RowFits(i, row)
  BY <1>3, ThingsAreApart DEF RowFits, Bodies, Parts
<1>6. i \in Things /\ i \notin Bodies /\ i \notin Ships
      /\ \A S \in Numbered(lost) : i \notin S
  BY ThingsAreApart DEF Bodies, Parts, Numbered
<1> QED BY <1>1, <1>3, <1>4, <1>5, <1>6, MakeIsCoherent

(* A number set by hand leaves the pointer, and what it points to, alone.  *)
LEMMA SetSystemIdIsCoherent ==
  ASSUME NEW lost, Coherent(mem, lost), NEW i \in Instances, NEW k \in Nat, SetSystemId(i, k)
  PROVE  Coherent(mem', lost)
<1> DEFINE n == mem'
<1>1. i \in Existing(Instances, mem) /\ i \in Things /\ i \in Parts /\ i \notin Bodies
  BY ThingsAreApart DEF SetSystemId, Existing, Parts, Bodies
<1>2. mem = [x \in Things |-> mem[x]]
  BY DEF Coherent
<1>3. mem' = [mem EXCEPT ![i].systemId = k, ![i].byHand = TRUE]
  BY DEF SetSystemId, Edit
<1>4. /\ n = [x \in Things |-> n[x]] /\ n[i] = [mem[i] EXCEPT !.systemId = k, !.byHand = TRUE]
      /\ \A x \in Things \ {i} : n[x] = mem[x]
  BY <1>1, <1>2, <1>3
<1> HIDE DEF n
<1>5. n[i] \in InstanceRows /\ n[i].ship = mem[i].ship /\ n[i].system = mem[i].system /\ n[i].byHand
  <2>1. mem[i] \in InstanceRows
    BY <1>1 DEF Coherent, RowOK
  <2> QED BY ONLY <1>4, <2>1, k \in Nat DEF InstanceRows
<1>6. RowFits(i, n[i])
  BY <1>1, <1>5, ThingsAreApart DEF RowFits, Bodies, Parts
<1>7. mem[i] # Nothing /\ n[i] # Nothing
  BY <1>1, <1>6, FittingRowExists DEF Existing
<1>8. \A x \in Things : x # i => n[x] = mem[x]
  BY <1>4
<1>9. RowOK(n)
  <2>1. \A x \in Things : mem[x] # Nothing => RowFits(x, mem[x])
    BY RowsFit DEF Coherent
  <2>2. \A x \in Things : n[x] # Nothing => RowFits(x, n[x])
    BY <1>6, <1>8, <2>1
  <2> QED BY <2>2, RowsFit
<1>10. /\ \A x \in Things : n[x] # Nothing <=> mem[x] # Nothing
       /\ \A x \in Rooms \cup Classes \cup Systems \cup Bodies : n[x] = mem[x]
  BY <1>1, <1>7, <1>8, ThingsAreApart DEF Parts, Bodies
<1>11. FiledIn(n)
  <2> SUFFICES ASSUME NEW b \in Existing(Bodies, n)
               PROVE  n[b].in = n[b].univ /\ n[n[b].univ] # Nothing
    BY DEF FiledIn
  <2>1. b \in Existing(Bodies, mem) /\ n[b] = mem[b]
    BY <1>10 DEF Existing
  <2>2. mem[b].univ \in Rooms /\ mem[b].in = mem[b].univ /\ mem[mem[b].univ] # Nothing
    BY <2>1, RowFields DEF Coherent, FiledIn
  <2> QED BY <1>10, <2>1, <2>2
<1>12. \A S \in Numbered(lost) : DistinctIn(S, n)
  <2> SUFFICES ASSUME NEW S \in Numbered(lost) PROVE DistinctIn(S, n)
    OBVIOUS
  <2>1. DistinctIn(S, mem) /\ \A x \in S : n[x] = mem[x]
    BY <1>10 DEF Coherent, Numbered, Bodies
  <2> QED BY <2>1 DEF DistinctIn, Existing
<1>13. AboardIn(n)
  <2> SUFFICES ASSUME NEW p \in Existing(Parts, n)
               PROVE  n[n[p].ship] # Nothing /\ (p \in Instances => n[n[p].system] # Nothing)
    BY DEF AboardIn
  <2>1. p \in Existing(Parts, mem) /\ p \in Things
    BY <1>10, ThingsAreApart DEF Existing, Parts
  <2>2. n[p].ship = mem[p].ship /\ n[p].system = mem[p].system
    BY <1>5, <1>8, <2>1
  <2>3. mem[p].ship \in Things /\ (p \in Instances => mem[p].system \in Things)
    BY <2>1, RowFields, ThingsAreApart DEF Coherent, Existing
  <2> QED BY <1>10, <2>1, <2>2, <2>3 DEF Coherent, AboardIn
<1>14. ASSUME ~lost PROVE MeantIn(n)
  <2> SUFFICES ASSUME NEW j \in Existing(Instances, n), ~n[j].byHand
               PROVE  n[n[j].system].id = n[j].systemId /\ Type[n[j].system] = Type[j]
    BY DEF MeantIn
  <2>1. j # i /\ j \in Existing(Instances, mem) /\ n[j] = mem[j]
    BY <1>5, <1>8, <1>10, ThingsAreApart DEF Existing
  <2>2. mem[j].system \in Systems
    BY <2>1, RowFields DEF Coherent
  <2> QED BY <1>10, <1>14, <2>1, <2>2 DEF Coherent, MeantIn
<1>15. \A q : Find(Classes, q, n) = Find(Classes, q, mem)
  BY <1>10, FindSame
<1>16. ASSUME NEW s \in Existing(Ships, n)
       PROVE  /\ n[s].hull \in {Find(Classes, n[s].class, n), Nothing}
              /\ ~lost => n[s].hull # Nothing
  <2>1. s \in Existing(Ships, mem) /\ n[s] = mem[s]
    BY <1>10 DEF Existing, Bodies
  <2> QED BY <1>15, <2>1 DEF Coherent
<1>17. Coherent(n, lost)
  BY <1>4, <1>9, <1>11, <1>12, <1>13, <1>14, <1>16 DEF Coherent
<1> QED BY <1>17 DEF n

(* A new console refers to its ship.                                       *)
LEMMA AddConsoleIsCoherent ==
  ASSUME NEW lost, Coherent(mem, lost), NEW k \in Consoles, NEW s \in Ships, AddConsole(k, s)
  PROVE  Coherent(mem', lost)
<1> DEFINE row == [ship |-> s]
<1>1. mem[k] = Nothing /\ mem' = [mem EXCEPT ![k] = row] /\ mem[s] # Nothing
  BY DEF AddConsole, Make, Edit
<1>2. row \in ConsoleRows /\ row.ship = s
  BY DEF ConsoleRows
<1> HIDE DEF row
<1>3. RowFits(k, row)
  BY <1>2, ThingsAreApart DEF RowFits, Bodies, Parts
<1>4. k \in Things /\ k \notin Bodies /\ k \notin Ships /\ k \notin Instances
      /\ \A S \in Numbered(lost) : k \notin S
  BY ThingsAreApart DEF Bodies, Parts, Numbered
<1> QED BY <1>1, <1>2, <1>3, <1>4, MakeIsCoherent

-----------------------------------------------------------------------------
(* Deleting, and moving to the universe that is left.                      *)
LEMMA DelHullClassIsCoherent ==
  ASSUME NEW lost, Coherent(mem, lost), NEW c \in Classes, DelHullClass(c)
  PROVE  Coherent(mem', lost)
<1>1. mem' = [x \in Things |-> IF x \in {c} THEN Nothing ELSE mem[x]]
  BY DEF DelHullClass, Edit, Coherent
<1>2. \A b \in Existing(Bodies, mem) : mem[b].univ # c
  BY RowFields, ThingsAreApart DEF Coherent
<1>3. \A s \in Existing(Ships, mem) : mem[s].hull # c
  <2> SUFFICES ASSUME NEW s \in Existing(Ships, mem), mem[s].hull = c PROVE FALSE
    OBVIOUS
  <2>1. mem[s].hull = Find(Classes, mem[s].class, mem) /\ mem[s].hull # Nothing
    BY ThingsAreApart, DatabaseAssumption DEF Coherent
  <2>2. mem[c].id = mem[s].class
    BY <2>1, FindFinds
  <2> QED BY <2>2 DEF DelHullClass
<1>4. \A p \in Existing(Parts, mem) :
        mem[p].ship # c /\ (p \in Instances => mem[p].system # c)
  BY RowFields, ThingsAreApart DEF Coherent, Existing, Bodies
<1> DEFINE gone == {c}
<1>5. /\ gone \subseteq Things
      /\ mem' = [x \in Things |-> IF x \in gone THEN Nothing ELSE mem[x]]
      /\ \A b \in Existing(Bodies, mem) \ gone : mem[b].univ \notin gone
      /\ \A s \in Existing(Ships, mem) \ gone : mem[s].hull \notin gone
      /\ \A p \in Existing(Parts, mem) \ gone :
           mem[p].ship \notin gone /\ (p \in Instances => mem[p].system \notin gone)
  BY <1>1, <1>2, <1>3, <1>4, ThingsAreApart
<1> HIDE DEF gone
<1> QED BY <1>5, RemovalIsCoherent

(* Deleting a default system takes the systems placed from it along.       *)
LEMMA DelSystemIsCoherent ==
  ASSUME NEW lost, Coherent(mem, lost), NEW y \in Systems, DelSystem(y)
  PROVE  Coherent(mem', lost)
<1> DEFINE D == {y} \cup {x \in Existing(Instances, mem) : mem[x].system = y}
<1>1. mem' = [x \in Things |-> IF x \in D THEN Nothing ELSE mem[x]]
  BY DEF DelSystem, Edit
<1>2. D \subseteq Things /\ D \cap (Rooms \cup Ships \cup Classes) = {} /\ D \subseteq Systems \cup Instances
  BY ThingsAreApart DEF Existing, Bodies, Parts
<1>3. \A b \in Existing(Bodies, mem) : mem[b].univ \notin D
  BY <1>2, RowFields DEF Coherent
<1>4. \A s \in Existing(Ships, mem) : mem[s].hull \notin D
  BY <1>2, RowFields, DatabaseAssumption DEF Coherent
<1>5. \A p \in Existing(Parts, mem) : mem[p].ship \notin D
  BY <1>2, RowFields DEF Coherent
<1>6. \A p \in Existing(Parts, mem) \ D : p \in Instances => mem[p].system \notin D
  <2>1. \A p \in Existing(Instances, mem) : mem[p].system \in Systems
    BY RowFields DEF Coherent
  <2> QED BY <2>1, ThingsAreApart DEF Existing, Parts
<1> HIDE DEF D
<1> QED BY <1>1, <1>2, <1>3, <1>4, <1>5, <1>6, RemovalIsCoherent

(* A removed part is referred to by nothing.                               *)
LEMMA RemovePartIsCoherent ==
  ASSUME NEW lost, Coherent(mem, lost), NEW p \in Parts, RemovePart(p)
  PROVE  Coherent(mem', lost)
<1>1. mem' = [x \in Things |-> IF x \in {p} THEN Nothing ELSE mem[x]]
  BY DEF RemovePart, Edit, Coherent
<1>2. p \in Things /\ p \notin Rooms /\ p \notin Classes /\ p \notin Systems /\ p \notin Ships
  BY ThingsAreApart DEF Parts
<1>3. \A b \in Existing(Bodies, mem) : mem[b].univ # p
  BY <1>2, RowFields DEF Coherent
<1>4. \A s \in Existing(Ships, mem) : mem[s].hull # p
  BY <1>2, RowFields, DatabaseAssumption DEF Coherent
<1>5. \A q \in Existing(Parts, mem) : mem[q].ship # p
  BY <1>2, RowFields DEF Coherent
<1>6. \A q \in Existing(Instances, mem) : mem[q].system # p
  BY <1>2, RowFields DEF Coherent
<1>7. \A q \in Existing(Parts, mem) : q \in Instances => mem[q].system # p
  BY <1>6 DEF Existing
<1> QED BY <1>1, <1>2, <1>3, <1>4, <1>5, <1>7, RemovalIsCoherent

(* Bodies go with their parts, and perhaps with a universe of their own.   *)
LeftOver(gone, R, m, rest) ==
  /\ gone \subseteq Bodies /\ R \subseteq Rooms
  /\ \A b \in Existing(Bodies, m) \ gone : m[b].univ \notin R
  /\ \A x \in Things : rest[x] = IF x \in R THEN Nothing ELSE m[x]

(* Removing a body with its parts leaves no reference to it.               *)
LEMMA WithoutIsCoherent ==
  ASSUME NEW m, NEW rest, NEW lost, NEW gone, NEW R,
         Coherent(m, lost), LeftOver(gone, R, m, rest)
  PROVE  Coherent(Without(gone, rest), lost)
<1>0. /\ gone \subseteq Bodies /\ R \subseteq Rooms
      /\ \A b \in Existing(Bodies, m) \ gone : m[b].univ \notin R
      /\ \A x \in Things : rest[x] = IF x \in R THEN Nothing ELSE m[x]
  BY DEF LeftOver
<1> DEFINE parts == {p \in Existing(Parts, m) : m[p].ship \in gone}
           D == R \cup gone \cup parts
<1>1. Parts \subseteq Things /\ Parts \cap R = {} /\ gone \subseteq Things
  BY <1>0, ThingsAreApart DEF Parts, Bodies
<1>2. \A p \in Parts : rest[p] = m[p]
  BY <1>0, <1>1
<1>3. Without(gone, rest) = [x \in Things |-> IF x \in D THEN Nothing ELSE m[x]]
  <2>1. \A x \in Things : (x \in Existing(Parts, rest) /\ rest[x].ship \in gone) <=> x \in parts
    BY <1>2 DEF Existing
  <2> HIDE DEF parts
  <2> QED BY <1>0, <2>1 DEF Without
<1>4. D \subseteq Things /\ D \cap (Classes \cup Systems) = {} /\ parts \subseteq Parts
  BY <1>0, ThingsAreApart DEF Existing, Bodies, Parts
<1>5. \A b \in Existing(Bodies, m) \ D : m[b].univ \notin D
  <2>1. \A b \in Existing(Bodies, m) : m[b].univ \in Rooms
    BY RowFields DEF Coherent
  <2>2. Rooms \cap D \subseteq R
    BY <1>0, <1>4, ThingsAreApart
  <2> QED BY <1>0, <2>1, <2>2
<1>6. \A s \in Existing(Ships, m) : m[s].hull \notin D
  BY <1>4, RowFields, DatabaseAssumption DEF Coherent
<1>7. \A p \in Existing(Parts, m) \ D : m[p].ship \notin D
  <2>1. \A p \in Existing(Parts, m) : m[p].ship \in Ships
    BY RowFields DEF Coherent
  <2>2. Ships \cap D \subseteq gone
    BY <1>0, <1>4, ThingsAreApart DEF Bodies
  <2> QED BY <2>1, <2>2
<1>8. \A p \in Existing(Parts, m) : p \in Instances => m[p].system \notin D
  <2>1. \A p \in Existing(Instances, m) : m[p].system \in Systems
    BY RowFields DEF Coherent
  <2> QED BY <1>4, <2>1 DEF Existing
<1> HIDE DEF D
<1> QED BY <1>3, <1>4, <1>5, <1>6, <1>7, <1>8, RemovalIsCoherent

(* Deleting a body takes its parts along.                                  *)
LEMMA DelBodyIsCoherent ==
  ASSUME NEW lost, Coherent(mem, lost), NEW b \in Bodies, DelBody(b)
  PROVE  Coherent(mem', lost)
<1>1. mem' = Without({b}, mem)
  BY DEF DelBody, Edit
<1> DEFINE gone == {b}
           R == {}
<1>2. LeftOver(gone, R, mem, mem)
  BY DEF LeftOver
<1>3. Coherent(Without(gone, mem), lost)
  <2> HIDE DEF gone, R
  <2> QED BY <1>2, WithoutIsCoherent
<1> QED BY <1>1, <1>3

(* A body that changes universes is filed where it says it is.             *)
LEMMA SetUniverseIsCoherent ==
  ASSUME NEW lost, Coherent(mem, lost), NEW b \in Territories \cup Ships, NEW r \in Rooms,
         SetUniverse(b, r)
  PROVE  Coherent(mem', lost)
<1> DEFINE B == {b}
           D == {}
           n == mem'
<1>1. b \in Existing(Bodies, mem) /\ b \in Things /\ mem[r] # Nothing
  BY ThingsAreApart DEF SetUniverse, Existing, Bodies
<1>2. mem = [x \in Things |-> mem[x]]
  BY DEF Coherent
<1>3. mem' = [mem EXCEPT ![b].univ = r, ![b].in = r]
  BY DEF SetUniverse, Edit
<1>4. n = [x \in Things |-> n[x]] /\ n[b] = [mem[b] EXCEPT !.univ = r, !.in = r]
      /\ \A x \in Things \ {b} : n[x] = mem[x]
  BY <1>1, <1>2, <1>3
<1>5. MovedTo(r, B, D, mem, n)
  BY <1>1, <1>4 DEF MovedTo
<1>6. Coherent(n, lost)
  <2> HIDE DEF B, D, n
  <2> QED BY <1>5, MoveIsCoherent
<1> QED BY <1>6

(* Deleting a universe moves or deletes what is in it.                     *)
LEMMA DelUniverseIsCoherent ==
  ASSUME NEW lost, Coherent(mem, lost), NEW r \in Rooms, DelUniverse(r)
  PROVE  Coherent(mem', lost)
<1> DEFINE rest == [mem EXCEPT ![r] = Nothing]
           inside == {b \in Existing(Bodies, mem) : mem[b].in = r}
           new == FirstUniverse(rest)
           R == {r}
<1>1. mem' = IF Existing(Rooms, rest) = {} THEN Without(inside, rest)
             ELSE [x \in Things |->
                     IF x \in inside THEN [mem[x] EXCEPT !.univ = new, !.in = new] ELSE rest[x]]
  BY DEF DelUniverse, Edit
<1>2. mem = [x \in Things |-> mem[x]] /\ r \in Things
  BY ThingsAreApart DEF Coherent
<1>3. \A x \in Things : rest[x] = IF x \in R THEN Nothing ELSE mem[x]
  BY <1>2
<1>4. \A b \in Existing(Bodies, mem) \ inside : mem[b].univ \notin R
  BY DEF Coherent, FiledIn
<1>5. inside \subseteq Existing(Bodies, mem) /\ inside \subseteq Bodies
  BY DEF Existing
<1>0. Coherent(mem, lost) /\ R \subseteq Rooms
  OBVIOUS
<1>6. CASE Existing(Rooms, rest) = {}
  <2> HIDE DEF rest, inside, R
  <2>1. LeftOver(inside, R, mem, rest)
    BY <1>0, <1>3, <1>4, <1>5 DEF LeftOver
  <2>2. Coherent(Without(inside, rest), lost)
    BY <2>1, WithoutIsCoherent
  <2> QED BY <1>1, <1>6, <2>2
<1>7. CASE Existing(Rooms, rest) # {}
  <2> HIDE DEF rest
  <2>1. ASSUME NEW q \in Existing(Rooms, rest)
        PROVE  rest[q].place \in Nat /\ mem[q] # Nothing /\ q # r
    <3>1. q \in Existing(Rooms, mem) /\ q # r /\ rest[q] = mem[q]
      BY <1>3, ThingsAreApart DEF Existing
    <3>2. mem[q] \in UniverseRows
      BY <3>1 DEF Coherent, RowOK
    <3> QED BY <3>1, <3>2 DEF UniverseRows, Existing
  <2>2. new \in Existing(Rooms, rest)
    BY <1>7, <2>1, FirstUniverseExists
  <2>3. new \in Rooms /\ mem[new] # Nothing /\ new \notin R
    BY <2>1, <2>2 DEF Existing
  <2>4. mem' = [x \in Things |-> IF x \in inside THEN [mem[x] EXCEPT !.univ = new, !.in = new]
                                 ELSE rest[x]]
    BY <1>1, <1>7
  <2>5. R \cap inside = {} /\ inside \subseteq Things /\ R \subseteq Things
    BY <1>2, ThingsAreApart DEF Existing, Bodies
  <2> HIDE DEF inside, new, R
  <2> DEFINE n == mem'
  <2>6. /\ n = [x \in Things |-> n[x]]
        /\ \A b \in inside : n[b] = [mem[b] EXCEPT !.univ = new, !.in = new]
        /\ \A x \in R : n[x] = Nothing
        /\ \A x \in Things \ (inside \cup R) : n[x] = mem[x]
    BY <1>3, <2>4, <2>5
  <2>7. MovedTo(new, inside, R, mem, n)
    BY <1>0, <1>4, <1>5, <2>3, <2>6 DEF MovedTo
  <2>8. Coherent(n, lost)
    <3> HIDE DEF n
    <3> QED BY <2>7, MoveIsCoherent
  <2> QED BY <2>8
<1> QED BY <1>6, <1>7

(* A clone is filed where its ship is, and its parts refer to what the     *)
(* parts they were copied from refer to.                                   *)
LEMMA CloneIsCoherent ==
  ASSUME NEW lost, Coherent(mem, lost), NEW s \in Ships, NEW t \in Ships, Clone(s, t)
  PROVE  Coherent(mem', lost)
<1> DEFINE hull == Find(Classes, mem[s].class, mem)
           board == {i \in Existing(Parts, mem) : mem[i].ship = s}
<1>1. PICK copies \in SUBSET (Parts \ Existing(Parts, mem)) : \E of \in [copies -> board] :
        /\ \A i \in copies : i \in Instances <=> of[i] \in Instances
        /\ \A i \in copies \cap Instances : Type[i] = Type[of[i]]
        /\ mem' = [x \in Things |->
                     CASE x = t -> [mem[s] EXCEPT !.hull = hull]
                       [] x = s -> [mem[s] EXCEPT !.hull = hull]
                       [] x \in copies -> [mem[of[x]] EXCEPT !.ship = t]
                       [] OTHER -> mem[x]]
  BY DEF Clone, Edit
<1>a. PICK of \in [copies -> board] :
        /\ \A i \in copies : i \in Instances <=> of[i] \in Instances
        /\ \A i \in copies \cap Instances : Type[i] = Type[of[i]]
        /\ mem' = [x \in Things |->
                     CASE x = t -> [mem[s] EXCEPT !.hull = hull]
                       [] x = s -> [mem[s] EXCEPT !.hull = hull]
                       [] x \in copies -> [mem[of[x]] EXCEPT !.ship = t]
                       [] OTHER -> mem[x]]
  BY <1>1
<1> DEFINE n == mem'
<1>2. /\ s \in Existing(Ships, mem) /\ s \in Things /\ t \in Things /\ mem[t] = Nothing
      /\ hull # Nothing /\ hull \in Existing(Classes, mem) /\ mem[hull].id = mem[s].class
  BY FindFinds, ThingsAreApart DEF Clone, Existing
<1>3. /\ copies \subseteq Parts /\ copies \subseteq Things /\ s \notin copies /\ t \notin copies
      /\ \A x \in copies : mem[x] = Nothing
  BY ThingsAreApart DEF Existing, Parts
<1>4. /\ n = [x \in Things |-> n[x]]
      /\ n[t] = [mem[s] EXCEPT !.hull = hull] /\ n[s] = [mem[s] EXCEPT !.hull = hull]
      /\ \A x \in copies : n[x] = [mem[of[x]] EXCEPT !.ship = t]
      /\ \A x \in Things \ (copies \cup {s, t}) : n[x] = mem[x]
  BY <1>a, <1>2, <1>3
<1> HIDE DEF n, hull
<1>5. /\ n[s] \in ShipRows /\ n[s].univ = mem[s].univ /\ n[s].in = mem[s].in
      /\ n[s].class = mem[s].class /\ n[s].hull = hull /\ n[t] = n[s] /\ n[s] # Nothing
  <2>1. mem[s] \in ShipRows /\ hull \in Classes
    BY <1>2 DEF Coherent, RowOK, Existing
  <2>2. /\ n[s] \in ShipRows /\ n[s].univ = mem[s].univ /\ n[s].in = mem[s].in
        /\ n[s].class = mem[s].class /\ n[s].hull = hull
    BY ONLY <1>4, <2>1 DEF ShipRows
  <2> QED BY <1>4, <2>2, DatabaseAssumption DEF Rows
<1>6. ASSUME NEW i \in copies
      PROVE  /\ of[i] \in Existing(Parts, mem) /\ mem[of[i]].ship = s
             /\ i \in Instances <=> of[i] \in Instances
             /\ i \in Instances => n[i] \in InstanceRows /\ n[i].systemId = mem[of[i]].systemId
                                                         /\ n[i].system = mem[of[i]].system
                                                         /\ n[i].byHand = mem[of[i]].byHand
                                                         /\ Type[i] = Type[of[i]]
             /\ i \in Consoles => n[i] \in ConsoleRows
             /\ n[i].ship = t /\ n[i] # Nothing
  <2>1. of[i] \in Existing(Parts, mem) /\ mem[of[i]].ship = s /\ (i \in Instances <=> of[i] \in Instances)
    BY <1>a
  <2>2. n[i] = [mem[of[i]] EXCEPT !.ship = t] /\ t \in Ships
    BY <1>4
  <2>3. CASE i \in Instances
    <3>1. mem[of[i]] \in InstanceRows
      BY <2>1, <2>3 DEF Coherent, RowOK, Existing
    <3>2. /\ n[i] \in InstanceRows /\ n[i].systemId = mem[of[i]].systemId
          /\ n[i].system = mem[of[i]].system /\ n[i].ship = t /\ n[i].byHand = mem[of[i]].byHand
      BY ONLY <2>2, <3>1 DEF InstanceRows
    <3>3. Type[i] = Type[of[i]]
      BY <1>a, <2>3
    <3> QED BY <2>1, <2>3, <3>2, <3>3, ThingsAreApart, DatabaseAssumption DEF Rows
  <2>4. CASE i \in Consoles
    <3>1. mem[of[i]] \in ConsoleRows
      BY <2>1, <2>4, ThingsAreApart DEF Coherent, RowOK, Existing, Parts
    <3>2. n[i] \in ConsoleRows /\ n[i].ship = t
      BY ONLY <2>2, <3>1 DEF ConsoleRows
    <3> QED BY <2>1, <2>4, <3>2, ThingsAreApart, DatabaseAssumption DEF Rows
  <2> QED BY <1>3, <2>3, <2>4 DEF Parts
<1>7. \A x \in Things : mem[x] # Nothing => n[x] # Nothing
  BY <1>2, <1>3, <1>4, <1>5
<1>8. \A x \in Rooms \cup Classes \cup Systems \cup Territories \cup Pods : n[x] = mem[x]
  <2>1. \A x \in Rooms \cup Classes \cup Systems \cup Territories \cup Pods :
          x \in Things /\ x \notin Parts /\ x \notin Ships
    BY ThingsAreApart DEF Bodies
  <2> QED BY <1>3, <1>4, <2>1
<1>9. RowOK(n)
  <2>1. \A x \in Things : mem[x] # Nothing => RowFits(x, mem[x])
    BY RowsFit DEF Coherent
  <2>2. ASSUME NEW x \in Things, n[x] # Nothing PROVE RowFits(x, n[x])
    <3>1. CASE x \in {s, t}
      BY <1>5, <3>1, ThingsAreApart DEF RowFits, Bodies, Parts
    <3>2. CASE x \in copies
      BY <1>3, <1>6, <3>2, ThingsAreApart DEF RowFits, Bodies, Parts
    <3>3. CASE x \notin copies \cup {s, t}
      BY <1>4, <2>1, <2>2, <3>3
    <3> QED BY <3>1, <3>2, <3>3
  <2> QED BY <2>2, RowsFit
<1>10. FiledIn(n)
  <2> SUFFICES ASSUME NEW b \in Existing(Bodies, n)
               PROVE  n[b].in = n[b].univ /\ n[n[b].univ] # Nothing
    BY DEF FiledIn
  <2>1. PICK c \in Existing(Bodies, mem) : n[b].univ = mem[c].univ /\ n[b].in = mem[c].in
    <3>1. CASE b \in {s, t}
      BY <1>2, <1>5, <3>1 DEF Existing, Bodies
    <3>2. CASE b \notin {s, t}
      <4>1. n[b] = mem[b] /\ b \in Existing(Bodies, mem)
        BY <1>3, <1>4, <3>2, ThingsAreApart DEF Existing, Bodies
      <4> QED BY <4>1
    <3> QED BY <3>1, <3>2
  <2>2. mem[c].univ \in Rooms /\ mem[c].in = mem[c].univ /\ mem[mem[c].univ] # Nothing
    BY RowFields DEF Coherent, FiledIn
  <2> QED BY <1>8, <2>1, <2>2
<1>11. \A S \in Numbered(lost) : DistinctIn(S, n)
  <2> SUFFICES ASSUME NEW S \in Numbered(lost) PROVE DistinctIn(S, n)
    OBVIOUS
  <2>1. DistinctIn(S, mem) /\ \A x \in S : n[x] = mem[x]
    BY <1>8 DEF Coherent, Numbered
  <2> QED BY <2>1 DEF DistinctIn, Existing
<1>12. \A k : Find(Classes, k, n) = Find(Classes, k, mem)
  BY <1>8, FindSame
<1>13. AboardIn(n) /\ (~lost => MeantIn(n))
  <2>1. ASSUME NEW p \in Existing(Parts, n)
        PROVE  /\ n[n[p].ship] # Nothing
               /\ p \in Instances => MadeFrom(p, n[p], mem, lost)
    <3>1. ASSUME NEW q \in Existing(Parts, mem)
          PROVE  /\ mem[q].ship \in Ships /\ mem[mem[q].ship] # Nothing
                 /\ q \in Instances => MadeFrom(q, mem[q], mem, lost)
      <4>1. q \in Instances => q \in Existing(Instances, mem)
        BY DEF Existing
      <4> QED BY <4>1, RowFields DEF Coherent, AboardIn, MeantIn, MadeFrom
    <3>2. CASE p \in copies
      BY <1>5, <1>6, <3>1, <3>2 DEF MadeFrom
    <3>3. CASE p \notin copies
      <4>1. p \in Existing(Parts, mem) /\ n[p] = mem[p]
        <5>1. p \in Parts /\ p \in Things /\ p \notin {s, t} /\ n[p] # Nothing
          BY ThingsAreApart DEF Existing, Parts
        <5> QED BY <1>4, <3>3, <5>1 DEF Existing
      <4> QED BY <1>7, <3>1, <4>1, ThingsAreApart
    <3> QED BY <3>2, <3>3
  <2>2. ASSUME NEW i \in Existing(Instances, n)
        PROVE  /\ i \in Existing(Parts, n) /\ i \in Instances
               /\ n[n[i].system] = mem[n[i].system]
    <3>1. n[i].system \in Systems
      BY <1>9, RowFields, Zenon
    <3> QED BY <1>8, <3>1 DEF Existing, Parts
  <2>3. \A p \in Existing(Parts, n) : p \in Instances => p \in Existing(Instances, n)
    BY DEF Existing
  <2>4. AboardIn(n)
    BY <2>1, <2>2, <2>3 DEF AboardIn, MadeFrom
  <2>5. ASSUME ~lost PROVE MeantIn(n)
    <3> SUFFICES ASSUME NEW i \in Existing(Instances, n), ~n[i].byHand
                 PROVE  n[n[i].system].id = n[i].systemId /\ Type[n[i].system] = Type[i]
      BY DEF MeantIn
    <3>1. i \in Existing(Parts, n) /\ i \in Instances /\ n[n[i].system] = mem[n[i].system]
      BY <2>2
    <3>2. MadeFrom(i, n[i], mem, lost)
      BY <2>1, <3>1
    <3> QED BY <2>5, <3>1, <3>2 DEF MadeFrom
  <2> QED BY <2>4, <2>5
<1>14. ASSUME NEW u \in Existing(Ships, n)
       PROVE  /\ n[u].hull \in {Find(Classes, n[u].class, n), Nothing}
              /\ ~lost => n[u].hull # Nothing
  <2>1. CASE u \in {s, t}
    BY <1>2, <1>5, <1>12, <2>1 DEF hull
  <2>2. CASE u \notin {s, t}
    <3>1. u \in Existing(Ships, mem) /\ n[u] = mem[u]
      BY <1>3, <1>4, <2>2, ThingsAreApart DEF Existing
    <3> QED BY <1>12, <3>1 DEF Coherent
  <2> QED BY <2>1, <2>2
<1>15. Coherent(n, lost)
  BY <1>4, <1>9, <1>10, <1>11, <1>13, <1>14 DEF Coherent
<1> QED BY <1>15 DEF n

-----------------------------------------------------------------------------
(* What a dump leaves in the tables: every thing has one, and those of     *)
(* hull classes and of temporary objects have one table each.              *)
LEMMA TableOf ==
  /\ TableCount \in Nat
  /\ \A x \in Things : Table(x) \in 1..TableCount
  /\ \A x \in Classes : Table(x) = 2
  /\ \A x \in Pods : Table(x) = 5
<1>1. TypeCount \in Nat /\ \A x \in Systems \cup Instances : Type[x] \in 1..TypeCount
  BY DatabaseAssumption
<1>2. TableCount \in Nat /\ TableCount = 6 + 2 * TypeCount
  BY <1>1 DEF TableCount
<1>3. \A x \in Rooms : Table(x) = 1
  BY ThingsAreApart DEF Table, Bodies, Parts
<1>4. \A x \in Classes : Table(x) = 2
  BY ThingsAreApart DEF Table, Bodies, Parts
<1>5. \A x \in Territories : Table(x) = 3
  BY ThingsAreApart DEF Table, Bodies, Parts
<1>6. \A x \in Ships : Table(x) = 4
  BY ThingsAreApart DEF Table, Bodies, Parts
<1>7. \A x \in Pods : Table(x) = 5
  BY ThingsAreApart DEF Table, Bodies, Parts
<1>8. \A x \in Systems : Table(x) = 5 + Type[x]
  BY ThingsAreApart DEF Table, Bodies, Parts
<1>9. \A x \in Instances : Table(x) = 5 + TypeCount + Type[x]
  BY ThingsAreApart DEF Table, Bodies, Parts
<1>10. \A x \in Consoles : Table(x) = 6 + 2 * TypeCount
  BY ThingsAreApart DEF Table, Bodies, Parts
<1>11. \A x \in Things : Table(x) \in 1..TableCount
  <2> SUFFICES ASSUME NEW x \in Things PROVE Table(x) \in 1..TableCount
    OBVIOUS
  <2>1. CASE x \in Systems
    BY <1>1, <1>2, <1>8, <2>1
  <2>2. CASE x \in Instances
    BY <1>1, <1>2, <1>9, <2>2
  <2>3. CASE x \notin Systems \cup Instances
    <3>1. Table(x) \in {1, 2, 3, 4, 5, 6 + 2 * TypeCount}
      BY <1>3, <1>4, <1>5, <1>6, <1>7, <1>10, <2>3, ThingsAreApart
    <3> QED BY <1>1, <1>2, <3>1
  <2> QED BY <2>1, <2>2, <2>3
<1> QED BY <1>2, <1>4, <1>7, <1>11

(* The rows that a dump may have written in the table where it stopped.    *)
Stopped(n, kept) ==
  /\ n \in 1..(TableCount + 1)
  /\ \A x \in kept : x \in Things /\ Table(x) = n

(* What a dump that ends in table n leaves on the disk.                    *)
LEMMA DumpedRows ==
  ASSUME NEW n, NEW kept, Stopped(n, kept), Dump(n, kept)
  PROVE  /\ disk' = [x \in Things |-> disk'[x]]
         /\ \A x \in Things :
              /\ Table(x) < n => disk'[x] = mem[x]
              /\ Table(x) = n => disk'[x] \in {mem[x], Nothing}
              /\ Table(x) > n => disk'[x] = disk[x]
<1>1. disk' = [x \in Things |->
                 IF Table(x) < n \/ x \in kept THEN mem[x]
                 ELSE IF Table(x) = n THEN Nothing ELSE disk[x]]
  BY DEF Dump
<1>2. ASSUME NEW x \in Things
      PROVE  /\ Table(x) < n => disk'[x] = mem[x]
             /\ Table(x) = n => disk'[x] \in {mem[x], Nothing}
             /\ Table(x) > n => disk'[x] = disk[x]
  <2>1. Table(x) \in Int /\ n \in Int
    BY TableOf DEF Stopped
  <2>2. Table(x) > n => ~(Table(x) < n) /\ Table(x) # n
    BY <2>1
  <2>3. Table(x) = n => ~(Table(x) < n)
    BY <2>1
  <2>4. x \in kept => Table(x) = n
    BY DEF Stopped
  <2>5. disk'[x] = IF Table(x) < n \/ x \in kept THEN mem[x]
                   ELSE IF Table(x) = n THEN Nothing ELSE disk[x]
    BY <1>1
  <2> QED BY <2>2, <2>3, <2>4, <2>5
<1>3. disk' = [x \in Things |-> disk'[x]]
  BY <1>1
<1> QED BY <1>2, <1>3

(* Of every thing there is on the disk the row of this dump, the row of    *)
(* the one before, or none; and a table does not mix them.                 *)
LEMMA DumpedTable ==
  ASSUME NEW n, NEW kept, Stopped(n, kept), Dump(n, kept)
  PROVE  /\ \A x \in Things : disk'[x] \in {mem[x], disk[x], Nothing}
         /\ \A S \in {Classes, Pods} : \/ \A x \in S : disk'[x] \in {mem[x], Nothing}
                                      \/ \A x \in S : disk'[x] = disk[x]
<1>1. n \in Int /\ \A x \in Things : Table(x) \in Int
  BY TableOf DEF Stopped
<1>2. \A x \in Things : Table(x) < n \/ Table(x) = n \/ Table(x) > n
  BY <1>1
<1>3. \A x \in Things : disk'[x] \in {mem[x], disk[x], Nothing}
  BY <1>2, DumpedRows
<1>4. ASSUME NEW S \in {Classes, Pods}
      PROVE  \/ \A x \in S : disk'[x] \in {mem[x], Nothing}
             \/ \A x \in S : disk'[x] = disk[x]
  <2>1. PICK k \in {2, 5} : \A x \in S : Table(x) = k
    BY TableOf
  <2>2. S \subseteq Things
    BY ThingsAreApart DEF Bodies
  <2>3. k < n \/ k = n \/ k > n
    BY <1>1
  <2> QED BY <2>1, <2>2, <2>3, DumpedRows
<1> QED BY <1>3, <1>4

(* A dump that does not break off writes everything.                       *)
LEMMA DumpedAll ==
  ASSUME mem = [x \in Things |-> mem[x]], NEW kept, Stopped(TableCount + 1, kept),
         Dump(TableCount + 1, kept)
  PROVE  disk' = mem
<1>1. \A x \in Things : Table(x) < TableCount + 1
  BY TableOf
<1>2. disk' = [x \in Things |-> disk'[x]] /\ \A x \in Things : disk'[x] = mem[x]
  BY <1>1, DumpedRows
<1> QED BY <1>2

-----------------------------------------------------------------------------
(* The inductive invariant.  Memory is coherent, and when torn tables were *)
(* read, as far as they allow.  The tables hold rows, and neither that of  *)
(* the hull classes nor that of the temporary objects a number twice, even *)
(* where they are torn: a table never mixes two dumps.  When they are not, *)
(* and memory is not tainted, they are as coherent as memory was.          *)
IInv ==
  /\ Coherent(mem, tainted)
  /\ disk = [x \in Things |-> disk[x]]
  /\ RowOK(disk) /\ DistinctIn(Classes, disk) /\ DistinctIn(Pods, disk)
  /\ ~torn /\ ~tainted => Coherent(disk, FALSE)
  /\ torn \in BOOLEAN /\ tainted \in BOOLEAN
  /\ edits \in 0..MaxEdits /\ breaks \in 0..MaxBreaks

(* The first rows satisfy the invariant.                                   *)
LEMMA InitInvariant == Init => IInv
<1> SUFFICES ASSUME Init PROVE IInv
  OBVIOUS
<1>1. FirstRows = [x \in Things |-> FirstRows[x]]
  BY DEF FirstRows
<1>2. Coherent(FirstRows, FALSE)
  BY <1>1, CoherentIsSound, InitialRowsAssumption
<1>3. mem = FirstRows /\ disk = FirstRows /\ torn = FALSE /\ tainted = FALSE
      /\ edits = 0 /\ breaks = 0
  BY DEF Init
<1>4. Coherent(mem, tainted) /\ Coherent(disk, FALSE)
  BY <1>2, <1>3
<1>5. /\ disk = [x \in Things |-> disk[x]] /\ RowOK(disk)
      /\ DistinctIn(Classes, disk) /\ DistinctIn(Pods, disk)
  BY <1>4 DEF Coherent, Numbered
<1>6. torn \in BOOLEAN /\ tainted \in BOOLEAN /\ edits \in 0..MaxEdits /\ breaks \in 0..MaxBreaks
  <2>1. 0 \in 0..MaxEdits /\ 0 \in 0..MaxBreaks
    BY DatabaseAssumption
  <2>2. torn \in BOOLEAN /\ tainted \in BOOLEAN
    BY <1>3
  <2> QED BY <1>3, <2>1, <2>2, Zenon
<1> QED BY <1>4, <1>5, <1>6 DEF IInv

(* A command that leaves memory coherent keeps the invariant.              *)
LEMMA EditKeepsInvariant ==
  ASSUME IInv, NEW m, Edit(m), Coherent(m, tainted)
  PROVE  IInv'
<1>1. mem' = m /\ edits' = edits + 1 /\ edits < MaxEdits /\ UNCHANGED <<disk, torn, tainted, breaks>>
  BY DEF Edit
<1>2. Coherent(mem', tainted')
  BY <1>1
<1>3. edits' \in 0..MaxEdits
  BY <1>1, DatabaseAssumption DEF IInv
<1>4. /\ disk' = [x \in Things |-> disk'[x]] /\ RowOK(disk')
      /\ DistinctIn(Classes, disk') /\ DistinctIn(Pods, disk')
      /\ torn' \in BOOLEAN /\ tainted' \in BOOLEAN /\ breaks' \in 0..MaxBreaks
  BY <1>1 DEF IInv
<1>5. ~torn' /\ ~tainted' => Coherent(disk', FALSE)
  BY <1>1, Zenon DEF IInv
<1> QED BY <1>2, <1>3, <1>4, <1>5, Zenon DEF IInv

(* A dump keeps it, wherever it stops.                                     *)
LEMMA DumpKeepsInvariant ==
  ASSUME IInv, NEW n, NEW kept, Stopped(n, kept), Dump(n, kept)
  PROVE  IInv'
<1>1. disk' = [x \in Things |-> disk'[x]]
  BY DumpedRows
<1>2. \A x \in Things : disk'[x] \in {mem[x], disk[x], Nothing}
  BY DumpedTable
<1>3. RowOK(disk')
  <2>1. /\ \A x \in Things : mem[x] # Nothing => RowFits(x, mem[x])
        /\ \A x \in Things : disk[x] # Nothing => RowFits(x, disk[x])
    BY RowsFit DEF IInv, Coherent
  <2>2. \A x \in Things : disk'[x] # Nothing => RowFits(x, disk'[x])
    BY <1>2, <2>1
  <2> QED BY <2>2, RowsFit
<1>4. ASSUME NEW S \in {Classes, Pods} PROVE DistinctIn(S, disk')
  <2> SUFFICES ASSUME NEW x \in Existing(S, disk'), NEW y \in Existing(S, disk'),
                      disk'[x].id = disk'[y].id
               PROVE  x = y
    BY DEF DistinctIn
  <2>0. DistinctIn(S, mem) /\ DistinctIn(S, disk)
    BY DEF IInv, Coherent, Numbered
  <2>1. CASE \A z \in S : disk'[z] \in {mem[z], Nothing}
    <3>1. x \in Existing(S, mem) /\ y \in Existing(S, mem) /\ mem[x].id = mem[y].id
      BY <2>1 DEF Existing
    <3> QED BY <2>0, <3>1 DEF DistinctIn
  <2>2. CASE \A z \in S : disk'[z] = disk[z]
    <3>1. x \in Existing(S, disk) /\ y \in Existing(S, disk) /\ disk[x].id = disk[y].id
      BY <2>2 DEF Existing
    <3> QED BY <2>0, <3>1 DEF DistinctIn
  <2> QED BY <2>1, <2>2, DumpedTable
<1>5. DistinctIn(Classes, disk') /\ DistinctIn(Pods, disk')
  BY <1>4
<1>6. /\ UNCHANGED <<mem, tainted, edits>> /\ torn' = (n <= TableCount)
      /\ breaks' = (IF n <= TableCount THEN breaks + 1 ELSE breaks) /\ breaks' <= MaxBreaks
  BY DEF Dump
<1>7. Coherent(mem', tainted')
  BY <1>6 DEF IInv
<1>8. ASSUME ~torn', ~tainted' PROVE Coherent(disk', FALSE)
  <2>1. ~(n <= TableCount) /\ ~tainted
    BY <1>6, <1>8, Zenon
  <2>2. n = TableCount + 1
    BY <2>1, TableOf DEF Stopped
  <2>3. disk' = mem
    BY <2>2, DumpedAll DEF IInv, Coherent
  <2>4. Coherent(mem, FALSE)
    BY <2>1 DEF IInv
  <2> QED BY <2>3, <2>4
<1>9. breaks' \in 0..MaxBreaks /\ edits' \in 0..MaxEdits
  BY <1>6, DatabaseAssumption DEF IInv
<1>10. torn' \in BOOLEAN /\ tainted' \in BOOLEAN
  BY <1>6 DEF IInv
<1> QED BY <1>1, <1>3, <1>5, <1>7, <1>8, <1>9, <1>10, Zenon DEF IInv

(* A restart keeps it, whatever the dump left.                             *)
LEMMA RestartKeepsInvariant ==
  ASSUME IInv, Restart
  PROVE  IInv'
<1>1. tainted' = (tainted \/ torn) /\ UNCHANGED <<disk, torn, edits, breaks>>
  BY DEF Restart
<1>2. PICK first \in Found(disk) : mem' = Loaded(disk, first)
  BY DEF Restart
<1>3. Coherent(mem', tainted')
  <2> DEFINE n == mem'
  <2>1. CASE ~torn /\ ~tainted
    <3>1. Coherent(disk, FALSE)
      BY <2>1 DEF IInv
    <3>2. n = Loaded(disk, first)
      BY <1>2
    <3> HIDE DEF n
    <3>3. Coherent(n, FALSE)
      BY <3>1, <3>2, LoadStaysCoherent
    <3>4. tainted' = FALSE
      BY <1>1, <2>1
    <3> QED BY <3>3, <3>4 DEF n
  <2>2. CASE torn \/ tainted
    <3>1. tainted' = TRUE
      BY <1>1, <2>2 DEF IInv
    <3>2. Coherent(Loaded(disk, first), TRUE)
      BY LoadIsCoherent DEF IInv
    <3> QED BY <1>2, <3>1, <3>2
  <2> QED BY <2>1, <2>2 DEF IInv
<1>4. ~torn' /\ ~tainted' => Coherent(disk', FALSE)
  BY <1>1 DEF IInv
<1> QED BY <1>1, <1>3, <1>4 DEF IInv

(* Every step keeps it.                                                    *)
LEMMA StepInvariant == IInv /\ [Next]_vars => IInv'
<1> SUFFICES ASSUME IInv, [Next]_vars PROVE IInv'
  OBVIOUS
<1>0. Coherent(mem, tainted)
  BY DEF IInv
<1> DEFINE Edits == \E m : Edit(m)
<1>1. ASSUME Edits, Coherent(mem', tainted) PROVE IInv'
  <2>1. PICK m : Edit(m)
    BY <1>1
  <2>2. mem' = m
    BY <2>1 DEF Edit
  <2> QED BY <1>1, <2>1, <2>2, EditKeepsInvariant
<1> HIDE DEF Edits
<1>2. ASSUME NEW r \in Rooms, NewUniverse(r) PROVE IInv'
  BY <1>0, <1>1, <1>2, NewUniverseIsCoherent DEF NewUniverse, Make, Edits
<1>3. ASSUME NEW r \in Rooms, DelUniverse(r) PROVE IInv'
  BY <1>0, <1>1, <1>3, DelUniverseIsCoherent DEF DelUniverse, Edits
<1>4. ASSUME NEW b \in Territories \cup Ships, NEW r \in Rooms, SetUniverse(b, r) PROVE IInv'
  BY <1>0, <1>1, <1>4, SetUniverseIsCoherent DEF SetUniverse, Edits
<1>5. ASSUME NEW c \in Classes, NewHullClass(c) PROVE IInv'
  BY <1>0, <1>1, <1>5, NewNumberedIsCoherent DEF NewHullClass, Make, Edits
<1>6. ASSUME NEW c \in Classes, DelHullClass(c) PROVE IInv'
  BY <1>0, <1>1, <1>6, DelHullClassIsCoherent DEF DelHullClass, Edits
<1>7. ASSUME NEW y \in Systems, NewSystem(y) PROVE IInv'
  BY <1>0, <1>1, <1>7, NewNumberedIsCoherent DEF NewSystem, Make, Edits
<1>8. ASSUME NEW y \in Systems, DelSystem(y) PROVE IInv'
  BY <1>0, <1>1, <1>8, DelSystemIsCoherent DEF DelSystem, Edits
<1>9. ASSUME NEW s \in Ships, NEW c \in Classes, AddShip(s, c) PROVE IInv'
  BY <1>0, <1>1, <1>9, AddShipIsCoherent DEF AddShip, Make, Edits
<1>10. ASSUME NEW t \in Territories, AddTerritory(t) PROVE IInv'
  BY <1>0, <1>1, <1>10, AddTerritoryIsCoherent DEF AddTerritory, Make, Edits
<1>11. ASSUME NEW s \in Ships, NEW p \in Pods, Jettison(s, p) PROVE IInv'
  BY <1>0, <1>1, <1>11, JettisonIsCoherent DEF Jettison, Make, Edits
<1>12. ASSUME NEW b \in Bodies, DelBody(b) PROVE IInv'
  BY <1>0, <1>1, <1>12, DelBodyIsCoherent DEF DelBody, Edits
<1>13. ASSUME NEW i \in Instances, NEW s \in Ships, NEW y \in Systems, PlaceSystem(i, s, y)
       PROVE  IInv'
  BY <1>0, <1>1, <1>13, PlaceSystemIsCoherent DEF PlaceSystem, Make, Edits
<1>14. ASSUME NEW k \in Consoles, NEW s \in Ships, AddConsole(k, s) PROVE IInv'
  BY <1>0, <1>1, <1>14, AddConsoleIsCoherent DEF AddConsole, Make, Edits
<1>15. ASSUME NEW p \in Parts, RemovePart(p) PROVE IInv'
  BY <1>0, <1>1, <1>15, RemovePartIsCoherent DEF RemovePart, Edits
<1>16. ASSUME NEW s \in Ships, NEW t \in Ships, Clone(s, t) PROVE IInv'
  <2>1. Edits
    BY <1>16 DEF Clone, Edits
  <2> QED BY <1>0, <1>1, <1>16, <2>1, CloneIsCoherent
<1>17. ASSUME NEW n \in 1..TableCount,
              NEW kept \in SUBSET {x \in Existing(Things, mem) : Table(x) = n}, Dump(n, kept)
       PROVE  IInv'
  <2>1. Stopped(n, kept)
    BY TableOf DEF Stopped, Existing
  <2> QED BY <1>17, <2>1, DumpKeepsInvariant
<1>18. CASE Dump(TableCount + 1, {})
  <2>1. Stopped(TableCount + 1, {})
    BY TableOf DEF Stopped
  <2> QED BY <1>18, <2>1, DumpKeepsInvariant
<1>19. CASE Restart
  BY <1>19, RestartKeepsInvariant
<1>a. ASSUME NEW i \in Instances, NEW n \in 0..Cardinality(Systems), SetSystemId(i, n) PROVE IInv'
  <2>1. n \in Nat
    <3>1. IsFiniteSet(Systems)
      BY FS_Subset, DatabaseAssumption, ThingsAreApart
    <3> QED BY <3>1, FS_CardinalityType
  <2> QED BY <1>0, <1>1, <1>a, <2>1, SetSystemIdIsCoherent DEF SetSystemId, Edits
<1>20. CASE UNCHANGED vars
  BY <1>20, Zenon DEF vars, IInv
<1> QED
  BY <1>2, <1>3, <1>4, <1>5, <1>6, <1>7, <1>8, <1>9, <1>10, <1>11, <1>12, <1>13, <1>14, <1>15,
     <1>16, <1>17, <1>18, <1>19, <1>20, <1>a
  DEF Next

(* Memory is coherent, up to what torn dumps took away; the disk holds     *)
(* correct rows, and is coherent too unless a dump was torn or memory was  *)
(* loaded from one that was.                                               *)
THEOREM DatabaseInvariant == Spec => []IInv
BY InitInvariant, StepInvariant, PTL DEF Spec

(* Memory and tables hold rows of their kinds, whatever is in them.        *)
THEOREM DatabaseTypeCorrect == Spec => []TypeOK
<1>1. ASSUME NEW m, RowOK(m), m = [x \in Things |-> m[x]]
      PROVE  m \in [Things -> Rows \cup {Nothing}]
  <2>1. \A x \in Things : m[x] # Nothing => RowFits(x, m[x])
    BY <1>1, RowsFit
  <2>2. \A x \in Things : m[x] \in Rows \cup {Nothing}
    BY <2>1, ThingsAreApart DEF RowFits, Rows
  <2> QED BY <1>1, <2>2
<1>2. IInv => TypeOK
  BY <1>1 DEF IInv, Coherent, TypeOK
<1> QED BY <1>2, DatabaseInvariant, PTL

(* Every body is in the list of the universe that its UNIVERSE names, and  *)
(* that universe exists, whatever is deleted, moved, dumped in part and    *)
(* loaded.                                                                 *)
THEOREM BodiesAreFiled == Spec => []Filed
<1>1. IInv => Filed
  BY DEF IInv, Coherent, Filed
<1> QED BY <1>1, DatabaseInvariant, PTL

(* Hull classes and temporary objects never share a number: one that is    *)
(* given is free, and a load does not mix two dumps within a table.  Nor   *)
(* do systems, unless tables of different dumps were read.                 *)
THEOREM NumbersStayDistinct == Spec => []NumbersAreDistinct
<1>1. IInv => NumbersAreDistinct
  BY DEF IInv, Coherent, NumbersAreDistinct, Numbered
<1> QED BY <1>1, DatabaseInvariant, PTL

(* No pointer outlives what it points to, and none disagrees with the      *)
(* number beside it, unless tables of different dumps were read or the     *)
(* number was set by hand.                                                 *)
THEOREM ReferencesStay == Spec => []ReferencesHold
<1>1. IInv => ReferencesHold
  BY Zenon DEF IInv, Coherent, ReferencesHold, Installed, HullIsNamed, NamedIn
<1> QED BY <1>1, DatabaseInvariant, PTL

-----------------------------------------------------------------------------
(* The database implements the store: a restart brings back what was       *)
(* dumped, unless a dump broke off.                                        *)
LEMMA StepImplementsStore ==
  ASSUME IInv, [Next]_vars
  PROVE  [Promise!Next]_<<mem, disk, torn, tainted, edits>>
<1>1. ASSUME NEW m, Edit(m) PROVE Promise!Change
  BY <1>1 DEF Edit, Promise!Change
<1>2. ASSUME NEW n \in 1..TableCount,
             NEW kept \in SUBSET {x \in Existing(Things, mem) : Table(x) = n}, Dump(n, kept)
      PROVE  Promise!Break
  <2>1. Stopped(n, kept)
    BY TableOf DEF Stopped, Existing
  <2>2. disk' = [x \in Things |-> disk'[x]] /\ disk = [x \in Things |-> disk[x]]
    BY <1>2, <2>1, DumpedRows DEF IInv
  <2>3. \A x \in Things : disk'[x] \in {mem[x], disk[x], Nothing}
    BY <1>2, <2>1, DumpedTable
  <2>4. DOMAIN disk' = DOMAIN disk /\ \A x \in DOMAIN disk : disk'[x] \in {mem[x], disk[x], Nothing}
    BY <2>2, <2>3
  <2>5. UNCHANGED <<mem, tainted, edits>> /\ torn' = (n <= TableCount)
    BY <1>2 DEF Dump
  <2>6. torn' = TRUE
    <3>1. n <= TableCount
      BY TableOf
    <3> QED BY <2>5, <3>1, Zenon
  <2> QED BY <2>4, <2>5, <2>6 DEF Promise!Break
<1>3. ASSUME Dump(TableCount + 1, {}) PROVE Promise!Save
  <2>1. Stopped(TableCount + 1, {})
    BY TableOf DEF Stopped
  <2>2. disk' = mem
    BY <1>3, <2>1, DumpedAll DEF IInv, Coherent
  <2>3. UNCHANGED <<mem, tainted, edits>> /\ torn' = (TableCount + 1 <= TableCount)
    BY <1>3 DEF Dump
  <2>4. torn' = FALSE
    <3>1. (TableCount + 1 <= TableCount) = FALSE
      BY TableOf
    <3> QED BY <2>3, <3>1
  <2> QED BY <2>2, <2>3, <2>4 DEF Promise!Save
<1>4. ASSUME Restart PROVE Promise!Recover
  <2>1. tainted' = (tainted \/ torn) /\ UNCHANGED <<disk, torn, edits>>
    BY <1>4 DEF Restart
  <2>2. PICK first \in Found(disk) : mem' = Loaded(disk, first)
    BY <1>4 DEF Restart
  <2>3. disk = [x \in Things |-> disk[x]] /\ mem' = [x \in Things |-> mem'[x]]
    BY <2>2, LoadedIsFunction DEF IInv
  <2>4. DOMAIN mem' = DOMAIN disk /\ DOMAIN disk = Things
    BY <2>3
  <2>5. ASSUME ~tainted', NEW x \in Things, disk[x] \notin RowsByHand PROVE mem'[x] = disk[x]
    <3>1. ~torn /\ ~tainted
      BY <2>1, <2>5
    <3>2. Coherent(disk, FALSE)
      BY <3>1 DEF IInv
    <3> QED BY <2>2, <2>5, <3>2, LoadBringsBack
  <2>6. tainted' = (torn \/ tainted)
    BY <2>1
  <2> QED BY <2>1, <2>4, <2>5, <2>6 DEF Promise!Recover
<1>5. CASE UNCHANGED vars
  BY <1>5 DEF vars
<1> QED
  BY <1>1, <1>2, <1>3, <1>4, <1>5
  DEF Next, Promise!Next, NewUniverse, DelUniverse, SetUniverse, NewHullClass, DelHullClass,
      NewSystem, DelSystem, AddShip, AddTerritory, Jettison, DelBody, PlaceSystem, SetSystemId,
      AddConsole, RemovePart, Clone, Make

(* Saving and loading implement Store: commands change memory only, a dump *)
(* keeps all of it, and a restart brings every thing back as it was        *)
(* dumped, with the pointers and lists it had, unless a dump broke off or, *)
(* for an instance, its number was set by hand.                            *)
THEOREM DatabaseImplementsStore == Spec => StoreSpec
<1>1. Init => Promise!Init
  BY DEF Init, Promise!Init
<1>2. IInv /\ [Next]_vars => [Promise!Next]_<<mem, disk, torn, tainted, edits>>
  BY StepImplementsStore
<1> QED BY <1>1, <1>2, DatabaseInvariant, PTL DEF Spec, StoreSpec, Promise!Spec

=============================================================================
