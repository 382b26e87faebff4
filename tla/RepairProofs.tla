---------------------------- MODULE RepairProofs ----------------------------
(***************************************************************************)
(* Theorems about Repair, for any ships, systems, capacities and masses.   *)
(***************************************************************************)
EXTENDS Repair, Sums

(* Products and quotients of natural numbers are natural numbers. *)
LEMMA QuotientNat ==
  ASSUME NEW m \in Nat, NEW n \in Nat \ {0} PROVE m \div n \in Nat
OBVIOUS

(* Products of naturals are natural.                                       *)
LEMMA ProductNat ==
  ASSUME NEW m \in Nat, NEW n \in Nat PROVE m * n \in Nat
OBVIOUS

USE RepairAssumption

Earlier(x) == {y \in fitted : /\ Owner[y] = Owner[x] /\ Class[y] = Class[x]
                              /\ Position[y] < Position[x]}

-----------------------------------------------------------------------------
(* What stands before a system is a finite part of the ship's systems. *)
LEMMA EarlierFinite ==
  ASSUME fitted \subseteq Systems, NEW x
  PROVE  IsFiniteSet(Earlier(x)) /\ Count(x) = Cardinality(Earlier(x)) /\ Count(x) \in Nat
<1>1. Earlier(x) \subseteq Systems
  BY DEF Earlier
<1>2. IsFiniteSet(Earlier(x))
  BY <1>1, FS_Subset
<1>3. Count(x) = Cardinality(Earlier(x))
  BY DEF Count, Earlier
<1> QED BY <1>2, <1>3, FS_CardinalityType

(* Of two systems of a ship and class the later one has more before it. *)
LEMMA PlacesDiffer ==
  ASSUME fitted \subseteq Systems, NEW x \in fitted, NEW y \in fitted,
         Owner[x] = Owner[y], Class[x] = Class[y], Position[x] < Position[y]
  PROVE  Count(x) # Count(y)
<1>1. Position[x] \in Nat /\ Position[y] \in Nat /\ \A z \in fitted : Position[z] \in Nat
  OBVIOUS
<1>2. Earlier(x) \subseteq Earlier(y)
  BY <1>1 DEF Earlier
<1>3. x \in Earlier(y) /\ x \notin Earlier(x)
  BY <1>1 DEF Earlier
<1>4. IsFiniteSet(Earlier(y))
  BY EarlierFinite
<1>5. Cardinality(Earlier(x)) # Cardinality(Earlier(y))
  BY <1>2, <1>3, <1>4, FS_Subset
<1> QED BY <1>5, EarlierFinite

(* Different systems have different names.                                 *)
LEMMA JobsDiffer ==
  ASSUME fitted \subseteq Systems, NEW x \in fitted, NEW y \in fitted, JobOn(x) = JobOn(y)
  PROVE  x = y
<1>1. Owner[x] = Owner[y] /\ Class[x] = Class[y] /\ Count(x) = Count(y)
  BY DEF JobOn
<1>2. Position[x] \in Nat /\ Position[y] \in Nat
  OBVIOUS
<1>3. ~(Position[x] < Position[y]) /\ ~(Position[y] < Position[x])
  BY <1>1, PlacesDiffer
<1>4. Position[x] = Position[y]
  BY <1>2, <1>3
<1> QED BY <1>4 DEF IsInjective

-----------------------------------------------------------------------------
FittedOK == fitted \subseteq Systems

(* Only systems are fitted.                                                *)
LEMMA FittedTyped == Spec => []FittedOK
<1>1. Init => FittedOK
  BY DEF Init, FittedOK
<1>2. FittedOK /\ [Next]_vars => FittedOK'
  BY DEF FittedOK, Next, Working, Cycle, AssignToSystem, AssignToHull, Assign, Unassign,
         Damage, DamageHull, SwitchPower, Arrive, Depart, RemoveSystem, AddSystem, vars
<1> QED BY <1>1, <1>2, PTL DEF Spec

(* HSRepairSystem.h:75 is right: a ship, a class and the number of systems *)
(* of that class before it identify a system, at any one time.             *)
NamesAreUnique == \A x, y \in fitted : JobOn(x) = JobOn(y) => x = y

(* At any one time a repair job names one system: ship, class and place    *)
(* among the systems of the class (HSRepairSystem.h:75).                   *)
THEOREM JobsIdentify == Spec => []NamesAreUnique
<1>1. FittedOK => NamesAreUnique
  BY JobsDiffer DEF NamesAreUnique, FittedOK
<1> QED BY <1>1, FittedTyped, PTL

-----------------------------------------------------------------------------
(* Systems of a class stand in the order of their places in the ship, and  *)
(* nobody has the place just before that of a system but the one before.   *)
LEMMA PlacesInOrder ==
  ASSUME fitted \subseteq Systems, NEW x \in fitted, NEW y \in fitted,
         Owner[x] = Owner[y], Class[x] = Class[y], Position[x] < Position[y]
  PROVE  Count(x) \in Nat /\ Count(y) \in Nat /\ Count(x) < Count(y)
<1>1. Position[x] \in Nat /\ Position[y] \in Nat /\ \A z \in fitted : Position[z] \in Nat
  OBVIOUS
<1>2. Earlier(x) \subseteq Earlier(y)
  BY <1>1 DEF Earlier
<1>3. x \in Earlier(y) /\ x \notin Earlier(x)
  BY <1>1 DEF Earlier
<1>4. IsFiniteSet(Earlier(y))
  BY EarlierFinite
<1>5. Cardinality(Earlier(x)) <= Cardinality(Earlier(y))
  BY <1>2, <1>4, FS_Subset
<1> QED BY <1>5, EarlierFinite, PlacesDiffer

(* A system with others of its class before it comes next after one.       *)
LEMMA OneBefore ==
  ASSUME fitted \subseteq Systems, NEW y \in fitted, Earlier(y) # {}
  PROVE  \E x \in fitted : /\ Owner[x] = Owner[y] /\ Class[x] = Class[y]
                           /\ Count(x) = Count(y) - 1
<1> DEFINE places == {Position[x] : x \in Earlier(y)}
<1>0. IsFiniteSet(Earlier(y)) /\ Earlier(y) \subseteq fitted
  BY EarlierFinite DEF Earlier
<1>1. places \subseteq Int /\ places # {} /\ IsFiniteSet(places)
  <2> DEFINE place == [x \in Earlier(y) |-> Position[x]]
  <2>1. places \subseteq Int /\ places # {}
    BY <1>0
  <2>2. place \in Surjection(Earlier(y), places)
    <3>1. place \in [Earlier(y) -> places]
      OBVIOUS
    <3>2. \A p \in places : \E x \in Earlier(y) : place[x] = p
      OBVIOUS
    <3> QED BY <3>1, <3>2 DEF Surjection
  <2>3. IsFiniteSet(places)
    BY <1>0, <2>2, FS_Surjection
  <2> QED BY <2>1, <2>3
<1> HIDE DEF places
<1>2. PICK p \in places : \A q \in places : p >= q
  BY <1>1, FiniteHasGreatest
<1> USE DEF places
<1>3. PICK x \in Earlier(y) : \A z \in Earlier(y) : Position[x] >= Position[z]
  <2>1. PICK x \in Earlier(y) : p = Position[x]
    BY <1>2
  <2>2. \A z \in Earlier(y) : Position[z] \in places
    OBVIOUS
  <2>3. \A z \in Earlier(y) : Position[x] >= Position[z]
    BY <1>2, <2>1, <2>2
  <2> QED BY <2>3
<1>4. /\ x \in fitted /\ Owner[x] = Owner[y] /\ Class[x] = Class[y]
      /\ Position[x] < Position[y]
  BY <1>3 DEF Earlier
<1>5. \A z \in fitted : Position[z] \in Nat
  OBVIOUS
<1>6. \A z \in Earlier(y) : z # x => Position[z] < Position[x]
  BY <1>0, <1>3, <1>4, <1>5 DEF IsInjective
<1>7. Earlier(x) = Earlier(y) \ {x}
  BY <1>4, <1>5, <1>6 DEF Earlier
<1>8. Cardinality(Earlier(x)) = Cardinality(Earlier(y)) - 1
  <2>1. Cardinality(Earlier(y) \ {x}) = Cardinality(Earlier(y)) - 1
    BY <1>0, <1>3, FS_RemoveElement
  <2> QED BY <1>7, <2>1
<1> QED BY <1>4, <1>8, EarlierFinite

(* A removal takes one from the places of those of the class behind it,    *)
(* and leaves all other names as they were.                                *)
LEMMA NamesAfterRemoval ==
  ASSUME fitted \subseteq Systems, NEW x \in fitted, fitted' = fitted \ {x},
         NEW y \in fitted
  PROVE  /\ x \in Earlier(y) => Count(y)' = Count(y) - 1
         /\ x \notin Earlier(y) => JobOn(y)' = JobOn(y)
<1> DEFINE before == {z \in fitted' : /\ Owner[z] = Owner[y] /\ Class[z] = Class[y]
                                      /\ Position[z] < Position[y]}
<1>1. before = Earlier(y) \ {x}
  BY DEF Earlier
<1>2. Count(y)' = Cardinality(before)
  BY DEF Count
<1>3. IsFiniteSet(Earlier(y)) /\ Count(y) = Cardinality(Earlier(y))
  BY EarlierFinite
<1>4. ASSUME x \in Earlier(y) PROVE Count(y)' = Count(y) - 1
  <2>1. Cardinality(Earlier(y) \ {x}) = Cardinality(Earlier(y)) - 1
    BY <1>3, <1>4, FS_RemoveElement
  <2> HIDE DEF before
  <2> QED BY <1>1, <1>2, <1>3, <2>1
<1>5. ASSUME x \notin Earlier(y) PROVE JobOn(y)' = JobOn(y)
  <2>1. before = Earlier(y)
    BY <1>1, <1>5
  <2>2. Count(y)' = Count(y)
    BY <1>2, <1>3, <2>1
  <2> QED BY <2>2 DEF JobOn
<1> QED BY <1>4, <1>5

(* A system that is added goes behind those of its class, which keep their *)
(* names.                                                                  *)
LEMMA NamesAfterAddition ==
  ASSUME fitted \subseteq Systems, NEW x \in Systems, AddSystem(x), NEW y \in fitted
  PROVE  JobOn(y)' = JobOn(y)
<1>1. ~(Owner[x] = Owner[y] /\ Class[x] = Class[y] /\ Position[x] < Position[y])
  <2>1. Position[x] \in Nat /\ Position[y] \in Nat
    OBVIOUS
  <2> QED BY <2>1 DEF AddSystem
<1>2. {z \in fitted' : Owner[z] = Owner[y] /\ Class[z] = Class[y] /\ Position[z] < Position[y]}
      = {z \in fitted : Owner[z] = Owner[y] /\ Class[z] = Class[y] /\ Position[z] < Position[y]}
  BY <1>1 DEF AddSystem
<1>3. Count(y)' = Count(y)
  BY <1>2 DEF Count
<1> QED BY <1>3 DEF JobOn

(* What a job means is determined by the systems that bear its name.       *)
LEMMA FoundIs ==
  ASSUME NamesAreUnique, NEW j
  PROVE  /\ \A x \in fitted : JobOn(x) = j => Found(j) = x
         /\ Found(j) # None => Found(j) \in fitted /\ JobOn(Found(j)) = j
BY DEF Found, NamesAreUnique

(* What a job means after the step is determined in the same way.          *)
LEMMA FoundIsNext ==
  ASSUME NamesAreUnique', NEW j
  PROVE  /\ \A x \in fitted' : JobOn(x)' = j => Found(j)' = x
         /\ Found(j)' # None => /\ Found(j)' \in fitted'
                                /\ \E x \in fitted' : x = Found(j)' /\ JobOn(x)' = j
BY DEF Found, NamesAreUnique

(* A removal changes what an assignment means only to the next one behind  *)
(* or to none, and only when the system removed did not stand behind.      *)
LEMMA RemovalShifts ==
  ASSUME fitted \subseteq Systems, NamesAreUnique, NamesAreUnique',
         NEW x \in fitted, fitted' = fitted \ {x}, NEW j, Found(j)' # Found(j)
  PROVE  ComesToMean(Found(j), Found(j)')
<1>0. \A z \in fitted : Position[z] \in Nat
  OBVIOUS
<1>1. CASE Found(j) = None
  <2>1. PICK y \in fitted' : JobOn(y)' = j
    BY <1>1, FoundIsNext
  <2>2. y \in fitted /\ JobOn(y) # j
    BY <1>1, <2>1, FoundIs
  <2>3. x \in Earlier(y)
    BY <2>1, <2>2, NamesAfterRemoval
  <2>4. PICK p \in fitted : /\ Owner[p] = Owner[y] /\ Class[p] = Class[y]
                            /\ Count(p) = Count(y) - 1
    BY <2>2, <2>3, OneBefore
  <2>5. Count(y)' = Count(y) - 1
    BY <2>2, <2>3, NamesAfterRemoval
  <2>6. JobOn(p) = j
    BY <2>1, <2>4, <2>5 DEF JobOn
  <2> QED BY <1>1, <2>6, FoundIs
<1>2. CASE Found(j) # None
  <2> DEFINE w == Found(j)
             v == Found(j)'
  <2>1. w \in fitted /\ JobOn(w) = j
    BY <1>2, FoundIs
  <2>2. x = w \/ x \in Earlier(w)
    <3>1. SUFFICES ASSUME x # w, x \notin Earlier(w) PROVE FALSE
      OBVIOUS
    <3>2. PICK y \in fitted : y = w /\ JobOn(y) = j
      BY <2>1
    <3>3. JobOn(y)' = j /\ y \in fitted'
      BY <3>1, <3>2, NamesAfterRemoval
    <3>4. Found(j)' = y
      BY <3>3, FoundIsNext
    <3> QED BY <3>2, <3>4
  <2>3. /\ x \in fitted \ fitted' /\ Owner[x] = Owner[w] /\ Class[x] = Class[w]
        /\ Position[x] <= Position[w]
    BY <1>0, <2>1, <2>2 DEF Earlier
  <2>4. ASSUME v # None PROVE v \in fitted /\ IsNextOfClass(w, v)
    <3>1. PICK y \in fitted' : y = v /\ JobOn(y)' = j
      BY <2>4, FoundIsNext
    <3>2. y \in fitted /\ y # w /\ JobOn(y) # j
      BY <3>1, <2>1, FoundIs
    <3>3. x \in Earlier(y) /\ Count(y)' = Count(y) - 1
      BY <3>1, <3>2, NamesAfterRemoval
    <3>4. Owner[y] = Owner[w] /\ Class[y] = Class[w] /\ Count(w) = Count(y) - 1
      BY <2>1, <3>1, <3>3 DEF JobOn
    <3>5. Count(y) \in Nat /\ Count(w) \in Nat
      BY <2>1, <3>2, EarlierFinite
    <3>6. Position[w] < Position[y]
      <4>1. Position[w] # Position[y]
        BY <2>1, <3>2 DEF IsInjective
      <4>2. ~(Position[y] < Position[w])
        BY <2>1, <3>2, <3>4, <3>5, PlacesInOrder
      <4> QED BY <1>0, <2>1, <3>2, <4>1, <4>2
    <3>7. ASSUME NEW z \in fitted, Owner[z] = Owner[w], Class[z] = Class[w],
                 Position[w] < Position[z], Position[z] < Position[y]
          PROVE  FALSE
      <4>1. Count(w) < Count(z) /\ Count(z) \in Nat
        BY <2>1, <3>7, PlacesInOrder
      <4>2. Count(z) < Count(y)
        BY <3>2, <3>4, <3>7, PlacesInOrder
      <4> QED BY <3>4, <3>5, <4>1, <4>2
    <3> QED BY <3>1, <3>2, <3>4, <3>6, <3>7 DEF IsNextOfClass
  <2> QED BY <1>2, <2>1, <2>3, <2>4 DEF ComesToMean
<1> QED BY <1>1, <1>2

(* An addition can only give a meaning to assignments that had none.       *)
LEMMA AdditionShifts ==
  ASSUME fitted \subseteq Systems, NamesAreUnique, NamesAreUnique',
         NEW x \in Systems, AddSystem(x), NEW j, Found(j)' # Found(j)
  PROVE  ComesToMean(Found(j), Found(j)')
<1>1. fitted' = fitted \cup {x} /\ x \notin fitted
  BY DEF AddSystem
<1>2. CASE Found(j) = None
  <2>1. PICK y \in fitted' : y = Found(j)' /\ JobOn(y)' = j
    BY <1>2, FoundIsNext
  <2>2. y \notin fitted
    <3>1. SUFFICES ASSUME y \in fitted PROVE FALSE
      OBVIOUS
    <3>2. JobOn(y) = j
      BY <2>1, <3>1, NamesAfterAddition
    <3>3. y # None
      BY <3>1
    <3> QED BY <1>2, <3>1, <3>2, <3>3, FoundIs
  <2> QED BY <1>2, <2>1, <2>2 DEF ComesToMean
<1>3. CASE Found(j) # None
  <2>1. Found(j) \in fitted /\ JobOn(Found(j)) = j
    BY <1>3, FoundIs
  <2>2. PICK w \in fitted : w = Found(j) /\ JobOn(w) = j
    BY <2>1
  <2>3. JobOn(w)' = j /\ w \in fitted'
    BY <1>1, <2>2, NamesAfterAddition
  <2> QED BY <2>2, <2>3, FoundIsNext
<1> QED BY <1>2, <1>3

(* For any removals and additions, an assignment on the list comes to mean *)
(* another system only when one of its class before it, or it itself, is   *)
(* removed, and then the next one or none (HSRepairSystem.cpp:441).        *)
THEOREM JobsShift == Spec => JobsShiftOnlyByRemoval
<1> DEFINE Shifts == \A b \in Benches : \A j \in jobs[b] \cap jobs'[b] :
                       Found(j)' # Found(j) => ComesToMean(Found(j), Found(j)')
<1>1. ASSUME fitted' = fitted, NEW j PROVE Found(j)' = Found(j)
  BY <1>1 DEF Found, JobOn, Count
<1>2. FittedOK /\ NamesAreUnique /\ NamesAreUnique' /\ [Next]_vars => [Shifts]_vars
  <2> SUFFICES ASSUME fitted \subseteq Systems, NamesAreUnique, NamesAreUnique', Next
               PROVE Shifts
    BY DEF FittedOK
  <2>1. CASE \E x \in Systems : RemoveSystem(x)
    BY <2>1, RemovalShifts DEF RemoveSystem
  <2>2. CASE \E x \in Systems : AddSystem(x)
    BY <2>2, AdditionShifts
  <2>3. CASE ~\E x \in Systems : RemoveSystem(x) \/ AddSystem(x)
    <3>1. fitted' = fitted
      BY <2>3 DEF Next, Working, Cycle, AssignToSystem, AssignToHull, Assign, Unassign,
                  Damage, DamageHull, SwitchPower, Arrive, Depart
    <3> QED BY <1>1, <3>1
  <2> QED BY <2>1, <2>2, <2>3
<1> QED BY <1>2, FittedTyped, JobsIdentify, PTL DEF Spec, JobsShiftOnlyByRemoval

-----------------------------------------------------------------------------
(* A share is a natural number, as long as the list is finite. *)
LEMMA ShareNat ==
  ASSUME NEW b \in Benches, NEW c \in 0..Full, IsFiniteSet(jobs[b]), jobs[b] # {}
  PROVE  Share(b, c) \in Nat
<1>1. Cardinality(jobs[b]) \in Nat \ {0}
  BY FS_CardinalityType, FS_EmptySet
<1>2. Capacity(b, c) \in Nat
  BY DEF Capacity
<1> QED BY <1>1, <1>2, QuotientNat DEF Share

(* Work never takes condition away, nor more than it can give. *)
LEMMA MendedRange ==
  ASSUME NEW x \in Systems, condition[x] \in 0..Full, NEW share \in Nat
  PROVE  Mended(x, share) \in 0..Full
<1>1. share \div Mass[x] \in Nat
  BY QuotientNat
<1> QED BY <1>1 DEF Mended, AtMost

(* A hull that is mended has no more than all its points.                  *)
LEMMA HullMendedRange ==
  ASSUME NEW s \in Ships, hull[s] \in Nat, NEW share \in Nat
  PROVE  HullMended(s, share) \in Nat /\ HullMended(s, share) <= HullPoints[s]
<1>1. (HullPoints[s] * share) \div HullMass[s] \in Nat
  BY ProductNat, QuotientNat
<1> QED BY <1>1 DEF HullMended, AtMost

-----------------------------------------------------------------------------
(* What a cycle of a bench does to systems, hulls and its own list. *)
LEMMA CycleTyped ==
  ASSUME TypeOK, NEW b \in Benches, Cycle(b)
  PROVE  /\ condition' \in [Systems -> 0..Full]
         /\ hull' \in [Ships -> Nat] /\ \A s \in Ships : hull'[s] <= HullPoints[s]
         /\ jobs' \in [Benches -> SUBSET Jobs] /\ \A d \in Benches : IsFiniteSet(jobs'[d])
<1> DEFINE own == {j \in jobs[b] : Found(j) = b}
           better == IF own = {} THEN condition[b] ELSE Mended(b, Share(b, condition[b]))
           worked == {j \in jobs[b] : WithinReach(b, j.ship)}
<1>1. jobs[b] # {} /\ IsFiniteSet(jobs[b]) /\ jobs[b] \subseteq Jobs
  BY DEF Cycle, TypeOK
<1>2. condition[b] \in 0..Full
  BY DEF TypeOK
<1>3. Share(b, condition[b]) \in Nat
  BY <1>1, <1>2, ShareNat
<1>4. better \in 0..Full
  BY <1>2, <1>3, MendedRange
<1>5. PICK behind \in SUBSET (IF better = condition[b] THEN {} ELSE jobs[b] \ own) :
        LET share == [j \in jobs[b] |-> Share(b, IF j \in behind THEN better ELSE condition[b])]
        IN  /\ condition' = [x \in Systems |->
                 IF x \in fitted /\ JobOn(x) \in worked
                 THEN Mended(x, share[JobOn(x)]) ELSE condition[x]]
            /\ hull' = [s \in Ships |->
                 IF HullJob(s) \in worked THEN HullMended(s, share[HullJob(s)]) ELSE hull[s]]
            /\ jobs' = [jobs EXCEPT ![b] = Unfinished(b, share)]
  BY DEF Cycle
<1> DEFINE share == [j \in jobs[b] |-> Share(b, IF j \in behind THEN better ELSE condition[b])]
<1> HIDE DEF better
<1>6. \A j \in jobs[b] : share[j] \in Nat
  BY <1>1, <1>2, <1>4, ShareNat
<1>7. \A j \in worked : j \in jobs[b]
  OBVIOUS
<1> HIDE DEF share, worked
<1>8. \A x \in Systems : condition[x] \in 0..Full
  BY DEF TypeOK
<1>9. ASSUME NEW x \in Systems PROVE
        (IF x \in fitted /\ JobOn(x) \in worked THEN Mended(x, share[JobOn(x)]) ELSE condition[x])
          \in 0..Full
  BY <1>6, <1>7, <1>8, MendedRange
<1>10. condition' \in [Systems -> 0..Full]
  BY <1>5, <1>9 DEF share
<1>11. \A s \in Ships : hull[s] \in Nat /\ hull[s] <= HullPoints[s]
  BY DEF TypeOK
<1>12. ASSUME NEW s \in Ships
       PROVE  LET h == IF HullJob(s) \in worked THEN HullMended(s, share[HullJob(s)]) ELSE hull[s]
              IN  h \in Nat /\ h <= HullPoints[s]
  BY <1>6, <1>7, <1>11, HullMendedRange
<1>13. hull' \in [Ships -> Nat] /\ \A s \in Ships : hull'[s] <= HullPoints[s]
  BY <1>5, <1>12 DEF share
<1>14. Unfinished(b, share) \subseteq jobs[b]
  BY DEF Unfinished
<1>15. IsFiniteSet(Unfinished(b, share))
  BY <1>1, <1>14, FS_Subset
<1>16. jobs' = [jobs EXCEPT ![b] = Unfinished(b, share)]
  BY <1>5 DEF share
<1>17. jobs' \in [Benches -> SUBSET Jobs] /\ \A d \in Benches : IsFiniteSet(jobs'[d])
  BY <1>14, <1>15, <1>16 DEF TypeOK
<1> QED BY <1>10, <1>13, <1>17

(* What a console enters on a list names a ship, a class and a place. *)
LEMMA JobsTyped ==
  ASSUME TypeOK
  PROVE  /\ \A x \in fitted : JobOn(x) \in Jobs
         /\ \A s \in Ships : HullJob(s) \in Jobs
<1>1. ASSUME NEW x \in fitted PROVE JobOn(x) \in Jobs
  <2>1. x \in Systems /\ Count(x) \in Nat
    BY EarlierFinite DEF TypeOK
  <2> QED BY <2>1 DEF JobOn, Jobs
<1>2. ASSUME NEW s \in Ships PROVE HullJob(s) \in Jobs
  BY DEF HullJob, Jobs
<1> QED BY <1>1, <1>2

(* Assigning a job keeps the type.                                         *)
LEMMA AssignTyped ==
  ASSUME TypeOK, NEW b \in Benches, NEW j \in Jobs, Assign(b, j)
  PROVE  TypeOK'
<1>1. IsFiniteSet(jobs[b] \cup {j})
  BY FS_AddElement DEF TypeOK
<1>2. jobs' = [jobs EXCEPT ![b] = jobs[b] \cup {j}]
  BY DEF Assign
<1>3. jobs' \in [Benches -> SUBSET Jobs] /\ \A d \in Benches : IsFiniteSet(jobs'[d])
  BY <1>1, <1>2 DEF TypeOK
<1> QED BY <1>3 DEF TypeOK, Assign

(* Taking a job off keeps the type.                                        *)
LEMMA UnassignTyped ==
  ASSUME TypeOK, NEW b \in Benches, NEW j, Unassign(b, j)
  PROVE  TypeOK'
<1>1. IsFiniteSet(jobs[b] \ {j})
  BY FS_RemoveElement DEF TypeOK
<1>2. jobs' = [jobs EXCEPT ![b] = jobs[b] \ {j}]
  BY DEF Unassign
<1>3. jobs' \in [Benches -> SUBSET Jobs] /\ \A d \in Benches : IsFiniteSet(jobs'[d])
  BY <1>1, <1>2 DEF TypeOK
<1> QED BY <1>3 DEF TypeOK, Unassign

(* However benches, damage, arrivals and refits interleave, no condition   *)
(* leaves 0..Full, no hull exceeds its points, and lists stay finite.      *)
THEOREM RepairTypeCorrect == Spec => []TypeOK
<1>1. Init => TypeOK
  BY FS_EmptySet DEF Init, TypeOK
<1>2. TypeOK /\ [Next]_vars => TypeOK'
  <2> SUFFICES ASSUME TypeOK, [Next]_vars PROVE TypeOK'
    OBVIOUS
  <2>1. ASSUME NEW b \in Benches, Cycle(b) PROVE TypeOK'
    BY <2>1, CycleTyped DEF TypeOK, Cycle
  <2>2. ASSUME NEW b \in Benches, NEW x \in Systems, AssignToSystem(b, x) PROVE TypeOK'
    BY <2>2, JobsTyped, AssignTyped DEF AssignToSystem
  <2>3. ASSUME NEW b \in Benches, NEW s \in Ships, AssignToHull(b, s) PROVE TypeOK'
    BY <2>3, JobsTyped, AssignTyped DEF AssignToHull
  <2>4. ASSUME NEW b \in Benches, SwitchPower(b) \/ \E j \in jobs[b] : Unassign(b, j)
        PROVE TypeOK'
    <3>1. CASE SwitchPower(b)
      BY <3>1 DEF TypeOK, SwitchPower
    <3> QED BY <2>4, <3>1, UnassignTyped
  <2>5. ASSUME NEW x \in Systems, Damage(x) \/ RemoveSystem(x) \/ AddSystem(x) PROVE TypeOK'
    <3>1. CASE Damage(x)
      BY <3>1 DEF TypeOK, Damage
    <3>2. CASE RemoveSystem(x)
      BY <3>2 DEF TypeOK, RemoveSystem
    <3>3. CASE AddSystem(x)
      BY <3>3 DEF TypeOK, AddSystem
    <3> QED BY <2>5, <3>1, <3>2, <3>3
  <2>6. ASSUME NEW s \in Ships, DamageHull(s) PROVE TypeOK'
    <3>1. PICK h \in 0..HullPoints[s] : h < hull[s] /\ hull' = [hull EXCEPT ![s] = h]
      BY <2>6 DEF DamageHull
    <3>2. hull' \in [Ships -> Nat] /\ \A t \in Ships : hull'[t] <= HullPoints[t]
      BY <3>1 DEF TypeOK
    <3> QED BY <2>6, <3>2 DEF TypeOK, DamageHull
  <2>7. ASSUME NEW s \in Ships, Depart(s) \/ \E h \in Ships : Arrive(s, h) PROVE TypeOK'
    BY <2>7 DEF TypeOK, Depart, Arrive
  <2>8. CASE UNCHANGED vars
    BY <2>8 DEF TypeOK, vars
  <2> QED BY <2>1, <2>2, <2>3, <2>4, <2>5, <2>6, <2>7, <2>8 DEF Next, Working
<1> QED BY <1>1, <1>2, PTL DEF Spec

-----------------------------------------------------------------------------
(* A ship that has left profits no more: whatever gains in a step is on a  *)
(* bench's own ship or on one that is landed with it.                      *)
THEOREM GuestsOnlyGain == Spec => OnlyGuestsGain
<1> DEFINE Gains(s) == \/ hull'[s] > hull[s]
                       \/ \E x \in fitted \cap fitted' :
                            Owner[x] = s /\ condition'[x] > condition[x]
           Served(s) == \E b \in Benches : jobs[b] # {} /\ Owner[b] \in {s, landed[s]}
<1>1. ASSUME TypeOK, NEW b \in Benches, Cycle(b), NEW s \in Ships, Gains(s)
      PROVE  Served(s)
  <2> SUFFICES WithinReach(b, s)
    BY <1>1 DEF Cycle, WithinReach
  <2>1. CASE hull'[s] > hull[s]
    <3>1. hull[s] \in Nat
      BY <1>1 DEF TypeOK
    <3>2. \E j \in jobs[b] : j = HullJob(s) /\ WithinReach(b, j.ship)
      BY <1>1, <2>1, <3>1 DEF Cycle
    <3> QED BY <3>2 DEF HullJob
  <2>2. CASE \E x \in fitted \cap fitted' : Owner[x] = s /\ condition'[x] > condition[x]
    <3>1. PICK x \in fitted \cap fitted' : Owner[x] = s /\ condition'[x] > condition[x]
      BY <2>2
    <3>2. x \in Systems /\ condition[x] \in Nat
      BY <1>1, <3>1 DEF TypeOK
    <3>3. \E j \in jobs[b] : j = JobOn(x) /\ WithinReach(b, j.ship)
      BY <1>1, <3>1, <3>2 DEF Cycle
    <3> QED BY <3>1, <3>3 DEF JobOn
  <2> QED BY <1>1, <2>1, <2>2
<1>2. ASSUME TypeOK, Next, ~Working, NEW s \in Ships, Gains(s)
      PROVE  FALSE
  <2>1. hull[s] \in Nat /\ \A x \in fitted : condition[x] \in Nat
    BY <1>2 DEF TypeOK
  <2>2. ~(hull'[s] > hull[s])
    <3>1. (\E t \in Ships : DamageHull(t)) \/ hull' = hull
      BY <1>2 DEF Next, AssignToSystem, AssignToHull, Assign, Unassign, Damage,
                  SwitchPower, Arrive, Depart, RemoveSystem, AddSystem
    <3>2. ASSUME NEW t \in Ships, DamageHull(t) PROVE ~(hull'[s] > hull[s])
      <4>1. PICK h \in 0..HullPoints[t] : h < hull[t] /\ hull' = [hull EXCEPT ![t] = h]
        BY <3>2 DEF DamageHull
      <4>2. hull \in [Ships -> Nat]
        BY <1>2 DEF TypeOK
      <4>3. hull'[s] = IF s = t THEN h ELSE hull[s]
        BY <4>1, <4>2
      <4> QED BY <2>1, <4>1, <4>3
    <3> QED BY <2>1, <3>1, <3>2
  <2>3. ASSUME NEW x \in fitted \cap fitted' PROVE ~(condition'[x] > condition[x])
    <3>1. x \in Systems /\ condition[x] \in Nat /\ condition \in [Systems -> 0..Full]
      BY <1>2, <2>1 DEF TypeOK
    <3>2. (\E y \in Systems : Damage(y) \/ AddSystem(y)) \/ condition' = condition
      BY <1>2 DEF Next, AssignToSystem, AssignToHull, Assign, Unassign,
                  DamageHull, SwitchPower, Arrive, Depart, RemoveSystem
    <3>3. ASSUME NEW y \in Systems, Damage(y) PROVE ~(condition'[x] > condition[x])
      <4>1. PICK c \in 0..Full : c < condition[y] /\ condition' = [condition EXCEPT ![y] = c]
        BY <3>3 DEF Damage
      <4>2. condition'[x] = IF x = y THEN c ELSE condition[x]
        BY <3>1, <4>1
      <4> QED BY <3>1, <4>1, <4>2
    <3>4. ASSUME NEW y \in Systems, AddSystem(y) PROVE ~(condition'[x] > condition[x])
      <4>1. x # y /\ condition' = [condition EXCEPT ![y] = Full]
        BY <3>4 DEF AddSystem
      <4>2. condition'[x] = condition[x]
        BY <3>1, <4>1
      <4> QED BY <3>1, <4>2
    <3> QED BY <3>1, <3>2, <3>3, <3>4
  <2> QED BY <1>2, <2>2, <2>3
<1>3. TypeOK /\ [Next]_vars => [\A s \in Ships : Gains(s) => Served(s)]_vars
  BY <1>1, <1>2 DEF Working
<1> QED BY <1>3, RepairTypeCorrect, PTL DEF Spec, OnlyGuestsGain

-----------------------------------------------------------------------------
(* How the work of a cycle is spread. *)

(* A quotient is rounded down.                                             *)
LEMMA QuotientBound ==
  ASSUME NEW m \in Nat, NEW n \in Nat \ {0} PROVE n * (m \div n) <= m
OBVIOUS

(* A quotient of less is no more.                                          *)
LEMMA LessQuotient ==
  ASSUME NEW m \in Int, NEW k \in Nat, NEW n \in Nat \ {0}, m <= n * k
  PROVE  m \div n \in Int /\ m \div n <= k
<1>1. m \div n \in Int /\ n * (m \div n) <= m
  OBVIOUS
<1>2. n * (m \div n) <= n * k
  <2>1. n * k \in Int /\ n * (m \div n) \in Int
    BY <1>1
  <2> QED BY <1>1, <2>1
<1>3. ASSUME NEW x \in Int, n * x <= n * k PROVE x <= k
  BY <1>3
<1> QED BY <1>1, <1>2, <1>3

(* A share takes no more work than it is, from a system or from a hull. *)
LEMMA SystemWork ==
  ASSUME TypeOK, NEW x \in Systems, NEW share \in Nat
  PROVE  /\ Mass[x] * (Mended(x, share) - condition[x]) \in Int
         /\ Mass[x] * (Mended(x, share) - condition[x]) <= share
<1>1. condition[x] \in 0..Full /\ Mass[x] \in Nat \ {0}
  BY DEF TypeOK
<1>2. Mended(x, share) \in 0..Full
  BY <1>1, MendedRange
<1>3. share \div Mass[x] \in Nat /\ Mass[x] * (share \div Mass[x]) <= share
  BY <1>1, QuotientNat, QuotientBound
<1>4. Mended(x, share) - condition[x] <= share \div Mass[x]
  BY <1>1, <1>3 DEF Mended, AtMost
<1>5. ASSUME NEW u \in Int, NEW v \in Int, u <= v PROVE Mass[x] * u <= Mass[x] * v
  BY ONLY <1>1, <1>5
<1>6. Mended(x, share) - condition[x] \in Int
  BY <1>1, <1>2
<1>7. Mass[x] * (Mended(x, share) - condition[x]) <= Mass[x] * (share \div Mass[x])
  <2> DEFINE u == Mended(x, share) - condition[x]
             v == share \div Mass[x]
  <2>1. u \in Int /\ v \in Int /\ u <= v
    BY <1>3, <1>4, <1>6
  <2> HIDE DEF u, v
  <2>2. Mass[x] * u <= Mass[x] * v
    BY ONLY <1>5, <2>1
  <2> QED BY ONLY <2>2 DEF u, v
<1>8. /\ Mass[x] * (Mended(x, share) - condition[x]) \in Int
      /\ Mass[x] * (share \div Mass[x]) \in Int
  BY ONLY <1>1, <1>3, <1>6
<1> QED BY ONLY <1>3, <1>7, <1>8, share \in Nat

(* The work done on a hull is no more than the share.                      *)
LEMMA HullWork ==
  ASSUME TypeOK, NEW s \in Ships, NEW share \in Nat
  PROVE  /\ (HullMass[s] * (HullMended(s, share) - hull[s])) \div HullPoints[s] \in Int
         /\ (HullMass[s] * (HullMended(s, share) - hull[s])) \div HullPoints[s] <= share
<1> DEFINE gain == HullMended(s, share) - hull[s]
           most == (HullPoints[s] * share) \div HullMass[s]
<1>1. hull[s] \in Nat /\ HullPoints[s] \in Nat \ {0} /\ HullMass[s] \in Nat \ {0}
  BY DEF TypeOK
<1>2. HullPoints[s] * share \in Nat
  BY <1>1, ProductNat
<1>3. most \in Nat /\ HullMass[s] * most <= HullPoints[s] * share
  BY <1>1, <1>2, QuotientNat, QuotientBound
<1>4. gain \in Int /\ gain <= most
  <2>1. HullMended(s, share) = AtMost(HullPoints[s], hull[s] + most)
    BY DEF HullMended
  <2> HIDE DEF most
  <2> QED BY <1>1, <1>3, <2>1 DEF AtMost
<1> HIDE DEF gain, most
<1>5. ASSUME NEW u \in Int, NEW v \in Int, u <= v PROVE HullMass[s] * u <= HullMass[s] * v
  BY ONLY <1>1, <1>5
<1>6. HullMass[s] * gain <= HullMass[s] * most
  BY <1>3, <1>4, <1>5
<1>7. HullMass[s] * gain \in Int /\ HullMass[s] * most \in Int
  BY ONLY <1>1, <1>3, <1>4
<1>8. HullMass[s] * gain <= HullPoints[s] * share
  BY ONLY <1>2, <1>3, <1>6, <1>7
<1> QED BY <1>1, <1>7, <1>8, LessQuotient DEF gain

(* No assignment works on two things, and none on a system and a hull.     *)
LEMMA WorkersCounted ==
  ASSUME TypeOK, NEW J, IsFiniteSet(J),
         NEW A, A = {x \in fitted : JobOn(x) \in J},
         NEW B, B = {s \in Ships : HullJob(s) \in J}
  PROVE  /\ IsFiniteSet(A) /\ IsFiniteSet(B)
         /\ Cardinality(A) + Cardinality(B) <= Cardinality(J)
<1> DEFINE f == [x \in A |-> JobOn(x)]
           g == [s \in B |-> HullJob(s)]
           F == {j \in J : j.class # HullId}
           G == {j \in J : j.class = HullId}
<1>1. fitted \subseteq Systems
  BY DEF TypeOK
<1>2. f \in Injection(A, F)
  <2>1. \A x \in A : JobOn(x) \in F
    BY <1>1 DEF JobOn
  <2>2. \A x, y \in A : JobOn(x) = JobOn(y) => x = y
    BY <1>1, JobsDiffer
  <2> HIDE DEF F
  <2> QED BY <2>1, <2>2 DEF Injection, IsInjective
<1>3. g \in Injection(B, G)
  <2>1. \A s \in B : HullJob(s) \in G
    BY DEF HullJob
  <2>2. \A s, t \in B : HullJob(s) = HullJob(t) => s = t
    BY DEF HullJob
  <2> HIDE DEF G
  <2> QED BY <2>1, <2>2 DEF Injection, IsInjective
<1>4. IsFiniteSet(F) /\ IsFiniteSet(G) /\ F \cap G = {} /\ F \cup G = J
  BY FS_Subset
<1> HIDE DEF f, g, F, G
<1>5. Cardinality(J) = Cardinality(F) + Cardinality(G)
  <2>1. Cardinality(J) = Cardinality(F) + Cardinality(G) - Cardinality({})
    BY ONLY <1>4, FS_Union
  <2>2. Cardinality({}) = 0 /\ Cardinality(F) \in Nat /\ Cardinality(G) \in Nat
    BY <1>4, FS_EmptySet, FS_CardinalityType
  <2> QED BY <2>1, <2>2
<1>6. IsFiniteSet(A) /\ Cardinality(A) <= Cardinality(F)
  BY ONLY <1>2, <1>4, FS_Injection
<1>7. IsFiniteSet(B) /\ Cardinality(B) <= Cardinality(G)
  BY ONLY <1>3, <1>4, FS_Injection
<1>8. /\ Cardinality(A) \in Nat /\ Cardinality(B) \in Nat
      /\ Cardinality(F) \in Nat /\ Cardinality(G) \in Nat
  BY ONLY <1>4, <1>6, <1>7, FS_CardinalityType
<1> QED BY ONLY <1>5, <1>6, <1>7, <1>8

(* The share of an assignment is at most what the bench has for each in    *)
(* the condition the cycle leaves it in: better only when it has repaired  *)
(* itself.                                                                 *)
LEMMA ShareBound ==
  ASSUME TypeOK, NEW b \in Benches, NEW c \in 0..Full, NEW d \in 0..Full, c <= d,
         jobs[b] # {}
  PROVE  Share(b, c) <= Capacity(b, d) \div Cardinality(jobs[b])
<1>1. Cardinality(jobs[b]) \in Nat \ {0}
  BY FS_CardinalityType, FS_EmptySet DEF TypeOK
<1>2. Capacity(b, c) \in Nat /\ Capacity(b, d) \in Nat /\ Capacity(b, c) <= Capacity(b, d)
  BY DEF Capacity
<1>3. ASSUME NEW m \in Nat, NEW n \in Nat, NEW k \in Nat \ {0}, m <= n
      PROVE  m \div k <= n \div k
  <2>1. m \div k \in Nat /\ n \div k \in Nat
    BY ONLY m \in Nat, n \in Nat, k \in Nat \ {0}
  <2>2. k * (m \div k) \in Int /\ k * (n \div k + 1) \in Int
    BY ONLY <2>1, k \in Nat \ {0}
  <2>a. k * (m \div k) <= m
    BY ONLY m \in Nat, k \in Nat \ {0}
  <2>b. n < k * (n \div k + 1)
    BY ONLY n \in Nat, k \in Nat \ {0}
  <2>3. k * (m \div k) < k * (n \div k + 1)
    BY ONLY <1>3, <2>2, <2>a, <2>b, m \in Nat, n \in Nat
  <2>4. m \div k < n \div k + 1
    BY ONLY <2>1, <2>3, k \in Nat \ {0}
  <2> QED BY ONLY <2>1, <2>4
<1> QED BY <1>1, <1>2, <1>3 DEF Share

(* The sums over what is worked on. *)
LEMMA WorkIsBounded ==
  ASSUME TypeOK, TypeOK', NEW J, IsFiniteSet(J), NEW k \in Nat,
         \A x \in Systems :
           \/ condition'[x] = condition[x]
           \/ /\ x \in fitted /\ JobOn(x) \in J
              /\ \E share \in Nat : share <= k /\ condition'[x] = Mended(x, share),
         \A s \in Ships :
           \/ hull'[s] = hull[s]
           \/ /\ HullJob(s) \in J
              /\ \E share \in Nat : share <= k /\ hull'[s] = HullMended(s, share)
  PROVE  WorkDone \in Int /\ WorkDone <= k * Cardinality(J)
<1> DEFINE A == {x \in fitted : JobOn(x) \in J}
           B == {s \in Ships : HullJob(s) \in J}
           w == [x \in Systems |-> Mass[x] * (condition'[x] - condition[x])]
           h == [s \in Ships |-> (HullMass[s] * (hull'[s] - hull[s])) \div HullPoints[s]]
<1>1. A \in SUBSET Systems /\ B \in SUBSET Ships
  BY DEF TypeOK
<1>2. /\ IsFiniteSet(A) /\ IsFiniteSet(B)
      /\ Cardinality(A) + Cardinality(B) <= Cardinality(J)
  BY WorkersCounted
<1>3. ASSUME NEW x \in Systems
      PROVE  w[x] \in Int /\ w[x] <= (IF x \in A THEN k ELSE 0)
  <2>1. condition[x] \in Int /\ Mass[x] \in Nat /\ w[x] = Mass[x] * (condition'[x] - condition[x])
    BY DEF TypeOK
  <2>2. CASE condition'[x] = condition[x]
    <3>1. w[x] = 0
      <4> HIDE DEF w
      <4> QED BY ONLY <2>1, <2>2
    <3> QED BY ONLY <3>1, k \in Nat
  <2>3. CASE condition'[x] # condition[x]
    <3>1. PICK share \in Nat : share <= k /\ condition'[x] = Mended(x, share)
      BY <2>3
    <3>2. x \in A
      BY <2>3
    <3>3. w[x] \in Int /\ w[x] <= share
      <4> HIDE DEF w
      <4> QED BY <2>1, <3>1, SystemWork
    <3> QED BY ONLY <3>1, <3>2, <3>3, k \in Nat
  <2> QED BY <2>2, <2>3
<1>4. ASSUME NEW s \in Ships
      PROVE  h[s] \in Int /\ h[s] <= (IF s \in B THEN k ELSE 0)
  <2>1. /\ hull[s] \in Int /\ HullMass[s] \in Nat /\ HullPoints[s] \in Nat \ {0}
        /\ h[s] = (HullMass[s] * (hull'[s] - hull[s])) \div HullPoints[s]
    BY DEF TypeOK
  <2>2. CASE hull'[s] = hull[s]
    <3>1. h[s] = 0
      <4>1. HullMass[s] * (hull'[s] - hull[s]) = 0
        BY ONLY <2>1, <2>2
      <4> HIDE DEF h
      <4> QED BY ONLY <2>1, <4>1
    <3> QED BY ONLY <3>1, k \in Nat
  <2>3. CASE hull'[s] # hull[s]
    <3>1. PICK share \in Nat : share <= k /\ hull'[s] = HullMended(s, share)
      BY <2>3
    <3>2. s \in B
      BY <2>3
    <3>3. h[s] \in Int /\ h[s] <= share
      <4> HIDE DEF h
      <4> QED BY <2>1, <3>1, HullWork
    <3> QED BY ONLY <3>1, <3>2, <3>3, k \in Nat
  <2> QED BY <2>2, <2>3
<1>5. WorkDone = SumFunctionOnSet(w, Systems) + SumFunctionOnSet(h, Ships)
  BY DEF WorkDone, SumFunction
<1>6. IsFiniteSet(Systems) /\ IsFiniteSet(Ships)
  OBVIOUS
<1> HIDE DEF A, B, w, h
<1>7. /\ SumFunctionOnSet(w, Systems) \in Int
      /\ SumFunctionOnSet(w, Systems) <= k * Cardinality(A)
  BY ONLY <1>1, <1>3, <1>6, k \in Nat, SumIsBounded, SumIsInt
<1>8. /\ SumFunctionOnSet(h, Ships) \in Int
      /\ SumFunctionOnSet(h, Ships) <= k * Cardinality(B)
  BY ONLY <1>1, <1>4, <1>6, k \in Nat, SumIsBounded, SumIsInt
<1>9. Cardinality(A) \in Nat /\ Cardinality(B) \in Nat /\ Cardinality(J) \in Nat
  BY <1>2, FS_CardinalityType
<1>10. k * Cardinality(A) + k * Cardinality(B) <= k * Cardinality(J)
  <2>1. ASSUME NEW m \in Nat, NEW n \in Nat, NEW q \in Nat, m + n <= q
        PROVE  k * m + k * n <= k * q
    <3>1. k * (m + n) <= k * q
      BY ONLY <2>1, k \in Nat
    <3> QED BY ONLY <2>1, <3>1, k \in Nat
  <2> QED BY <1>2, <1>9, <2>1
<1>11. /\ k * Cardinality(A) \in Int /\ k * Cardinality(B) \in Int
       /\ k * Cardinality(J) \in Int
  BY ONLY <1>9, k \in Nat
<1> QED BY ONLY <1>5, <1>7, <1>8, <1>10, <1>11

(* However many assignments share a bench, they get no more than it has.   *)
THEOREM BenchesShareCapacity == Spec => CapacityIsShared
<1>1. ASSUME TypeOK, TypeOK', NEW b \in Benches, Cycle(b)
      PROVE  WorkDone <= Capacity(b, condition'[b])
  <2> DEFINE own == {j \in jobs[b] : Found(j) = b}
             better == IF own = {} THEN condition[b] ELSE Mended(b, Share(b, condition[b]))
             worked == {j \in jobs[b] : WithinReach(b, j.ship)}
             n == Cardinality(jobs[b])
             k == Capacity(b, condition'[b]) \div n
  <2>1. jobs[b] # {} /\ IsFiniteSet(jobs[b])
    BY <1>1 DEF Cycle, TypeOK
  <2>2. condition[b] \in 0..Full /\ condition'[b] \in 0..Full
    BY <1>1 DEF TypeOK
  <2>3. n \in Nat \ {0} /\ Capacity(b, condition'[b]) \in Nat
    BY <2>1, <2>2, FS_CardinalityType, FS_EmptySet DEF Capacity
  <2>4. k \in Nat /\ n * k <= Capacity(b, condition'[b])
    <3> HIDE DEF n
    <3> QED BY <2>3, QuotientNat, QuotientBound
  <2>5. Share(b, condition[b]) \in Nat
    BY <2>1, <2>2, ShareNat
  <2>6. better \in 0..Full /\ condition[b] <= better
    <3>1. Share(b, condition[b]) \div Mass[b] \in Nat
      BY <2>5, QuotientNat DEF Jobs
    <3>2. /\ Mended(b, Share(b, condition[b])) \in 0..Full
          /\ condition[b] <= Mended(b, Share(b, condition[b]))
      BY <2>2, <3>1 DEF Mended, AtMost
    <3> QED BY <2>2, <3>2
  <2>7. PICK behind \in SUBSET (IF better = condition[b] THEN {} ELSE jobs[b] \ own) :
          LET share == [j \in jobs[b] |-> Share(b, IF j \in behind THEN better ELSE condition[b])]
          IN  /\ condition' = [x \in Systems |->
                   IF x \in fitted /\ JobOn(x) \in worked
                   THEN Mended(x, share[JobOn(x)]) ELSE condition[x]]
              /\ hull' = [s \in Ships |->
                   IF HullJob(s) \in worked THEN HullMended(s, share[HullJob(s)]) ELSE hull[s]]
    BY <1>1 DEF Cycle
  <2> DEFINE share == [j \in jobs[b] |-> Share(b, IF j \in behind THEN better ELSE condition[b])]
  <2>8. condition[b] <= condition'[b] /\ (behind # {} => better = condition'[b])
    <3>1. ASSUME b \in fitted, JobOn(b) \in worked
          PROVE  /\ condition'[b] = Mended(b, Share(b, condition[b]))
                 /\ JobOn(b) \in own
      <4>1. Found(JobOn(b)) = b
        BY <1>1, <3>1, JobsDiffer, FoundIs DEF TypeOK, NamesAreUnique
      <4>2. JobOn(b) \in own /\ JobOn(b) \notin behind
        BY <3>1, <4>1
      <4>3. share[JobOn(b)] = Share(b, condition[b])
        <5> HIDE DEF better, own
        <5> QED BY <3>1, <4>2
      <4>4. condition'[b] = Mended(b, share[JobOn(b)])
        <5> HIDE DEF better, own
        <5> QED BY <2>7, <3>1
      <4> QED BY <4>2, <4>3, <4>4
    <3>2. ASSUME ~ (b \in fitted /\ JobOn(b) \in worked)
          PROVE  condition'[b] = condition[b]
      <4> HIDE DEF better, own
      <4> QED BY <2>7, <3>2
    <3>3. ASSUME NEW j \in own PROVE b \in fitted /\ JobOn(b) \in worked
      <4>1. b # None
        OBVIOUS
      <4>2. b \in fitted /\ JobOn(b) = j
        BY <3>3, <4>1 DEF Found
      <4> QED BY <3>3, <4>2 DEF JobOn, WithinReach
    <3>4. CASE b \in fitted /\ JobOn(b) \in worked
      <4>1. own # {}
        BY <3>1, <3>4
      <4> QED BY <2>6, <3>1, <3>4, <4>1
    <3>5. CASE ~ (b \in fitted /\ JobOn(b) \in worked)
      <4>1. own = {} /\ condition'[b] = condition[b]
        BY <3>2, <3>3, <3>5
      <4> QED BY <2>2, <2>7, <4>1
    <3> QED BY <3>4, <3>5
  <2> HIDE DEF better, own
  <2>9. ASSUME NEW j \in jobs[b] PROVE share[j] \in Nat /\ share[j] <= k
    <3> DEFINE c == IF j \in behind THEN better ELSE condition[b]
    <3>1. c \in 0..Full /\ c <= condition'[b]
      BY <2>2, <2>6, <2>8
    <3>2. share[j] = Share(b, c)
      OBVIOUS
    <3> HIDE DEF c, share
    <3> QED BY <1>1, <2>1, <2>2, <3>1, <3>2, ShareNat, ShareBound
  <2>10. worked \in SUBSET jobs[b]
    OBVIOUS
  <2>11. /\ condition' = [x \in Systems |->
              IF x \in fitted /\ JobOn(x) \in worked THEN Mended(x, share[JobOn(x)])
              ELSE condition[x]]
         /\ hull' = [s \in Ships |->
              IF HullJob(s) \in worked THEN HullMended(s, share[HullJob(s)]) ELSE hull[s]]
    BY <2>7
  <2> HIDE DEF share, worked, k
  <2>12. \A x \in Systems :
           \/ condition'[x] = condition[x]
           \/ /\ x \in fitted /\ JobOn(x) \in jobs[b]
              /\ \E q \in Nat : q <= k /\ condition'[x] = Mended(x, q)
    BY ONLY <2>9, <2>10, <2>11
  <2>13. \A s \in Ships :
           \/ hull'[s] = hull[s]
           \/ /\ HullJob(s) \in jobs[b]
              /\ \E q \in Nat : q <= k /\ hull'[s] = HullMended(s, q)
    BY ONLY <2>9, <2>10, <2>11
  <2>14. WorkDone \in Int /\ WorkDone <= k * n
    BY ONLY <1>1, <2>1, <2>4, <2>12, <2>13, WorkIsBounded
  <2> HIDE DEF n
  <2>15. k * n = n * k /\ k * n \in Int
    BY ONLY <2>3, <2>4
  <2> QED BY ONLY <2>3, <2>4, <2>14, <2>15
<1>2. TypeOK /\ TypeOK' /\ [Next]_vars =>
        [\A b \in Benches : Cycle(b) => WorkDone <= Capacity(b, condition'[b])]_vars
  BY <1>1
<1> QED BY <1>2, RepairTypeCorrect, PTL DEF Spec, CapacityIsShared
=============================================================================
