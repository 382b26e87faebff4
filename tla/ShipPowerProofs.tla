-------------------------- MODULE ShipPowerProofs --------------------------
(***************************************************************************)
(* What holds of a ship's power plant whatever its systems, reactors and   *)
(* requests are.                                                           *)
(***************************************************************************)
EXTENDS ShipPower, Sums

USE ShipAssumption, PowerAssumption DEF Systems

(* Every variable but the fuel level, which no other depends on for its    *)
(* type.                                                                   *)
PlantTypeOK ==
  /\ online \in BOOLEAN /\ intact \in BOOLEAN /\ landed \in BOOLEAN
  /\ condition \in [Systems -> 0..Pristine]
  /\ power \in [Consumers -> Nat]
  /\ desired \in [Reactors -> Int]
  /\ output \in [Reactors -> Int]
  /\ timer \in (-LaunchTicks)..LandingTicks

(* Losing condition keeps the type of the conditions. *)
LEMMA WornType ==
  ASSUME PlantTypeOK, NEW hurt
  PROVE  Worn(hurt) \in [Systems -> 0..Pristine]
<1>1. ASSUME NEW s \in Systems
      PROVE  Worn(hurt)[s] \in 0..Pristine
  <2>1. condition[s] \in 0..Pristine
    BY DEF PlantTypeOK
  <2> QED BY <2>1 DEF Worn
<1> QED BY <1>1 DEF Worn

(* Load shedding and wear only ever turn systems off. *)
LEMMA CycleOnlyCuts ==
  ASSUME PlantTypeOK, NEW hurt, NEW dry
  PROVE  /\ DrawAfterCycle(hurt, dry) \in [Consumers -> Nat]
         /\ \A s \in Consumers : DrawAfterCycle(hurt, dry)[s] \in {0, power[s]}
BY DEF DrawAfterCycle, PowerAfterCheck, PlantTypeOK

(* A set point never exceeds the peak of the condition it was adapted to,  *)
(* and an output never exceeds the set point it moves towards.             *)
LEMMA SetPointBound ==
  ASSUME PlantTypeOK, NEW r \in Reactors, NEW c \in 0..Pristine
  PROVE  /\ SetPoint(r, c) \in Int
         /\ SetPoint(r, c) <= Peak[r][c]
<1>1. Peak[r][c] \in Nat /\ desired[r] \in Int
  BY DEF PlantTypeOK
<1> QED BY <1>1 DEF SetPoint, AtMost

(* A reactor does not overshoot the output it is moving to.                *)
LEMMA NextOutputBound ==
  ASSUME PlantTypeOK, NEW r \in Reactors, NEW target \in Int
  PROVE  /\ NextOutput(r, target) \in Int
         /\ NextOutput(r, target) <= target
<1>1. output[r] \in Int /\ Charge[r] \in Int
  BY DEF PlantTypeOK
<1> QED BY <1>1 DEF NextOutput, AtMost

(* What a cycle does to the reactors. *)
LEMMA CycleReactors ==
  ASSUME PlantTypeOK, Cycle
  PROVE  /\ condition' \in [Systems -> 0..Pristine]
         /\ desired' \in [Reactors -> Int]
         /\ output' \in [Reactors -> Int]
         /\ \A r \in Reactors : /\ desired'[r] <= Peak[r][condition'[r]]
                                /\ output'[r] <= Peak[r][condition'[r]]
<1>1. PICK hurt, dry :
        /\ condition' = Worn(hurt)
        /\ desired' = [r \in Reactors |-> IF Starves(r) THEN 0
                                          ELSE SetPoint(r, condition'[r])]
        /\ output' = [r \in Reactors |-> IF Starves(r) THEN 0
                                         ELSE NextOutput(r, desired'[r])]
  BY Zenon DEF Cycle
<1>2. condition' \in [Systems -> 0..Pristine]
  BY <1>1, WornType
<1>3. \A r \in Reactors : SetPoint(r, condition'[r]) \in Int
                          /\ SetPoint(r, condition'[r]) <= Peak[r][condition'[r]]
  BY <1>2, SetPointBound
<1>4. \A r \in Reactors : Peak[r][condition'[r]] \in Nat
  BY <1>2
<1>5. desired' \in [Reactors -> Int]
  BY <1>1, <1>3
<1>6. \A r \in Reactors : desired'[r] <= Peak[r][condition'[r]]
  BY <1>1, <1>3, <1>4
<1>7. \A r \in Reactors : NextOutput(r, desired'[r]) \in Int
                          /\ NextOutput(r, desired'[r]) <= desired'[r]
  BY <1>5, NextOutputBound
<1>8. output' \in [Reactors -> Int]
  BY <1>1, <1>7
<1>9. \A r \in Reactors : output'[r] <= Peak[r][condition'[r]]
  <2> TAKE r \in Reactors
  <2>1. CASE Starves(r)
    BY <2>1, <1>1, <1>4
  <2>2. CASE ~Starves(r)
    <3>1. output'[r] = NextOutput(r, desired'[r])
      BY <2>2, <1>1
    <3> QED BY <3>1, <1>4, <1>5, <1>6, <1>7, <1>8
  <2> QED BY <2>1, <2>2
<1> QED BY <1>2, <1>5, <1>6, <1>8, <1>9

-----------------------------------------------------------------------------
(* Type correctness. *)
LEMMA PlantTypeStep == PlantTypeOK /\ [Next]_vars => PlantTypeOK'
<1> SUFFICES ASSUME PlantTypeOK, [Next]_vars
             PROVE  PlantTypeOK'
  OBVIOUS
<1>1. CASE Cycle
  <2>1. PICK hurt, dry : power' = DrawAfterCycle(hurt, dry)
    BY <1>1, Zenon DEF Cycle
  <2>2. power' \in [Consumers -> Nat]
    BY <2>1, CycleOnlyCuts
  <2>3. /\ condition' \in [Systems -> 0..Pristine]
        /\ desired' \in [Reactors -> Int]
        /\ output' \in [Reactors -> Int]
    BY <1>1, CycleReactors
  <2>4. timer' \in (-LaunchTicks)..LandingTicks
    BY <1>1 DEF Cycle, PlantTypeOK, NextTimer
  <2>5. online' \in BOOLEAN /\ landed' \in BOOLEAN /\ intact' \in BOOLEAN
    BY <1>1, Zenon DEF Cycle, PlantTypeOK
  <2> QED BY <2>2, <2>3, <2>4, <2>5 DEF PlantTypeOK
<1>2. ASSUME NEW targets, NEW x \in Requests, SetOutput(targets, x)
      PROVE  PlantTypeOK'
  <2>1. desired' \in [Reactors -> Int]
    BY <1>2 DEF SetOutput, PlantTypeOK
  <2>2. online' \in BOOLEAN
    BY <1>2, Zenon DEF SetOutput, PlantTypeOK
  <2> QED BY <1>2, <2>1, <2>2 DEF SetOutput, PlantTypeOK
<1>3. ASSUME NEW targets, NEW x \in Requests, Allocate(targets, x)
      PROVE  PlantTypeOK'
  <2>1. Watts(x) \in Nat
    BY DEF Watts, NonNegative
  <2>2. power' \in [Consumers -> Nat]
    BY <1>3, <2>1 DEF Allocate, PlantTypeOK
  <2> QED BY <1>3, <2>2 DEF Allocate, PlantTypeOK
<1>4. CASE BootComputer
  BY <1>4 DEF BootComputer, PlantTypeOK
<1>5. CASE Land
  BY <1>5 DEF Land, PlantTypeOK
<1>6. CASE Launch
  BY <1>6 DEF Launch, PlantTypeOK
<1>7. CASE DestroyShip
  BY <1>7 DEF DestroyShip, PlantTypeOK
<1>8. ASSUME NEW hurt, HandleDamage(hurt)
      PROVE  PlantTypeOK'
  <2>1. power' \in [Consumers -> Nat]
    BY <1>8 DEF HandleDamage, DrawAfterDamage, PlantTypeOK
  <2> QED BY <1>8, <2>1, WornType DEF HandleDamage, PlantTypeOK
<1>9. ASSUME NEW s \in Fragile, Repair(s)
      PROVE  PlantTypeOK'
  BY <1>9 DEF Repair, PlantTypeOK
<1>10. CASE Restart
  BY <1>10 DEF Restart, PlantTypeOK
<1>11. CASE UNCHANGED vars
  BY <1>11 DEF vars, PlantTypeOK
<1> QED BY <1>1, <1>2, <1>3, <1>4, <1>5, <1>6, <1>7, <1>8, <1>9, <1>10, <1>11 DEF Next

(* The first state has the type.                                           *)
LEMMA PlantTypeInit == Init => PlantTypeOK
<1> SUFFICES ASSUME Init PROVE PlantTypeOK
  OBVIOUS
<1>1. condition \in [Systems -> 0..Pristine] /\ timer \in (-LaunchTicks)..LandingTicks
  BY DEF Init
<1>2. power \in [Consumers -> Nat] /\ desired \in [Reactors -> Int]
        /\ output \in [Reactors -> Int]
  BY DEF Init
<1>3. online \in BOOLEAN /\ intact \in BOOLEAN /\ landed \in BOOLEAN
  BY Zenon DEF Init
<1> QED BY <1>1, <1>2, <1>3 DEF PlantTypeOK

(* The power plant is always in a state of the right shape. *)
LEMMA PlantTyped == Spec => []PlantTypeOK
BY PlantTypeInit, PlantTypeStep, PTL DEF Spec

(* The last place in mSystems is one.                                      *)
LEMMA LastPositionTyped == LastPosition \in Nat
<1> DEFINE places == {Position[s] : s \in Systems}
           f == [s \in Systems |-> Position[s]]
<1>1. f \in Surjection(Systems, places)
  BY DEF Surjection
<1>2. IsFiniteSet(places)
  <2> HIDE DEF f, places
  <2> QED BY <1>1, FS_Surjection
<1>3. places \subseteq Nat /\ places \subseteq Int /\ Position[Computer] \in places
  OBVIOUS
<1>4. PICK i \in places : \A p \in places : i >= p
  <2> HIDE DEF places
  <2> QED BY <1>2, <1>3, FiniteHasGreatest
<1>5. \A s \in Systems : Position[s] <= i
  BY <1>3, <1>4
<1>6. LastPosition \in places
  BY <1>4, <1>5 DEF LastPosition
<1> QED BY <1>3, <1>6

(* The reactors drink one after the other, and never more than there is.   *)
LEMMA FuelLeftTyped ==
  ASSUME PlantTypeOK, fuel \in Nat
  PROVE  FuelLeft[LastPosition] \in Nat
<1> DEFINE N == LastPosition
           b == -1
           here(i) == {r \in Reactors : Position[r] = i}
           need(i) == IF here(i) = {} THEN 0 ELSE FuelNeed(CHOOSE r \in here(i) : TRUE)
           left(i, x) == NonNegative(x - need(i))
           step == [i \in b..N |-> [x \in Nat |-> left(i, x)]]
           Filled == {i \in b..N : FuelLeft[i] \in Nat}
<1>1. N \in Int /\ b <= N /\ b \in Int /\ b \in b..N /\ N \in b..N
  BY LastPositionTyped
<1>2. \A i \in b..N : need(i) \in Int
  <2>1. \A r \in Reactors : FuelNeed(r) \in Int
    BY DEF FuelNeed, PlantTypeOK
  <2> QED BY <2>1
<1> HIDE DEF N, b, need
<1>3. ASSUME NEW i \in b..N, NEW x \in Nat
      PROVE  left(i, x) \in Nat
  BY <1>2 DEF NonNegative
<1> HIDE DEF left
<1>4. step \in [b..N -> [Nat -> Nat]]
  BY <1>3
<1>5. PICK g \in [b..N -> Nat] :
        \A i \in b..N : g[i] = IF i = b THEN fuel ELSE step[i][g[i - 1]]
  <2> DEFINE S == Nat
  <2>1. fuel \in S /\ step \in [b..N -> [S -> S]]
    BY <1>4
  <2> HIDE DEF step, S
  <2>2. PICK g : CountsOn(g, b, N, S, fuel, step)
    BY <1>1, <2>1, RecursionSolved
  <2> QED BY <2>2 DEF CountsOn, S
<1>6. \A i \in b..N : i # b => i - 1 \in b..N
  BY <1>1
<1>7. \A i \in b..N : g[i] = IF i = b THEN fuel ELSE left(i, g[i - 1])
  BY <1>5, <1>6
<1>8. g = [i \in b..N |-> IF i = b THEN fuel ELSE left(i, g[i - 1])]
  BY <1>7
<1>9. FuelLeft = [i \in b..N |-> IF i = b THEN fuel ELSE left(i, FuelLeft[i - 1])]
  <2> DEFINE Solves(F) == F = [i \in b..N |-> IF i = b THEN fuel ELSE left(i, F[i - 1])]
  <2>1. FuelLeft = CHOOSE F : Solves(F)
    BY Zenon DEF FuelLeft, N, b, need, left
  <2>2. Solves(g)
    BY <1>8
  <2>3. Solves(FuelLeft)
    <3> HIDE DEF Solves
    <3> QED BY <2>1, <2>2
  <2> QED BY <2>3
<1>10. b \in Filled
  BY <1>1, <1>9
<1>11. ASSUME NEW i \in b..N, i # b, i - 1 \in Filled
       PROVE  i \in Filled
  <2>1. FuelLeft[i] = left(i, FuelLeft[i - 1])
    BY <1>9, <1>11
  <2>2. FuelLeft[i - 1] \in Nat
    BY <1>11
  <2> QED BY <1>3, <2>1, <2>2
<1>12. b..N \subseteq Filled
  <2> HIDE DEF Filled
  <2> QED BY <1>1, <1>10, <1>11, IntervalInduction
<1> QED BY <1>1, <1>12 DEF N

(* With the fuel: no reactor, whatever it is asked for, takes the tanks    *)
(* below empty.                                                            *)
THEOREM PlantTypeCorrect == Spec => []TypeOK
<1>1. Init => fuel \in Nat
  BY DEF Init
<1>2. PlantTypeOK /\ fuel \in Nat /\ [Next]_vars => (fuel \in Nat)'
  <2> SUFFICES ASSUME PlantTypeOK, fuel \in Nat, [Next]_vars
               PROVE  fuel' \in Nat
    OBVIOUS
  <2>1. CASE Cycle
    <3>1. fuel' = AtMost(FuelLeft[LastPosition], FuelBound)
      BY <2>1, Zenon DEF Cycle
    <3> QED BY <3>1, FuelLeftTyped DEF AtMost
  <2>2. CASE ~Cycle
    <3>1. fuel' = fuel \/ fuel' = TankSize
      BY <2>2 DEF Next, SetOutput, Allocate, BootComputer, Land, Launch, DestroyShip,
                  HandleDamage, Repair, Restart, vars
    <3> QED BY <3>1
  <2> QED BY <2>1, <2>2
<1>3. PlantTypeOK /\ fuel \in Nat => TypeOK
  BY DEF PlantTypeOK, TypeOK
<1> QED BY <1>1, <1>2, <1>3, PlantTyped, PTL DEF Spec

-----------------------------------------------------------------------------
(* No cycle leaves a reactor running, or asked to run, above the peak of   *)
(* the condition it is in after the cycle (HSReactorInstance::Cycle).      *)
THEOREM CycleKeepsReactorsWithinPeak == Spec => ReactorsWithinPeak
<1>1. PlantTypeOK /\ [Next]_vars
        => [(\A r \in Reactors : /\ desired'[r] <= Peak[r][condition'[r]]
                                 /\ output'[r] <= Peak[r][condition'[r]]) \/ ~Cycle]_vars
  BY CycleReactors
<1> QED BY <1>1, PlantTyped, PTL DEF Spec, ReactorsWithinPeak

(* A cycle that turns the computer off has turned everything else off.     *)
(* The loop reaches the computer only after every other system, and each   *)
(* of them was over budget too (HSShip::CheckSystemPower).                 *)
THEOREM ComputerIsShedLast == Spec => ComputerShedLast
<1>1. ASSUME PlantTypeOK, Cycle, power[Computer] > 0, power'[Computer] = 0,
             NEW s \in Consumers
      PROVE  power'[s] = 0
  <2>1. PICK hurt \in SUBSET Stressed, dry \in SUBSET Engines :
          power' = DrawAfterCycle(hurt, dry)
    BY <1>1, Zenon DEF Cycle
  <2>2. Computer \notin hurt /\ Computer \notin dry
    BY DEF Stressed
  <2>3. PowerAfterCheck[Computer] = 0
    BY <1>1, <2>1, <2>2 DEF DrawAfterCycle
  <2>4. ~GoesIdle /\ Shed(Computer)
    BY <1>1, <2>3 DEF PowerAfterCheck
  <2>5. Shed(s)
    BY <2>4 DEF Shed, ShedBefore
  <2>6. PowerAfterCheck[s] = 0
    BY <2>4, <2>5, Zenon DEF PowerAfterCheck
  <2> QED BY <2>1, <2>6 DEF DrawAfterCycle
<1>2. PlantTypeOK /\ [Next]_vars
        => [\/ power[Computer] = 0 \/ power'[Computer] > 0
            \/ \A s \in Consumers : power'[s] = 0
            \/ ~Cycle]_vars
  <2> SUFFICES ASSUME PlantTypeOK, Cycle, ~(power[Computer] = 0),
                      ~(power'[Computer] > 0)
               PROVE  \A s \in Consumers : power'[s] = 0
    OBVIOUS
  <2>1. power[Computer] \in Nat /\ power'[Computer] \in Nat
    BY PlantTypeStep DEF PlantTypeOK, Next
  <2> QED BY <1>1, <2>1
<1> QED BY <1>2, PlantTyped, PTL DEF Spec, ComputerShedLast

-----------------------------------------------------------------------------
(* An inoperable system draws nothing until it is repaired: load shedding  *)
(* and wear only cut power, the hit or the stress that takes the last of   *)
(* the condition takes the power, and Allocate refuses it.                 *)
LEMMA InoperableStep ==
  PlantTypeOK /\ InoperableUnpowered /\ [Next]_vars => InoperableUnpowered'
<1> SUFFICES ASSUME PlantTypeOK, InoperableUnpowered, [Next]_vars,
                    NEW s \in Consumers \ {Computer}, condition'[s] = 0
             PROVE  power'[s] = 0
  BY DEF InoperableUnpowered
<1>0. /\ condition[s] \in 0..Pristine /\ power[s] \in Nat
      /\ condition[s] = 0 => power[s] = 0
  BY DEF PlantTypeOK, InoperableUnpowered
<1>1. CASE Cycle
  <2>1. PICK hurt, dry : condition' = Worn(hurt) /\ power' = DrawAfterCycle(hurt, dry)
    BY <1>1, Zenon DEF Cycle
  <2>2. CASE condition[s] = 0
    BY <2>1, <2>2, <1>0, CycleOnlyCuts
  <2>3. CASE condition[s] # 0
    <3>1. s \in hurt /\ condition[s] <= 1
      BY <2>1, <2>3, <1>0 DEF Worn
    <3> QED BY <2>1, <3>1 DEF DrawAfterCycle
  <2> QED BY <2>2, <2>3
<1>2. ASSUME NEW targets, NEW x \in Requests, SetOutput(targets, x)
      PROVE  power'[s] = 0
  BY <1>0, <1>2 DEF SetOutput
<1>3. ASSUME NEW targets, NEW x \in Requests, Allocate(targets, x)
      PROVE  power'[s] = 0
  <2>1. condition[s] = 0 /\ ~Granted(targets, s, Watts(x))
    BY <1>3 DEF Allocate, Granted, Operable
  <2> QED BY <1>0, <1>3, <2>1 DEF Allocate
<1>4. CASE BootComputer
  BY <1>0, <1>4 DEF BootComputer, PlantTypeOK
<1>5. CASE Land
  BY <1>0, <1>5 DEF Land
<1>6. CASE Launch
  BY <1>0, <1>6 DEF Launch
<1>7. CASE DestroyShip
  BY <1>0, <1>7 DEF DestroyShip
<1>8. ASSUME NEW hurt, HandleDamage(hurt)
      PROVE  power'[s] = 0
  <2>1. CASE condition[s] = 0
    BY <2>1, <1>0, <1>8 DEF HandleDamage, DrawAfterDamage
  <2>2. CASE condition[s] # 0
    <3>1. s \in hurt /\ condition[s] <= 1
      BY <1>8, <2>2, <1>0 DEF HandleDamage, Worn
    <3> QED BY <1>8, <3>1 DEF HandleDamage, DrawAfterDamage
  <2> QED BY <2>1, <2>2
<1>9. ASSUME NEW q \in Fragile, Repair(q)
      PROVE  power'[s] = 0
  <2>1. condition[s] = 0
    BY <1>0, <1>9 DEF Repair, PlantTypeOK
  <2> QED BY <1>0, <1>9, <2>1 DEF Repair
<1>10. CASE Restart
  BY <1>0, <1>10 DEF Restart
<1>11. CASE UNCHANGED vars
  BY <1>0, <1>11 DEF vars
<1> QED BY <1>1, <1>2, <1>3, <1>4, <1>5, <1>6, <1>7, <1>8, <1>9, <1>10, <1>11 DEF Next

(* In any plant, a system other than the computer that stress or combat    *)
(* made inoperable draws nothing until it is repaired.                     *)
THEOREM InoperableStaysUnpowered == Spec => []InoperableUnpowered
<1>1. Init => InoperableUnpowered
  BY DEF Init, InoperableUnpowered
<1> QED BY <1>1, InoperableStep, PlantTyped, PTL DEF Spec

-----------------------------------------------------------------------------
(* Sums of the power that is drawn. *)
LEMMA PowerUsedSums ==
  ASSUME NEW draw \in [Consumers -> Nat]
  PROVE  /\ PowerUsed(draw) \in Nat
         /\ \A s \in Consumers : draw[s] <= PowerUsed(draw)
         /\ (\A s \in Consumers : draw[s] = 0) => PowerUsed(draw) = 0
<1>1. IsFiniteSet(Consumers) /\ DOMAIN draw = Consumers
  BY FS_Subset
<1>2. PowerUsed(draw) = SumFunctionOnSet(draw, Consumers)
  BY <1>1 DEF PowerUsed, SumFunction
<1>3. \A s \in Consumers : draw[s] \in Nat
  OBVIOUS
<1>4. PowerUsed(draw) \in Nat
  BY <1>1, <1>2, <1>3, SumIsNat
<1>5. \A s \in Consumers : draw[s] <= PowerUsed(draw)
  BY ONLY <1>1, <1>2, <1>3, SumOfTerm
<1>6. (\A s \in Consumers : draw[s] = 0) => PowerUsed(draw) = 0
  BY ONLY <1>1, <1>2, SumOfZeros
<1> QED BY <1>4, <1>5, <1>6

(* Who draws more uses more.                                               *)
LEMMA PowerUsedMonotone ==
  ASSUME NEW draw \in [Consumers -> Nat], NEW more \in [Consumers -> Nat],
         \A s \in Consumers : draw[s] <= more[s]
  PROVE  PowerUsed(draw) <= PowerUsed(more)
<1>1. IsFiniteSet(Consumers) /\ DOMAIN draw = Consumers /\ DOMAIN more = Consumers
  BY FS_Subset
<1>2. PowerUsed(draw) = SumFunctionOnSet(draw, Consumers)
  BY <1>1 DEF PowerUsed, SumFunction
<1>3. PowerUsed(more) = SumFunctionOnSet(more, Consumers)
  BY <1>1 DEF PowerUsed, SumFunction
<1> QED BY <1>1, <1>2, <1>3, SumMonotone

(* The output of the plant is a number.                                    *)
LEMMA OutputIsInt == PlantTypeOK => PowerOutput \in Int
<1> SUFFICES ASSUME PlantTypeOK PROVE PowerOutput \in Int
  OBVIOUS
<1>1. IsFiniteSet(Reactors) /\ DOMAIN output = Reactors
  BY FS_Subset DEF PlantTypeOK
<1> QED BY <1>1, SumIsInt DEF PowerOutput, SumFunction, PlantTypeOK

(* The loop of CheckSystemPower stops at the first system, in its order,   *)
(* that is not shut down.                                                  *)
LEMMA FirstSpared ==
  ASSUME NEW u \in Consumers, ~ Shed(u)
  PROVE  \E t \in Consumers : ~ Shed(t) /\ \A s \in Consumers : ShedBefore(s, t) => Shed(s)
<1> DEFINE Spared == {s \in Consumers \ {Computer} : ~ Shed(s)}
           Places == {Position[s] : s \in Spared}
<1>1. CASE Spared = {}
  <2>1. u = Computer
    BY <1>1
  <2>2. \A s \in Consumers : ShedBefore(s, Computer) => Shed(s)
    BY <1>1 DEF ShedBefore
  <2> QED BY <2>1, <2>2
<1>2. CASE Spared # {}
  <2>1. Places \subseteq Int /\ Places # {}
    BY <1>2
  <2>2. IsFiniteSet(Places)
    <3>1. IsFiniteSet(Spared)
      BY FS_Subset
    <3> DEFINE f == [s \in Spared |-> Position[s]]
    <3>2. f \in Surjection(Spared, Places)
      BY DEF Surjection
    <3> HIDE DEF f, Spared, Places
    <3> QED BY <3>1, <3>2, FS_Surjection
  <2>3. PICK i \in Places : \A j \in Places : i <= j
    <3> HIDE DEF Places
    <3> QED BY <2>1, <2>2, FiniteHasLeast
  <2>4. PICK t \in Spared : i = Position[t]
    OBVIOUS
  <2>5. ASSUME NEW s \in Consumers, ShedBefore(s, t) PROVE Shed(s)
    <3>1. s # Computer /\ Position[s] < Position[t]
      BY <2>5 DEF ShedBefore
    <3>2. Position[s] \in Int /\ Position[t] \in Int
      OBVIOUS
    <3>3. s \in Spared => Position[t] <= Position[s]
      BY <2>3, <2>4
    <3>4. s \notin Spared
      <4> HIDE DEF Spared
      <4> QED BY <3>1, <3>2, <3>3
    <3> QED BY <3>1, <3>4
  <2> QED BY <2>4, <2>5
<1> QED BY <1>1, <1>2

(* What is left on after the loop was within the output when it stopped. *)
LEMMA CheckFits ==
  ASSUME PlantTypeOK
  PROVE  /\ PowerAfterCheck \in [Consumers -> Nat]
         /\ PowerUsed(PowerAfterCheck) <= NonNegative(PowerOutput)
<1>1. PowerAfterCheck \in [Consumers -> Nat]
  BY DEF PowerAfterCheck, PlantTypeOK
<1>2. PowerOutput \in Int
  BY OutputIsInt
<1>3. CASE GoesIdle
  <2>1. PowerAfterCheck = power
    BY <1>3 DEF PowerAfterCheck, PlantTypeOK
  <2> QED BY <1>1, <1>2, <1>3, <2>1 DEF GoesIdle, NonNegative
<1>4. CASE ~ GoesIdle /\ \A u \in Consumers : Shed(u)
  <2>1. \A s \in Consumers : PowerAfterCheck[s] = 0
    BY <1>4 DEF PowerAfterCheck
  <2>2. PowerUsed(PowerAfterCheck) = 0
    BY <1>1, <2>1, PowerUsedSums
  <2> QED BY <1>1, <1>2, <2>2 DEF NonNegative
<1>5. CASE ~ GoesIdle /\ \E u \in Consumers : ~ Shed(u)
  <2>1. PICK t \in Consumers :
          ~ Shed(t) /\ \A s \in Consumers : ShedBefore(s, t) => Shed(s)
    BY <1>5, FirstSpared
  <2>2. ~ (PowerUsed(DrawReaching(t)) > PowerOutput)
    BY <2>1 DEF Shed
  <2>3. DrawReaching(t) \in [Consumers -> Nat]
    BY DEF DrawReaching, PlantTypeOK
  <2>4. ASSUME NEW s \in Consumers
        PROVE  PowerAfterCheck[s] <= DrawReaching(t)[s]
    <3>1. power[s] \in Nat
      BY DEF PlantTypeOK
    <3>2. ShedBefore(s, t) => PowerAfterCheck[s] = 0
      BY <1>5, <2>1 DEF PowerAfterCheck
    <3>3. PowerAfterCheck[s] \in {0, power[s]}
      BY DEF PowerAfterCheck
    <3>4. DrawReaching(t)[s] = IF ShedBefore(s, t) THEN 0 ELSE power[s]
      BY DEF DrawReaching
    <3> QED BY <3>1, <3>2, <3>3, <3>4
  <2>5. PowerUsed(PowerAfterCheck) <= PowerUsed(DrawReaching(t))
    BY <1>1, <2>3, <2>4, PowerUsedMonotone
  <2>6. PowerUsed(PowerAfterCheck) \in Nat /\ PowerUsed(DrawReaching(t)) \in Nat
    BY <1>1, <2>3, PowerUsedSums
  <2> QED BY <1>1, <1>2, <2>2, <2>5, <2>6 DEF NonNegative
<1> QED BY <1>3, <1>4, <1>5

(* However the ship got over its budget, one cycle restores it.            *)
THEOREM CycleRestoresBudget == Spec => BudgetRestored
<1>1. ASSUME PlantTypeOK, Cycle
      PROVE  PowerUsed(power') <= NonNegative(PowerOutput)
  <2>1. PICK hurt, dry : power' = DrawAfterCycle(hurt, dry)
    BY <1>1, Zenon DEF Cycle
  <2>2. DrawAfterCycle(hurt, dry) \in [Consumers -> Nat]
    BY <1>1, CycleOnlyCuts
  <2>3. PowerAfterCheck \in [Consumers -> Nat]
        /\ PowerUsed(PowerAfterCheck) <= NonNegative(PowerOutput)
    BY <1>1, CheckFits
  <2>4. \A s \in Consumers : DrawAfterCycle(hurt, dry)[s] <= PowerAfterCheck[s]
    BY <2>3 DEF DrawAfterCycle
  <2>5. PowerUsed(DrawAfterCycle(hurt, dry)) <= PowerUsed(PowerAfterCheck)
    BY <2>2, <2>3, <2>4, PowerUsedMonotone
  <2>6. /\ PowerUsed(DrawAfterCycle(hurt, dry)) \in Int
        /\ PowerUsed(PowerAfterCheck) \in Int /\ NonNegative(PowerOutput) \in Int
    BY <1>1, <2>2, <2>3, PowerUsedSums, OutputIsInt DEF NonNegative
  <2> QED BY <2>1, <2>3, <2>5, <2>6
<1>2. PlantTypeOK /\ [Next]_vars
        => [PowerUsed(power') <= NonNegative(PowerOutput) \/ ~Cycle]_vars
  BY <1>1
<1> QED BY <1>2, PlantTyped, PTL DEF Spec, BudgetRestored

-----------------------------------------------------------------------------
(* A ship that is offline is at rest.  That its reactors deliver nothing   *)
(* either is what keeps the crew from allocating power on it; and this     *)
(* holds because a reactor is never asked for less than nothing, so that   *)
(* set points whose sum is 0 are all 0.                                    *)
AtRest ==
  /\ \A r \in Reactors : desired[r] >= 0 /\ output[r] >= 0
  /\ ~online => /\ \A s \in Consumers : power[s] = 0
                /\ \A r \in Reactors : desired[r] = 0 /\ output[r] = 0

(* At rest nothing is asked of any reactor.                                *)
LEMMA NothingAsked ==
  ASSUME PlantTypeOK, AtRest, TotalDesired = 0, NEW r \in Reactors
  PROVE  desired[r] = 0
<1>1. IsFiniteSet(Reactors) /\ DOMAIN desired = Reactors
  BY FS_Subset DEF PlantTypeOK
<1>2. \A q \in Reactors : desired[q] \in Nat
  BY DEF PlantTypeOK, AtRest
<1>3. SumFunctionOnSet(desired, Reactors) = 0
  BY <1>1 DEF TotalDesired, SumFunction
<1>4. desired[r] <= SumFunctionOnSet(desired, Reactors)
  BY ONLY <1>1, <1>2, SumOfTerm, r \in Reactors
<1> QED BY <1>2, <1>3, <1>4

(* At rest an offline ship has no output.                                  *)
LEMMA NothingDelivered ==
  ASSUME PlantTypeOK, AtRest, ~online
  PROVE  PowerOutput = 0
<1>1. IsFiniteSet(Reactors) /\ DOMAIN output = Reactors
  BY FS_Subset DEF PlantTypeOK
<1>2. \A r \in Reactors : output[r] = 0
  BY DEF AtRest
<1> QED BY <1>1, <1>2, SumOfZeros DEF PowerOutput, SumFunction

(* A cycle keeps a ship at rest.                                           *)
LEMMA CycleComesToRest ==
  ASSUME PlantTypeOK, AtRest, Cycle
  PROVE  AtRest'
<1>1. PICK hurt, dry :
        /\ condition' = Worn(hurt)
        /\ power' = DrawAfterCycle(hurt, dry)
        /\ desired' = [r \in Reactors |-> IF Starves(r) THEN 0
                                          ELSE SetPoint(r, condition'[r])]
        /\ output' = [r \in Reactors |-> IF Starves(r) THEN 0
                                         ELSE NextOutput(r, desired'[r])]
  BY Zenon DEF Cycle
<1>2. condition' \in [Systems -> 0..Pristine]
  BY CycleReactors
<1>3. \A r \in Reactors : /\ Peak[r][condition'[r]] \in Nat /\ Charge[r] \in Nat
                          /\ desired[r] \in Nat /\ output[r] \in Nat
  <2>1. \A r \in Reactors : Peak[r] \in [0..Pristine -> Nat] /\ condition'[r] \in 0..Pristine
    BY <1>2
  <2>2. \A r \in Reactors : desired[r] \in Nat /\ output[r] \in Nat
    BY DEF PlantTypeOK, AtRest
  <2> QED BY <2>1, <2>2
<1>4. \A r \in Reactors : /\ desired'[r] \in Nat
                          /\ desired[r] = 0 => desired'[r] = 0
  <2> TAKE r \in Reactors
  <2>1. desired'[r] = IF Starves(r) THEN 0 ELSE AtMost(desired[r], Peak[r][condition'[r]])
    BY <1>1 DEF SetPoint
  <2>2. Peak[r][condition'[r]] \in Nat /\ desired[r] \in Nat
    BY <1>3
  <2> QED BY <2>1, <2>2 DEF AtMost
<1>5. \A r \in Reactors : /\ output'[r] \in Nat
                          /\ desired'[r] = 0 => output'[r] = 0
  <2> TAKE r \in Reactors
  <2>1. output'[r] = IF Starves(r) THEN 0 ELSE NextOutput(r, desired'[r])
    BY <1>1
  <2>2. desired'[r] \in Nat /\ output[r] \in Nat /\ Charge[r] \in Nat
    BY <1>3, <1>4
  <2> QED BY <2>1, <2>2 DEF NextOutput, AtMost
<1>6. ASSUME GoesIdle
      PROVE  /\ \A s \in Consumers : power'[s] = 0
             /\ \A r \in Reactors : desired'[r] = 0 /\ output'[r] = 0
  <2>1. ASSUME NEW s \in Consumers PROVE power[s] = 0
    <3>1. PowerUsed(power) = 0 /\ power[s] <= PowerUsed(power) /\ power[s] \in Nat
      BY <1>6, PowerUsedSums DEF GoesIdle, PlantTypeOK
    <3> QED BY <3>1
  <2>2. ASSUME NEW s \in Consumers PROVE power'[s] = 0
    <3>1. DrawAfterCycle(hurt, dry)[s] \in {0, power[s]}
      BY CycleOnlyCuts
    <3> QED BY <1>1, <2>1, <3>1
  <2>3. \A r \in Reactors : desired[r] = 0
    BY <1>6, NothingAsked DEF GoesIdle
  <2> QED BY <1>4, <1>5, <2>2, <2>3
<1>7. online' = ~GoesIdle
  BY Zenon DEF Cycle
<1>8. ~online' => GoesIdle
  BY <1>7, Zenon
<1>9. \A r \in Reactors : desired'[r] >= 0 /\ output'[r] >= 0
  BY <1>4, <1>5
<1> QED BY <1>6, <1>8, <1>9 DEF AtRest

(* Every step keeps a ship at rest.                                        *)
LEMMA RestIsKept ==
  ASSUME Requests \subseteq Nat, PlantTypeOK, AtRest, [Next]_vars
  PROVE  AtRest'
<1>1. CASE Cycle
  BY <1>1, CycleComesToRest
<1>2. ASSUME NEW targets, targets \subseteq Reactors, NEW x \in Requests, SetOutput(targets, x)
      PROVE  AtRest'
  <2>1. PICK set \in SUBSET Reactors :
          /\ desired' = [r \in Reactors |-> IF r \in set THEN x ELSE desired[r]]
          /\ online' = (online \/ Wakes(set, x))
    BY <1>2, Zenon DEF SetOutput
  <2>2. x \in Nat /\ \A r \in Reactors : desired'[r] >= 0
    BY <2>1 DEF AtRest
  <2>3. ASSUME ~online'
        PROVE  ~online /\ \A r \in Reactors : desired'[r] = 0
    <3>1. ~online /\ ~Wakes(set, x)
      BY <2>1, <2>3, Zenon
    <3>2. set = {} \/ x = 0
      BY <2>2, <3>1 DEF Wakes
    <3> QED BY <2>1, <3>1, <3>2 DEF AtRest
  <2>4. power' = power /\ output' = output
    BY <1>2 DEF SetOutput
  <2> QED BY <2>2, <2>3, <2>4 DEF AtRest
<1>3. ASSUME NEW targets, NEW x \in Requests, Allocate(targets, x)
      PROVE  AtRest'
  <2>1. desired' = desired /\ output' = output /\ online' = online
    BY <1>3 DEF Allocate
  <2>2. ASSUME ~online, NEW s \in Consumers PROVE power'[s] = 0
    <3>1. Watts(x) \in Nat /\ power[s] = 0 /\ PowerOutput = 0
      BY <2>2, NothingDelivered DEF Watts, NonNegative, AtRest
    <3>2. CASE ~ Granted(targets, s, Watts(x))
      BY <1>3, <3>1, <3>2 DEF Allocate
    <3>3. CASE Granted(targets, s, Watts(x))
      <4>1. s \in targets /\ Operable(s) /\ Position[s] <= Position[s]
        BY <3>3 DEF Granted
      <4>2. Affordable(targets, s, Watts(x))
        BY <3>3, <4>1 DEF Granted
      <4>3. DrawBefore(targets, s, Watts(x)) \in [Consumers -> Nat]
        BY <3>1 DEF DrawBefore, PlantTypeOK
      <4>4. PowerUsed(DrawBefore(targets, s, Watts(x))) \in Nat
        BY <4>3, PowerUsedSums
      <4>5. Watts(x) = 0
        BY <3>1, <4>2, <4>4 DEF Affordable
      <4> QED BY <1>3, <3>3, <4>5 DEF Allocate
    <3> QED BY <3>2, <3>3
  <2> QED BY <2>1, <2>2 DEF AtRest
<1>4. CASE BootComputer
  <2>1. desired' = desired /\ output' = output /\ online' = online
    BY <1>4 DEF BootComputer
  <2>2. ASSUME ~online PROVE \A s \in Consumers : power'[s] = 0
    <3>1. PowerOutput = 0 /\ PowerUsed(power) \in Nat /\ Optimal[Computer] \in Nat
      BY <2>2, NothingDelivered, PowerUsedSums DEF PlantTypeOK
    <3>2. Optimal[Computer] = 0
      BY <1>4, <3>1 DEF BootComputer
    <3> QED BY <1>4, <2>2, <3>2 DEF BootComputer, AtRest, PlantTypeOK
  <2> QED BY <2>1, <2>2 DEF AtRest
<1>5. CASE Land
  BY <1>5 DEF Land, AtRest
<1>6. CASE Launch
  BY <1>6 DEF Launch, AtRest
<1>7. CASE DestroyShip
  BY <1>7 DEF DestroyShip, AtRest
<1>8. ASSUME NEW hurt, HandleDamage(hurt)
      PROVE  AtRest'
  <2>1. \A s \in Consumers : power[s] = 0 => power'[s] = 0
    BY <1>8 DEF HandleDamage, DrawAfterDamage
  <2>2. desired' = desired /\ output' = output /\ online' = online
    BY <1>8 DEF HandleDamage
  <2> QED BY <2>1, <2>2 DEF AtRest
<1>9. ASSUME NEW s \in Fragile, Repair(s)
      PROVE  AtRest'
  BY <1>9 DEF Repair, AtRest
<1>10. CASE Restart
  BY <1>10 DEF Restart, AtRest
<1>11. CASE UNCHANGED vars
  BY <1>11 DEF vars, AtRest
<1> QED BY <1>1, <1>2, <1>3, <1>4, <1>5, <1>6, <1>7, <1>8, <1>9, <1>10, <1>11 DEF Next

(* Nobody sheds load on a ship that is not cycled, and nobody has to.      *)
THEOREM OfflineShipIsAtRest ==
  ASSUME Requests \subseteq Nat
  PROVE  Spec => []OfflineIsAtRest
<1>1. Init => AtRest
  BY DEF Init, AtRest
<1>2. PlantTypeOK /\ AtRest /\ [Next]_vars => AtRest'
  BY RestIsKept
<1>3. PlantTypeOK /\ AtRest => OfflineIsAtRest
  <2> SUFFICES ASSUME PlantTypeOK, AtRest, ~online
               PROVE  PowerUsed(power) = 0 /\ \A r \in Reactors : desired[r] <= 0
    BY DEF OfflineIsAtRest
  <2>1. PowerUsed(power) = 0
    BY PowerUsedSums DEF AtRest, PlantTypeOK
  <2> QED BY <2>1 DEF AtRest
<1> QED BY <1>1, <1>2, <1>3, PlantTyped, PTL DEF Spec
=============================================================================
