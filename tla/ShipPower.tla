----------------------------- MODULE ShipPower -----------------------------
(***************************************************************************)
(* The power plant of one ship: the reactors that produce power, the       *)
(* systems that draw it, the load shedding that keeps the two in balance,  *)
(* the flag mOnline that decides whether the ship is cycled at all, and    *)
(* the landing timer that a cycle advances (HSShip.cpp, HSReactor.cpp,     *)
(* HSSystem.cpp, HSConsole.cpp, HSComputer.cpp).                           *)
(*                                                                         *)
(* HSpace is driven by the game loop: HSCycle runs every ship's Cycle once *)
(* a second, and between two cycles any number of console commands and     *)
(* weapon hits may arrive.  One action is one such call.                   *)
(***************************************************************************)
EXTENDS Integers, FiniteSets, Functions

CONSTANTS
  Reactors,      (* the ship's HSReactorInstances                          *)
  Consumers,     (* every other system that can draw power                 *)
  Computer,      (* the one consumer that is the main computer             *)
  Engines,       (* consumers of type HSST_ENGINE                          *)
  Thrusters,     (* consumers of type HSST_THRUSTERS                       *)
  Position,      (* place of a system in mSystems                          *)
  Pristine,      (* condition of an undamaged system; 0 is inoperable      *)
  Optimal,       (* optimal draw of a consumer                             *)
  PeakDraw,      (* largest draw Allocate accepts, overload included       *)
  Rated,         (* output of a reactor above which it is under stress,    *)
                 (* for each condition: MaxOutput * condition              *)
  Peak,          (* output it can be set to: Rated * (1 + MaxOverload)     *)
  Charge,        (* how much a reactor's output rises in a cycle           *)
  Burn,          (* fuel a reactor needs for one unit of output            *)
  TankSize,      (* MaxFuel of the tanks that feed the reactors            *)
  FuelBound,     (* bound: where the modelled fuel level saturates         *)
  LandingTicks,  (* cycles of a landing sequence, 20 in the code           *)
  LaunchTicks,   (* cycles of a launch sequence, 10 in the code            *)
  Requests,      (* bound: watts players ask for in SETOUTPUT and ALLOCATE *)
  Fragile        (* bound: systems that get damaged in this instance       *)

Systems == Reactors \cup Consumers

ASSUME ShipAssumption ==
  /\ IsFiniteSet(Systems) /\ Reactors \cap Consumers = {}
  /\ Computer \in Consumers
  /\ Engines \subseteq Consumers /\ Thrusters \subseteq Consumers
  /\ Computer \notin Engines \cup Thrusters
  /\ Position \in [Systems -> Nat] /\ IsInjective(Position)
  /\ Fragile \subseteq Systems
  /\ Requests \subseteq Int

ASSUME PowerAssumption ==
  /\ Pristine \in Nat \ {0}
  /\ Optimal \in [Consumers -> Nat]
  /\ PeakDraw \in [Consumers -> Nat]
  /\ \A s \in Consumers : Optimal[s] <= PeakDraw[s]
  /\ Rated \in [Reactors -> [0..Pristine -> Nat]]
  /\ Peak \in [Reactors -> [0..Pristine -> Nat]]
  /\ Charge \in [Reactors -> Nat]
  /\ Burn \in [Reactors -> Nat]
  /\ TankSize \in Nat /\ FuelBound \in Nat /\ TankSize <= FuelBound
  /\ LandingTicks \in Nat \ {0} /\ LaunchTicks \in Nat \ {0}

VARIABLES
  online,     (* mOnline: the ship is cycled                               *)
  intact,     (* mCurrentHullPoints # 0                                    *)
  condition,  (* mCondition of every system                                *)
  power,      (* mCurrentPower of every consumer                           *)
  desired,    (* mDesiredOutput of every reactor                           *)
  output,     (* mCurrentOutput of every reactor                           *)
  fuel,       (* litres left in the tanks that feed the reactors           *)
  landed,     (* mLandedLoc # -1                                           *)
  timer       (* mLandingTimer: > 0 landing, < 0 launching                 *)

vars == <<online, intact, condition, power, desired, output, fuel, landed, timer>>

-----------------------------------------------------------------------------
(* HSShip::GetPowerOutput, GetAvailablePower and the sums of CheckSystemPower. *)
PowerOutput == SumFunction(output)
PowerUsed(draw) == SumFunction(draw)
TotalDesired == SumFunction(desired)

(* HSComputerInstance::IsOnline: on exactly when fully powered. *)
ComputerOnline == power[Computer] = Optimal[Computer]

Powered(kind) == \E s \in kind : power[s] > 0

NonNegative(x) == IF x > 0 THEN x ELSE 0
AtMost(x, y) == IF x < y THEN x ELSE y

-----------------------------------------------------------------------------
(* Mutant: only the reactors are looked at. *)
GoesIdleWhenUnasked == TotalDesired = 0

(* CheckSystemPower: a ship that draws nothing and asks its reactors for   *)
(* nothing goes offline.  A ship that draws more than it produces shuts    *)
(* systems down in the order of mSystems, the computer last, until the     *)
(* rest fits.                                                              *)
GoesIdle == PowerUsed(power) = 0 /\ TotalDesired = 0

(* Mutant: the computer is shut down in its place of mSystems, not last. *)
ShedBeforeInOrder(s, t) == Position[s] < Position[t]

ShedBefore(s, t) ==
  /\ s # Computer
  /\ t = Computer \/ Position[s] < Position[t]

(* What would be drawn when the loop of CheckSystemPower reaches t. *)
DrawReaching(t) == [s \in Consumers |-> IF ShedBefore(s, t) THEN 0 ELSE power[s]]

(* Mutant: the comparison is off by one. *)
ShedOffByOne(t) ==
  \A s \in Consumers : s = t \/ ShedBefore(s, t)
                       => PowerUsed(DrawReaching(s)) > PowerOutput + 1

(* The loop reaches t, and shuts it down, when stopping at any system up   *)
(* to t would still have left the ship over its output.                    *)
Shed(t) ==
  \A s \in Consumers : s = t \/ ShedBefore(s, t)
                       => PowerUsed(DrawReaching(s)) > PowerOutput

PowerAfterCheck == 
  [s \in Consumers |-> IF ~GoesIdle /\ Shed(s) THEN 0 ELSE power[s]]

-----------------------------------------------------------------------------
(* HSReactorInstance::Cycle.  The reactors cycle in the order of mSystems  *)
(* and drink from the same tanks; one that finds too little fuel empties   *)
(* the tanks and shuts down.                                               *)
FuelNeed(r) == output[r] * Burn[r]

LastPosition == CHOOSE i \in {Position[s] : s \in Systems} :
                  \A s \in Systems : Position[s] <= i

FuelLeft[i \in -1..LastPosition] ==
  IF i = -1 THEN fuel
  ELSE LET here == {r \in Reactors : Position[r] = i}
           need == IF here = {} THEN 0 ELSE FuelNeed(CHOOSE r \in here : TRUE)
       IN  NonNegative(FuelLeft[i - 1] - need)

Starves(r) == Burn[r] > 0 /\ FuelLeft[Position[r] - 1] < FuelNeed(r)

(* Mutant: the set point of a damaged reactor is not brought down. *)
SetPointKept(r, c) == desired[r]

SetPoint(r, c) == AtMost(desired[r], Peak[r][c])

NextOutput(r, target) ==
  IF target <= output[r] THEN target ELSE AtMost(output[r] + Charge[r], target)

(* Overload: output above what the reactor's condition allows, a draw      *)
(* above the optimum.  Stress then costs condition with some probability.  *)
Stressed == {r \in Reactors : output[r] > Rated[r][condition[r]]}
              \cup {s \in Consumers \ {Computer} : PowerAfterCheck[s] > Optimal[s]}

(* Conditions fall a level at a time in the model. *)
Worn(hurt) == [s \in Systems |->
                 IF s \in hurt /\ condition[s] > 0 THEN condition[s] - 1 ELSE condition[s]]

(* A landing or launch sequence, while its landing location exists. *)
NextTimer == IF timer > 0 THEN timer - 1 ELSE IF timer < 0 THEN timer + 1 ELSE 0

(* Power at the end of a cycle: hurt lost condition, and with the last of  *)
(* it their power; dry are the engines CycleEngines found without fuel.    *)
DrawAfterCycle(hurt, dry) ==
  [s \in Consumers |-> IF s \in dry \/ (s \in hurt /\ condition[s] <= 1)
                       THEN 0 ELSE PowerAfterCheck[s]]

(* HSShip::Cycle.  The check of the power comes first and may take the     *)
(* ship offline, but this cycle still runs to its end.                     *)
Cycle ==
  /\ online /\ intact
  /\ online' = ~GoesIdle
  /\ \E hurt \in SUBSET (Stressed \cap Fragile),
        dry \in SUBSET (IF landed THEN {} ELSE Engines) :
       /\ condition' = Worn(hurt)
       /\ power' = DrawAfterCycle(hurt, dry)
       /\ desired' = [r \in Reactors |-> IF Starves(r) THEN 0
                                         ELSE SetPoint(r, condition'[r])]
       /\ output' = [r \in Reactors |-> IF Starves(r) THEN 0
                                        ELSE NextOutput(r, desired'[r])]
  /\ fuel' = AtMost(FuelLeft[LastPosition], FuelBound)
  /\ timer' = IF landed THEN NextTimer ELSE timer
  /\ landed' = (landed /\ timer # -1)
  /\ UNCHANGED intact

-----------------------------------------------------------------------------
(* "A reactor's output has been set > 0, ship is online for sure." *)
Wakes(set, x) == set # {} /\ x > 0

CanDeliver(r, x) == x <= Peak[r][condition[r]]

(* HSConsole::SetOutput for one reactor or for ALL.  The reactors are set  *)
(* in order and the first that cannot deliver ends the command: those      *)
(* before it keep their new set point.  A set point may be negative.       *)
SetOutput(targets, x) ==
  LET set == {r \in targets : \A q \in targets :
                                Position[q] <= Position[r] => CanDeliver(q, x)}
  IN  /\ intact /\ timer = 0
      /\ desired' = [r \in Reactors |-> IF r \in set THEN x ELSE desired[r]]
      /\ online' = (online \/ Wakes(set, x))
      /\ UNCHANGED <<intact, condition, power, output, fuel, landed, timer>>

(* What a request stands for: Allocate takes a negative one for 0. *)
Watts(x) == NonNegative(x)

Operable(s) == condition[s] > 0

(* HSConsole::Allocate for one system or for ALL.  Walking the systems in  *)
(* order, it skips one that is inoperable or cannot take that much, and    *)
(* gives up at the first one there is not enough power for.                *)
DrawBefore(targets, s, x) ==
  [t \in Consumers |->
     IF t \in targets /\ Position[t] < Position[s] /\ Operable(t) /\ x <= PeakDraw[t]
     THEN x ELSE power[t]]

Affordable(targets, s, x) ==
  PowerOutput - PowerUsed(DrawBefore(targets, s, x)) + power[s] >= x

(* A system is given power when the walk reaches it and it can take it. *)
Granted(targets, s, x) ==
  /\ s \in targets /\ Operable(s) /\ x <= PeakDraw[s]
  /\ \A t \in targets : Position[t] <= Position[s] /\ Operable(t)
                        => Affordable(targets, t, x)

Allocate(targets, x) ==
  /\ intact
  /\ power' = [s \in Consumers |-> IF Granted(targets, s, Watts(x)) THEN Watts(x)
                                   ELSE power[s]]
  /\ UNCHANGED <<online, intact, condition, desired, output, fuel, landed, timer>>

(* HSConsole::BootComputer.  The computer's condition is not looked at. *)
BootComputer ==
  /\ intact /\ ~ComputerOnline
  /\ PowerOutput - PowerUsed(power) >= Optimal[Computer]
  /\ power' = [power EXCEPT ![Computer] = Optimal[Computer]]
  /\ UNCHANGED <<online, intact, condition, desired, output, fuel, landed, timer>>

(* HSComputerInstance::Land and Launch, the contact, distance and space    *)
(* checks being those of module Landing.                                   *)
Land ==
  /\ intact /\ ComputerOnline
  /\ timer = 0 /\ Powered(Engines) /\ Powered(Thrusters)
  /\ landed' = TRUE /\ timer' = LandingTicks
  /\ UNCHANGED <<online, intact, condition, power, desired, output, fuel>>

Launch ==
  /\ intact /\ ComputerOnline
  /\ landed /\ timer = 0 /\ Powered(Engines) /\ Powered(Thrusters)
  /\ timer' = -LaunchTicks
  /\ UNCHANGED <<online, intact, condition, power, desired, output, fuel, landed>>

-----------------------------------------------------------------------------
(* Mutant: a hit that makes a system inoperable leaves its power on. *)
DrawAfterDamageLeftOn(hurt) == power

DrawAfterDamage(hurt) ==
  [s \in Consumers |-> IF s \in hurt /\ condition[s] <= 1 THEN 0 ELSE power[s]]

(* HSShip::HandleDamage, what gets through the shields: either the hull is *)
(* gone, or some systems lose condition, the last of it with their power.  *)
DestroyShip ==
  /\ intact /\ intact' = FALSE
  /\ UNCHANGED <<online, condition, power, desired, output, fuel, landed, timer>>

HandleDamage(hurt) ==
  /\ intact
  /\ condition' = Worn(hurt)
  /\ power' = DrawAfterDamage(hurt)
  /\ UNCHANGED <<online, intact, desired, output, fuel, landed, timer>>

(* HSRepairSystemInstance::Cycle, of this ship or of the one it landed on. *)
Repair(s) ==
  /\ condition[s] < Pristine
  /\ condition' = [condition EXCEPT ![s] = @ + 1]
  /\ UNCHANGED <<online, intact, power, desired, output, fuel, landed, timer>>

(* The game goes down with HSShutdown and comes back with HSInitialize:    *)
(* mOnline and mLandingTimer are not among the attributes that are saved.  *)
Restart ==
  /\ online' = TRUE /\ timer' = 0
  /\ UNCHANGED <<intact, condition, power, desired, output, fuel, landed>>

-----------------------------------------------------------------------------
Init ==
  /\ online = TRUE /\ intact = TRUE
  /\ condition = [s \in Systems |-> Pristine]
  /\ power = [s \in Consumers |-> 0]
  /\ desired = [r \in Reactors |-> 0]
  /\ output = [r \in Reactors |-> 0]
  /\ fuel = TankSize
  /\ landed = FALSE /\ timer = 0

(* The systems ALLOCATE ALL covers, and one system named by the player. *)
Allocatable == {{s} : s \in Consumers \ {Computer}}
                 \cup {{s \in Consumers \ {Computer} : Optimal[s] > 0}}

Next ==
  \/ Cycle
  \/ \E targets \in {{r} : r \in Reactors} \cup {Reactors}, x \in Requests : SetOutput(targets, x)
  \/ \E targets \in Allocatable, x \in Requests : Allocate(targets, x)
  \/ BootComputer
  \/ Land
  \/ Launch
  \/ DestroyShip
  \/ \E hurt \in SUBSET Fragile : HandleDamage(hurt)
  \/ \E s \in Fragile : Repair(s)
  \/ Restart

(* HSCycle is called once a second for as long as the game runs. *)
Spec == Init /\ [][Next]_vars /\ WF_vars(Cycle)

-----------------------------------------------------------------------------
(* What every variable holds (the attributes of HSShip.h and HSReactor.h). *)
TypeOK ==
  /\ online \in BOOLEAN /\ intact \in BOOLEAN /\ landed \in BOOLEAN
  /\ condition \in [Systems -> 0..Pristine]
  /\ power \in [Consumers -> Nat]
  /\ desired \in [Reactors -> Int]
  /\ output \in [Reactors -> Int]
  /\ fuel \in Nat
  /\ timer \in (-LaunchTicks)..LandingTicks

(* The action properties are of the form  good \/ ~Cycle : no step that    *)
(* does otherwise is a cycle.                                              *)

(* However the ship got over its budget (a reactor damaged, starved or     *)
(* turned down), one cycle leaves the systems drawing no more than the     *)
(* reactors delivered when the cycle began (CheckSystemPower).             *)
BudgetRestored ==
  [][PowerUsed(power') <= NonNegative(PowerOutput) \/ ~Cycle]_vars

(* A cycle that turns the computer off, which is what lets the crew give   *)
(* orders at all, has turned everything else off before.                   *)
ComputerShedLast ==
  [][\/ power[Computer] = 0 \/ power'[Computer] > 0
     \/ \A s \in Consumers : power'[s] = 0
     \/ ~Cycle]_vars

(* After a cycle no reactor runs, or is asked to run, above the peak of    *)
(* the condition that cycle left it in, whenever it was damaged.           *)
ReactorsWithinPeak ==
  [][(\A r \in Reactors : /\ desired'[r] <= Peak[r][condition'[r]]
                          /\ output'[r] <= Peak[r][condition'[r]]) \/ ~Cycle]_vars

(* A system, other than the computer, that stress or combat made           *)
(* inoperable draws nothing, and no command can make it draw again before  *)
(* it is repaired.                                                         *)
InoperableUnpowered ==
  \A s \in Consumers \ {Computer} : condition[s] = 0 => power[s] = 0

(* Nobody sheds load on a ship that is not cycled, and no reactor of it    *)
(* charges or starves.  Such a ship draws nothing and no reactor of it is  *)
(* asked for power (HSConsole.cpp:423 "A reactor's output has been set     *)
(* > 0, ship is online for sure"), as long as no player asks for a         *)
(* negative output.                                                        *)
OfflineIsAtRest ==
  ~online => PowerUsed(power) = 0 /\ \A r \in Reactors : desired[r] <= 0

(* An overdraw does not last while the ship holds together, even when the  *)
(* crew keeps changing set points and allocations.                         *)
OverdrawEnds ==
  PowerUsed(power) > NonNegative(PowerOutput)
    ~> PowerUsed(power) <= NonNegative(PowerOutput) \/ ~intact
=============================================================================
