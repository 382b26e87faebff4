------------------------------- MODULE Repair -------------------------------
(***************************************************************************)
(* Repair systems and what they work on (HSRepairSystem.cpp).              *)
(*                                                                         *)
(* A repair system keeps a list of assignments and spreads its capacity    *)
(* evenly over them, cycle by cycle, until each is as new.  It works on    *)
(* its own ship and on ships that have landed there.  An assignment does   *)
(* not name a system: it is a ship, a class of systems, and how many of    *)
(* that class stand before it in the ship's list of systems, so that what  *)
(* it means depends on every system before it.                             *)
(*                                                                         *)
(* Conditions are counted in units of which Full is 100%, work in units    *)
(* small enough that the shares of an instance are whole.                  *)
(***************************************************************************)
EXTENDS Integers, FiniteSets, Functions

CONSTANTS
  Ships,
  Systems,       (* HSSystemInstances                                      *)
  Benches,       (* those that are HSRepairSystemInstances                 *)
  Owner,         (* ship of a system                                       *)
  Class,         (* mSystemID, the HSSystem it is an instance of           *)
  HullId,        (* HULL_ID, no class                                      *)
  Position,      (* order of mSystems, as far as it is one of a class      *)
  Full,          (* condition of a system as new                           *)
  Work,          (* repair capacity of a powered bench, by its condition:  *)
                 (* not less in a better one                               *)
  Mass,          (* work that raises the condition by one unit             *)
  HullPoints,    (* of an undamaged hull                                   *)
  HullMass,      (* work that would raise a hull by all its points         *)
  None,          (* no ship to be landed on, no system found               *)
  Guests,        (* bound: ships that land in this instance                *)
  JobBound,      (* bound: assignments of a bench                          *)
  Fragile,       (* bound: systems and ships that get damaged              *)
  Removable      (* bound: systems that are removed and placed             *)

ASSUME RepairAssumption ==
  /\ IsFiniteSet(Ships) /\ IsFiniteSet(Systems) /\ Ships \cap Systems = {}
  /\ Benches \subseteq Systems
  /\ Owner \in [Systems -> Ships]
  /\ HullId \notin {Class[x] : x \in Systems}
  /\ Position \in [Systems -> Nat] /\ IsInjective(Position)
  /\ Full \in Nat \ {0}
  /\ Work \in [Benches -> [0..Full -> Nat]]
  /\ \A b \in Benches : \A c, d \in 0..Full : c <= d => Work[b][c] <= Work[b][d]
  /\ Mass \in [Systems -> Nat \ {0}]
  /\ HullPoints \in [Ships -> Nat \ {0}] /\ HullMass \in [Ships -> Nat \ {0}]
  /\ None \notin Ships \cup Systems /\ JobBound \in Nat
  /\ Guests \subseteq Ships /\ Fragile \subseteq Ships \cup Systems
  /\ Removable \subseteq Systems \ Benches

VARIABLES
  fitted,      (* systems that are installed                               *)
  condition,   (* mCondition of every system                               *)
  hull,        (* mCurrentHullPoints of every ship                         *)
  powered,     (* benches with power                                       *)
  landed,      (* the ship every ship has landed on                        *)
  jobs         (* mTargetShipIDs, mTargetSystemIDs and mTargetSystemCounts *)

vars == <<fitted, condition, hull, powered, landed, jobs>>

AtMost(x, y) == IF x < y THEN x ELSE y

-----------------------------------------------------------------------------
(* Mutant: systems are counted from the end of the list. *)
CountFromEnd(x) ==
  Cardinality({y \in fitted : /\ Owner[y] = Owner[x] /\ Class[y] = Class[x]
                              /\ Position[y] > Position[x]})

(* The place of a system among those of its class. *)
Count(x) ==
  Cardinality({y \in fitted : /\ Owner[y] = Owner[x] /\ Class[y] = Class[x]
                              /\ Position[y] < Position[x]})

JobOn(x) == [ship |-> Owner[x], class |-> Class[x], count |-> Count(x)]
HullJob(s) == [ship |-> s, class |-> HullId, count |-> 0]

(* The system that a cycle finds for a job, if there is one. *)
Found(j) ==
  IF \E x \in fitted : JobOn(x) = j THEN CHOOSE x \in fitted : JobOn(x) = j ELSE None

(* Mutant: a ship is worked on wherever it is. *)
WithinReachAnywhere(b, s) == TRUE

(* The ships a bench can work on: its own (ship id 0) and those on the     *)
(* roster of its own.                                                      *)
WithinReach(b, s) == s = Owner[b] \/ landed[s] = Owner[b]

(* HSRepairSystem::RepairCapacity, adjusted to power and condition. *)
Capacity(b, c) == IF b \in powered THEN Work[b][c] ELSE 0

(* Mutant: every assignment gets the whole capacity. *)
WholeShare(b, c) == Capacity(b, c)

Share(b, c) == Capacity(b, c) \div Cardinality(jobs[b])

(* What a share is worth to a system, and in whole points to a hull. *)
Mended(x, share) == AtMost(Full, condition[x] + share \div Mass[x])
HullMended(s, share) ==
  AtMost(HullPoints[s], hull[s] + (HullPoints[s] * share) \div HullMass[s])

(* Mutant: what is finished stays on the list. *)
KeptFinished(b, share) ==
  {j \in jobs[b] : WithinReach(b, j.ship) /\ (j.class = HullId \/ Found(j) # None)}

(* The assignments that are not finished.  The others are forgotten, as    *)
(* are those whose ship has left or whose system is not found.  A hull is  *)
(* finished when it would get more points than it can have, a system when  *)
(* it is as new.                                                           *)
Unfinished(b, share) ==
  {j \in jobs[b] :
     /\ WithinReach(b, j.ship)
     /\ IF j.class = HullId
        THEN hull[j.ship] + (HullPoints[j.ship] * share[j]) \div HullMass[j.ship]
               <= HullPoints[j.ship]
        ELSE Found(j) # None /\ condition[Found(j)] + share[j] \div Mass[Found(j)] < Full}

(* HSRepairSystemInstance::Cycle.  The capacity is computed anew for every *)
(* assignment; when the bench repairs itself, those behind that assignment *)
(* in the list already profit.  A wreck is not cycled; that a ship with a  *)
(* bench goes offline is left out.                                         *)
Cycle(b) ==
  /\ hull[Owner[b]] # 0 /\ jobs[b] # {}
  /\ LET own == {j \in jobs[b] : Found(j) = b}
         better == IF own = {} THEN condition[b]
                   ELSE Mended(b, Share(b, condition[b]))
     IN  \E behind \in SUBSET IF better = condition[b] THEN {} ELSE jobs[b] \ own :
           LET share == [j \in jobs[b] |->
                           Share(b, IF j \in behind THEN better ELSE condition[b])]
               worked == {j \in jobs[b] : WithinReach(b, j.ship)}
           IN  /\ condition' = [x \in Systems |->
                    IF x \in fitted /\ JobOn(x) \in worked
                    THEN Mended(x, share[JobOn(x)]) ELSE condition[x]]
               /\ hull' = [s \in Ships |->
                    IF HullJob(s) \in worked THEN HullMended(s, share[HullJob(s)]) ELSE hull[s]]
               /\ jobs' = [jobs EXCEPT ![b] = Unfinished(b, share)]
  /\ UNCHANGED <<fitted, powered, landed>>

-----------------------------------------------------------------------------
(* AssignToSystem and AssignToSystemOn; an assignment there is refused a   *)
(* second time.  The console of a destroyed ship is dead.                  *)
Assign(b, j) ==
  /\ hull[Owner[b]] # 0 /\ j \notin jobs[b] /\ Cardinality(jobs[b]) < JobBound
  /\ jobs' = [jobs EXCEPT ![b] = @ \cup {j}]
  /\ UNCHANGED <<fitted, condition, hull, powered, landed>>

AssignToSystem(b, x) ==
  x \in fitted /\ WithinReach(b, Owner[x]) /\ Assign(b, JobOn(x))
AssignToHull(b, s) == WithinReach(b, s) /\ Assign(b, HullJob(s))

(* UnassignFromSystem and UnassignFromSystemOn. *)
Unassign(b, j) ==
  /\ hull[Owner[b]] # 0 /\ j \in jobs[b] /\ WithinReach(b, j.ship)
  /\ j.class = HullId \/ Found(j) # None
  /\ jobs' = [jobs EXCEPT ![b] = @ \ {j}]
  /\ UNCHANGED <<fitted, condition, hull, powered, landed>>

(* HSShip::HandleDamage, and stress. *)
Damage(x) ==
  /\ x \in fitted \cap Fragile
  /\ \E c \in 0..Full : c < condition[x] /\ condition' = [condition EXCEPT ![x] = c]
  /\ UNCHANGED <<fitted, hull, powered, landed, jobs>>

DamageHull(s) ==
  /\ s \in Fragile
  /\ \E h \in 0..HullPoints[s] : h < hull[s] /\ hull' = [hull EXCEPT ![s] = h]
  /\ UNCHANGED <<fitted, condition, powered, landed, jobs>>

SwitchPower(b) ==
  /\ powered' = IF b \in powered THEN powered \ {b} ELSE powered \cup {b}
  /\ UNCHANGED <<fitted, condition, hull, landed, jobs>>

Arrive(s, h) ==
  /\ s \in Guests \ {h} /\ landed[s] = None /\ hull[s] # 0
  /\ landed' = [landed EXCEPT ![s] = h]
  /\ UNCHANGED <<fitted, condition, hull, powered, jobs>>

Depart(s) ==
  /\ landed[s] # None /\ hull[s] # 0
  /\ landed' = [landed EXCEPT ![s] = None]
  /\ UNCHANGED <<fitted, condition, hull, powered, jobs>>

(* HSShip::RemoveSystemByName, and HSShip::AddSystem of a new one, which   *)
(* goes to the end of the list.                                            *)
RemoveSystem(x) ==
  /\ x \in fitted \cap Removable
  /\ fitted' = fitted \ {x}
  /\ UNCHANGED <<condition, hull, powered, landed, jobs>>

AddSystem(x) ==
  /\ x \in Removable \ fitted
  /\ \A y \in fitted : Owner[y] = Owner[x] /\ Class[y] = Class[x] => Position[y] < Position[x]
  /\ fitted' = fitted \cup {x}
  /\ condition' = [condition EXCEPT ![x] = Full]
  /\ UNCHANGED <<hull, powered, landed, jobs>>

-----------------------------------------------------------------------------
Init ==
  /\ fitted = Systems
  /\ condition = [x \in Systems |-> Full]
  /\ hull = HullPoints
  /\ powered = Benches
  /\ landed = [s \in Ships |-> None]
  /\ jobs = [b \in Benches |-> {}]

Working == \E b \in Benches : Cycle(b)

Next ==
  \/ Working
  \/ \E b \in Benches, x \in Systems : AssignToSystem(b, x)
  \/ \E b \in Benches, s \in Ships : AssignToHull(b, s)
  \/ \E b \in Benches : SwitchPower(b) \/ \E j \in jobs[b] : Unassign(b, j)
  \/ \E x \in Systems : Damage(x) \/ RemoveSystem(x) \/ AddSystem(x)
  \/ \E s \in Ships : DamageHull(s) \/ Depart(s) \/ \E h \in Ships : Arrive(s, h)

(* The ships that benches are on are online and cycled once a second. *)
Spec == Init /\ [][Next]_vars /\ \A b \in Benches : WF_vars(Cycle(b))
-----------------------------------------------------------------------------
Jobs == [ship : Ships, class : {Class[x] : x \in Systems} \cup {HullId}, count : Nat]

TypeOK ==
  /\ fitted \subseteq Systems
  /\ condition \in [Systems -> 0..Full]
  /\ hull \in [Ships -> Nat] /\ \A s \in Ships : hull[s] <= HullPoints[s]
  /\ powered \subseteq Benches
  /\ landed \in [Ships -> Ships \cup {None}]
  /\ jobs \in [Benches -> SUBSET Jobs] /\ \A b \in Benches : IsFiniteSet(jobs[b])

(* HSRepairSystem.h:75 counts on the class and the place to "uniquely      *)
(* identify the system", which they do until a system of the class is      *)
(* removed.  An assignment on the list comes to mean another system only   *)
(* when one of its class leaves the ship that stood no further back in the *)
(* list, and then the next one behind or none at all; when it meant none,  *)
(* it can only come to mean one that has just been added.                  *)
IsNextOfClass(x, y) ==
  /\ Owner[y] = Owner[x] /\ Class[y] = Class[x] /\ Position[x] < Position[y]
  /\ ~\E z \in fitted : /\ Owner[z] = Owner[x] /\ Class[z] = Class[x]
                        /\ Position[x] < Position[z] /\ Position[z] < Position[y]

ComesToMean(x, y) ==
  IF x = None THEN y \in fitted' \ fitted
  ELSE /\ \E z \in fitted \ fitted' : /\ Owner[z] = Owner[x] /\ Class[z] = Class[x]
                                     /\ Position[z] <= Position[x]
       /\ y = None \/ (y \in fitted /\ IsNextOfClass(x, y))

JobsShiftOnlyByRemoval ==
  [][\A b \in Benches : \A j \in jobs[b] \cap jobs'[b] :
       Found(j)' # Found(j) => ComesToMean(Found(j), Found(j)')]_vars

(* However many assignments a bench has, and even while it repairs itself, *)
(* a cycle does no more work than its capacity, be it that of the bench    *)
(* after the cycle.                                                        *)
WorkDone ==
  SumFunction([x \in Systems |-> Mass[x] * (condition'[x] - condition[x])])
    + SumFunction([s \in Ships |-> (HullMass[s] * (hull'[s] - hull[s])) \div HullPoints[s]])

CapacityIsShared ==
  [][\A b \in Benches : Cycle(b) => WorkDone <= Capacity(b, condition'[b])]_vars

(* A ship that has left gets no more work from an assignment that is still *)
(* on the list: hulls and systems gain only on a bench's own ship and on   *)
(* those landed with it.                                                   *)
OnlyGuestsGain ==
  [][\A s \in Ships :
       \/ hull'[s] > hull[s]
       \/ \E x \in fitted \cap fitted' : Owner[x] = s /\ condition'[x] > condition[x]
       => \E b \in Benches : jobs[b] # {} /\ Owner[b] \in {s, landed[s]}]_vars

(* When nothing but the repairs goes on any more, every assignment that    *)
(* gains anything by a cycle ends: others' ending raises the share of      *)
(* those that have been getting less than a hull point.                    *)
StandsStill(b) ==
  hull[Owner[b]] # 0 => \A j \in jobs[b] :
    /\ WithinReach(b, j.ship)
    /\ IF j.class = HullId
       THEN HullPoints[j.ship] * Share(b, condition[b]) < HullMass[j.ship]
       ELSE Found(j) # None /\ Share(b, condition[b]) < Mass[Found(j)]

RepairsEnd == (<>[][Working]_vars) => <>[](\A b \in Benches : StandsStill(b))
=============================================================================
