------------------------------- MODULE Combat -------------------------------
(***************************************************************************)
(* Contacts, weapon locks, shields and damage (HSSensor.cpp,               *)
(* HSComputer.cpp, HSBeamWeapon.cpp, HSShield.cpp, HSShip.cpp).            *)
(*                                                                         *)
(* A ship's computer keeps a list of contacts, and each of its weapons a   *)
(* pointer to the object it is locked on.  Both are looked after by the    *)
(* computer's cycle only: between two cycles, and for as long as the       *)
(* computer has no power, objects land, are shot to pieces or cease to     *)
(* exist without the list or the locks being told.                         *)
(*                                                                         *)
(* Charge, damage and absorption are counted in units of which Grain make  *)
(* one hull point; hulls lose whole points only.                           *)
(***************************************************************************)
EXTENDS Integers, SequencesExt

CONSTANTS
  Ships,         (* HSShips                                                *)
  Others,        (* objects that are always in space and feel no weapons   *)
  Sighted,       (* ships with a sensor                                    *)
  Computer,      (* the computer of every ship                             *)
  Weapons,       (* HSBeamWeaponInstances                                  *)
  Shields,       (* HSShieldInstances                                      *)
  Arcs,          (* HSShieldMount                                          *)
  None,          (* no target                                              *)
  Owner,         (* the ship a weapon or shield is a system of             *)
  Position,      (* place of a shield in mSystems                          *)
  MountPoint,    (* arc a shield covers                                    *)
  FullCharge,    (* mTotalPower of a weapon                                *)
  MinCharge,     (* the charge it fires from, mTotalPower * mMinCharge     *)
  ChargeSpeed,
  MaxAbsorption,
  Regen,         (* mAbsorptionRegen                                       *)
  HullPoints,    (* of an undamaged hull                                   *)
  Grain,         (* units of damage in a hull point                        *)
  Fadings,       (* bound: what distance takes off a shot                  *)
  Weakenings,    (* bound: absorption a unit of damage costs where the     *)
                 (* ship is, 1 / GetShieldModifier; 0 is modifier 0        *)
  Switchable,    (* bound: systems whose power changes in this instance    *)
  Movers,        (* bound: ships that land in this instance                *)
  Perishable     (* bound: objects that may be destroyed                   *)

Objects == Ships \cup Others
Computers == {Computer[s] : s \in Ships}
Systems == Computers \cup Weapons \cup Shields

ASSUME CombatAssumption ==
  /\ IsFiniteSet(Ships) /\ IsFiniteSet(Others) /\ Ships \cap Others = {}
  /\ Sighted \subseteq Ships
  /\ None \notin Objects
  /\ IsFiniteSet(Weapons) /\ IsFiniteSet(Shields)
  /\ Computers \cap Weapons = {} /\ Computers \cap Shields = {}
  /\ Weapons \cap Shields = {}
  /\ Owner \in [Weapons \cup Shields -> Ships]
  /\ Position \in [Shields -> Nat] /\ IsInjective(Position)
  /\ MountPoint \in [Shields -> Arcs]
  /\ FullCharge \in [Weapons -> Nat] /\ MinCharge \in [Weapons -> Nat]
  /\ ChargeSpeed \in [Weapons -> Nat]
  /\ MaxAbsorption \in [Shields -> Nat] /\ Regen \in [Shields -> Nat]
  /\ HullPoints \in [Ships -> Nat \ {0}] /\ Grain \in Nat \ {0}
  /\ Fadings \subseteq Nat /\ Weakenings \subseteq Nat
  /\ Switchable \subseteq Systems
  /\ Movers \subseteq Ships /\ Perishable \subseteq Objects

VARIABLES
  alive,       (* objects that exist                                       *)
  berthed,     (* ships with mLandedLoc # -1                               *)
  hull,        (* mCurrentHullPoints; 0 is a wreck                         *)
  powered,     (* systems with power; a computer, with all it needs        *)
  contacts,    (* mSensorContacts of the computer of every ship            *)
  target,      (* mTarget of every weapon                                  *)
  charge,      (* mCurrentCharge of every weapon                           *)
  absorption,  (* mCurrentAbsorption of every shield                       *)
  due          (* ships the sweep under way has still to cycle             *)

shipVars == <<alive, berthed, hull, powered>>
vars == <<alive, berthed, hull, powered, contacts, target, charge, absorption, due>>

AtMost(x, y) == IF x < y THEN x ELSE y
AtLeast(x, y) == IF x > y THEN x ELSE y

SystemsOf(s) == {Computer[s]} \cup {x \in Weapons \cup Shields : Owner[x] = s}
WeaponsOf(s) == {w \in Weapons : Owner[w] = s}

(* HSObject::IsInSpace and HSShip::IsInSpace. *)
InSpace(o) == o \in alive /\ (o \in Ships => o \notin berthed /\ hull[o] # 0)

(* A player can give orders to the ship's computer: the sweep is over, the *)
(* hull holds (ExecuteCommand) and the computer is online (VerifyComputer). *)
Commanded(s) ==
  due = {} /\ s \in alive /\ hull[s] # 0 /\ Computer[s] \in powered

-----------------------------------------------------------------------------
(* HSSensorInstance::Cycle: what is in range, not hidden by a nebula and   *)
(* in the same dimension, by a ship that has not landed.                   *)
MaySee(s) == SUBSET {o \in Objects \ {s} : InSpace(o) /\ s \in Sighted \ berthed}

(* A pass of the computer's loop over its contacts, from one of them on,   *)
(* ends with the first that the sensors have not refreshed: it is erased.  *)
EraseFirst(list, seen, from) ==
  LET stale == {i \in from..Len(list) : list[i] \notin seen}
  IN  IF stale = {} THEN list ELSE RemoveAt(list, Min(stale))

(* Mutant: the loop ends when it has erased a contact. *)
SweptOnce(list, seen) == EraseFirst(list, seen, 1)

(* The whole loop.  After an erasure it goes back to the first contact and *)
(* steps on at once, so that all passes but the first begin at the second: *)
(* a stale contact that has moved up to the head of the list is passed     *)
(* over.  There are no more passes than contacts, and one.                 *)
Swept(list, seen) ==
  LET after[n \in 0..Len(list)] ==
        IF n = 0 THEN EraseFirst(list, seen, 1) ELSE EraseFirst(after[n - 1], seen, 2)
  IN  after[Len(list)]

(* Mutant: an erased contact remains the target of the weapons. *)
TargetsUnchanged(s, left) == target

(* The locks on contacts that have been erased are dropped. *)
TargetsAfter(s, left) ==
  [w \in Weapons |-> IF Owner[w] = s /\ target[w] \in Range(contacts[s]) \ Range(left)
                     THEN None ELSE target[w]]

(* The sensors' and the computer's cycle, if the computer is online.  What *)
(* is seen for the first time goes to the end of the list.                 *)
Scan(s) ==
  IF Computer[s] \in powered
  THEN \E seen \in MaySee(s) : \E new \in SetToSeqs(seen \ Range(contacts[s])) :
         LET left == Swept(contacts[s] \o new, seen)
         IN  /\ contacts' = [contacts EXCEPT ![s] = left]
             /\ target' = TargetsAfter(s, left)
  ELSE UNCHANGED <<contacts, target>>

(* HSBeamWeaponInstance::Cycle. *)
Recharged(w) ==
  IF w \in powered THEN AtMost(charge[w] + ChargeSpeed[w], FullCharge[w]) ELSE 0

(* HSShieldInstance::Cycle. *)
Regenerated(h) ==
  IF h \in powered THEN AtMost(absorption[h] + Regen[h], MaxAbsorption[h]) ELSE 0

(* HSShip::Cycle of ship s, the next one of the sweep.  A wreck is not     *)
(* cycled, nor is a ship that has gone offline for want of power.          *)
CycleShip(s) ==
  /\ s \in alive /\ (s \in due \/ due = {})
  /\ due' = (IF due = {} THEN Ships \cap alive ELSE due) \ {s}
  /\ \/ /\ hull[s] = 0 \/ SystemsOf(s) \cap powered = {}
        /\ UNCHANGED <<contacts, target, charge, absorption>>
     \/ /\ hull[s] # 0
        /\ Scan(s)
        /\ charge' = [w \in Weapons |-> IF Owner[w] = s THEN Recharged(w) ELSE charge[w]]
        /\ absorption' =
             [h \in Shields |-> IF Owner[h] = s THEN Regenerated(h) ELSE absorption[h]]
  /\ UNCHANGED shipVars

-----------------------------------------------------------------------------
(* HSComputerInstance::LockWeapons: one weapon, those of a name or all.    *)
LockWeapons(s, ws, o) ==
  /\ Commanded(s) /\ ws # {} /\ o \in Range(contacts[s])
  /\ target' = [w \in Weapons |-> IF w \in ws THEN o ELSE target[w]]
  /\ UNCHANGED <<alive, berthed, hull, powered, contacts, charge, absorption, due>>

(* HSComputerInstance::DisplaySensorReport sorts the list by distance and  *)
(* type, of which the model knows nothing: it may come out in any order.   *)
DisplaySensorReport(s) ==
  /\ Commanded(s) /\ s \in Sighted \ berthed
  /\ \E order \in Bijection(DOMAIN contacts[s], DOMAIN contacts[s]) :
       contacts' = [contacts EXCEPT ![s] = [i \in DOMAIN contacts[s] |-> contacts[s][order[i]]]]
  /\ UNCHANGED <<alive, berthed, hull, powered, target, charge, absorption, due>>

(* What is left of the damage when it reaches shield h: the shields of the *)
(* arc stand in the order of mSystems.                                     *)
Covering(s, a) == {h \in Shields : Owner[h] = s /\ MountPoint[h] = a}
Passing(s, a, d, h) ==
  AtLeast(0, d - SumFunctionOnSet(absorption,
                   {g \in Covering(s, a) : Position[g] < Position[h]}))

(* Mutant: only the first shield of the arc is looked at. *)
ShieldsAfterFirstOnly(s, a, d) ==
  [h \in Shields |->
    IF h \notin Covering(s, a) \/ \E g \in Covering(s, a) : Position[g] < Position[h]
    THEN absorption[h] ELSE AtLeast(0, absorption[h] - d)]

(* The shields after damage d, and what gets past all of them. *)
ShieldsAfter(s, a, d) ==
  [h \in Shields |-> IF h \notin Covering(s, a) THEN absorption[h]
                     ELSE AtLeast(0, absorption[h] - Passing(s, a, d, h))]

GetsPast(s, a, d) == AtLeast(0, d - SumFunctionOnSet(absorption, Covering(s, a)))

(* HSShip::DestroyShip or the damage to the systems that a surviving hull  *)
(* lets through; systems that become inoperable lose their power.          *)
HullTakes(s, points) ==
  /\ hull' = [hull EXCEPT ![s] = AtLeast(0, @ - points)]
  /\ IF points >= hull[s] THEN UNCHANGED powered
     ELSE \E lost \in SUBSET (SystemsOf(s) \cap powered \cap Switchable) :
            powered' = powered \ lost

(* HSShip::HandleDamage of d units on arc a where the shield modifier is   *)
(* 1 / k, or 0: there shields stop nothing and collapse.                   *)
HandleDamage(s, a, d, k) ==
  IF k = 0
  THEN /\ absorption' = [h \in Shields |-> IF h \in Covering(s, a) THEN 0 ELSE absorption[h]]
       /\ HullTakes(s, d \div Grain)
  ELSE /\ absorption' = ShieldsAfter(s, a, k * d)
       /\ IF GetsPast(s, a, k * d) = 0
          THEN UNCHANGED <<hull, powered>>
          ELSE HullTakes(s, GetsPast(s, a, k * d) \div (k * Grain))

(* Mutant: the weapon fires and keeps its charge. *)
ChargeKept(w) == charge

Discharged(w) == [charge EXCEPT ![w] = 0]

(* HSBeamWeaponInstance::Fire of a weapon that is locked, charged and has  *)
(* its target in range and arc; every other call changes nothing.  FIRE    *)
(* ALL is one after the other.  Other objects take no damage.  Of an       *)
(* object that is gone the code reads what is left in memory: the shot may *)
(* go off, and nothing that exists is hit.                                 *)
Fire(w) ==
  /\ Commanded(Owner[w]) /\ target[w] # None
  /\ charge[w] >= MinCharge[w]
  /\ charge' = Discharged(w)
  /\ \/ UNCHANGED <<hull, powered, absorption>>
     \/ /\ target[w] \in Ships \cap alive
        /\ \E f \in Fadings, a \in Arcs, k \in Weakenings :
             charge[w] > f /\ HandleDamage(target[w], a, charge[w] - f, k)
  /\ UNCHANGED <<alive, berthed, contacts, target, due>>

-----------------------------------------------------------------------------
(* Power comes and goes (module ShipPower), ships land and launch (module  *)
(* Landing), repairs are made, objects cease to exist and the game is      *)
(* restarted.                                                              *)
SwitchPower(x) ==
  /\ due = {} /\ x \in Switchable
  /\ powered' = IF x \in powered THEN powered \ {x} ELSE powered \cup {x}
  /\ UNCHANGED <<alive, berthed, hull, contacts, target, charge, absorption, due>>

Land(s) ==
  /\ Commanded(s) /\ s \in Movers \ berthed
  /\ berthed' = berthed \cup {s}
  /\ UNCHANGED <<alive, hull, powered, contacts, target, charge, absorption, due>>

Launched(s) ==
  /\ due = {} /\ s \in alive \cap berthed /\ hull[s] # 0
  /\ berthed' = berthed \ {s}
  /\ UNCHANGED <<alive, hull, powered, contacts, target, charge, absorption, due>>

(* HSRepairSystemInstance::Cycle on the ship's own hull, or on that of one *)
(* landed with it, which may be a wreck.                                   *)
RepairHull(s) ==
  /\ due = {} /\ s \in alive /\ (hull[s] # 0 \/ s \in berthed)
  /\ hull[s] < HullPoints[s]
  /\ hull' = [hull EXCEPT ![s] = @ + 1]
  /\ UNCHANGED <<alive, berthed, powered, contacts, target, charge, absorption, due>>

(* HSDB::ObjectDestroyed: no list of contacts and no weapon is told. *)
ObjectDestroyed(o) ==
  /\ due = {} /\ o \in alive \cap Perishable
  /\ alive' = alive \ {o}
  /\ UNCHANGED <<berthed, hull, powered, contacts, target, charge, absorption, due>>

(* HSShutdown and HSInitialize: hulls, power, charge and absorption are    *)
(* attributes and saved, contacts and targets are not.                     *)
Restart ==
  /\ due = {}
  /\ contacts' = [s \in Ships |-> <<>>]
  /\ target' = [w \in Weapons |-> None]
  /\ UNCHANGED <<alive, berthed, hull, powered, charge, absorption, due>>

-----------------------------------------------------------------------------
Init ==
  /\ alive = Objects /\ berthed = {}
  /\ hull = HullPoints
  /\ powered = Systems
  /\ contacts = [s \in Ships |-> <<>>]
  /\ target = [w \in Weapons |-> None]
  /\ charge = [w \in Weapons |-> 0]
  /\ absorption = [h \in Shields |-> 0]
  /\ due = {}

Next ==
  \/ \E s \in Ships : CycleShip(s) \/ Land(s) \/ Launched(s) \/ RepairHull(s)
  \/ \E s \in Ships : DisplaySensorReport(s)
  \/ \E s \in Ships : \E ws \in SUBSET WeaponsOf(s), o \in Objects : LockWeapons(s, ws, o)
  \/ \E w \in Weapons : Fire(w)
  \/ \E x \in Systems : SwitchPower(x)
  \/ \E o \in Objects : ObjectDestroyed(o)
  \/ Restart

Spec == Init /\ [][Next]_vars
-----------------------------------------------------------------------------
BridgeTypeOK ==
  /\ alive \subseteq Objects /\ berthed \subseteq Ships
  /\ powered \subseteq Systems
  /\ contacts \in [Ships -> Seq(Objects)] /\ \A s \in Ships : IsInjective(contacts[s])
  /\ target \in [Weapons -> Objects \cup {None}]
  /\ charge \in [Weapons -> Nat] /\ \A w \in Weapons : charge[w] <= FullCharge[w]
  /\ due \subseteq Ships

HullTypeOK ==
  /\ hull \in [Ships -> Nat] /\ \A s \in Ships : hull[s] <= HullPoints[s]
  /\ absorption \in [Shields -> Nat]
  /\ \A h \in Shields : absorption[h] <= MaxAbsorption[h]

TypeOK == BridgeTypeOK /\ HullTypeOK

(* A weapon is locked on nothing that its ship's computer does not have on *)
(* its list: whatever survives or is erased, with the computer on or off,  *)
(* the two records agree.  FireWeapons relies on it to name the target.    *)
LockIsContact ==
  \A w \in Weapons : target[w] \in Range(contacts[Owner[w]]) \cup {None}

(* However many objects vanish between two cycles, and in whatever order   *)
(* they stand, one cycle of a computer that is online forgets them all but *)
(* one: the one that has moved up to the head of the list when the former  *)
(* head was erased.                                                        *)
StaleIsBounded ==
  [][\A s \in Ships :
       CycleShip(s) /\ hull[s] # 0 /\ Computer[s] \in powered =>
         \A k \in DOMAIN contacts'[s] : ~InSpace(contacts'[s][k]) =>
           /\ k = 1
           /\ contacts[s] # <<>> /\ contacts[s][1] \notin Range(contacts'[s])]_vars

(* A hull loses points only to one weapon locked on the ship, which spends *)
(* its charge; the shields of the arc are used up, and hull and shields    *)
(* together take no more than the charge was good for.                     *)
HullPaidByCharge ==
  [][\A s \in Ships : hull'[s] < hull[s] =>
       \E w \in Weapons :
         /\ target[w] = s /\ charge[w] >= MinCharge[w] /\ charge'[w] = 0
         /\ Grain * (hull[s] - hull'[s]) <= charge[w]]_vars

(* Whatever the order of the shields and however weak they are, damage     *)
(* reaches the hull only through one arc, all of whose shields go down     *)
(* while those of the other arcs hold.                                     *)
ShieldsFirst ==
  [][\A s \in Ships : hull'[s] < hull[s] =>
       \E a \in Arcs : \A h \in Shields :
         absorption'[h] = IF h \in Covering(s, a) THEN 0 ELSE absorption[h]]_vars
=============================================================================
