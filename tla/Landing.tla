------------------------------ MODULE Landing ------------------------------
(***************************************************************************)
(* Landing, launching and taxiing of several ships (HSComputer.cpp,        *)
(* HSShip.cpp, HSConsole.cpp, HSLandingLocation.cpp, HSDB.cpp).            *)
(*                                                                         *)
(* Where a landed ship is, is written down four times: mLandedLoc and      *)
(* mLandedObj of the ship, the roster mLandedShips of the object it landed *)
(* on, and the room its MUSH object stands in.  LAND writes the first at   *)
(* once and the others when the sequence is over, LandingTicks cycles      *)
(* later; meanwhile other ships land, power fails, objects are destroyed   *)
(* and the game restarts.                                                  *)
(*                                                                         *)
(* HSDB::Cycle runs through all objects without a command in between.  It  *)
(* is modelled ship by ship: due holds the ships the sweep under way has   *)
(* still to cycle, and every other action waits until it is empty.         *)
(***************************************************************************)
EXTENDS Integers, FiniteSets, Functions

CONSTANTS
  Ships,         (* HSShips                                                *)
  Planets,       (* other objects with landing locations                   *)
  Locations,     (* ids of HSLandingLocations                              *)
  Aprons,        (* rooms that a ship can taxi to, not landing locations   *)
  Space,         (* the room of the universe, where ships in flight stand  *)
  None,          (* -1                                                     *)
  Host,          (* mObjectID of a landing location                        *)
  Size,          (* mSize of a ship                                        *)
  Capacity,      (* mSize of a landing location                            *)
  Exits,         (* pairs of rooms joined by an exit a ship may taxi       *)
  Failures,      (* modes a power failure puts a ship in, of this instance *)
  Perishable,    (* bound: objects and locations that may be removed       *)
  LandingTicks,  (* 20 in the code                                         *)
  LaunchTicks,   (* 10 in the code                                         *)
  RosterBound    (* bound: entries of a ship in one roster                 *)

Objects == Ships \cup Planets
Rooms == Locations \cup Aprons

(* "manned": all systems have power.  "dark": the ship is cycled, but its  *)
(* computer has no power.  "cold": the ship is offline, not cycled.        *)
Modes == {"manned", "dark", "cold"}

ASSUME LandingAssumption ==
  /\ IsFiniteSet(Ships) /\ IsFiniteSet(Planets) /\ IsFiniteSet(Locations)
  /\ Ships \cap Planets = {} /\ Locations \cap Aprons = {}
  /\ None \notin Objects \cup Rooms \cup {Space} /\ Space \notin Rooms
  /\ Host \in [Locations -> Objects]
  /\ Size \in [Ships -> Nat] /\ Capacity \in [Locations -> Nat]
  /\ Exits \subseteq Rooms \X Rooms
  /\ Failures \subseteq {"dark", "cold"}
  /\ Perishable \subseteq Objects \cup Locations
  /\ LandingTicks \in Nat \ {0} /\ LaunchTicks \in Nat \ {0}
  /\ RosterBound \in Nat \ {0}

VARIABLES
  alive,      (* objects that exist                                        *)
  sites,      (* landing locations that exist                              *)
  landedLoc,  (* mLandedLoc of every ship                                  *)
  landedObj,  (* mLandedObj of every ship                                  *)
  timer,      (* mLandingTimer of every ship                               *)
  room,       (* the room the ship's MUSH object is in                     *)
  roster,     (* mLandedShips: how often each ship is in each object's list *)
  contacts,   (* the objects in the contact list of every ship's computer  *)
  mode,       (* what of the ship has power                                *)
  due         (* ships the sweep under way has still to cycle              *)

berthVars == <<landedLoc, landedObj, timer, room, roster>>
vars == <<alive, sites, landedLoc, landedObj, timer, room, roster, contacts, mode, due>>

-----------------------------------------------------------------------------
(* HSLandingLocation::GetSpaceTaken: the ships that stand in the room. *)
SpaceTaken(l) == SumFunctionOnSet(Size, {s \in Ships \cap alive : room[s] = l})

(* HSShip::IsInSpace; other objects always are. *)
InSpace(o) == o \in alive /\ (o \in Ships => landedLoc[o] = None)

(* Mutant: the contact list is never cleaned up. *)
ContactsAfterNoErase(s, seen) == {contacts[s] \cup seen}

(* The contacts a cycle of sensor and computer may leave, seen being what  *)
(* the sensor sees.  When HSComputerInstance::Cycle erases a stale contact *)
(* it starts again behind the first element, so that of several stale      *)
(* contacts one may survive.                                               *)
ContactsAfter(s, seen) ==
  LET stale == contacts[s] \ seen
  IN  {seen} \cup IF Cardinality(stale) < 2 THEN {} ELSE {seen \cup {o} : o \in stale}

(* HSSensorInstance::Cycle: a ship that is not in flight sees nothing, and *)
(* what one in flight sees depends on ranges, nebulae and sensor power.    *)
MaySee(s) ==
  SUBSET IF landedLoc[s] = None THEN {o \in Objects \ {s} : InSpace(o)} ELSE {}

-----------------------------------------------------------------------------
(* Mutant: a landing ends without the ship being brought into the bay. *)
ArrivesOutside(s) ==
  /\ landedObj' = [landedObj EXCEPT ![s] = Host[landedLoc[s]]]
  /\ roster' = [roster EXCEPT ![Host[landedLoc[s]]][s] = IF @ < RosterBound THEN @ + 1 ELSE @]
  /\ UNCHANGED <<room, landedLoc>>

(* The last tick of HSShip::CycleLanding. *)
Arrives(s) ==
  /\ room' = [room EXCEPT ![s] = landedLoc[s]]
  /\ landedObj' = [landedObj EXCEPT ![s] = Host[landedLoc[s]]]
  /\ roster' = [roster EXCEPT ![Host[landedLoc[s]]][s] = IF @ < RosterBound THEN @ + 1 ELSE @]
  /\ UNCHANGED landedLoc

(* Mutants: a launch forgets the roster, or the object it started from. *)
LeavesRoster(s) ==
  /\ landedLoc' = [landedLoc EXCEPT ![s] = None]
  /\ landedObj' = [landedObj EXCEPT ![s] = None]
  /\ room' = [room EXCEPT ![s] = Space]
  /\ UNCHANGED roster

LeavesObject(s) ==
  /\ landedLoc' = [landedLoc EXCEPT ![s] = None]
  /\ room' = [room EXCEPT ![s] = Space]
  /\ roster' = [roster EXCEPT ![Host[landedLoc[s]]][s] = IF @ > 0 THEN @ - 1 ELSE 0]
  /\ UNCHANGED landedObj

(* The last tick of HSShip::CycleLaunching: only the roster of the object  *)
(* the ship starts from is looked at, and only one entry of it erased.     *)
Departs(s) ==
  /\ landedLoc' = [landedLoc EXCEPT ![s] = None]
  /\ landedObj' = [landedObj EXCEPT ![s] = None]
  /\ room' = [room EXCEPT ![s] = Space]
  /\ roster' = [roster EXCEPT ![Host[landedLoc[s]]][s] = IF @ > 0 THEN @ - 1 ELSE 0]

(* Mutant: the cycle of a ship that launches is not dispatched. *)
AdvanceLandingOnly(s) ==
  IF timer[s] <= 0 \/ landedLoc[s] \notin sites
  THEN UNCHANGED berthVars
  ELSE /\ timer' = [timer EXCEPT ![s] = @ - 1]
       /\ IF timer[s] = 1 THEN Arrives(s) ELSE UNCHANGED <<landedLoc, landedObj, room, roster>>

(* HSShip::CycleLanding and CycleLaunching.  Without its landing location  *)
(* a sequence stands still.                                                *)
AdvanceSequence(s) ==
  IF timer[s] = 0 \/ landedLoc[s] \notin sites
  THEN UNCHANGED berthVars
  ELSE /\ timer' = [timer EXCEPT ![s] = IF @ > 0 THEN @ - 1 ELSE @ + 1]
       /\ \/ timer[s] = 1 /\ Arrives(s)
          \/ timer[s] = -1 /\ Departs(s)
          \/ timer[s] \notin {1, -1} /\ UNCHANGED <<landedLoc, landedObj, room, roster>>

(* HSShip::Cycle of ship s, the next ship of the sweep.  The ships of a    *)
(* universe are in any order, since gating puts a ship at the end.         *)
CycleShip(s) ==
  /\ s \in alive /\ (s \in due \/ due = {})
  /\ due' = (IF due = {} THEN Ships \cap alive ELSE due) \ {s}
  /\ IF mode[s] = "cold" THEN UNCHANGED <<contacts, berthVars>>
     ELSE /\ \/ mode[s] = "dark" /\ UNCHANGED contacts
             \/ /\ mode[s] = "manned"
                /\ \E seen \in MaySee(s) : \E left \in ContactsAfter(s, seen) :
                     contacts' = [contacts EXCEPT ![s] = left]
          /\ AdvanceSequence(s)
  /\ UNCHANGED <<alive, sites, mode>>

-----------------------------------------------------------------------------
(* HSComputerInstance::Land on location l of an object on the contact      *)
(* list.  That the location is open, the object within 5 km and the ship   *)
(* at rest is left to the environment.                                     *)
Land(s, l) ==
  /\ due = {} /\ s \in alive /\ mode[s] = "manned"
  /\ timer[s] = 0
  /\ Host[l] \in contacts[s] \cap alive /\ l \in sites
  /\ SpaceTaken(l) + Size[s] <= Capacity[l]
  /\ landedLoc' = [landedLoc EXCEPT ![s] = l]
  /\ timer' = [timer EXCEPT ![s] = LandingTicks]
  /\ UNCHANGED <<alive, sites, landedObj, room, roster, contacts, mode, due>>

(* HSComputerInstance::Launch. *)
Launch(s) ==
  /\ due = {} /\ s \in alive /\ mode[s] = "manned"
  /\ landedLoc[s] \in sites /\ timer[s] = 0
  /\ timer' = [timer EXCEPT ![s] = -LaunchTicks]
  /\ UNCHANGED <<alive, sites, landedLoc, landedObj, room, roster, contacts, mode, due>>

(* HSConsole::Taxi through an exit of the room the ship stands in.  It     *)
(* looks neither at the landing timer nor at the space in the other room,  *)
(* and leaves mLandedObj and the rosters alone.                            *)
Taxi(s, r) ==
  /\ due = {} /\ s \in alive /\ mode[s] = "manned"
  /\ landedLoc[s] # None
  /\ <<room[s], r>> \in Exits
  /\ room' = [room EXCEPT ![s] = r]
  /\ landedLoc' = [landedLoc EXCEPT ![s] = r]
  /\ UNCHANGED <<alive, sites, landedObj, timer, roster, contacts, mode, due>>

(* Power fails, and comes back: BootComputer brings a dark ship's computer *)
(* up at once, but a cold ship needs SetOutput, which is refused during a  *)
(* landing or launch sequence.  Module ShipPower has the details.          *)
PowerFails(s) ==
  /\ due = {} /\ s \in alive
  /\ \E m \in Failures \ {mode[s]} : mode' = [mode EXCEPT ![s] = m]
  /\ mode[s] # "cold"
  /\ UNCHANGED <<alive, sites, berthVars, contacts, due>>

PowerReturns(s) ==
  /\ due = {} /\ s \in alive
  /\ \/ mode[s] = "dark" /\ mode' = [mode EXCEPT ![s] = "manned"]
     \/ mode[s] = "cold" /\ timer[s] = 0 /\ mode' = [mode EXCEPT ![s] = "dark"]
  /\ UNCHANGED <<alive, sites, berthVars, contacts, due>>

(* HSCommandRemoveLandingLoc, and ObjectDestroyed of the room. *)
RemoveLandingLocation(l) ==
  /\ due = {} /\ l \in sites \cap Perishable
  /\ sites' = sites \ {l}
  /\ UNCHANGED <<alive, berthVars, contacts, mode, due>>

(* HSDB::ObjectDestroyed of an HSObject: its landing locations and its     *)
(* roster go with it, but nothing that refers to it is changed.            *)
ObjectDestroyed(o) ==
  /\ due = {} /\ o \in alive \cap Perishable
  /\ alive' = alive \ {o}
  /\ sites' = {l \in sites : Host[l] # o}
  /\ UNCHANGED <<berthVars, contacts, mode, due>>

(* HSShutdown and HSInitialize.  mLandedLoc and mLandedObj are read back,  *)
(* the rosters rebuilt from mLandedObj and ships in flight moved to the    *)
(* universe; timers and contacts are lost, and every ship is online again. *)
Restart ==
  /\ due = {}
  /\ timer' = [s \in Ships |-> 0]
  /\ contacts' = [s \in Ships |-> {}]
  /\ mode' = [s \in Ships |-> IF mode[s] = "cold" THEN "dark" ELSE mode[s]]
  /\ roster' = [o \in Objects |-> [s \in Ships |->
                  IF {o, s} \subseteq alive /\ landedObj[s] = o THEN 1 ELSE 0]]
  /\ room' = [s \in Ships |->
               IF s \in alive /\ landedLoc[s] = None THEN Space ELSE room[s]]
  /\ UNCHANGED <<alive, sites, landedLoc, landedObj, due>>

-----------------------------------------------------------------------------
Init ==
  /\ alive = Objects /\ sites = Locations
  /\ landedLoc = [s \in Ships |-> None]
  /\ landedObj = [s \in Ships |-> None]
  /\ timer = [s \in Ships |-> 0]
  /\ room = [s \in Ships |-> Space]
  /\ roster = [o \in Objects |-> [s \in Ships |-> 0]]
  /\ contacts = [s \in Ships |-> {}]
  /\ mode = [s \in Ships |-> "manned"]
  /\ due = {}

Sweep == \E s \in Ships : CycleShip(s)

(* Everything that happens while the game is up. *)
Running ==
  \/ Sweep
  \/ \E s \in Ships, l \in Locations : Land(s, l)
  \/ \E s \in Ships : Launch(s) \/ PowerFails(s) \/ PowerReturns(s)
  \/ \E s \in Ships, r \in Rooms : Taxi(s, r)
  \/ \E l \in Locations : RemoveLandingLocation(l)
  \/ \E o \in Objects : ObjectDestroyed(o)

Next == Running \/ Restart

(* The game loop calls HSCycle once a second. *)
Spec == Init /\ [][Next]_vars /\ WF_vars(Sweep)

(* A game that is never restarted. *)
SteadySpec == Init /\ [][Running]_vars /\ WF_vars(Sweep)
-----------------------------------------------------------------------------
TypeOK ==
  /\ alive \subseteq Objects /\ sites \subseteq Locations
  /\ landedLoc \in [Ships -> Rooms \cup {None}]
  /\ landedObj \in [Ships -> Objects \cup {None}]
  /\ timer \in [Ships -> (-LaunchTicks)..LandingTicks]
  /\ room \in [Ships -> Rooms \cup {Space}]
  /\ roster \in [Objects -> [Ships -> 0..RosterBound]]
  /\ contacts \in [Ships -> SUBSET Objects]
  /\ mode \in [Ships -> Modes]
  /\ due \subseteq Ships

(* A ship is in flight in every respect or in none: one without a landing  *)
(* location is in no sequence, is landed on no object and stands in space, *)
(* whatever taxiing, power failures, destruction and restarts went before. *)
FlightIsCoherent ==
  \A s \in Ships : landedLoc[s] = None
                     => timer[s] = 0 /\ landedObj[s] = None /\ room[s] = Space

(* HSShip.h:66 describes mLandedLoc as the "landing location that the      *)
(* vessel is landed at": outside a landing sequence the ship stands there. *)
LandedShipIsThere ==
  \A s \in Ships : landedLoc[s] # None /\ timer[s] <= 0 => room[s] = landedLoc[s]

(* HSObject.h:201 describes mLandedShips as the "Ships landed here, stored *)
(* as optimization": a roster holds once each ship whose mLandedObj is the *)
(* object, and no others.                                                  *)
RosterIsAccurate ==
  \A o \in Objects \cap alive, s \in Ships :
    roster[o][s] = IF s \in alive /\ landedObj[s] = o THEN 1 ELSE 0

(* Nothing but the emptied contact list keeps a ship that has landed from  *)
(* landing again: the order itself does not look at mLandedLoc.            *)
NoSecondLanding ==
  [][\A s \in Ships : landedObj[s] # None /\ timer[s] = 0
                        => timer'[s] # LandingTicks]_vars

(* A sequence comes to an end, unless the ship is destroyed or goes        *)
(* offline, or its landing location is removed, which strands it.          *)
SequenceEndsOrStrands ==
  \A s \in Ships :
    timer[s] # 0 ~> \/ timer[s] = 0 \/ s \notin alive
                    \/ mode[s] = "cold" \/ landedLoc[s] \notin sites
=============================================================================
