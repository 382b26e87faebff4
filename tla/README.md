# HSpace 5 in TLA+

HSpace is a space simulation embedded in a PennMUSH game server. Ships are MUSH
objects with systems, consoles and a computer; players type console commands,
the game calls `HSCycle` once a second. This directory holds TLA+ models of the
parts in which several pieces of state have to stay in step with each other, the
configurations that check them with TLC, and proofs checked by TLAPS.

All paths below are relative to `src/`.

## The system

### What drives it

| Caller | What it does |
|---|---|
| `HSInitialize`, `HSShutdown` (HSIfacePennHooks.cpp:59-77) | load and save the database, start and stop the client server |
| `HSCycle` (:84) | `HSDB::Cycle`: every universe, object, ship and system in turn; then `HSServer::UpdateClients` |
| `HSObjectDestroyed` (:92) | the MUSH destroyed an object that HSpace knows |
| `hsf_console_cmd` | a player's command, `HSConsole::ExecuteCommand` |
| `@space` | an administrator's command (HSCommand.cpp) |
| socket worker, `SIGIO` handler | the client server's own threads, built with `HS_SERVER` |

The game is one thread: a command or a whole `HSCycle` runs without another in
between. Two things make it concurrent nevertheless. Sequences extend over many
cycles (a landing takes twenty), and commands, damage, power failure, destruction
and restarts come between any two of them. And the client server runs a worker
thread and a signal handler beside the game.

### Components

| Component | State | Operations | Interacts with | What makes it correct |
|---|---|---|---|---|
| Power plant (HSReactor, HSFuelTank, HSSystem, HSShip, HSConsole) | output and set point of reactors, power and condition of systems, fuel, `mOnline` | SetOutput, Allocate, BootComputer, CheckSystemPower, the systems' cycles, HandleDamage | landing (needs powered engines), repair | a budget that is restored, the computer last to be shed, nothing drawn offline |
| Landing and launching (HSComputer, HSShip, HSConsole, HSLandingLocation) | `mLandedLoc`, `mLandedObj`, `mLandingTimer`, `mLandedShips`, the MUSH room | Land, Launch, Taxi, CycleLanding, CycleLaunching | power, contacts, destruction, restart | four records of one fact agree |
| Docking hatches (HSDockingHatch, HSComputer, HSObject) | owner, link, clamp of hatches; destinations of exits | ConnectHatch, DisconnectHatch, Cycle, Gate, add, remove | motion, destruction, softcode | links are mutual, short, and match the exits |
| Client server (hsserver/, hsportab/) | connections, sockets, task queue, mutexes; per connection the user, the ship and what the client was told | accept, read, send, disconnect, update, login, ConsoleUpdate, Stop | the game's ships and consoles, the graphical client | no deadlock, no use after deletion, nothing left unread or unsent |
| Graphical client and packets (hsclient/, hsnetwork/) | name, position and contacts of the ship shown | the client's handlers of packets and messages | client server | shows what the server believes it shows, and the ship that is manned |
| Repair systems (HSRepairSystem) | a list of assignments | AssignToSystem(On), UnassignFromSystem(On), Cycle | conditions of its own and of landed ships | an assignment means the same system until one of its class is removed; the capacity is shared; repairs end, and end at the hangar door |
| Cargo (HSCargoContainer, HSHarvester, HSResource, HSComputer) | amounts of each commodity | Harvest, Collect, Jettison, cycles | destruction of a depleted resource | cargo is conserved, capacity kept |
| Sensors (HSSensor, HSComputer) | contact lists | Cycle, FindSensorContact | everything that takes a contact number | contacts of what is gone expire |
| Weapons, shields (HSBeamWeapon, HSShield, HSShip) | lock, charge, shield strength | LockWeapons, FireWeapons, HandleDamage | contacts, destruction | locks agree with contacts; a hull loses what a charge paid for and shields let through |
| Engines, thrusters, autopilot, drive (HSEngine, HSThrusters, HSAutopilot, HSDimensionalDrive, HSShip) | velocity, heading, desired velocity and heading, fuel, charge | SetSpeed, SetHeading, CutEngines, Autopilot, Engage, the systems' cycles | power, fuel, gates | turns the short way, keeps to its limit, stops when told to |
| Persistence (HSDB, HSAttributed) | a table for each class, and for each type of system and of system on board | DumpDatabase, LoadDatabase | everything | a reload restores what was saved |
| Universes, classes and identifiers (HSDB, HSUniverse, HSCommand) | lists of universes, hull classes, systems, objects; their numbers | creation, deletion, moving, cloning, FindObjectID | persistence | ids stay unique, references keep their meaning, everything is in the universe it names |
| Communications (HSCommunications) | channels, frequencies | AddChannel, SendMessage | territories | limits on channels |
| Territories and poses, jump gates, commands, PennMUSH interface, portability, vendored code | | | | see PROJECT.json |

### What is hard

- A sequence is begun by a command and ended by a cycle; what the command
  checked may be untrue by then (bay space, power, the landing location itself).
- The same fact is kept in several places that no function keeps in step:
  a landing in four, a docking link in two hatches and two exits.
- What is saved is a subset of what is running: `mLandingTimer`, `mOnline` and
  contacts are lost by a restart, `mLandedLoc` is not.
- Loops over lists that change: contacts are erased while iterated, systems are
  shut down one at a time until the rest fits.
- Three kinds of context on the same mutexes: game, worker, signal handler.
- References are kept twice, as a number and as a pointer, and numbers are given
  again; a dump drops each table before it writes it, without a transaction, and
  the tables of the types of systems share one range of numbers.
- Server and client each keep a copy of what was told and exchange differences.

PROJECT.json lists these as hazards, each at its line with the properties that
cover it.

## The modules

| Module | Models | TLC instance | Proofs |
|---|---|---|---|
| `ShipPower` | power, fuel, stress, damage of one ship, and the sequence that depends on power | `MCShipPower` | `ShipPowerProofs` |
| `Landing` | several ships landing, launching, taxiing | `MCLanding` | `VoyageProofs` |
| `Docking` | hatches of several objects | `MCDocking` | `VoyageProofs` |
| `Passages` | what docking promises, implemented by `Docking` | | `VoyageProofs` |
| `Combat` | contacts, weapon locks, charges, shields and hulls of several ships | `MCCombat` | `CombatProofs` |
| `Repair` | the assignments of repair systems | `MCRepair` | `RepairProofs` |
| `Cargo` | harvesting, bays, pods, warehouses | `MCCargo` | `CargoProofs` |
| `Server` | the client server's threads | `MCServer` | `ServerProofs` |
| `ClientView` | what server and graphical client tell each other | `MCClientView` | `ServerProofs` |
| `Database` | what exists, under which number, in which universe, and what of it is on disk | `MCDatabase` | `DatabaseProofs` |
| `Store` | what saving and loading promise, implemented by `Database` | | `DatabaseProofs` |
| `Flight` | turning, pushing, braking, the drive and the autopilot of a ship | `MCFlight` | `VoyageProofs` |
| `Sums` | nothing of HSpace: lemmas on sums over finite sets, for the proofs | | itself |

Definitions carry the names of the functions they model; PROJECT.json maps each
to its lines. A definition under the comment "Mutant" is not part of a model: it
is a plausible bug, used to confirm that a property can fail.

### ShipPower

One ship, from its systems' point of view. `Cycle` is `HSShip::Cycle` as one
step: the power check on the state before, then the reactors in list order, fuel,
stress, engines, the landing timer. The list order matters in two places and is
the constant `Position`: reactors drink from the same tanks one after the other
(`FuelLeft`), and shedding walks the list with the computer kept for last
(`ShedBefore`). The loop of `CheckSystemPower` is stated as what it decides:
system t is shed when every stop up to t would have left the ship over its
output. `Allocate` and `SetOutput` change a list of systems until one fails, and
`Granted` and `set` say which. Powers and fuel are integers; conditions are
levels 0..`Pristine`; the arithmetic of peak and optimum by condition is the
constants `Peak` and `Rated`, any tables of naturals. Random stress is a choice
of the stressed systems that suffer. Left out: ships without a computer (the code
dereferences a pointer it never set), and fuel that shields, drive and other
consumers take from tanks.

### Landing

Ships, planets, landing locations and rooms. `landedLoc`, `landedObj`, `timer`,
`room` and `roster` are the five places; `roster` counts entries since the code's
list may hold a ship twice. Of power only `mode` is kept: manned, dark (no
computer) or cold (not cycled); ShipPower shows when these come about. A cycle
goes ship by ship (`due`), and commands wait for its end, as the game thread
does. `ContactsAfter` keeps the code's habit of restarting an erasing loop past
the first element, by which one of several stale contacts survives a sweep.
What a sensor sees is any set of objects in space. Position and speed are left
to the environment: Land may find any contact near enough.

### Docking

Objects on a line, hatches with owner, link, clamp, and the exit's destination.
`Stray` and `Move` are `HSObject::Cycle`, the only place that looks at the length
of a link, and only for an object that moves. `Unlink` is
`HSDockingHatch::Disconnect` with its early returns (`Disconnectable`).
`RemoveDockingHatch` and `DestroyObject` leave the partner as it is, because
the code does. Reusable hatches may be removed and added again, Gaters may jump.
`Passages` is the same seen by those who walk: pairs of hatches that open and
close. `PassageSpec` says that Docking implements it, where a hatch leads to the
hatch its exit leads to as long as both are installed; hatches that may be removed
and added again are left out of the mapping.

### Combat

Ships with a computer, and for each its contacts, the locks and charges of its
weapons and the absorption of its shields. `CycleShip` is `HSShip::Cycle` of one
ship within a sweep (`due`): the sensors see any set of the objects in space
(`MaySee`), the computer forgets what they did not see, weapons charge, shields
regenerate. Contact lists are sequences, and `Swept` is the computer's loop over
one: a pass erases the first stale contact from where it begins (`EraseFirst`), and
every pass after an erasure begins behind the head of the list. What is seen for the
first time is appended in any order; `DisplaySensorReport`, which sorts the list,
may leave it in any order. `HandleDamage` states the loop over the shields of an arc
by what reaches each (`Passing`) and what gets past all (`GetsPast`). Damage is
scaled by the shield modifier at the ship's position before, and by its inverse
after, the shields; `Weakenings` are the inverses, 0 standing for a modifier of 0,
which takes a path of its own. Range, arc of fire, distance and the chance to hit
are choices. FIRE ALL is one `Fire` after another. Firing at an object that was
deleted reads freed memory; the model lets the shot go off and hit nothing that
exists, which is the harmless one of its outcomes. A ship here has one computer, and
what damage to systems does to them is that some lose their power.

### Repair

Benches and their lists. An assignment is what the code stores, ship, class of
system and the number of systems of that class before it; `Found` searches as
`Cycle` does; removing a system of the class may make an assignment find another
one, or none. Within one cycle every assignment computes the capacity afresh, so
that assignments behind the bench's own already profit from its better condition:
`behind`. Conditions and work are integers, chosen so that halves and thirds of
the capacity are whole conditions; hull points really are integers, and their
truncation is the code's. The list is a set, because its order matters only for
`behind`. Not modelled: setting a system's `SYSTEMID` by hand, which changes its
class; a host that goes offline while the bench has work, and
objects that cease to exist (a roster may keep a ship that was deleted, see
Landing, and the cycle would then read freed memory).

### Cargo

What every container holds of every commodity, counted in fractions of which
`Grain` make a unit, and the three fields of a harvester. `Extract` hands over
whole units and keeps the rest, into the first bay that has room for this
cycle's yield. Which units a cycle yields, and whether the harvester is in range,
is a choice. A harvester keeps a pointer to its resource, which `CycleResource`
may delete: what the code then reads is freed memory, of which the model takes
the outcome in which the old amount is still there and nothing gets less
(`Endless`, as for a resource with a negative stock). `Collect` states the two nested
loops of the code, items over bays, by what they decide: the items lie in one row
over the free space of the bays, in any order of the items, for the code's order
is that of its list. `Set` has the habits of `SetCargoForCommodity`: what is no
commodity is not found and not set, what is on the list does not become negative.
Not modelled: an administrator's setting of amounts and sizes, and new
commodities.

### Server

The game thread, the one worker of `HSSocketManager` and the `SIGIO` handler.
Each thread has a script, the operations it still has to do; a function of the
code is a sequence of operations, and a call puts it in front. Operations are
what happens between two mutex operations. Taking a mutex is always a step of its
own; one that follows an operation at once is released in the same step. The
handler runs on whichever thread the signal interrupts, with the signal masked.
`Update` and `Clear` are the loops over the connections: the one puts a `send` for
every connection with a ship in front, in any order, the other deletes one
connection and comes back to itself.
Its condition variable has no spurious wakeups. Not modelled: the usage mutex of
a socket (there is a single worker), the several packets of one `UpdateClient`
(one stands for them), contents of packets, a client that does not read, and an
orderly close.

### ClientView

One player, one client, one connection at a time. On the server's side `ship`,
`last` (`mLastNavStat`) and `current` (`mCurrentContacts`); on the client's `named`,
`nav` and `contacts`; between them two queues of packets, which TCP keeps in order
and drops all at once. `ByteStream` is the packet that leaves out what has not
changed, where places within a step of each other (the 1e-5 of HSVector3D.h) count
as the same (`Same`); `Latest` is what the next one is compared with, which is the
whole of the new packet if any of it was sent. A contact has an object, for all that
is compared exactly, and a place, the ship a place and a hull. `unsent` and
`unsentNav` are history: how often a place has changed since it was last sent,
without being sent. `Retrieved` and `HandleContactPacket` put it together again;
`Noted` is what a packet makes of a view, `Shown` what all that are under way make
of it. The loops over contacts send in the order of a list, which the model leaves
open (`InSomeOrder` chooses one, and the proofs use no more of it than that). A
login, and a question for the ship, are several steps of the worker, between which
the game may change the console: the console is looked for first and the ship set
later, the ship is read first and the answer sent later. `told` is history: it is
FALSE from a change that the connection does not learn of (in the middle of those
steps, or the deletion of a console) until the next one. `ghosts` is history too:
what the client showed when its connection broke. Packets arrive whole; `mBuffer`
and the engineering packet are left out.

### Database

A row for every universe, hull class, system, territory, ship, temporary object,
system instance and console, in memory and on disk. On disk it is in a table of its
kind, systems and system instances in one of their type (`Table`); all systems take
their numbers from one range. A row holds the number (`id`), references by number as
they are saved (`class`, `systemId`, `univ`) and by pointer as they are used
(`hull`, `system`, `in`). Every command that creates, deletes, moves or clones is an
action, and so is `SetSystemId`, by which an administrator gives a system on board
another number; the pointer stays what it was, and the row is marked (`byHand`,
history). `Dump(n, kept)` writes the tables in the order of the code and ends inside
table n; `Restart` loads what is there (`Loaded`), making pointers from numbers;
which of two systems with one number a load finds is left open (`Found`). The
pointers in rows on disk stand for what the row meant when it was written, so that
`Store` can say that a restart brings back what was dumped: not only the numbers but
what they meant. Of the rows marked by hand it promises nothing (`Loose`). Not
modelled: the columns, warehouses, landing locations and hatches, the configuration.

### Flight

Angles in steps of which `Quarter` make a right angle, speeds in whole numbers,
and of the direction of the velocity only whether it is along the heading,
against it or neither. `Cycle` is the ship's cycle from the autopilot (`Guidance`)
over the drive and the thrusters (`Turned`) to the engines (`CycleEngines`), which
burn fuel in list order. `Forward` and `Reverse` are the two halves of the code's
pushing and braking. Positions are left out, so that the autopilot may find its
destination near or far at any time.

### How they fit

`ShipPower` refines what `Landing` calls `mode` and `PowerFails`; `Landing` and
`Docking` share no state in the code except `mLandedLoc` and position and are
checked apart. `Cargo` shares only power, which it takes as an arbitrary event.
`Combat` takes landing and power as arbitrary events (`Land`, `Launched`,
`SwitchPower`), and `Repair` landing, damage and power: what the detailed modules
allow is among them. So does `Flight` with power. `Server` shows that what is sent
gets through and that connections come and go, which `ClientView` takes for its
queues and for `Disconnect`; what a connection may show is any of `Pictures`,
whatever Combat's contact lists are. `Database` has the life of ships, hull classes
and consoles, which the other modules take as given; what they call `Restart` and
destruction are its `Restart` and `DelBody`.

## Runs

| Run | Checks | Instance |
|---|---|---|
| `ShipPower` | budget, shedding order, peak, inoperable systems, an offline ship at rest, an overdraw ends | two reactors of which the first burns fuel, engine, thrusters, computer; conditions 0..2; requests 0, 1, 4 |
| `Landing` | coherence of flight | two ships, planet, two locations and a room; all failures, destruction, restarts |
| `LandingSteady` | landed ship is there, rosters, no second landing, sequences end or strand | three locations, no restart or destruction, only cold failures, exits within one object |
| `Docking` | mutual links, exits, range, refinement of `Passages` | three objects, four hatches, distances 0..2, a hatch to be reused and a ship that jumps |
| `Combat` | locks are contacts, a sweep leaves no stale contact but the one that moved up to the head, hull paid for by a charge, shields first | hunter with two weapons, quarry with two shields on one arc, two buoys; landing, power, repair, destruction, restart |
| `Repair` | what removals and additions make of assignments, shared capacity, gains of guests, end of repairs | a tender with a bench and two engines of a class, a guest with one; both engines of the class are removed and added; three assignments at once |
| `Cargo` | types and room in bays, cargo comes from resources, cargo is not lost | a miner with two bays and a harvester, a field that destructs, a well, a pod, a warehouse; two commodities |
| `Server` | no circular wait, no use after deletion, data gets through, clients come and go | one client |
| `ClientView` | the client's view agrees up to the unsent drift, the manned ship is shown, and appears | two ships, two contact numbers, two objects |
| `Database` | everything is filed where it says, numbers, references, refinement of `Store` | one territory and console, three systems on board, two of every other kind, systems of two types with a table each; three commands, two dumps that break off |
| `Flight` | the short way, the speed limit, a stop is reached | an engine that burns and one that does not, a drive, an autopilot |
| `ServerStop` | fails: Stop returns | |

The properties are about what takes several steps to break. For example
`NoSecondLanding`: `Land` does not test whether the ship has landed; it is only
that the contact list is empty by then, because the sweep erases stale contacts
during the landing sequence. Three contacts or a landing of one tick would break
it.

### Bounds, and why they are enough

- ShipPower: shedding needs three consumers of which the computer is not last,
  a reactor set against its peak two reactors; conditions need a middle level; a
  tank of 1 runs dry in the middle of a sequence. The second reactor has a fuel
  efficiency of 0 and burns nothing, so that sequences are also ended by ships
  that never starve; two reactors that drink from one tank in turn were checked
  for the safety properties with `MCBurn` 1 for both and a tank of 3. `Requests`
  has one that no reactor can deliver. Damage
  falls on `Fragile` systems, one reactor and one consumer. `FuelBound` is the
  size of the tank and no request is negative, so that it never cuts anything.
- Landing: sequences take 2 and 1 cycles instead of 20 and 10. Two is the least
  landing during which contacts are erased, and commands fall into every cycle.
  Two ships suffice to compete for a pad, to land on each other and for the order
  within a sweep. A roster counts to two. `Perishable` restricts what may vanish.
- Docking: four hatches let a ship be linked twice and a third object interfere;
  distances 0..2 with a docking distance of 1 have both near and far.
- Combat: two weapons can be locked on one target and on two; two shields on an
  arc show the order of absorption, the other arc has none. A hull of two points
  with two units each (`Grain`) has damage of half a point. Three other objects
  are needed for three contacts, of which two can become stale in any places and
  a third be left to follow them. `Switchable` has a computer, a weapon and a
  shield; `Movers` and `Perishable` restrict who lands and who vanishes;
  `Sighted` says that the quarry has no sensor. `Fadings` are none and one,
  `Weakenings` none, one and two.
- Repair: `JobBound` 3 gives shares of a whole, halves and thirds; a hull point
  costs more than a half, so that it stalls until another assignment ends. Two
  engines of a class are the least for a place to shift, and `Removable` is both:
  with the first gone an assignment to either finds another or none. Conditions 0..3
  let a bench be repaired in steps.
- Cargo: half units (`Grain` 2), yields below, at and above a unit. Bays of two
  units and one make a pod fill one and spill into the other. `StockBound` ends
  what the well generates and what a warehouse takes. One commodity is
  `Deletable`, the other stays; `Loads` is one unit, `Pods` one pod at a time.
- ClientView: `WireBound` keeps the game from sending while two packets are under
  way; the worker's answers and the several packets of an update come on top. The
  pictures have an object that changes its look and its number, and a number that
  passes from one object to another; places differ by one step, which is not sent
  unless something else is, and by two, which is. `DriftBound` ends a drift after
  two unsent changes, each the whole tolerance at most; the run reaches two, and
  the place shown is then off by up to two steps. `Values` are those of the
  fields. Two ships tell a stale answer from a right
  one.
- Database: three commands suffice to free a number, give it again and refer to
  it; two broken dumps mix three generations of tables. Two universes are the
  least for a move, two hull classes and systems for a mistaken number, two types
  of systems for a dump that ends between their tables. A `SYSTEMID` is set to any
  number that a system can have, and to one that none has.
- Flight: right angles are two steps and the rate is three, so that turns end in
  part steps and pass through zero.
- Server: one client, `TaskBound` 1 and `SignalBound` 1 keep events from piling
  up, not tasks the threads create themselves. Two clients were explored for the
  invariants without an error up to 28 million states, which is too much for a
  regular run.

### Fairness

`HSCycle` is called once a second while the game runs: `WF(Cycle)` in ShipPower and
`WF(Sweep)` in Landing, where the action is always enabled for a ship online. Flight
assumes `WF(Cycle)` in the same way. Nothing is assumed of players, enemies or the
kernel's clients. Docking has no liveness, nor have Combat, Cargo and Database.
ClientView assumes that the worker goes on (`WF(Serve)`) and that the client reads
what arrives (`WF(ReadPacket)`), for which `Server` gives the reason; connections
need not be made. In Repair every bench is cycled again and again while its ship is
not a wreck (`WF(Cycle(b))`), and `RepairsEnd` speaks of runs in which from some
moment on nothing but repairs goes on. In Server each thread takes its next step
whenever it can infinitely often (`SF`): the scheduler runs it, and a mutex that the
other holds for a moment is got in the end although POSIX mutexes are not queues.
Signals that are queued are delivered, each descriptor's own (real-time signals are
not merged).

### What the code does that its comments do not say

`ServerStop` ends in a counterexample, and `findings` quotes the line it
contradicts: Stop waits, with the connection mutex locked, for a worker that may
be waiting for that mutex.

More was seen while modelling, much of it by changing one constant or property of
a configuration:

- A deleted commodity stays in every bay, pod and warehouse: it is taken off the
  list in which the containers look it up before they are told to drop it,
  although HSDB.cpp:856 says that it is found everywhere (`INVARIANT
  NoCargoOfDeleted` in `Cargo.cfg` is violated).
- HSMutex.h:56 documents the mutex as recursive, which it is not: a signal that
  interrupts the game while it holds `mActivityMutex` stops the server
  (`Interrupts = "anywhere"` in `Server.cfg` violates `NoSelfWait`).
- A reactor that starves during a landing takes the ship offline in the middle of
  it ("Nothing going on here", HSShip.cpp:686), and SetOutput refuses to help
  during a landing.
- A negative set point is accepted. It fills tanks beyond their capacity, and
  cancels another reactor's set point in the sum that decides whether a ship goes
  offline (`Requests <- MCFewRequests` in `ShipPower.cfg` violates
  `OfflineIsAtRest`).
- A restart during a landing leaves a ship landed where it has not arrived
  (`SPECIFICATION Spec` in `LandingSteady.cfg` violates `LandedShipIsThere`); its
  roster keeps ships that were destroyed (`Perishable = {shuttle}`); a ship whose
  computer was off during its landing may land again and is on the roster twice
  (`Failures = {"dark"}`); two ships may land on each other, after which
  `GetTotalMass` does not terminate.
- Two ships that begin to land within 20 cycles both find room in a bay for one
  (the invariant `\A l \in sites : SpaceTaken(l) <= Capacity[l]` fails in
  `Landing.cfg`).
- A resource that is depleted and destructs leaves its harvesters with a pointer
  to it; one with an endless commodity (a negative stock) destructs all the same
  when nothing else is left.
- An exit that joins the landing locations of two objects lets a ship taxi from
  one to the other; the launch that follows strikes it off the wrong roster.
- Removing a connected hatch, or destroying its object, leaves the partner
  connected to a number: `Disconnect` reports a database inconsistency and gives
  up, so that it can neither be disconnected nor connected again.
- A hatch that was removed connected and is added again has an open exit; a ship
  that passes a gate stays connected to what it left. `Reusable` and `Gaters`
  name these, and the properties of Docking say that there is no other case.
- The computer's loop over its contacts starts again from the second after it
  has erased one: when the head of the list is erased and the contact behind it is
  stale too, that one survives, with its lock, until the next cycle.
  `StaleIsBounded` says that the loop leaves no other.
- Removing a system that is not the last of its class shifts the assignments to
  those behind it: a bench goes on with another one, although HSRepairSystem.h:70-75
  says that the place in its class identifies the system.
  `JobsShiftOnlyByRemoval` says how an assignment shifts (to the next of its class,
  or to none) and that nothing else shifts it.
- Database: after a dump that broke off, a ship's class number may belong to
  another class or to none, when `GetHull` is NULL (asserted against at
  HSShip.cpp:898). When it broke off between the tables of two types, a number that
  was freed in the one and given again in the other is there twice, and two systems
  have it after the restart (`NumbersAreDistinct` fails without `~tainted`); what is
  on board may then be loaded as part of a system of another type, to whose class
  it is cast. `@space/set` changes `SYSTEMID` and leaves the pointer: the system on
  board works as the old one until the next load, which believes the number,
  whatever the type of the system it names (`ReferencesHold` fails without
  `~byHand`). `FindObjectID` begins with -1, which means "nothing" elsewhere, and
  looks for no gap above the last number. `Clone` calls SetHull on the original
  and copies its landed object without an entry in a roster. A dump that fails
  leaves the database open; shutting down does not dump.
- Flight: the autopilot that has arrived sets the desired speed to 0 without
  SetAccelerating (HSAutopilot.cpp:88-93), so that a ship that coasts drifts past
  with its drive engaged. A ship that flies backward is never "now travelling" and
  burns fuel for ever. From one pole to the other a ship turns over the top. An
  engine with a `maxSpeed` of 0 makes GetMaxVelocity depend on the order of
  engines; the assumptions exclude it.
- ClientView: a console that is deleted is not told to the connection, whose
  `mShip` may point to a ship that was deleted too. A change of console in the
  middle of a login is overwritten by the older answer. The client clears neither
  contacts nor half a packet when it loses its connection: what was seen before
  stays on the screen, and the rest of a packet is put in front of the next
  connection's first. A packet of removal has an object type that was never set.
  Positions that differ by less than 1e-5 count as equal, and because the latest
  packet replaces the last one as soon as anything else differs, a slow drift may
  never be sent. `ViewAgrees` bounds by how much the client is then off: a step for
  each such change since the place was last sent, and only in the place.
- A ship that stops exactly on the border of a territory is told of entering
  twice or of leaving never. `AddChannel` checks the limit before it looks whether
  the channel is there and replaces it.
- A hull whose share is worth less than a point per cycle gains nothing, as points
  are truncated in every cycle; `StandsStill` is where `RepairsEnd` allows it.

## Proofs

Checked by TLAPS for all values of the constants that satisfy the assumptions
of the modules (any finite sets of ships, systems, locations; any sizes,
capacities, distances, lengths of sequences).

| Theorem | Argument |
|---|---|
| `PlantTypeCorrect` | the other variables first; then fuel, by induction along mSystems: the recursion that the reactors drink by has a solution in the naturals (`FuelLeftTyped`) |
| `CycleKeepsReactorsWithinPeak` | set point and output are minima with the peak of the new condition (`SetPointBound`, `NextOutputBound`) |
| `ComputerIsShedLast` | the computer is shed only if every stop before was over budget, hence all others are shed; none of the later steps of a cycle adds power (`CycleOnlyCuts`) |
| `InoperableStaysUnpowered` | inductive with the type invariant: damage and stress that take the last condition take the power, allocation asks for condition |
| `CycleRestoresBudget` | let t be the first system that `CheckSystemPower` spares (`FirstSpared`): stopping at t left the ship within its output, and who is left afterwards draws no more (`PowerUsedMonotone`, `CheckFits`); the rest of the cycle only cuts (`CycleOnlyCuts`) |
| `OfflineShipIsAtRest` | strengthened to `AtRest`: no set point or output is negative, and offline every draw, set point and output is 0 (with an output left, the crew could allocate power again). The set point of a single reactor is 0 when the sum is, because none is negative: `Requests \subseteq Nat` is a hypothesis, and the list above shows what happens without it |
| `LandingTypeCorrect`, `FlightStaysCoherent` | inductive with TypeOK: only a launch clears the location, and clears the others with it |
| `LandedShipsAreThere` | over SteadySpec: a landing that ends moves the ship, a taxi changes room and location together |
| `LandedShipsDoNotLand` | `QuietInv`: with a powered computer and at least two ticks, the contacts of a landing ship shrink with its timer and are empty before the last tick (`StaleContactsGo`). The property alone is not inductive, as it says nothing of the contacts of a ship on approach |
| `RostersStayAccurate` | inductive on top of QuietInv (a second landing would count twice), with no destruction and exits within one object |
| `DockingTypeCorrect`, `ExitsLead` | inductive; every change of a link changes the exit |
| `LinksStayMutual` | `MutualInv`: adds that an unconnected hatch is nobody's link unless it is reusable or removed, without which connecting could steal a partner |
| `LinksStayShort` | inductive with mutuality: whoever moves looks at its own hatches, and because links are mutual sees every link that has become long |
| `DockingImplementsPassages` | on top of `LinksStayMutual`: connecting opens a passage between two free hatches (`ConnectOpens`), unlinking closes both sides (`UnlinkCloses`), removal and destruction close what leads to and from the hatches they take (`DiscardCloses`) |
| `FlightTypeCorrect` | inductive, one lemma for each part of a cycle; that no engine drinks below zero is an induction along the list of engines (`FuelBeforeTyped`) |
| `SpeedIsBounded` | a push adds at most the acceleration (`PushedBound`), and is made only below the limit or followed by a brake down to it (`ForwardBound`, `ReverseBound`), for any number of engines left burning |
| `TurnsAreShort` | on the horizon every branch of `Angle` takes the rate off the shorter arc, past the zero of the circle too (`HorizonAngle`); an elevation does so unless it goes from pole to pole, and then stays where `Vector` changes nothing (`ElevationAngle`, `VectorTyped`) |
| `BridgeTypeCorrect`, `CombatTypeCorrect` | contacts, locks, charges and power first; then hulls and absorption, where a shot may take either down but not below zero and all else only raises them to their maximum |
| `HullsArePaidFor` | the shields an arc has take off what they absorb and no more (`CoveringHolds`, `ShieldsGoFirst`), so that what gets past is within the charge (`ShotIsPaid`), and whole points of it cost no more than it (`WholePoints`); no other step lowers a hull (`OnlyShotsHurt`) |
| `ShieldsGoDownFirst` | damage that gets past all shields of an arc is more than their sum, hence reaches the last of them with more than it absorbs, in any order (`CoveringHolds`) |
| `LocksAreContacts` | inductive: every step that changes a contact list drops the locks on what left it, in the same step |
| `StaleStaysBounded` | for lists of any length: the first pass decides on the head (`FirstPass`), and each pass makes the list shorter by one or finds nothing stale behind the head, which the later ones leave alone (`LaterPass`). There are enough passes to leave nothing stale behind it (`SweepPasses`, `SweepCleans`). A head that is stale can only have moved up, when the first pass erased the one before |
| `RepairTypeCorrect` | `CycleTyped`: shares are naturals since a list with an assignment is finite and not empty |
| `JobsIdentify` | of two systems of a class the later has strictly more before it (`PlacesDiffer`, cardinality of finite sets), so that ship, class and place are injective |
| `JobsShift` | for any removals: taking a system out lowers by one the place of those of its class behind it and of no other (`NamesAfterRemoval`), so that a name finds what it found before or the next of the class (`RemovalShifts`); an addition at the end changes no place (`AdditionShifts`). That the two found are neighbours is a matter of cardinalities (`PlacesInOrder`, `OneBefore`); that a name finds one system is JobsIdentify, before and after |
| `GuestsOnlyGain` | a gain comes from a cycle, whose assignments are within reach; every other action lowers or leaves conditions and hulls |
| `BenchesShareCapacity` | work per assignment is at most its share (`SystemWork`, `HullWork`), each share at most the capacity after the cycle over the number of assignments (`ShareBound`), and no more systems and hulls gain than there are assignments, because `JobsIdentify` (`WorkersCounted`). It rests on `RepairAssumption`'s table `Work` being monotone in the bench's condition, as HSSystem.h:75-82 computes it |
| `CargoTypeCorrect` | inductive: every container but a resource holds whole units, no bay more than its space. The step that takes thought is `Collect`, where many items go to many bays in one step. Items and rooms of bays are pieces laid end to end on one line, what a bay takes of an item is the overlap of the two (`StoredIsOverlap`), and pieces end to end fill an interval at most once (`PiecesFit`): a bay gets no more than its room (`BayHolds`), and an item gives no more than there is of it (`ItemLasts`) |
| `CargoInvariant` | the type with two facts that the balance needs: a harvester without a target has built nothing up, a pod that does not exist is empty. Without the first a new target, without the second a new pod, would turn up cargo from nowhere |
| `CargoComesFromSources`, `CargoIsKept` | one lemma for each action says what it does to `Total` (`HarvestBalance` to `DroppedBalance`), as a change of one or two terms of a sum or, for `Collect`, as three sums exchanged; `Ledger` puts them together |
| `DatabaseInvariant` | `IInv`: memory is `Coherent`; the disk holds rows of their kinds and hull classes and temporary objects have distinct numbers even when it is torn, because a table never mixes two dumps (systems have many tables, so that nothing is said of theirs); and it is coherent while no dump was torn. The properties of memory alone are not inductive, since `Restart` reads the disk. Removal, addition and moving of rows keep coherence in general (`RemovalIsCoherent`, `AdditionIsCoherent`, `MoveIsCoherent`), and so does a load of any rows (`LoadIsCoherent`); each command is one of these |
| `DatabaseTypeCorrect`, `BodiesAreFiled`, `NumbersStayDistinct`, `ReferencesStay` | parts of `DatabaseInvariant`; that the number given is free is `FreeNumberIsFree` (the loop ends at a place in the sorted numbers where its own number does not stand, and as long as no number is there twice nobody has that number) and `ObjectIDIsFree`. Setting a number by hand keeps coherence because coherence says nothing of it afterwards (`SetSystemIdIsCoherent`) |
| `MutexesAreOrdered` | scripts have no bounded length, so the invariant is about any sequence of operations: what a thread holds is released later in its script, and all that it comes to before reaches only mutexes further on in the order connections, send buffers, tasks (`Guarded`, `Above`). Each function of the code is a block with a lowest mutex that it reaches (`ActivityBlocks` to `GameBlocks`), and an operation is replaced only by blocks that reach no more (`Expansion`). With it goes who has the list of connections (`Kept`) and what the game still has to send (`Listed`) |
| `NoDeadlyEmbrace` | a thread that waits for another's mutex holds only mutexes before it (`WaitsInOrder`), so that two that wait for each other's would each hold one before the other's |
| `ConnectionsOutlastTheirUse` | the first operation of `Listed`: from looking at the list until it has sent, the game keeps `mConnectionMutex`, without which no connection is taken off |
| `ViewTypeCorrect` | inductive; packets may hold any part of the fields, and a client that puts them together has every field, those it was never sent as `Nothing` |
| `TheCrewIsShown` | `CrewInv`: a login goes through `LettingIn`, `Accepting`, `Requesting`, `Answering` and `Following`, each with what may be under way in it. While the connection counts as told, what the worker has read and not yet used is still so (`Knows`), and once it follows, the last packet that tells of the crew tells the truth (`TellsLast`), through all that is sent after it. The property alone says nothing of the steps before it holds |
| `TheViewAgrees` | what the client will show is the outcome of a run along the packets under way (`Outcome`), a recursion solved for sequences of any length: reading the first packet, sending one more or a whole update is a run in two parts (`OutcomeOfTail`, `OutcomeOfConcat`). In an update each contact has at most one packet, so that their order does not matter (`OutcomeOfContacts`); what differs, put together with what the client has, is the contact but for its place, and that is off by one step more than before or, when it is sent, by none (`DifferenceTracks`), under the hypothesis that the fields sent before are those the client has up to that drift, which is the property itself |
| `DatabaseImplementsStore` | every step is one of `Store`: a dump that ends leaves on disk what is in memory (`DumpedAll`), and a load of coherent rows returns these very rows, pointers included, except for systems whose number was set by hand (`LoadBringsBack`) |

The named conditions on a theorem (no failures but cold ones, two ticks, no
negative request and the like) are hypotheses of its statement. Each excludes a
case which the list above shows to be real. Database assumes of its first rows
that they are those of a game that was saved and loaded without failure
(`InitialRowsAssumption`), Cargo that no container is of two kinds and harvests
are not negative, Repair that a better bench does not work less.

`Sums` carries the arithmetic. The induction theorems of the library take an
operator, which the provers cannot instantiate; `SubsetInduction` and
`FiniteInduction` take a set of subsets instead and follow from the library's
theorem that strict inclusion is well founded on finite subsets. With them come
induction along an interval and the solution of a recursion along one
(`IntervalInduction`, `RecursionSolved`), for the fuel of engines and reactors. The
sums of the models are folds, `SumFunctionOnSet`, which are chosen solutions of a
recursion: that a solution exists and that two agree (`SolutionExists`,
`SolutionsAgree`) is shown by that induction, and the laws of sums follow (a term
taken out, two parts, a change of one term, monotony, a bound by a count of terms).

Only model-checked: all liveness, because fairness is out of the prover's reach
(`OverdrawEnds`, `SequenceEndsOrStrands`, `RepairsEnd`, `DataGetsThrough`,
`ClientsComeAndGo`, `ShipAppears`, `StopIsReached`). The two theorems about
ClientView assume that there are finitely many contact numbers and that pictures
give every contact values for all its fields, as the sensors do; `DriftBound` is any
natural number.

## Not modelled, and the plan

1. Proofs: the remaining invariants of Landing under restarts.
2. Composition: Landing with ShipPower's `mode` as a refinement mapping, so that
   `PowerFails` and `PowerReturns` are what the power plant can do; landing as a
   relation of ships to berths, implemented by Landing.
3. Communications and commands on single attributes: sequential code with little
   state.

Positions, distances and sensors' detection are real-valued geometry and stay out
of reach. Border messages, poses and displays have no state of the game; the
PennMUSH interface is text, locks and movement, and its hooks only decide what is
one step. SQLite and the Win32 dependencies are vendored, and make up nearly all
lines of the repository.
