------------------------------ MODULE Database ------------------------------
(***************************************************************************)
(* What exists in the game and what of it is on disk (HSDB.cpp,            *)
(* HSUniverse.cpp, HSObject.cpp, HSTerritory.cpp, HSCommand.cpp).          *)
(*                                                                         *)
(* Everything that is made lives under a number: universes under the room  *)
(* they are, hull classes, systems and temporary objects under a number    *)
(* that HSDB chooses, and may give again after it has become free.  In     *)
(* memory things refer to each other by number and by pointer; on disk     *)
(* there are only numbers, from which a load makes the pointers.           *)
(*                                                                         *)
(* A dump writes table after table, each dropped first, without a          *)
(* transaction; every type of system has a table of its own, for the       *)
(* designs and for what is on board.  It is one step here, since no        *)
(* command comes in between, but may end, with the process or without it,  *)
(* inside any table.                                                       *)
(*                                                                         *)
(* Memory and disk have the same shape: a row for every thing that exists. *)
(* The pointers in the rows on disk are not in the file: they say what the *)
(* row meant when it was written.  Neither is byHand: it notes that the    *)
(* number of the row was once set by hand, which leaves the pointer alone. *)
(***************************************************************************)
EXTENDS Integers, Sequences, FiniteSets, FiniteSetsExt

CONSTANTS
  Rooms,        (* rooms that may be universes                             *)
  Classes,      (* HSHullClasses                                           *)
  Territories,
  Ships,
  Pods,         (* temporary objects, as every HSCargoPod is               *)
  Systems,      (* HSSystems, the designs                                  *)
  Instances,    (* HSSystemInstances, on board                             *)
  Consoles,
  TypeCount,    (* sSystemTypeCount                                        *)
  Type,         (* the type of every system and system instance            *)
  Nothing,      (* no such thing, a null pointer                           *)
  InitialRows,  (* what was loaded first, of this instance                 *)
  MaxEdits,     (* bound: commands after the first load                    *)
  MaxBreaks     (* bound: dumps that break off                             *)

Bodies == Territories \cup Ships \cup Pods
Parts == Instances \cup Consoles

Things == Rooms \cup Classes \cup Bodies \cup Systems \cup Parts

(* The table of a thing, in the order in which DumpDatabase writes them. *)
Table(x) ==
  CASE x \in Rooms -> 1
    [] x \in Classes -> 2
    [] x \in Territories -> 3
    [] x \in Ships -> 4
    [] x \in Pods -> 5
    [] x \in Systems -> 5 + Type[x]
    [] x \in Instances -> 5 + TypeCount + Type[x]
    [] x \in Consoles -> 6 + 2 * TypeCount

TableCount == 6 + 2 * TypeCount

(* The rows of the tables, with the pointers that memory keeps beside them. *)
UniverseRows == [place : Nat]
NumberedRows == [id : Nat]                        (* HSHullClass, HSSystem *)
TerritoryRows == [univ : Rooms, in : Rooms]
ShipRows == [univ : Rooms, in : Rooms, class : Nat, hull : Classes \cup {Nothing}]
PodRows == {row \in [univ : Rooms, in : Rooms, id : Int] : row.id < 0}
InstanceRows == [ship : Ships, systemId : Nat, system : Systems, byHand : BOOLEAN]
ConsoleRows == [ship : Ships]
Rows == UniverseRows \cup NumberedRows \cup TerritoryRows \cup ShipRows \cup PodRows
          \cup InstanceRows \cup ConsoleRows

ASSUME DatabaseAssumption ==
  /\ IsFiniteSet(Things) /\ Nothing \notin Things \cup Rows
  /\ LET kinds == <<Rooms, Classes, Territories, Ships, Pods, Systems, Instances, Consoles>>
     IN  \A m, n \in 1..8 : m # n => kinds[m] \cap kinds[n] = {}
  /\ TypeCount \in Nat /\ Type \in [Systems \cup Instances -> 1..TypeCount]
  /\ DOMAIN InitialRows \subseteq Things
  /\ MaxEdits \in Nat /\ MaxBreaks \in Nat

VARIABLES
  mem,      (* the row of every thing in memory, or Nothing                *)
  disk,     (* its row in the tables                                       *)
  torn,     (* the tables were not written by one dump from end to end     *)
  tainted,  (* memory goes back to such tables                             *)
  edits,    (* commands so far                                             *)
  breaks    (* dumps that broke off so far                                 *)

vars == <<mem, disk, torn, tainted, edits, breaks>>

-----------------------------------------------------------------------------
Existing(S, m) == {x \in S : m[x] # Nothing}

Numbers(S, m) == {m[x].id : x \in Existing(S, m)}

(* FindHullClass. *)
Find(S, number, m) ==
  LET found == {x \in Existing(S, m) : m[x].id = number}
  IN  IF found = {} THEN Nothing ELSE CHOOSE x \in found : TRUE

(* Mutant: the number of things there are is taken for a free number. *)
CountAsNumber(S) == Cardinality(Existing(S, mem))

Below(S, n) == Cardinality({x \in Existing(S, mem) : mem[x].id < n})

(* The loop of AddHullClass and AddSystem over the sorted numbers: it ends *)
(* at the first place n where n does not stand, or behind them all.  With  *)
(* a number that is there twice it may end at a number that is taken.      *)
FreeNumber(S) ==
  LET Stands(n) == Below(S, n) <= n /\ n < Below(S, n + 1)
  IN  Min({n \in 0..Cardinality(Existing(S, mem)) : ~Stands(n)})

(* HSDB::FindObjectID: the first gap between the numbers below zero, or    *)
(* the number below them all.  No gap is looked for above the last.        *)
FindObjectID ==
  LET taken == Numbers(Pods, mem)
      gaps == (Min(taken)..Max(taken)) \ taken
  IN  IF taken = {} THEN -1
      ELSE IF gaps = {} THEN Min(taken) - 1 ELSE Min(gaps)

(* The universe at the head of mUniverses, a list in order of creation. *)
FirstUniverse(m) ==
  CHOOSE r \in Existing(Rooms, m) :
    \A q \in Existing(Rooms, m) : m[r].place <= m[q].place

(* Memory without some bodies: what was on board goes with them. *)
Without(gone, m) ==
  [x \in Things |->
     IF x \in gone \/ (x \in Existing(Parts, m) /\ m[x].ship \in gone)
     THEN Nothing ELSE m[x]]

Edit(m) ==
  /\ edits < MaxEdits
  /\ edits' = edits + 1
  /\ mem' = m
  /\ UNCHANGED <<disk, torn, tainted, breaks>>

Make(x, row) == mem[x] = Nothing /\ Edit([mem EXCEPT ![x] = row])

-----------------------------------------------------------------------------
(* Universes. *)
NewUniverse(r) ==
  Make(r, [place |-> 1 + Max({0} \cup {mem[q].place : q \in Existing(Rooms, mem)})])

(* Mutant: what is in the universe changes lists, but keeps the number. *)
DelUniverseKeepingNumbers(r) ==
  LET rest == [mem EXCEPT ![r] = Nothing]
      inside == {b \in Existing(Bodies, mem) : mem[b].in = r}
  IN  /\ mem[r] # Nothing
      /\ Edit(IF Existing(Rooms, rest) = {} THEN Without(inside, rest)
              ELSE [x \in Things |->
                      IF x \in inside THEN [mem[x] EXCEPT !.in = FirstUniverse(rest)]
                      ELSE rest[x]])

(* HSDB::DelUniverse and the destructor of HSUniverse, by command or since *)
(* the room was destroyed: what is inside goes to the first universe left, *)
(* and is deleted when there is none.                                      *)
DelUniverse(r) ==
  LET rest == [mem EXCEPT ![r] = Nothing]
      inside == {b \in Existing(Bodies, mem) : mem[b].in = r}
      new == FirstUniverse(rest)
  IN  /\ mem[r] # Nothing
      /\ Edit(IF Existing(Rooms, rest) = {} THEN Without(inside, rest)
              ELSE [x \in Things |->
                      IF x \in inside THEN [mem[x] EXCEPT !.univ = new, !.in = new]
                      ELSE rest[x]])

(* HSObject and HSTerritory AttributeChanged("UNIVERSE"), which undoes the *)
(* change when there is no such universe, and HSComputerInstance::Gate.    *)
SetUniverse(b, r) ==
  /\ mem[b] # Nothing /\ mem[r] # Nothing
  /\ Edit([mem EXCEPT ![b].univ = r, ![b].in = r])

(* Hull classes and systems. *)
NewHullClass(c) == Make(c, [id |-> FreeNumber(Classes)])

NewSystem(y) == Make(y, [id |-> FreeNumber(Systems)])

(* HSCommandDelHullClass refuses as long as a ship names the class. *)
DelHullClass(c) ==
  /\ mem[c] # Nothing
  /\ \A s \in Existing(Ships, mem) : mem[s].class # mem[c].id
  /\ Edit([mem EXCEPT ![c] = Nothing])

(* Mutant: the instances on board survive their system. *)
DelSystemOnly(y) ==
  /\ mem[y] # Nothing
  /\ Edit([mem EXCEPT ![y] = Nothing])

(* HSDB::DelSystem. *)
DelSystem(y) ==
  /\ mem[y] # Nothing
  /\ Edit([x \in Things |->
             IF x = y \/ (x \in Existing(Instances, mem) /\ mem[x].system = y)
             THEN Nothing ELSE mem[x]])

(* Ships, territories and pods. *)
AddShip(s, c) ==
  /\ Existing(Rooms, mem) # {} /\ mem[c] # Nothing
  /\ Make(s, [univ |-> FirstUniverse(mem), in |-> FirstUniverse(mem),
              class |-> mem[c].id, hull |-> c])

AddTerritory(t) ==
  /\ Existing(Rooms, mem) # {}
  /\ Make(t, [univ |-> FirstUniverse(mem), in |-> FirstUniverse(mem)])

(* HSConsole::Jettison. *)
Jettison(s, p) ==
  /\ mem[s] # Nothing
  /\ Make(p, [univ |-> mem[s].univ, in |-> mem[s].univ, id |-> FindObjectID])

(* HSCommandDelObject, HSCommandDelTerritory, HSDB::ObjectDestroyed and    *)
(* HSCargoPod::Destroy.                                                    *)
DelBody(b) == mem[b] # Nothing /\ Edit(Without({b}, mem))

(* Parts.  HSShip::AddSystem and AddConsole note the number of the ship. *)
PlaceSystem(i, s, y) ==
  /\ mem[s] # Nothing /\ mem[y] # Nothing /\ Type[i] = Type[y]
  /\ Make(i, [ship |-> s, systemId |-> mem[y].id, system |-> y, byHand |-> FALSE])

(* HSCommandSetShipSystem with SYSTEMID, which no AttributeChanged follows. *)
SetSystemId(i, n) ==
  /\ mem[i] # Nothing
  /\ Edit([mem EXCEPT ![i].systemId = n, ![i].byHand = TRUE])

AddConsole(k, s) == mem[s] # Nothing /\ Make(k, [ship |-> s])

RemovePart(p) == mem[p] # Nothing /\ Edit([mem EXCEPT ![p] = Nothing])

(* HSShip::Clone of s, as t.  The class of the clone is looked up by its   *)
(* number; systems are copied with number and pointer, and the consoles in *)
(* cloned rooms as new objects.                                            *)
Clone(s, t) ==
  LET hull == Find(Classes, mem[s].class, mem)
      board == {i \in Existing(Parts, mem) : mem[i].ship = s}
  IN  /\ mem[s] # Nothing /\ mem[t] = Nothing /\ hull # Nothing
      /\ \E copies \in SUBSET (Parts \ Existing(Parts, mem)) :
         \E of \in [copies -> board] :
           /\ \A i, j \in copies : of[i] = of[j] => i = j
           /\ \A i \in copies : i \in Instances <=> of[i] \in Instances
           /\ \A i \in copies \cap Instances : Type[i] = Type[of[i]]
           /\ \A i \in board \cap Instances : \E j \in copies : of[j] = i
           /\ Edit([x \in Things |->
                      CASE x = t -> [mem[s] EXCEPT !.hull = hull]
                        [] x = s -> [mem[s] EXCEPT !.hull = hull]
                        [] x \in copies -> [mem[of[x]] EXCEPT !.ship = t]
                        [] OTHER -> mem[x]])

-----------------------------------------------------------------------------
(* HSDB::DumpDatabase.  The tables before table n are written, those after *)
(* it keep what they had; of table n the rows in kept were written before  *)
(* a statement failed or the process ended.  Beyond the last table nothing *)
(* has failed.                                                             *)
Dump(n, kept) ==
  /\ breaks' = IF n <= TableCount THEN breaks + 1 ELSE breaks
  /\ breaks' <= MaxBreaks
  /\ disk' = [x \in Things |->
                IF Table(x) < n \/ x \in kept THEN mem[x]
                ELSE IF Table(x) = n THEN Nothing ELSE disk[x]]
  /\ torn' = (n <= TableCount)
  /\ UNCHANGED <<mem, tainted, edits>>

(* What FindSystem may find: of the systems with a number, the first that  *)
(* was loaded.  Which of them that is, is left open.                       *)
Found(d) ==
  {first \in [Numbers(Systems, d) -> Existing(Systems, d)] :
     \A n \in Numbers(Systems, d) : d[first[n]].id = n}

(* Mutant: the systems on board are read before the table of systems. *)
LoadedBeforeSystems(d, first) ==
  [x \in Things |-> IF x \in Instances THEN Nothing ELSE d[x]]

(* HSDB::LoadDatabase.  What is in no universe, on no ship or of no system *)
(* is left out; a ship keeps the number of a hull class that is missing.   *)
Loaded(d, first) ==
  LET placed == {b \in Existing(Bodies, d) : d[d[b].univ] # Nothing}
      Aboard(p) == d[p].ship \in placed
  IN  [x \in Things |->
         CASE d[x] = Nothing -> Nothing
           [] d[x] # Nothing /\ x \in Rooms \cup Classes \cup Systems -> d[x]
           [] x \in placed \ Ships -> [d[x] EXCEPT !.in = d[x].univ]
           [] x \in placed \cap Ships ->
                [d[x] EXCEPT !.in = d[x].univ, !.hull = Find(Classes, d[x].class, d)]
           [] x \in Existing(Instances, d) /\ Aboard(x) /\ d[x].systemId \in DOMAIN first ->
                [d[x] EXCEPT !.system = first[d[x].systemId]]
           [] x \in Existing(Consoles, d) /\ Aboard(x) -> d[x]
           [] OTHER -> Nothing]

(* The process ends, orderly or not, and starts again with HSInitialize. *)
Restart ==
  /\ \E first \in Found(disk) : mem' = Loaded(disk, first)
  /\ tainted' = (tainted \/ torn)
  /\ UNCHANGED <<disk, torn, edits, breaks>>

-----------------------------------------------------------------------------
FirstRows ==
  [x \in Things |-> IF x \in DOMAIN InitialRows THEN InitialRows[x] ELSE Nothing]

Init ==
  /\ mem = FirstRows
  /\ disk = mem
  /\ torn = FALSE /\ tainted = FALSE /\ edits = 0 /\ breaks = 0

Next ==
  \/ \E r \in Rooms : NewUniverse(r) \/ DelUniverse(r)
  \/ \E b \in Territories \cup Ships, r \in Rooms : SetUniverse(b, r)
  \/ \E c \in Classes : NewHullClass(c) \/ DelHullClass(c)
  \/ \E y \in Systems : NewSystem(y) \/ DelSystem(y)
  \/ \E s \in Ships, c \in Classes : AddShip(s, c)
  \/ \E t \in Territories : AddTerritory(t)
  \/ \E s \in Ships, p \in Pods : Jettison(s, p)
  \/ \E b \in Bodies : DelBody(b)
  \/ \E i \in Instances, s \in Ships, y \in Systems : PlaceSystem(i, s, y)
  \/ \E i \in Instances, n \in 0..Cardinality(Systems) : SetSystemId(i, n)
  \/ \E k \in Consoles, s \in Ships : AddConsole(k, s)
  \/ \E p \in Parts : RemovePart(p)
  \/ \E s, t \in Ships : Clone(s, t)
  \/ \E n \in 1..TableCount :
       \E kept \in SUBSET {x \in Existing(Things, mem) : Table(x) = n} : Dump(n, kept)
  \/ Dump(TableCount + 1, {})
  \/ Restart

Spec == Init /\ [][Next]_vars
-----------------------------------------------------------------------------
RowOK(m) ==
  /\ \A r \in Existing(Rooms, m) : m[r] \in UniverseRows
  /\ \A x \in Existing(Classes \cup Systems, m) : m[x] \in NumberedRows
  /\ \A t \in Existing(Territories, m) : m[t] \in TerritoryRows
  /\ \A s \in Existing(Ships, m) : m[s] \in ShipRows
  /\ \A p \in Existing(Pods, m) : m[p] \in PodRows
  /\ \A i \in Existing(Instances, m) : m[i] \in InstanceRows
  /\ \A k \in Existing(Consoles, m) : m[k] \in ConsoleRows

FiledIn(m) ==
  \A b \in Existing(Bodies, m) : m[b].in = m[b].univ /\ m[m[b].univ] # Nothing

DistinctIn(S, m) == \A x, y \in Existing(S, m) : m[x].id = m[y].id => x = y

AboardIn(m) ==
  \A p \in Existing(Parts, m) :
    m[m[p].ship] # Nothing /\ (p \in Instances => m[m[p].system] # Nothing)

(* What an instance is a part of is what its number says, and its own type *)
(* is the one it was made for.                                             *)
MeantIn(m) ==
  \A i \in Existing(Instances, m) :
    ~m[i].byHand => m[m[i].system].id = m[i].systemId /\ Type[m[i].system] = Type[i]

NamedIn(m) ==
  \A s \in Existing(Ships, m) :
    m[s].hull = Find(Classes, m[s].class, m) /\ m[s].hull # Nothing

(* The rows of a game that was saved and loaded without a failure.  What   *)
(* is loaded first is of that kind: an empty game, or what HSpace wrote.   *)
Sound(m) ==
  /\ RowOK(m) /\ FiledIn(m) /\ AboardIn(m) /\ MeantIn(m) /\ NamedIn(m)
  /\ \A S \in {Classes, Pods, Systems} : DistinctIn(S, m)

ASSUME InitialRowsAssumption == Sound(FirstRows)

TypeOK ==
  /\ mem \in [Things -> Rows \cup {Nothing}] /\ disk \in [Things -> Rows \cup {Nothing}]
  /\ RowOK(mem) /\ RowOK(disk)
  /\ torn \in BOOLEAN /\ tainted \in BOOLEAN /\ edits \in 0..MaxEdits /\ breaks \in 0..MaxBreaks

(* Whatever is deleted, moved and loaded, and wherever a dump broke off,   *)
(* every body is in the list of the universe its UNIVERSE names, and that  *)
(* universe exists, as HSCommand.cpp:576 and HSComputer.cpp:1744 assert.   *)
Filed == FiledIn(mem)

(* No two hull classes or temporary objects share a number, though numbers *)
(* are given again and tables of two dumps may be mixed; nor do two        *)
(* systems, as long as no load read tables of different dumps: each type   *)
(* has its table, and a number freed in one may be given again in another. *)
NumbersAreDistinct ==
  /\ DistinctIn(Classes, mem) /\ DistinctIn(Pods, mem)
  /\ ~tainted => DistinctIn(Systems, mem)

(* No pointer outlives what it points to: what is on board is on a ship    *)
(* and of a system that exist.  Nor does one disagree with the number      *)
(* beside it, unless tables of different dumps were read or the number was *)
(* set by hand: a system instance is of the system that its SYSTEMID       *)
(* names, of its own type (each HS...Instance casts it to that type), and  *)
(* a ship has the hull class whose number it carries, as HSShip.cpp:898    *)
(* asserts.                                                                *)
Installed == AboardIn(mem) /\ (~tainted => MeantIn(mem))

HullIsNamed ==
  IF tainted
  THEN \A s \in Existing(Ships, mem) :
         mem[s].hull \in {Find(Classes, mem[s].class, mem), Nothing}
  ELSE NamedIn(mem)

ReferencesHold == Installed /\ HullIsNamed

RowsByHand == {row \in InstanceRows : row.byHand}

(* The store that saving and loading promise: commands change memory only, *)
(* a dump keeps all of it, and a restart brings back every thing as it was *)
(* dumped, at its place and with the hull class and system it had,         *)
(* although pointers and the lists of universes are made anew from         *)
(* numbers; only a dump that broke off takes the promise away, and, for an *)
(* instance, a number that was set by hand.                                *)
Promise == INSTANCE Store WITH
  now <- mem, kept <- disk, commands <- edits, Loose <- RowsByHand

StoreSpec == Promise!Spec
=============================================================================
