------------------------------- MODULE Cargo -------------------------------
(***************************************************************************)
(* Where cargo comes from and where it goes (HSHarvester.cpp,              *)
(* HSResource.cpp, HSCargoContainer.cpp, HSCargoPod.cpp, HSComputer.cpp,   *)
(* HSConsole.cpp, HSFunctions.cpp).                                        *)
(*                                                                         *)
(* Harvesters take fractions of a unit from a resource and hand whole      *)
(* units to a cargo bay.  Bays are emptied into pods, pods collected into  *)
(* bays as far as these have room, and softcode moves cargo between bays   *)
(* and warehouses.  A harvester keeps pointers to its resource and its     *)
(* commodity, a container to the commodities in it.                        *)
(*                                                                         *)
(* Amounts are counted in fractions of which Grain make a unit.  The order *)
(* in which a sweep of the universe comes to ships and resources is left   *)
(* open, as are distances.                                                 *)
(***************************************************************************)
EXTENDS Integers, FiniteSets, Functions

CONSTANTS
  Commods,       (* HSCommodities                                          *)
  Resources,
  Bays,          (* HSCargoBayInstances                                    *)
  Warehouses,
  Pods,          (* bound: pods at a time                                  *)
  Harvesters,    (* HSHarvesterInstances                                   *)
  Owner,         (* ship of a bay or harvester                             *)
  Position,      (* place of a bay in mSystems                             *)
  Space,         (* of a bay, in units                                     *)
  Grain,
  Stock,         (* of a resource in the beginning; negative is endless    *)
  Generates,     (* what a resource gains per cycle                        *)
  Destructs,     (* resources that go when they are depleted               *)
  Mines,         (* mHarvestCommods                                        *)
  None,          (* no target, no commodity                                *)
  Yields,        (* bound: what a harvester takes in a cycle               *)
  Loads,         (* bound: units moved by softcode                         *)
  StockBound,    (* bound: of what resources generate and warehouses hold  *)
  Deletable      (* bound: commodities that may be deleted                 *)

Holders == Resources \cup Bays \cup Warehouses \cup Pods

ASSUME CargoAssumption ==
  /\ IsFiniteSet(Commods) /\ IsFiniteSet(Holders) /\ IsFiniteSet(Harvesters)
  /\ Resources \cap (Bays \cup Warehouses \cup Pods) = {}
  /\ Bays \cap (Warehouses \cup Pods) = {} /\ Warehouses \cap Pods = {}
  /\ Position \in [Bays -> Nat] /\ IsInjective(Position)
  /\ Bays \cup Harvesters \subseteq DOMAIN Owner
  /\ Space \in [Bays -> Nat] /\ Grain \in Nat \ {0}
  /\ Stock \in [Resources -> [Commods -> Int]]
  /\ Generates \in [Resources -> [Commods -> Nat]]
  /\ Destructs \subseteq Resources
  /\ Mines \in [Harvesters -> SUBSET Commods]
  /\ None \notin Resources \cup Commods
  /\ Yields \subseteq Nat /\ Loads \subseteq Nat /\ StockBound \in Nat
  /\ Deletable \subseteq Commods

VARIABLES
  commods,     (* mCommodities                                             *)
  alive,       (* resources and pods that exist                            *)
  cargo,       (* mCargo of every container; 0 is not on the list          *)
  powered,     (* harvesters with power                                    *)
  target,      (* mTargetObj of every harvester                            *)
  commod,      (* mCommodObj                                               *)
  builtUp      (* mBuiltUp                                                 *)

vars == <<commods, alive, cargo, powered, target, commod, builtUp>>

AtMost(x, y) == IF x < y THEN x ELSE y
AtLeast(x, y) == IF x > y THEN x ELSE y

BaysOf(s) == {b \in Bays : Owner[b] = s}

-----------------------------------------------------------------------------
(* HSCargoContainer.  What is no commodity (any more) is neither found nor *)
(* set; what is on the list is never set to less than nothing.             *)
CargoForCommodity(k, c) == IF c \in commods THEN cargo[k][c] ELSE 0

Set(known, k, c, amount) ==
  IF c \notin known THEN cargo[k][c]
  ELSE IF cargo[k][c] = 0 \/ amount > 0 THEN amount ELSE 0

TotalCargo(items) == SumFunction([c \in Commods |-> items[c] \div Grain])
FreeSpace(b) == Space[b] - TotalCargo(cargo[b])

Nothing == [c \in Commods |-> 0]

(* HSHarvesterInstance::CancelHarvesting of some harvesters.               *)
CancelHarvesting(hs) ==
  /\ target' = [h \in Harvesters |-> IF h \in hs THEN None ELSE target[h]]
  /\ commod' = [h \in Harvesters |-> IF h \in hs THEN None ELSE commod[h]]
  /\ builtUp' = [h \in Harvesters |-> IF h \in hs THEN 0 ELSE builtUp[h]]

(* Mutant: the bay has to hold no more than what is harvested now. *)
WithJustRoom(s, y) == {b \in BaysOf(s) : Grain * FreeSpace(b) >= y}

(* The bay to use is the first with more room than is harvested now.       *)
WithRoom(s, y) == {b \in BaysOf(s) : Grain * FreeSpace(b) > y}
First(bs) == CHOOSE b \in bs : \A d \in bs : Position[b] <= Position[d]

(* The resource of a harvester does not get less: it has no end, or has    *)
(* been deleted and what the code reads is what is left in memory.         *)
Endless(h) == target[h] \notin alive \/ cargo[target[h]][commod[h]] < 0

(* Mutant: the fraction is dropped when units are handed over. *)
HandedAndDropped(sum) == [units |-> IF sum > Grain THEN sum \div Grain ELSE 0,
                          rest |-> IF sum > Grain THEN 0 ELSE sum]

(* What is handed to the bay of what is built up, and what remains.        *)
HandedOver(sum) == [units |-> IF sum > Grain THEN sum \div Grain ELSE 0,
                    rest |-> IF sum > Grain THEN sum % Grain ELSE sum]

(* A cycle that harvests y.                                                *)
Extract(h, y) ==
  LET r == target[h]
      c == commod[h]
      bay == First(WithRoom(Owner[h], y))
      result == HandedOver(builtUp[h] + y)
  IN  /\ WithRoom(Owner[h], y) # {}
      /\ Endless(h) \/ CargoForCommodity(r, c) >= y
      /\ builtUp' = [builtUp EXCEPT ![h] = result.rest]
      /\ cargo' = [k \in Holders |->
           CASE k = r /\ ~Endless(h) ->
                  [cargo[k] EXCEPT ![c] = Set(commods, k, c, @ - y)]
             [] k = bay /\ result.units > 0 ->
                  [cargo[k] EXCEPT ![c] = Set(commods, k, c, @ + Grain * result.units)]
             [] OTHER -> cargo[k]]
      /\ UNCHANGED <<target, commod>>

(* HSHarvesterInstance::Cycle.  It cancels without power, out of range,    *)
(* without room in a bay, and when the resource has too little.            *)
CycleHarvester(h) ==
  /\ target[h] # None /\ commod[h] # None
  /\ \/ CancelHarvesting({h}) /\ UNCHANGED cargo
     \/ h \in powered /\ \E y \in Yields : Extract(h, y)
  /\ UNCHANGED <<commods, alive, powered>>

(* HSResource::Cycle: it generates, or goes if it is of no use any more.   *)
(* No harvester is told.                                                   *)
CycleResource(r) ==
  /\ r \in alive
  /\ IF Generates[r] # Nothing
     THEN /\ \A c \in Commods : cargo[r][c] + Generates[r][c] <= StockBound
          /\ cargo' = [cargo EXCEPT ![r] =
                         [c \in Commods |-> IF Generates[r][c] = 0 THEN cargo[r][c]
                                            ELSE Set(commods, r, c, cargo[r][c] + Generates[r][c])]]
          /\ UNCHANGED alive
     ELSE /\ r \in Destructs /\ \A c \in Commods : cargo[r][c] <= 0
          /\ alive' = alive \ {r}
          /\ cargo' = [cargo EXCEPT ![r] = Nothing]
  /\ UNCHANGED <<commods, powered, target, commod, builtUp>>

(* HSCargoPod::Cycle at the end of mLifeTime.                              *)
PodExpires(p) ==
  /\ p \in alive
  /\ alive' = alive \ {p}
  /\ cargo' = [cargo EXCEPT ![p] = Nothing]
  /\ UNCHANGED <<commods, powered, target, commod, builtUp>>

-----------------------------------------------------------------------------
(* HSComputerInstance::Harvest and AbortHarvest.                           *)
Harvest(h, r, c) ==
  /\ h \in powered /\ target[h] = None
  /\ c \in commods \cap Mines[h]
  /\ r \in alive /\ CargoForCommodity(r, c) # 0
  /\ target' = [target EXCEPT ![h] = r]
  /\ commod' = [commod EXCEPT ![h] = c]
  /\ UNCHANGED <<commods, alive, cargo, powered, builtUp>>

AbortHarvest(h) ==
  /\ target[h] # None
  /\ CancelHarvesting({h})
  /\ UNCHANGED <<commods, alive, cargo, powered>>

SwitchPower(h) ==
  /\ powered' = IF h \in powered THEN powered \ {h} ELSE powered \cup {h}
  /\ UNCHANGED <<commods, alive, cargo, target, commod, builtUp>>

(* HSConsole::Jettison into a new pod.                                     *)
Jettison(b, p) ==
  /\ p \notin alive /\ TotalCargo(cargo[b]) # 0
  /\ alive' = alive \cup {p}
  /\ cargo' = [cargo EXCEPT ![p] = cargo[b], ![b] = Nothing]
  /\ UNCHANGED <<commods, powered, target, commod, builtUp>>

(* HSComputerInstance::Collect fills the bays one after the other with the *)
(* items of a pod, one after the other: items lie in the free space of the *)
(* bays as in one row.                                                     *)
Orders == {f \in [Commods -> 1..Cardinality(Commods)] : IsInjective(f)}
ItemStart(p, order, c) ==
  SumFunction([d \in Commods |-> IF order[d] < order[c] THEN CargoForCommodity(p, d) ELSE 0])
BayStart(b) ==
  SumFunction([d \in Bays |-> IF Owner[d] = Owner[b] /\ Position[d] < Position[b]
                              THEN Grain * FreeSpace(d) ELSE 0])

Stored(p, order, c, b) ==
  LET start == ItemStart(p, order, c)
  IN  AtLeast(0, AtMost(start + CargoForCommodity(p, c), BayStart(b) + Grain * FreeSpace(b))
                   - AtLeast(start, BayStart(b)))

(* Mutant: an item that did not fit stays in the pod as a whole. *)
RemainsWhole(p, s, order, c) ==
  LET stored == SumFunction([b \in BaysOf(s) |-> Stored(p, order, c, b)])
  IN  IF stored = CargoForCommodity(p, c) THEN cargo[p][c] - stored ELSE cargo[p][c]

Remains(p, s, order, c) ==
  cargo[p][c] - SumFunction([b \in BaysOf(s) |-> Stored(p, order, c, b)])

Collect(s, p) ==
  /\ p \in alive /\ \E b \in BaysOf(s) : FreeSpace(b) >= 1
  /\ \E order \in Orders :
       LET left == [c \in Commods |-> Remains(p, s, order, c)]
       IN  /\ cargo' = [k \in Holders |->
                CASE k = p -> IF TotalCargo(left) = 0 THEN Nothing ELSE left
                  [] k \in BaysOf(s) -> [c \in Commods |-> cargo[k][c] + Stored(p, order, c, k)]
                  [] OTHER -> cargo[k]]
           /\ alive' = IF TotalCargo(left) = 0 THEN alive \ {p} ELSE alive
  /\ UNCHANGED <<commods, powered, target, commod, builtUp>>

(* HSFunctionTransferCargo of n units between bays and warehouses.         *)
TransferCargo(k, d, c, n) ==
  /\ k # d /\ c \in commods
  /\ cargo[k][c] >= Grain * n
  /\ IF d \in Bays THEN FreeSpace(d) >= n ELSE cargo[d][c] + Grain * n <= StockBound
  /\ cargo' = [cargo EXCEPT ![d][c] = Set(commods, d, c, @ + Grain * n),
                            ![k][c] = Set(commods, k, c, @ - Grain * n)]
  /\ UNCHANGED <<commods, alive, powered, target, commod, builtUp>>

(* HSDB::DelCommodity.  It sets the amount in resources, bays and          *)
(* warehouses to 0, after it has taken the commodity off the list.         *)
DelCommodity(c) ==
  /\ c \in commods \cap Deletable
  /\ commods' = commods \ {c}
  /\ cargo' = [k \in Holders |->
       IF k \in Pods THEN cargo[k]
       ELSE [cargo[k] EXCEPT ![c] = Set(commods', k, c, 0)]]
  /\ CancelHarvesting({h \in Harvesters : commod[h] = c})
  /\ UNCHANGED <<alive, powered>>

(* HSShutdown and HSInitialize: mBuiltUp is not saved, the rest is, and is *)
(* looked up again (HSHarvesterInstance::AttributeChanged).                *)
Restart ==
  /\ target' = [h \in Harvesters |-> IF target[h] \in alive THEN target[h] ELSE None]
  /\ commod' = [h \in Harvesters |-> IF commod[h] \in commods THEN commod[h] ELSE None]
  /\ builtUp' = [h \in Harvesters |-> 0]
  /\ UNCHANGED <<commods, alive, cargo, powered>>

-----------------------------------------------------------------------------
Init ==
  /\ commods = Commods
  /\ alive = Resources
  /\ cargo = [k \in Holders |-> IF k \in Resources THEN Stock[k] ELSE Nothing]
  /\ powered = Harvesters
  /\ target = [h \in Harvesters |-> None]
  /\ commod = [h \in Harvesters |-> None]
  /\ builtUp = [h \in Harvesters |-> 0]

Next ==
  \/ \E h \in Harvesters : CycleHarvester(h) \/ AbortHarvest(h) \/ SwitchPower(h)
  \/ \E h \in Harvesters, r \in Resources, c \in Commods : Harvest(h, r, c)
  \/ \E r \in Resources : CycleResource(r)
  \/ \E p \in Pods : \/ PodExpires(p)
                     \/ \E b \in Bays : Jettison(b, p) \/ Collect(Owner[b], p)
  \/ \E k, d \in Bays \cup Warehouses, c \in Commods, n \in Loads : TransferCargo(k, d, c, n)
  \/ \E c \in Commods : DelCommodity(c)
  \/ Restart

Spec == Init /\ [][Next]_vars
-----------------------------------------------------------------------------
(* No bay is ever fuller than it is large, although a harvester looks at   *)
(* this cycle's yield only and hands over what it had built up as well.    *)
TypeOK ==
  /\ commods \subseteq Commods /\ alive \subseteq Resources \cup Pods
  /\ cargo \in [Holders -> [Commods -> Int]]
  /\ \A k \in Holders \ Resources, c \in Commods :
       cargo[k][c] >= 0 /\ cargo[k][c] % Grain = 0
  /\ \A b \in Bays : TotalCargo(cargo[b]) <= Space[b]
  /\ powered \subseteq Harvesters
  /\ target \in [Harvesters -> Resources \cup {None}]
  /\ commod \in [Harvesters -> Commods \cup {None}]
  /\ builtUp \in [Harvesters -> 0..Grain]

(* All there is of a commodity, in containers and on the way. *)
Total(c) ==
  SumFunction([k \in Holders |-> AtLeast(0, cargo[k][c])])
    + SumFunction([h \in Harvesters |-> IF commod[h] = c THEN builtUp[h] ELSE 0])

(* Cargo is made by resources that generate it and harvested from those    *)
(* without end (or deleted); everything else only moves it.                *)
CargoHasASource ==
  [][\A c \in Commods : Total(c)' > Total(c) =>
       \/ \E r \in Resources : CycleResource(r) /\ Generates[r][c] > 0
       \/ \E h \in Harvesters : commod[h] = c /\ Endless(h)]_vars

(* Cargo is lost with a pod that expires.  All that is lost otherwise is   *)
(* what a harvester had not handed over, and then nothing else moves.      *)
CargoIsNotLost ==
  [][\A c \in Commods : Total(c)' < Total(c) =>
       cargo' = cargo \/ \E p \in Pods : PodExpires(p)]_vars

(* After a commodity is deleted no cargo item refers to it: "Find -ALL-    *)
(* locations in the universe holding cargo and make sure this isn't        *)
(* referenced in any cargo item anymore." (HSDB.cpp:856)                   *)
NoCargoOfDeleted ==
  \A k \in Holders, c \in Commods : cargo[k][c] # 0 => c \in commods
=============================================================================
