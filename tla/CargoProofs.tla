---------------------------- MODULE CargoProofs ----------------------------
(***************************************************************************)
(* Theorems about Cargo, for any commodities, bays, yields and sizes: bays *)
(* are never overfilled, and cargo comes from somewhere and goes nowhere.  *)
(***************************************************************************)
EXTENDS Cargo, Sums

-----------------------------------------------------------------------------
(* Whole units: multiples of g. *)

(* Division with remainder, as the provers need to be told it.             *)
LEMMA Division ==
  ASSUME NEW g \in Nat \ {0}, NEW x \in Int
  PROVE  /\ x \div g \in Int /\ x % g \in 0..(g - 1)
         /\ x = g * (x \div g) + (x % g)
<1>1. x \div g \in Int /\ x % g \in 0..(g - 1)
  OBVIOUS
<1>2. g * (x \div g) \in Int /\ x - g * (x \div g) = x % g
  OBVIOUS
<1> QED BY ONLY <1>1, <1>2, x \in Int

(* A multiple of a unit is whole, and counts its units.                    *)
LEMMA MultipleIsWhole ==
  ASSUME NEW g \in Nat \ {0}, NEW a \in Int
  PROVE  (g * a) % g = 0 /\ (g * a) \div g = a
<1> DEFINE q == (g * a) \div g
           r == (g * a) % g
<1>1. g * a \in Int
  OBVIOUS
<1>2. q \in Int /\ r \in 0..(g - 1) /\ g * a = g * q + r
  BY <1>1, Division
<1> HIDE DEF q, r
<1>3. g * (a - q) = r
  <2>1. g * (a - q) = g * a - g * q /\ g * q \in Int
    BY ONLY <1>2, g \in Nat \ {0}, a \in Int
  <2> QED BY <1>1, <1>2, <2>1
<1>4. a - q < 1
  <2>1. ASSUME a - q >= 1 PROVE FALSE
    <3>1. g * (a - q) >= g
      BY ONLY <1>2, <2>1, g \in Nat \ {0}, a \in Int
    <3> QED BY ONLY <1>2, <1>3, <3>1, g \in Nat \ {0}
  <2> QED BY <1>2, <2>1
<1>5. a - q > -1
  <2>1. ASSUME a - q <= -1 PROVE FALSE
    <3>1. g * (a - q) <= -g
      BY ONLY <1>2, <2>1, g \in Nat \ {0}, a \in Int
    <3> QED BY ONLY <1>2, <1>3, <3>1, g \in Nat \ {0}
  <2> QED BY <1>2, <2>1
<1>6. a = q
  BY <1>2, <1>4, <1>5
<1>7. r = 0
  BY ONLY <1>2, <1>3, <1>6, g \in Nat \ {0}, a \in Int
<1> QED BY <1>6, <1>7 DEF q, r

(* What is whole is so many units. *)
LEMMA WholeIsMultiple ==
  ASSUME NEW g \in Nat \ {0}, NEW x \in Int, x % g = 0
  PROVE  x \div g \in Int /\ x = g * (x \div g)
BY Division

(* Whole amounts add and subtract unit by unit.                            *)
LEMMA WholeAdds ==
  ASSUME NEW g \in Nat \ {0}, NEW x \in Int, NEW y \in Int, x % g = 0, y % g = 0
  PROVE  /\ (x + y) % g = 0 /\ (x - y) % g = 0
         /\ (x + y) \div g = x \div g + y \div g
         /\ (x - y) \div g = x \div g - y \div g
<1> DEFINE a == x \div g
           b == y \div g
<1>1. a \in Int /\ b \in Int /\ x = g * a /\ y = g * b
  BY WholeIsMultiple
<1> HIDE DEF a, b
<1>2. x + y = g * (a + b) /\ x - y = g * (a - b)
  BY ONLY <1>1, g \in Nat \ {0}
<1>3. a + b \in Int /\ a - b \in Int
  BY <1>1
<1>4. /\ (g * (a + b)) % g = 0 /\ (g * (a + b)) \div g = a + b
      /\ (g * (a - b)) % g = 0 /\ (g * (a - b)) \div g = a - b
  BY ONLY <1>3, MultipleIsWhole, g \in Nat \ {0}
<1> QED BY ONLY <1>2, <1>4 DEF a, b

(* A sum of whole amounts is whole.                                        *)
LEMMA WholeSum ==
  ASSUME NEW g \in Nat \ {0}, NEW f, NEW S, IsFiniteSet(S),
         \A x \in S : f[x] \in Int /\ f[x] % g = 0
  PROVE  SumFunctionOnSet(f, S) \in Int /\ SumFunctionOnSet(f, S) % g = 0
<1> DEFINE h == [x \in S |-> f[x] \div g]
<1>1. \A x \in S : h[x] \in Int /\ f[x] = g * h[x]
  BY WholeIsMultiple
<1> HIDE DEF h
<1>2. SumFunctionOnSet(f, S) = g * SumFunctionOnSet(h, S) /\ SumFunctionOnSet(h, S) \in Int
  BY <1>1, SumOfMultiples, SumIsInt
<1>3. g * SumFunctionOnSet(h, S) \in Int
  BY ONLY <1>2, g \in Nat \ {0}
<1> QED BY <1>2, <1>3, MultipleIsWhole

-----------------------------------------------------------------------------
(* Pieces that lie end to end, in the order pos, and an interval: the      *)
(* parts of the pieces that lie in the interval are no more than it holds. *)

Overlap(start, length, low, high) ==
  AtLeast(0, AtMost(start + length, high) - AtLeast(start, low))

Clamped(x, low, high) == AtLeast(low, AtMost(x, high))

(* Two pieces share no less than nothing.                                  *)
LEMMA OverlapIsNat ==
  ASSUME NEW start \in Int, NEW length \in Int, NEW low \in Int, NEW high \in Int
  PROVE  Overlap(start, length, low, high) \in Nat
BY DEF Overlap, AtLeast, AtMost

(* What a piece has within bounds is how far it moves a clamped position.  *)
LEMMA OverlapIsStep ==
  ASSUME NEW start \in Int, NEW length \in Nat, NEW low \in Int, NEW high \in Int, low <= high
  PROVE  Overlap(start, length, low, high)
           = Clamped(start + length, low, high) - Clamped(start, low, high)
BY DEF Overlap, Clamped, AtLeast, AtMost

(* A clamped position is within the bounds.                                *)
LEMMA ClampedIsWithin ==
  ASSUME NEW x \in Int, NEW low \in Int, NEW high \in Int, low <= high
  PROVE  Clamped(x, low, high) \in low..high
BY DEF Clamped, AtLeast, AtMost

(* Of finitely many pieces one lies last. *)
LEMMA LastPiece ==
  ASSUME NEW T, IsFiniteSet(T), T # {}, NEW pos, \A x \in T : pos[x] \in Int
  PROVE  \E x \in T : \A y \in T : pos[y] <= pos[x]
<1> DEFINE R == {pos[x] : x \in T}
           f == [x \in T |-> pos[x]]
<1>1. f \in Surjection(T, R)
  <2>1. f \in [T -> R] /\ \A r \in R : \E x \in T : f[x] = r
    OBVIOUS
  <2> QED BY <2>1 DEF Surjection
<1>2. IsFiniteSet(R)
  BY <1>1, FS_Surjection
<1>3. R \subseteq Int /\ R # {}
  OBVIOUS
<1>4. PICK r \in R : \A q \in R : r >= q
  BY <1>2, <1>3, FiniteHasGreatest
<1>5. PICK x \in T : r = pos[x]
  OBVIOUS
<1> QED BY <1>3, <1>4, <1>5

(* Some piece of a finite set lies before all others.                      *)
LEMMA FirstPiece ==
  ASSUME NEW T, IsFiniteSet(T), T # {}, NEW pos, \A x \in T : pos[x] \in Int
  PROVE  \E x \in T : \A y \in T : pos[x] <= pos[y]
<1> DEFINE neg == [x \in T |-> -pos[x]]
<1>1. \A x \in T : neg[x] \in Int /\ neg[x] = -pos[x]
  OBVIOUS
<1> HIDE DEF neg
<1>2. PICK x \in T : \A y \in T : neg[y] <= neg[x]
  BY <1>1, LastPiece
<1>3. \A y \in T : pos[x] <= pos[y]
  BY <1>1, <1>2
<1> QED BY <1>3

(* The pieces that lie before another. *)
Before(S, pos, x) == {y \in S : pos[y] < pos[x]}

(* Pieces laid end to end fill no more of an interval than its length.     *)
LEMMA PiecesFit ==
  ASSUME NEW S, IsFiniteSet(S), NEW length, \A x \in S : length[x] \in Nat,
         NEW pos, \A x \in S : pos[x] \in Int, \A x, y \in S : pos[x] = pos[y] => x = y,
         NEW low \in Int, NEW high \in Int, low <= high, NEW part,
         \A x \in S :
           part[x] = Overlap(SumFunctionOnSet(length, Before(S, pos, x)), length[x], low, high)
  PROVE  SumFunctionOnSet(part, S) <= high - low
<1> USE DEF Before
<1> DEFINE Closed(T) == \A x \in T : \A y \in S : pos[y] < pos[x] => y \in T
           L(T) == SumFunctionOnSet(length, T)
           A(T) == SumFunctionOnSet(part, T)
           C(x) == Clamped(x, low, high)
           P == {T \in SUBSET S : Closed(T) => A(T) = C(L(T)) - C(0)}
<1>0. \A T \in SUBSET S : IsFiniteSet(T) /\ L(T) \in Nat
  BY FS_Subset, SumIsNat
<1>1. ASSUME NEW x \in S PROVE part[x] \in Nat
  <2> DEFINE B == {y \in S : pos[y] < pos[x]}
  <2>1. L(B) \in Nat /\ length[x] \in Nat
    BY <1>0
  <2>2. part[x] = Overlap(L(B), length[x], low, high)
    OBVIOUS
  <2> HIDE DEF L, B
  <2>3. ASSUME NEW m \in Nat, NEW n \in Nat PROVE Overlap(m, n, low, high) \in Nat
    BY OverlapIsNat
  <2> QED BY ONLY <2>1, <2>2, <2>3
<1>2. \A x \in Int : C(x) \in low..high
  BY ClampedIsWithin
<1>3. ASSUME NEW T \in SUBSET S, \A U \in SUBSET T : U # T => U \in P
      PROVE  T \in P
  <2> SUFFICES ASSUME Closed(T) PROVE A(T) = C(L(T)) - C(0)
    OBVIOUS
  <2>1. CASE T = {}
    <3>1. L(T) = 0 /\ A(T) = 0
      BY <2>1, SumEmpty
    <3> HIDE DEF L, A, C
    <3> QED BY <1>2, <3>1
  <2>2. CASE T # {}
    <3>1. PICK x \in T : \A y \in T : pos[y] <= pos[x]
      BY <1>0, <2>2, LastPiece
    <3> DEFINE R == T \ {x}
    <3>2. R = {y \in S : pos[y] < pos[x]}
      BY <3>1
    <3>3. Closed(R)
      BY <3>1
    <3>4. R \in SUBSET T /\ R # T /\ R \in SUBSET S
      OBVIOUS
    <3>5. A(R) = C(L(R)) - C(0)
      BY <1>3, <3>3, <3>4
    <3>6. L(T) = length[x] + L(R) /\ A(T) = part[x] + A(R)
      BY <1>0, <1>1, SumWithout
    <3>7. part[x] = Overlap(L(R), length[x], low, high)
      BY <3>2
    <3>8. L(R) \in Nat /\ length[x] \in Nat /\ L(T) \in Nat
      BY <1>0, <3>4
    <3> HIDE DEF L, A, R
    <3>9. ASSUME NEW m \in Nat, NEW n \in Nat
          PROVE  Overlap(m, n, low, high) = C(m + n) - C(m)
      <4>1. /\ m \in Int /\ n \in Nat /\ low \in Int /\ high \in Int /\ low <= high
        OBVIOUS
      <4> QED BY ONLY <4>1, OverlapIsStep DEF C
    <3> HIDE DEF C
    <3>10. part[x] = C(L(R) + length[x]) - C(L(R))
      BY ONLY <3>7, <3>8, <3>9
    <3>11. C(L(T)) \in Int /\ C(L(R)) \in Int /\ C(0) \in Int
      BY <1>2, <3>8
    <3>12. L(R) + length[x] = L(T)
      BY ONLY <3>6, <3>8
    <3> QED BY ONLY <3>5, <3>6, <3>10, <3>11, <3>12
  <2> QED BY <2>1, <2>2
<1>4. S \in P
  <2> HIDE DEF P
  <2> QED BY <1>3, SubsetInduction
<1>5. A(S) = C(L(S)) - C(0)
  BY <1>4
<1> HIDE DEF L, A, C
<1> QED BY <1>0, <1>2, <1>5 DEF A

-----------------------------------------------------------------------------
(* What containers hold. *)

(* Amounts of whole units. *)
Whole == {items \in [Commods -> Nat] : \A c \in Commods : items[c] % Grain = 0}

(* The sets the sums range over are finite.                                *)
LEMMA FiniteParts ==
  /\ IsFiniteSet(Commods) /\ IsFiniteSet(Holders) /\ IsFiniteSet(Harvesters)
  /\ IsFiniteSet(Bays) /\ Grain \in Nat \ {0}
  /\ \A s : BaysOf(s) \subseteq Bays /\ IsFiniteSet(BaysOf(s))
<1>1. IsFiniteSet(Commods) /\ IsFiniteSet(Holders) /\ IsFiniteSet(Harvesters) /\ Grain \in Nat \ {0}
  BY CargoAssumption
<1>2. Bays \in SUBSET Holders /\ \A s : BaysOf(s) \in SUBSET Holders /\ BaysOf(s) \subseteq Bays
  BY DEF Holders, BaysOf
<1> QED BY <1>1, <1>2, FS_Subset

(* The first of some bays is one of them.                                  *)
LEMMA FirstIsOne ==
  ASSUME NEW bs \in SUBSET Bays, bs # {}
  PROVE  First(bs) \in bs
<1>1. IsFiniteSet(bs)
  BY FiniteParts, FS_Subset
<1>2. \A b \in bs : Position[b] \in Int
  BY CargoAssumption
<1>3. \E b \in bs : \A d \in bs : Position[b] <= Position[d]
  BY <1>1, <1>2, FirstPiece
<1> QED BY <1>3 DEF First

(* Everything but a resource holds whole units.                            *)
LEMMA WholeCargo ==
  ASSUME TypeOK, NEW k \in Holders \ Resources
  PROVE  cargo[k] \in Whole
BY DEF TypeOK, Whole

(* The empty load is one of whole units.                                   *)
LEMMA NothingIsWhole == Nothing \in Whole
<1>1. \A c \in Commods : 0 % Grain = 0
  BY FiniteParts
<1> QED BY <1>1 DEF Nothing, Whole

(* The units of a load, and its size in grains. *)
LEMMA TotalOfWhole ==
  ASSUME NEW items \in Whole
  PROVE  /\ TotalCargo(items) \in Nat
         /\ SumFunctionOnSet(items, Commods) \in Nat
         /\ SumFunctionOnSet(items, Commods) = Grain * TotalCargo(items)
<1> DEFINE units == [c \in Commods |-> items[c] \div Grain]
<1>1. \A c \in Commods : items[c] \in Nat /\ items[c] % Grain = 0
  BY DEF Whole
<1>2. ASSUME NEW x \in Nat, x % Grain = 0
      PROVE  x \div Grain \in Nat /\ x = Grain * (x \div Grain)
  BY <1>2, FiniteParts, Division
<1>3. \A c \in Commods : units[c] \in Nat /\ items[c] = Grain * units[c]
  BY <1>1, <1>2
<1>4. TotalCargo(items) = SumFunctionOnSet(units, Commods)
  BY DEF TotalCargo, SumFunction
<1> HIDE DEF units
<1> QED BY <1>1, <1>3, <1>4, FiniteParts, SumIsNat, SumOfMultiples

(* The empty load counts no units.                                         *)
LEMMA NothingHasNoUnits == TotalCargo(Nothing) = 0
<1>1. TotalCargo(Nothing) = SumFunctionOnSet([c \in Commods |-> Nothing[c] \div Grain], Commods)
  BY DEF TotalCargo, SumFunction
<1>2. \A c \in Commods : [d \in Commods |-> Nothing[d] \div Grain][c] = 0
  <2>1. 0 \div Grain = 0
    BY FiniteParts
  <2> QED BY <2>1 DEF Nothing
<1> QED BY <1>1, <1>2, FiniteParts, SumOfZeros

(* A load that counts no units is empty, since none of its items is        *)
(* negative.                                                               *)
LEMMA NoUnitsIsNothing ==
  ASSUME NEW items \in Whole, TotalCargo(items) = 0
  PROVE  items = Nothing
<1>1. SumFunctionOnSet(items, Commods) = 0
  <2>1. Grain * 0 = 0
    BY FiniteParts
  <2> QED BY <2>1, TotalOfWhole
<1>2. \A c \in Commods : items[c] \in Nat
  BY DEF Whole
<1>3. \A c \in Commods : items[c] = 0
  BY <1>1, <1>2, FiniteParts, SumOfTerm
<1> QED BY <1>3 DEF Whole, Nothing

(* So many units more or less of one commodity. *)
LEMMA UnitsAdded ==
  ASSUME NEW items \in Whole, NEW more, NEW c \in Commods, NEW n \in Int,
         items[c] + Grain * n >= 0,
         more = [items EXCEPT ![c] = items[c] + Grain * n]
  PROVE  more \in Whole /\ TotalCargo(more) = TotalCargo(items) + n
<1> DEFINE units(i) == [d \in Commods |-> i[d] \div Grain]
<1>1. /\ items \in [Commods -> Nat] /\ \A d \in Commods : items[d] % Grain = 0
  BY DEF Whole
<1>g. Grain \in Nat \ {0} /\ n \in Int
  BY FiniteParts
<1>m. Grain * n \in Int /\ (Grain * n) % Grain = 0 /\ (Grain * n) \div Grain = n
  BY ONLY <1>g, MultipleIsWhole
<1>2. /\ more[c] \in Nat /\ more[c] % Grain = 0
      /\ more[c] \div Grain = items[c] \div Grain + n
  <2>1. more[c] = items[c] + Grain * n /\ items[c] \in Nat /\ items[c] % Grain = 0
    BY <1>1
  <2> DEFINE x == items[c]
             z == Grain * n
  <2>2. x \in Int /\ x % Grain = 0 /\ z \in Int /\ z % Grain = 0
    BY <1>m, <2>1
  <2>3. (x + z) % Grain = 0 /\ (x + z) \div Grain = x \div Grain + z \div Grain
    <3> HIDE DEF x, z
    <3> QED BY ONLY <1>g, <2>2, WholeAdds
  <2> QED BY <1>m, <2>1, <2>2, <2>3
<1>3. /\ more \in [Commods -> Nat]
      /\ \A d \in Commods \ {c} : more[d] = items[d]
  BY <1>1, <1>2
<1>4. more \in Whole
  BY <1>1, <1>2, <1>3 DEF Whole
<1>5. /\ \A d \in Commods : units(items)[d] \in Int /\ units(more)[d] \in Int
      /\ \A d \in Commods \ {c} : units(more)[d] = units(items)[d]
      /\ units(more)[c] = units(items)[c] + n
  <2>1. ASSUME NEW x \in Nat PROVE x \div Grain \in Int
    BY FiniteParts
  <2> QED BY <1>1, <1>2, <1>3, <2>1
<1>6. /\ TotalCargo(items) = SumFunctionOnSet(units(items), Commods)
      /\ TotalCargo(more) = SumFunctionOnSet(units(more), Commods)
  BY DEF TotalCargo, SumFunction
<1> HIDE DEF units
<1>7. SumFunctionOnSet(units(more), Commods)
        = SumFunctionOnSet(units(items), Commods) - units(items)[c] + units(more)[c]
  <2> DEFINE u == units(items)
             v == units(more)
  <2>1. /\ \A d \in Commods : u[d] \in Int /\ v[d] \in Int
        /\ \A d \in Commods \ {c} : v[d] = u[d]
    BY <1>5
  <2> HIDE DEF u, v
  <2>2. SumFunctionOnSet(v, Commods) = SumFunctionOnSet(u, Commods) - u[c] + v[c]
    BY ONLY <2>1, FiniteParts, SumChanged, c \in Commods
  <2> QED BY <2>2 DEF u, v
<1>8. TotalCargo(items) \in Int
  BY TotalOfWhole
<1> QED BY <1>4, <1>5, <1>6, <1>7, <1>8

(* Setting an amount that is not negative stores it, if the commodity is   *)
(* on the list.                                                            *)
LEMMA AmountIsSet ==
  ASSUME NEW known, NEW k, NEW c, NEW amount \in Nat
  PROVE  Set(known, k, c, amount) = IF c \in known THEN amount ELSE cargo[k][c]
BY DEF Set

(* What a harvester hands over fits where there is more room than this     *)
(* cycle's yield, and with what remains it is what there was.              *)
LEMMA HandedOverFits ==
  ASSUME NEW before \in 0..Grain, NEW y \in Nat, NEW free \in Int, Grain * free > y
  PROVE  LET result == HandedOver(before + y)
         IN  /\ result.units \in Nat /\ result.units <= free
             /\ result.rest \in 0..Grain
             /\ Grain * result.units + result.rest = before + y
<1> DEFINE sum == before + y
<1>1. sum \in Nat /\ Grain \in Nat \ {0} /\ Grain * free \in Int
  BY FiniteParts
<1> HIDE DEF sum
<1>2. /\ sum \div Grain \in Int /\ sum % Grain \in 0..(Grain - 1)
      /\ sum = Grain * (sum \div Grain) + (sum % Grain)
  BY <1>1, Division
<1>3. free \in Nat
  <2>1. ASSUME free <= 0 PROVE FALSE
    <3>1. Grain * free <= 0
      BY ONLY <1>1, <2>1, free \in Int
    <3> QED BY ONLY <1>1, <3>1, y \in Nat, Grain * free > y
  <2> QED BY <2>1
<1>4. CASE sum > Grain
  <2> DEFINE q == sum \div Grain
  <2>1. q \in Int /\ Grain * q <= sum /\ Grain * q \in Int
    BY ONLY <1>1, <1>2
  <2> HIDE DEF q
  <2>2. q <= free
    <3>1. ASSUME q >= free + 1 PROVE FALSE
      <4>1. Grain * q >= Grain * free + Grain
        BY ONLY <1>1, <1>3, <2>1, <3>1
      <4> QED BY <1>1, <2>1, <4>1 DEF sum
    <3> QED BY <1>3, <2>1, <3>1
  <2>3. q \in Nat
    BY <1>1 DEF q
  <2>4. HandedOver(sum) = [units |-> q, rest |-> sum % Grain]
    BY <1>4 DEF HandedOver, q
  <2>5. sum % Grain \in 0..Grain /\ Grain * q + (sum % Grain) = sum
    BY <1>1, <1>2 DEF q
  <2> QED BY <2>2, <2>3, <2>4, <2>5 DEF sum
<1>5. CASE ~(sum > Grain)
  <2>1. HandedOver(sum) = [units |-> 0, rest |-> sum]
    BY <1>5 DEF HandedOver
  <2>2. Grain * 0 + sum = sum /\ 0 <= free
    BY ONLY <1>1, <1>3
  <2>3. sum \in 0..Grain
    BY ONLY <1>1, <1>5
  <2> QED BY <2>1, <2>2, <2>3 DEF sum
<1> QED BY <1>4, <1>5

-----------------------------------------------------------------------------
(* The type invariant in two parts, with the amounts as loads. *)
CargoOK ==
  /\ cargo \in [Holders -> [Commods -> Int]]
  /\ \A k \in Holders \ Resources : cargo[k] \in Whole
  /\ \A b \in Bays : TotalCargo(cargo[b]) <= Space[b]

HarvestOK ==
  /\ commods \subseteq Commods /\ alive \subseteq Resources \cup Pods
  /\ powered \subseteq Harvesters
  /\ target \in [Harvesters -> Resources \cup {None}]
  /\ commod \in [Harvesters -> Commods \cup {None}]
  /\ builtUp \in [Harvesters -> 0..Grain]

(* The type of the variables, in two parts: the loads and the harvesters.  *)
LEMMA TypeParts ==
  (TypeOK <=> CargoOK /\ HarvestOK) /\ (TypeOK' <=> CargoOK' /\ HarvestOK')
<1>1. TypeOK <=> CargoOK /\ HarvestOK
  <2>1. ASSUME cargo \in [Holders -> [Commods -> Int]]
        PROVE  (\A k \in Holders \ Resources : cargo[k] \in Whole)
                 <=> (\A k \in Holders \ Resources, c \in Commods :
                        cargo[k][c] >= 0 /\ cargo[k][c] % Grain = 0)
    BY <2>1 DEF Whole
  <2> QED BY <2>1 DEF TypeOK, CargoOK, HarvestOK
<1>2. TypeOK' <=> CargoOK' /\ HarvestOK'
  <2>1. ASSUME cargo' \in [Holders -> [Commods -> Int]]
        PROVE  (\A k \in Holders \ Resources : cargo'[k] \in Whole)
                 <=> (\A k \in Holders \ Resources, c \in Commods :
                        cargo'[k][c] >= 0 /\ cargo'[k][c] % Grain = 0)
    BY <2>1 DEF Whole
  <2> QED BY <2>1 DEF TypeOK, CargoOK, HarvestOK
<1> QED BY <1>1, <1>2

(* Bays, warehouses and pods are no resources, and are what they are. *)
LEMMA Kinds ==
  /\ Bays \subseteq Holders \ Resources /\ Warehouses \subseteq Holders \ Resources
  /\ Pods \subseteq Holders \ Resources /\ Resources \subseteq Holders
  /\ Pods \cap Bays = {} /\ Pods \cap Warehouses = {} /\ Bays \cap Warehouses = {}
BY CargoAssumption DEF Holders

(* The space left in a bay is never negative.                              *)
LEMMA RoomIsFree ==
  ASSUME CargoOK, NEW b \in Bays
  PROVE  FreeSpace(b) \in Nat /\ Space[b] \in Nat /\ TotalCargo(cargo[b]) \in Nat
<1>1. cargo[b] \in Whole /\ TotalCargo(cargo[b]) <= Space[b]
  BY Kinds DEF CargoOK
<1>2. Space[b] \in Nat /\ TotalCargo(cargo[b]) \in Nat
  BY <1>1, TotalOfWhole, CargoAssumption
<1> QED BY <1>1, <1>2 DEF FreeSpace

(* A cycle that harvests: what goes where. *)
Extracted(h, y, r, c, bay, units, rest) ==
  /\ Grain * units + rest = builtUp[h] + y
  /\ units <= FreeSpace(bay) /\ (y = 0 => units = 0)
  /\ Endless(h) \/ (cargo[r][c] >= 0 /\ (c \in commods => cargo[r][c] >= y)
                     /\ (c \notin commods => y = 0))
  /\ builtUp' = [builtUp EXCEPT ![h] = rest]
  /\ cargo' = [k \in Holders |->
       CASE k = r /\ ~Endless(h) -> [cargo[k] EXCEPT ![c] = cargo[k][c] - y]
         [] k = bay /\ c \in commods ->
              [cargo[k] EXCEPT ![c] = cargo[k][c] + Grain * units]
         [] OTHER -> cargo[k]]

(* What a harvester that is not cancelled does in a cycle: it takes whole  *)
(* units out into one bay that has the room for them and keeps the rest.   *)
LEMMA Extraction ==
  ASSUME CargoOK, HarvestOK, NEW h \in Harvesters, NEW y \in Nat,
         target[h] # None, commod[h] # None, Extract(h, y)
  PROVE  \E bay \in Bays, units \in Nat, rest \in 0..Grain :
           Extracted(h, y, target[h], commod[h], bay, units, rest)
<1> DEFINE r == target[h]
           c == commod[h]
           bay == First(WithRoom(Owner[h], y))
           result == HandedOver(builtUp[h] + y)
<1>1. r \in Resources /\ c \in Commods /\ builtUp[h] \in 0..Grain
  BY DEF HarvestOK
<1>2. WithRoom(Owner[h], y) \in SUBSET Bays /\ WithRoom(Owner[h], y) # {}
  BY DEF Extract, WithRoom, BaysOf
<1>3. bay \in WithRoom(Owner[h], y)
  BY <1>2, FirstIsOne
<1>4. bay \in Bays /\ Grain * FreeSpace(bay) > y
  BY <1>2, <1>3 DEF WithRoom
<1>5. FreeSpace(bay) \in Int
  BY <1>4, RoomIsFree
<1>6. /\ result.units \in Nat /\ result.units <= FreeSpace(bay)
      /\ result.rest \in 0..Grain
      /\ Grain * result.units + result.rest = builtUp[h] + y
  BY <1>1, <1>4, <1>5, HandedOverFits
<1>u. y = 0 => result.units = 0
  BY <1>1, FiniteParts DEF HandedOver
<1>7. /\ cargo[r] \in [Commods -> Int] /\ cargo[bay] \in [Commods -> Nat]
      /\ bay # r
  BY <1>1, <1>4, Kinds DEF CargoOK, Whole
<1>8. /\ Endless(h) \/ CargoForCommodity(r, c) >= y
      /\ builtUp' = [builtUp EXCEPT ![h] = result.rest]
      /\ cargo' = [k \in Holders |->
           CASE k = r /\ ~Endless(h) ->
                  [cargo[k] EXCEPT ![c] = Set(commods, k, c, cargo[k][c] - y)]
             [] k = bay /\ result.units > 0 ->
                  [cargo[k] EXCEPT ![c] = Set(commods, k, c, cargo[k][c] + Grain * result.units)]
             [] OTHER -> cargo[k]]
  BY <1>1, <1>7 DEF Extract
<1> HIDE DEF bay, result, r, c
<1>9. Endless(h) \/ (cargo[r][c] >= 0 /\ (c \in commods => cargo[r][c] >= y)
                       /\ (c \notin commods => y = 0))
  BY <1>1, <1>7, <1>8 DEF Endless, CargoForCommodity, r, c
<1>10. ~Endless(h) => Set(commods, r, c, cargo[r][c] - y) = cargo[r][c] - y
  BY <1>1, <1>7, <1>9 DEF Set
<1>11. Grain * result.units \in Nat
  BY <1>6, FiniteParts
<1>12. Set(commods, bay, c, cargo[bay][c] + Grain * result.units)
         = IF c \in commods THEN cargo[bay][c] + Grain * result.units ELSE cargo[bay][c]
  BY <1>1, <1>7, <1>11, AmountIsSet
<1>13. /\ c \notin commods => [cargo[bay] EXCEPT ![c] = cargo[bay][c]] = cargo[bay]
       /\ result.units = 0 =>
            [cargo[bay] EXCEPT ![c] = cargo[bay][c] + Grain * result.units] = cargo[bay]
  <2>1. [cargo[bay] EXCEPT ![c] = cargo[bay][c]] = cargo[bay]
    BY <1>7
  <2>2. result.units = 0 => cargo[bay][c] + Grain * result.units = cargo[bay][c]
    BY <1>1, <1>7, FiniteParts
  <2> QED BY <2>1, <2>2
<1>14. cargo' = [k \in Holders |->
         CASE k = r /\ ~Endless(h) -> [cargo[k] EXCEPT ![c] = cargo[k][c] - y]
           [] k = bay /\ c \in commods ->
                [cargo[k] EXCEPT ![c] = cargo[k][c] + Grain * result.units]
           [] OTHER -> cargo[k]]
  <2> SUFFICES ASSUME NEW k \in Holders
      PROVE (CASE k = r /\ ~Endless(h) ->
                  [cargo[k] EXCEPT ![c] = Set(commods, k, c, cargo[k][c] - y)]
             [] k = bay /\ result.units > 0 ->
                  [cargo[k] EXCEPT ![c] = Set(commods, k, c, cargo[k][c] + Grain * result.units)]
             [] OTHER -> cargo[k])
          = (CASE k = r /\ ~Endless(h) -> [cargo[k] EXCEPT ![c] = cargo[k][c] - y]
           [] k = bay /\ c \in commods ->
                [cargo[k] EXCEPT ![c] = cargo[k][c] + Grain * result.units]
           [] OTHER -> cargo[k])
    BY <1>8
  <2>1. CASE k = r
    BY <1>7, <1>10, <2>1
  <2>2. CASE k = bay
    BY <1>6, <1>7, <1>12, <1>13, <2>2
  <2>3. CASE k # r /\ k # bay
    BY <2>3
  <2> QED BY <2>1, <2>2, <2>3
<1> QED BY <1>4, <1>6, <1>u, <1>8, <1>9, <1>14 DEF Extracted, r, c

-----------------------------------------------------------------------------
(* Collecting a pod: items and bays are pieces of one row, and what is     *)
(* stored of an item in a bay is where they overlap.                       *)
ItemSize(p) == [c \in Commods |-> CargoForCommodity(p, c)]
BayRoom == [b \in Bays |-> Grain * FreeSpace(b)]

(* What two pieces share does not depend on which is named first.          *)
LEMMA OverlapCommutes ==
  ASSUME NEW i \in Int, NEW m \in Int, NEW j \in Int, NEW n \in Int
  PROVE  Overlap(i, m, j, j + n) = Overlap(j, n, i, i + m)
BY DEF Overlap, AtLeast, AtMost

(* Pieces with whole ends share whole units.                               *)
LEMMA OverlapIsWhole ==
  ASSUME NEW i \in Int, NEW m \in Int, NEW j \in Int, NEW n \in Int,
         i % Grain = 0, m % Grain = 0, j % Grain = 0, n % Grain = 0
  PROVE  Overlap(i, m, j, j + n) % Grain = 0
<1>1. Grain \in Nat \ {0}
  BY FiniteParts
<1>a. i \in Int /\ m \in Int /\ i % Grain = 0 /\ m % Grain = 0
  OBVIOUS
<1>b. j \in Int /\ n \in Int /\ j % Grain = 0 /\ n % Grain = 0
  OBVIOUS
<1>c. (i + m) % Grain = 0
  BY ONLY <1>1, <1>a, WholeAdds
<1>d. (j + n) % Grain = 0
  BY ONLY <1>1, <1>b, WholeAdds
<1>2. i + m \in Int /\ j + n \in Int /\ (i + m) % Grain = 0 /\ (j + n) % Grain = 0
  BY <1>a, <1>b, <1>c, <1>d
<1>3. ASSUME NEW x \in {i + m, j + n}, NEW z \in {i, j}
      PROVE  (x - z) % Grain = 0 /\ x - z \in Int
  <2>1. x \in Int /\ z \in Int /\ x % Grain = 0 /\ z % Grain = 0
    BY <1>2
  <2>2. (x - z) % Grain = 0
    BY ONLY <1>1, <2>1, WholeAdds
  <2> QED BY <2>1, <2>2
<1>4. 0 % Grain = 0
  BY <1>1
<1>5. AtMost(i + m, j + n) \in {i + m, j + n} /\ AtLeast(i, j) \in {i, j}
  BY DEF AtMost, AtLeast
<1>6. /\ AtMost(i + m, j + n) - AtLeast(i, j) \in Int
      /\ (AtMost(i + m, j + n) - AtLeast(i, j)) % Grain = 0
  BY <1>3, <1>5
<1> QED BY <1>4, <1>6 DEF Overlap, AtLeast

(* The items of a pod and the room of the bays are pieces of whole units.  *)
LEMMA PiecesAreWhole ==
  ASSUME CargoOK, NEW p \in Pods
  PROVE  /\ \A c \in Commods : /\ ItemSize(p)[c] \in Nat /\ ItemSize(p)[c] % Grain = 0
                               /\ ItemSize(p)[c] = CargoForCommodity(p, c)
                               /\ ItemSize(p)[c] <= cargo[p][c] /\ cargo[p][c] \in Nat
         /\ \A b \in Bays : /\ BayRoom[b] \in Nat /\ BayRoom[b] % Grain = 0
                            /\ BayRoom[b] = Grain * FreeSpace(b)
<1>1. ASSUME NEW c \in Commods
      PROVE  /\ CargoForCommodity(p, c) \in Nat /\ CargoForCommodity(p, c) % Grain = 0
             /\ CargoForCommodity(p, c) <= cargo[p][c] /\ cargo[p][c] \in Nat
  <2>1. cargo[p][c] \in Nat /\ cargo[p][c] % Grain = 0
    BY Kinds DEF CargoOK, Whole
  <2>2. 0 % Grain = 0
    BY FiniteParts
  <2> QED BY <2>1, <2>2 DEF CargoForCommodity
<1>2. ASSUME NEW b \in Bays
      PROVE  Grain * FreeSpace(b) \in Nat /\ (Grain * FreeSpace(b)) % Grain = 0
  <2>1. FreeSpace(b) \in Nat /\ Grain \in Nat \ {0}
    BY RoomIsFree, FiniteParts
  <2>2. Grain * FreeSpace(b) \in Nat
    BY ONLY <2>1
  <2> QED BY ONLY <2>1, <2>2, MultipleIsWhole
<1> QED BY <1>1, <1>2 DEF ItemSize, BayRoom

(* An item of a pod starts where those before it end.                      *)
LEMMA ItemStartSums ==
  ASSUME CargoOK, NEW p \in Pods, NEW order \in Orders, NEW c \in Commods
  PROVE  /\ ItemStart(p, order, c)
              = SumFunctionOnSet(ItemSize(p), Before(Commods, order, c))
         /\ ItemStart(p, order, c) \in Int /\ ItemStart(p, order, c) % Grain = 0
<1> DEFINE A == Before(Commods, order, c)
           m == [d \in Commods |-> IF d \in A THEN ItemSize(p)[d] ELSE 0]
<1>1. \A d \in Commods : ItemSize(p)[d] \in Int /\ ItemSize(p)[d] % Grain = 0
                         /\ ItemSize(p)[d] = CargoForCommodity(p, d)
  BY PiecesAreWhole
<1>2. m = [d \in Commods |-> IF order[d] < order[c] THEN CargoForCommodity(p, d) ELSE 0]
  BY <1>1 DEF Before
<1>3. ItemStart(p, order, c) = SumFunctionOnSet(m, Commods)
  BY <1>2 DEF ItemStart, SumFunction
<1>4. A \in SUBSET Commods /\ IsFiniteSet(A) /\ Grain \in Nat \ {0}
  <2>1. A \in SUBSET Commods
    BY DEF Before
  <2> QED BY <2>1, FiniteParts, FS_Subset
<1>5. SumFunctionOnSet(m, Commods) = SumFunctionOnSet(ItemSize(p), A)
  <2> HIDE DEF A
  <2> QED BY <1>1, <1>4, FiniteParts, SumOfMasked
<1>6. SumFunctionOnSet(ItemSize(p), A) \in Int /\ SumFunctionOnSet(ItemSize(p), A) % Grain = 0
  <2> HIDE DEF A
  <2> QED BY <1>1, <1>4, WholeSum
<1> QED BY <1>3, <1>5, <1>6

(* The room of a bay starts where that of the bays before it ends.         *)
LEMMA BayStartSums ==
  ASSUME CargoOK, NEW p \in Pods, NEW b \in Bays
  PROVE  /\ BayStart(b)
              = SumFunctionOnSet(BayRoom, Before(BaysOf(Owner[b]), Position, b))
         /\ BayStart(b) \in Int /\ BayStart(b) % Grain = 0
<1> DEFINE A == Before(BaysOf(Owner[b]), Position, b)
           m == [d \in Bays |-> IF d \in A THEN BayRoom[d] ELSE 0]
<1>1. \A d \in Bays : BayRoom[d] \in Int /\ BayRoom[d] % Grain = 0
                      /\ BayRoom[d] = Grain * FreeSpace(d)
  BY PiecesAreWhole
<1>2. m = [d \in Bays |-> IF Owner[d] = Owner[b] /\ Position[d] < Position[b]
                          THEN Grain * FreeSpace(d) ELSE 0]
  BY <1>1 DEF BaysOf, Before
<1>3. BayStart(b) = SumFunctionOnSet(m, Bays)
  BY <1>2 DEF BayStart, SumFunction
<1>4. A \in SUBSET Bays /\ IsFiniteSet(A) /\ Grain \in Nat \ {0}
  <2>1. A \in SUBSET Bays
    BY DEF BaysOf, Before
  <2> QED BY <2>1, FiniteParts, FS_Subset
<1>5. SumFunctionOnSet(m, Bays) = SumFunctionOnSet(BayRoom, A)
  <2> HIDE DEF A
  <2> QED BY <1>1, <1>4, FiniteParts, SumOfMasked
<1>6. SumFunctionOnSet(BayRoom, A) \in Int /\ SumFunctionOnSet(BayRoom, A) % Grain = 0
  <2> HIDE DEF A
  <2> QED BY <1>1, <1>4, WholeSum
<1> QED BY <1>3, <1>5, <1>6

(* What a bay takes of an item is the overlap of the item with its room.   *)
LEMMA StoredIsOverlap ==
  ASSUME CargoOK, NEW p \in Pods, NEW order \in Orders, NEW c \in Commods, NEW b \in Bays
  PROVE  /\ Stored(p, order, c, b)
              = Overlap(ItemStart(p, order, c), ItemSize(p)[c],
                        BayStart(b), BayStart(b) + BayRoom[b])
         /\ Stored(p, order, c, b)
              = Overlap(BayStart(b), BayRoom[b],
                        ItemStart(p, order, c), ItemStart(p, order, c) + ItemSize(p)[c])
         /\ Stored(p, order, c, b) \in Nat /\ Stored(p, order, c, b) % Grain = 0
<1> DEFINE i == ItemStart(p, order, c)
           m == ItemSize(p)[c]
           j == BayStart(b)
           n == BayRoom[b]
<1>1. /\ i \in Int /\ m \in Int /\ j \in Int /\ n \in Int
      /\ i % Grain = 0 /\ m % Grain = 0 /\ j % Grain = 0 /\ n % Grain = 0
  <2>1. i \in Int /\ i % Grain = 0
    BY ItemStartSums
  <2>2. j \in Int /\ j % Grain = 0
    BY BayStartSums
  <2>3. m \in Int /\ m % Grain = 0 /\ n \in Int /\ n % Grain = 0
    BY PiecesAreWhole
  <2> QED BY <2>1, <2>2, <2>3
<1>2. Stored(p, order, c, b) = Overlap(i, m, j, j + n)
  BY PiecesAreWhole DEF Stored, Overlap
<1> HIDE DEF i, m, j, n
<1>3. /\ Overlap(i, m, j, j + n) = Overlap(j, n, i, i + m)
      /\ Overlap(i, m, j, j + n) % Grain = 0
  BY ONLY <1>1, OverlapCommutes, OverlapIsWhole
<1>4. Overlap(i, m, j, j + n) \in Nat
  <2>1. j + n \in Int
    BY <1>1
  <2> QED BY ONLY <1>1, <2>1, OverlapIsNat
<1> QED BY <1>2, <1>3, <1>4 DEF i, m, j, n

(* A bay takes no more from a pod than it has room for.                    *)
LEMMA BayHolds ==
  ASSUME CargoOK, NEW p \in Pods, NEW order \in Orders, NEW b \in Bays, NEW in,
         in = [c \in Commods |-> Stored(p, order, c, b)]
  PROVE  in \in Whole /\ TotalCargo(in) <= FreeSpace(b)
<1>1. in \in Whole
  BY StoredIsOverlap DEF Whole
<1>2. \A c \in Commods : order[c] \in Int
  BY DEF Orders
<1>3. \A c, d \in Commods : order[c] = order[d] => c = d
  BY DEF Orders, IsInjective
<1>4. BayStart(b) \in Int /\ BayStart(b) + BayRoom[b] \in Int
      /\ BayStart(b) <= BayStart(b) + BayRoom[b] /\ BayRoom[b] \in Nat
  <2>1. BayStart(b) \in Int
    BY BayStartSums
  <2>2. BayRoom[b] \in Nat
    BY PiecesAreWhole
  <2> QED BY <2>1, <2>2
<1>5. \A c \in Commods : ItemSize(p)[c] \in Nat
  BY PiecesAreWhole
<1>6. \A c \in Commods :
        in[c] = Overlap(SumFunctionOnSet(ItemSize(p), Before(Commods, order, c)),
                        ItemSize(p)[c], BayStart(b), BayStart(b) + BayRoom[b])
  BY ItemStartSums, StoredIsOverlap
<1>7. SumFunctionOnSet(in, Commods) <= BayStart(b) + BayRoom[b] - BayStart(b)
  BY ONLY <1>2, <1>3, <1>4, <1>5, <1>6, FiniteParts, PiecesFit
<1>8. Grain * TotalCargo(in) <= Grain * FreeSpace(b)
  <2>1. SumFunctionOnSet(in, Commods) \in Nat
        /\ SumFunctionOnSet(in, Commods) = Grain * TotalCargo(in)
    BY <1>1, TotalOfWhole
  <2>2. BayRoom[b] = Grain * FreeSpace(b)
    BY PiecesAreWhole
  <2> QED BY <1>4, <1>7, <2>1, <2>2
<1>9. ASSUME NEW g \in Nat \ {0}, NEW x \in Nat, NEW z \in Nat, g * x <= g * z
      PROVE  x <= z
  <2>1. g * x \in Int /\ g * z \in Int
    OBVIOUS
  <2>2. ASSUME x >= z + 1 PROVE FALSE
    <3>1. g * x >= g * z + g
      BY ONLY <2>2, g \in Nat \ {0}, x \in Nat, z \in Nat
    <3> QED BY ONLY <1>9, <2>1, <3>1, g \in Nat \ {0}
  <2> QED BY <2>2
<1>10. TotalCargo(in) \in Nat /\ FreeSpace(b) \in Nat
  BY <1>1, TotalOfWhole, RoomIsFree
<1> QED BY <1>1, <1>8, <1>9, <1>10, FiniteParts

(* The bays of a ship take no more of an item than the pod has of it.      *)
LEMMA ItemLasts ==
  ASSUME CargoOK, NEW p \in Pods, NEW order \in Orders, NEW s, NEW c \in Commods, NEW out,
         out = [b \in BaysOf(s) |-> Stored(p, order, c, b)]
  PROVE  /\ \A b \in BaysOf(s) : out[b] \in Nat
         /\ SumFunctionOnSet(out, BaysOf(s)) \in 0..cargo[p][c]
         /\ SumFunctionOnSet(out, BaysOf(s)) % Grain = 0
<1> DEFINE start == ItemStart(p, order, c)
           size == ItemSize(p)[c]
<1>1. /\ BaysOf(s) \subseteq Bays /\ IsFiniteSet(BaysOf(s)) /\ Grain \in Nat \ {0}
      /\ \A b \in BaysOf(s) : Owner[b] = s
  BY FiniteParts DEF BaysOf
<1>2. \A b \in BaysOf(s) : out[b] \in Nat /\ out[b] % Grain = 0
  BY <1>1, StoredIsOverlap
<1>3. \A b \in BaysOf(s) : Position[b] \in Int /\ BayRoom[b] \in Nat
  BY <1>1, PiecesAreWhole, CargoAssumption
<1>4. \A b, d \in BaysOf(s) : Position[b] = Position[d] => b = d
  BY <1>1, CargoAssumption DEF IsInjective
<1>5. /\ start \in Int /\ start + size \in Int /\ start <= start + size
      /\ size \in Nat /\ size <= cargo[p][c] /\ cargo[p][c] \in Nat
  <2>1. start \in Int
    BY ItemStartSums
  <2>2. size \in Nat /\ size <= cargo[p][c] /\ cargo[p][c] \in Nat
    BY PiecesAreWhole
  <2> HIDE DEF start, size
  <2> QED BY <2>1, <2>2
<1>6. \A b \in BaysOf(s) :
        out[b] = Overlap(SumFunctionOnSet(BayRoom, Before(BaysOf(s), Position, b)),
                         BayRoom[b], start, start + size)
  BY <1>1, BayStartSums, StoredIsOverlap
<1>7. SumFunctionOnSet(out, BaysOf(s)) <= start + size - start
  <2> HIDE DEF start, size
  <2> QED BY ONLY <1>1, <1>3, <1>4, <1>5, <1>6, PiecesFit
<1>8. SumFunctionOnSet(out, BaysOf(s)) \in Nat /\ SumFunctionOnSet(out, BaysOf(s)) % Grain = 0
  BY <1>1, <1>2, SumIsNat, WholeSum
<1> HIDE DEF start, size
<1> QED BY <1>2, <1>5, <1>7, <1>8

(* Items that do not stay in the pod lie in the bays: none is lost, none   *)
(* is made, and every bay has room for what it gets.                       *)
Collected(s, p, order, left) ==
  /\ left = [c \in Commods |-> Remains(p, s, order, c)]
  /\ cargo' = [k \in Holders |->
       CASE k = p -> left
         [] k \in BaysOf(s) -> [c \in Commods |-> cargo[k][c] + Stored(p, order, c, k)]
         [] OTHER -> cargo[k]]
  /\ alive' = IF TotalCargo(left) = 0 THEN alive \ {p} ELSE alive

(* What remains in the pod is whole units.                                 *)
LEMMA LeftIsWhole ==
  ASSUME CargoOK, NEW p \in Pods, NEW order \in Orders, NEW s
  PROVE  [c \in Commods |-> Remains(p, s, order, c)] \in Whole
<1> SUFFICES ASSUME NEW c \in Commods
             PROVE  Remains(p, s, order, c) \in Nat /\ Remains(p, s, order, c) % Grain = 0
  BY DEF Whole
<1> DEFINE out == [b \in BaysOf(s) |-> Stored(p, order, c, b)]
           taken == SumFunctionOnSet(out, BaysOf(s))
<1>1. taken \in 0..cargo[p][c] /\ taken % Grain = 0
  <2> HIDE DEF out
  <2> QED BY ItemLasts DEF out
<1>2. cargo[p][c] \in Nat /\ cargo[p][c] % Grain = 0
  BY Kinds DEF CargoOK, Whole
<1>3. Remains(p, s, order, c) = cargo[p][c] - taken
  BY DEF Remains, SumFunction
<1>4. (cargo[p][c] - taken) % Grain = 0
  <2>1. Grain \in Nat \ {0}
    BY FiniteParts
  <2> HIDE DEF taken
  <2>2. taken \in Int /\ cargo[p][c] \in Int
    BY <1>1, <1>2
  <2> QED BY ONLY <1>1, <1>2, <2>1, <2>2, WholeAdds
<1> HIDE DEF taken
<1> QED BY <1>1, <1>2, <1>3, <1>4

(* What a ship that collects a pod does, stated with the pieces.           *)
LEMMA Collection ==
  ASSUME CargoOK, NEW s, NEW p \in Pods, Collect(s, p)
  PROVE  /\ UNCHANGED <<commods, powered, target, commod, builtUp>>
         /\ \E order \in Orders : \E left \in Whole : Collected(s, p, order, left)
<1>1. PICK order \in Orders :
        LET left == [c \in Commods |-> Remains(p, s, order, c)]
        IN  /\ cargo' = [k \in Holders |->
                 CASE k = p -> IF TotalCargo(left) = 0 THEN Nothing ELSE left
                   [] k \in BaysOf(s) -> [c \in Commods |-> cargo[k][c] + Stored(p, order, c, k)]
                   [] OTHER -> cargo[k]]
            /\ alive' = IF TotalCargo(left) = 0 THEN alive \ {p} ELSE alive
  BY DEF Collect
<1> DEFINE left == [c \in Commods |-> Remains(p, s, order, c)]
<1>2. left \in Whole
  BY LeftIsWhole
<1>3. (IF TotalCargo(left) = 0 THEN Nothing ELSE left) = left
  <2> HIDE DEF left
  <2> QED BY <1>2, NoUnitsIsNothing
<1>4. Collected(s, p, order, left)
  BY <1>1, <1>3 DEF Collected
<1>5. UNCHANGED <<commods, powered, target, commod, builtUp>>
  BY DEF Collect
<1> HIDE DEF left
<1> QED BY <1>2, <1>4, <1>5

-----------------------------------------------------------------------------
(* Every operation leaves loads in all containers, and in a bay no more    *)
(* than it has space for.                                                  *)

(* A step that leaves whole units in the containers it changes, and no bay *)
(* beyond its space, keeps the loads correct.                              *)
LEMMA LoadsKept ==
  ASSUME CargoOK, NEW changed \in SUBSET Holders, cargo' \in [Holders -> [Commods -> Int]],
         \A k \in Holders \ changed : cargo'[k] = cargo[k],
         \A k \in changed \ Resources : cargo'[k] \in Whole,
         \A b \in Bays \cap changed : TotalCargo(cargo'[b]) <= Space[b]
  PROVE  CargoOK'
<1>1. \A k \in Holders \ Resources : cargo'[k] \in Whole
  BY DEF CargoOK
<1>2. ASSUME NEW b \in Bays PROVE TotalCargo(cargo'[b]) <= Space[b]
  <2>1. b \in Holders
    BY Kinds
  <2> QED BY <2>1 DEF CargoOK
<1> QED BY <1>1, <1>2 DEF CargoOK

(* Whole units are a load.                                                 *)
LEMMA WholeIsLoad ==
  ASSUME NEW items \in Whole PROVE items \in [Commods -> Int]
BY DEF Whole

(* Harvesting overfills no bay.                                            *)
LEMMA HarvestKeepsLoads ==
  ASSUME CargoOK, NEW h, NEW y \in Nat, NEW r \in Resources, NEW c \in Commods,
         NEW bay \in Bays, NEW units \in Nat, NEW rest,
         Extracted(h, y, r, c, bay, units, rest)
  PROVE  CargoOK'
<1>1. /\ r \in Holders /\ bay \in Holders \ Resources /\ bay # r
      /\ cargo[r] \in [Commods -> Int] /\ cargo[bay] \in Whole
      /\ cargo[bay] \in [Commods -> Nat]
  BY Kinds DEF CargoOK, Whole
<1>2. /\ DOMAIN cargo' = Holders
      /\ cargo'[r] \in {cargo[r], [cargo[r] EXCEPT ![c] = cargo[r][c] - y]}
      /\ cargo'[bay] = IF c \in commods THEN [cargo[bay] EXCEPT ![c] = cargo[bay][c] + Grain * units]
                       ELSE cargo[bay]
      /\ \A k \in Holders \ {r, bay} : cargo'[k] = cargo[k]
      /\ cargo' = [k \in Holders |-> cargo'[k]]
  BY <1>1 DEF Extracted
<1>3. cargo'[r] \in [Commods -> Int]
  BY <1>1, <1>2
<1>4. cargo'[bay] \in Whole /\ TotalCargo(cargo'[bay]) <= Space[bay]
  <2>1. CASE c \notin commods
    BY <1>1, <1>2, <2>1 DEF CargoOK
  <2>2. CASE c \in commods
    <3>1. Grain * units \in Nat /\ cargo[bay][c] \in Nat
      BY <1>1, FiniteParts
    <3>2. /\ cargo'[bay] \in Whole
          /\ TotalCargo(cargo'[bay]) = TotalCargo(cargo[bay]) + units
      BY <1>1, <1>2, <2>2, <3>1, UnitsAdded
    <3>3. units <= Space[bay] - TotalCargo(cargo[bay])
      BY DEF Extracted, FreeSpace
    <3>4. Space[bay] \in Nat /\ TotalCargo(cargo[bay]) \in Nat
      BY RoomIsFree
    <3> QED BY <3>2, <3>3, <3>4
  <2> QED BY <2>1, <2>2
<1>5. cargo' \in [Holders -> [Commods -> Int]]
  <2>1. \A k \in Holders : cargo[k] \in [Commods -> Int]
    BY DEF CargoOK
  <2>2. \A k \in Holders : cargo'[k] \in [Commods -> Int]
    BY <1>2, <1>3, <1>4, <2>1, WholeIsLoad
  <2> QED BY ONLY <1>2, <2>2
<1>6. /\ {r, bay} \in SUBSET Holders
      /\ \A k \in {r, bay} \ Resources : cargo'[k] \in Whole
      /\ \A b \in Bays \cap {r, bay} : TotalCargo(cargo'[b]) <= Space[b]
  BY <1>1, <1>4, Kinds
<1> QED BY ONLY CargoOK, <1>2, <1>5, <1>6, LoadsKept

(* Collecting a pod overfills no bay.                                      *)
LEMMA CollectKeepsLoads ==
  ASSUME CargoOK, NEW s, NEW p \in Pods, NEW order \in Orders, NEW left \in Whole,
         Collected(s, p, order, left)
  PROVE  CargoOK'
<1>1. /\ p \in Holders \ Resources /\ p \notin Bays
      /\ BaysOf(s) \subseteq Bays /\ Bays \subseteq Holders \ Resources
  BY Kinds, FiniteParts
<1>2. /\ cargo'[p] = left
      /\ \A b \in BaysOf(s) : cargo'[b] = [c \in Commods |-> cargo[b][c] + Stored(p, order, c, b)]
      /\ \A k \in Holders \ ({p} \cup BaysOf(s)) : cargo'[k] = cargo[k]
      /\ cargo' = [k \in Holders |-> cargo'[k]]
  BY <1>1 DEF Collected
<1>3. ASSUME NEW b \in BaysOf(s)
      PROVE  cargo'[b] \in Whole /\ TotalCargo(cargo'[b]) <= Space[b]
  <2> DEFINE in == [c \in Commods |-> Stored(p, order, c, b)]
             units(i) == [c \in Commods |-> i[c] \div Grain]
  <2>1. b \in Bays /\ cargo[b] \in Whole
    BY <1>1 DEF CargoOK
  <2>2. in \in Whole /\ TotalCargo(in) <= FreeSpace(b)
    BY <2>1, BayHolds
  <2>3. /\ \A c \in Commods : /\ cargo[b][c] \in Nat /\ cargo[b][c] % Grain = 0
                              /\ in[c] \in Nat /\ in[c] % Grain = 0
        /\ \A c \in Commods : cargo'[b][c] = cargo[b][c] + in[c]
        /\ cargo'[b] = [c \in Commods |-> cargo'[b][c]]
    <3>1. \A c \in Commods : cargo'[b][c] = cargo[b][c] + in[c]
      BY <1>2
    <3>2. cargo'[b] = [c \in Commods |-> cargo'[b][c]]
      BY <1>2
    <3> HIDE DEF in
    <3> QED BY <2>1, <2>2, <3>1, <3>2 DEF Whole
  <2> HIDE DEF in
  <2>4. ASSUME NEW c \in Commods
        PROVE  /\ cargo'[b][c] \in Nat /\ cargo'[b][c] % Grain = 0
               /\ cargo'[b][c] \div Grain = cargo[b][c] \div Grain + in[c] \div Grain
               /\ cargo[b][c] \div Grain \in Int /\ in[c] \div Grain \in Int
    <3>1. Grain \in Nat \ {0}
      BY FiniteParts
    <3>2. cargo[b][c] \in Int /\ cargo[b][c] % Grain = 0 /\ in[c] \in Int /\ in[c] % Grain = 0
      BY <2>3
    <3>3. /\ (cargo[b][c] + in[c]) % Grain = 0
          /\ (cargo[b][c] + in[c]) \div Grain = cargo[b][c] \div Grain + in[c] \div Grain
      BY ONLY <3>1, <3>2, WholeAdds
    <3>4. cargo[b][c] \div Grain \in Int /\ in[c] \div Grain \in Int
      BY ONLY <3>1, <3>2
    <3> QED BY <2>3, <3>3, <3>4
  <2>5. cargo'[b] \in Whole
    BY <2>3, <2>4 DEF Whole
  <2>6. /\ TotalCargo(cargo[b]) = SumFunctionOnSet(units(cargo[b]), Commods)
        /\ TotalCargo(in) = SumFunctionOnSet(units(in), Commods)
        /\ TotalCargo(cargo'[b]) = SumFunctionOnSet(units(cargo'[b]), Commods)
    BY DEF TotalCargo, SumFunction
  <2>7. \A c \in Commods : /\ units(cargo[b])[c] \in Int /\ units(in)[c] \in Int
                           /\ units(cargo'[b])[c] = units(cargo[b])[c] + units(in)[c]
    BY <2>4
  <2> HIDE DEF units
  <2>8. SumFunctionOnSet(units(cargo'[b]), Commods)
          = SumFunctionOnSet(units(cargo[b]), Commods) + SumFunctionOnSet(units(in), Commods)
    BY <2>7, FiniteParts, SumOfBoth
  <2>9. /\ Space[b] \in Nat /\ TotalCargo(cargo[b]) \in Nat /\ TotalCargo(in) \in Nat
        /\ FreeSpace(b) = Space[b] - TotalCargo(cargo[b])
    BY <2>1, <2>2, RoomIsFree, TotalOfWhole DEF FreeSpace
  <2> QED BY <2>2, <2>5, <2>6, <2>8, <2>9
<1>4. cargo' \in [Holders -> [Commods -> Int]]
  BY <1>2, <1>3, WholeIsLoad DEF CargoOK
<1>5. {p} \cup BaysOf(s) \in SUBSET Holders
  BY <1>1
<1> QED BY <1>1, <1>2, <1>3, <1>4, <1>5, LoadsKept

(* Softcode moves units of a commodity from k to d. *)
Transferred(k, d, c, n) ==
  cargo' = [cargo EXCEPT ![d] = [cargo[d] EXCEPT ![c] = cargo[d][c] + Grain * n],
                         ![k] = [cargo[k] EXCEPT ![c] = cargo[k][c] + Grain * (-n)]]

(* What a transfer that is not refused does.                               *)
LEMMA Transfer ==
  ASSUME CargoOK, HarvestOK, NEW k \in Bays \cup Warehouses, NEW d \in Bays \cup Warehouses,
         NEW c \in Commods, NEW n \in Nat, TransferCargo(k, d, c, n)
  PROVE  /\ Transferred(k, d, c, n) /\ k # d
         /\ cargo[k][c] + Grain * (-n) >= 0
         /\ d \in Bays => FreeSpace(d) >= n
         /\ UNCHANGED <<commods, alive, powered, target, commod, builtUp>>
<1>1. /\ cargo[k] \in [Commods -> Nat] /\ cargo[d] \in [Commods -> Nat]
      /\ k \in Holders /\ d \in Holders /\ cargo[k][c] \in Nat /\ cargo[d][c] \in Nat
      /\ DOMAIN cargo = Holders
  BY Kinds DEF CargoOK, Whole
<1>2. /\ Grain * n \in Nat /\ Grain * (-n) = -(Grain * n)
  BY FiniteParts
<1>3. /\ k # d /\ c \in commods /\ cargo[k][c] >= Grain * n
      /\ d \in Bays => FreeSpace(d) >= n
      /\ UNCHANGED <<commods, alive, powered, target, commod, builtUp>>
      /\ cargo' = [cargo EXCEPT ![d][c] = Set(commods, d, c, @ + Grain * n),
                                ![k][c] = Set(commods, k, c, @ - Grain * n)]
  BY DEF TransferCargo
<1>4. /\ Set(commods, d, c, cargo[d][c] + Grain * n) = cargo[d][c] + Grain * n
      /\ Set(commods, k, c, cargo[k][c] - Grain * n) = cargo[k][c] + Grain * (-n)
  <2>1. /\ cargo[d][c] + Grain * n \in Nat /\ cargo[k][c] - Grain * n \in Nat
        /\ cargo[k][c] - Grain * n = cargo[k][c] + Grain * (-n)
    BY <1>1, <1>2, <1>3
  <2> QED BY <1>3, <2>1, AmountIsSet
<1>5. cargo' = [cargo EXCEPT ![d] = [cargo[d] EXCEPT ![c] = Set(commods, d, c, cargo[d][c] + Grain * n)],
                             ![k] = [cargo[k] EXCEPT ![c] = Set(commods, k, c, cargo[k][c] - Grain * n)]]
  BY <1>1, <1>3
<1>6. Transferred(k, d, c, n)
  BY <1>4, <1>5 DEF Transferred
<1> QED BY <1>1, <1>2, <1>3, <1>6

(* A transfer overfills no bay.                                            *)
LEMMA TransferKeepsLoads ==
  ASSUME CargoOK, NEW k \in Bays \cup Warehouses, NEW d \in Bays \cup Warehouses, k # d,
         NEW c \in Commods, NEW n \in Nat, Transferred(k, d, c, n),
         cargo[k][c] + Grain * (-n) >= 0, d \in Bays => FreeSpace(d) >= n
  PROVE  CargoOK'
<1>1. /\ k \in Holders \ Resources /\ d \in Holders \ Resources
      /\ cargo[k] \in Whole /\ cargo[d] \in Whole /\ cargo[d][c] \in Nat
      /\ DOMAIN cargo = Holders
  BY Kinds DEF CargoOK, Whole
<1>2. /\ cargo'[d] = [cargo[d] EXCEPT ![c] = cargo[d][c] + Grain * n]
      /\ cargo'[k] = [cargo[k] EXCEPT ![c] = cargo[k][c] + Grain * (-n)]
      /\ \A j \in Holders \ {k, d} : cargo'[j] = cargo[j]
      /\ cargo' = [j \in Holders |-> cargo'[j]]
  BY <1>1 DEF Transferred
<1>3. /\ cargo'[d] \in Whole /\ TotalCargo(cargo'[d]) = TotalCargo(cargo[d]) + n
  <2>1. cargo[d][c] + Grain * n >= 0
    BY <1>1, FiniteParts
  <2>2. n \in Int /\ c \in Commods /\ cargo[d] \in Whole
    BY <1>1
  <2>3. cargo'[d] = [cargo[d] EXCEPT ![c] = cargo[d][c] + Grain * n]
    BY <1>2
  <2> DEFINE more == cargo'[d]
             items == cargo[d]
  <2>4. items \in Whole /\ items[c] + Grain * n >= 0 /\ n \in Int /\ c \in Commods
        /\ more = [items EXCEPT ![c] = items[c] + Grain * n]
    BY <2>1, <2>2, <2>3
  <2>5. more \in Whole /\ TotalCargo(more) = TotalCargo(items) + n
    <3> HIDE DEF more, items
    <3> QED BY ONLY <2>4, UnitsAdded
  <2> QED BY <2>5
<1>4. /\ cargo'[k] \in Whole /\ TotalCargo(cargo'[k]) = TotalCargo(cargo[k]) + (-n)
  <2>1. cargo[k][c] + Grain * (-n) >= 0
    OBVIOUS
  <2>2. -n \in Int /\ c \in Commods /\ cargo[k] \in Whole
    BY <1>1
  <2>3. cargo'[k] = [cargo[k] EXCEPT ![c] = cargo[k][c] + Grain * (-n)]
    BY <1>2
  <2> QED BY ONLY <2>1, <2>2, <2>3, UnitsAdded
<1>5. ASSUME NEW b \in Bays \cap {k, d} PROVE TotalCargo(cargo'[b]) <= Space[b]
  <2>1. /\ FreeSpace(b) = Space[b] - TotalCargo(cargo[b]) /\ FreeSpace(b) \in Nat
        /\ Space[b] \in Nat /\ TotalCargo(cargo[b]) \in Nat
    BY RoomIsFree DEF FreeSpace
  <2>2. CASE b = d
    BY <1>3, <2>1, <2>2
  <2>3. CASE b = k
    BY <1>4, <2>1, <2>3
  <2> QED BY <2>2, <2>3
<1>6. cargo' \in [Holders -> [Commods -> Int]]
  <2>1. \A j \in Holders : cargo[j] \in [Commods -> Int]
    BY DEF CargoOK
  <2>2. \A j \in Holders : cargo'[j] \in [Commods -> Int]
    BY <1>2, <1>3, <1>4, <2>1, WholeIsLoad
  <2> QED BY ONLY <1>2, <2>2
<1>7. /\ {k, d} \in SUBSET Holders
      /\ \A j \in {k, d} \ Resources : cargo'[j] \in Whole
  BY <1>1, <1>3, <1>4
<1> QED BY ONLY CargoOK, <1>2, <1>5, <1>6, <1>7, LoadsKept

(* Jettisoning a bay keeps the loads correct.                              *)
LEMMA JettisonKeepsLoads ==
  ASSUME CargoOK, NEW b \in Bays, NEW p \in Pods,
         cargo' = [cargo EXCEPT ![p] = cargo[b], ![b] = Nothing]
  PROVE  CargoOK'
<1>1. /\ b \in Holders \ Resources /\ p \in Holders \ Resources /\ p # b /\ p \notin Bays
      /\ cargo[b] \in Whole /\ DOMAIN cargo = Holders
  BY Kinds DEF CargoOK
<1>2. /\ cargo'[p] \in Whole /\ cargo'[b] \in Whole /\ cargo'[b] = Nothing
      /\ \A k \in Holders \ {p, b} : cargo'[k] = cargo[k]
      /\ cargo' = [k \in Holders |-> cargo'[k]]
  BY <1>1, NothingIsWhole
<1>3. TotalCargo(cargo'[b]) <= Space[b]
  BY <1>2, NothingHasNoUnits, RoomIsFree
<1>4. cargo' \in [Holders -> [Commods -> Int]]
  <2>1. \A j \in Holders : cargo[j] \in [Commods -> Int]
    BY DEF CargoOK
  <2>2. \A j \in Holders : cargo'[j] \in [Commods -> Int]
    BY <1>2, <2>1, WholeIsLoad
  <2> QED BY ONLY <1>2, <2>2
<1>5. /\ {p, b} \in SUBSET Holders
      /\ \A j \in {p, b} \ Resources : cargo'[j] \in Whole
      /\ \A j \in Bays \cap {p, b} : TotalCargo(cargo'[j]) <= Space[j]
  BY <1>1, <1>2, <1>3
<1> QED BY ONLY CargoOK, <1>2, <1>4, <1>5, LoadsKept

(* A resource or a pod gets another load. *)
LEMMA OutsideKeepsLoads ==
  ASSUME CargoOK, NEW k \in Resources \cup Pods, NEW items \in [Commods -> Int],
         k \in Pods => items \in Whole, cargo' = [cargo EXCEPT ![k] = items]
  PROVE  CargoOK'
<1>1. k \in Holders /\ k \notin Bays /\ (k \notin Resources => items \in Whole)
  BY Kinds
<1>2. cargo \in [Holders -> [Commods -> Int]]
  BY DEF CargoOK
<1>3. /\ cargo'[k] = items /\ \A j \in Holders \ {k} : cargo'[j] = cargo[j]
      /\ cargo' \in [Holders -> [Commods -> Int]]
  BY ONLY <1>1, <1>2, items \in [Commods -> Int], cargo' = [cargo EXCEPT ![k] = items]
<1>4. /\ {k} \in SUBSET Holders
      /\ \A j \in {k} \ Resources : cargo'[j] \in Whole
      /\ \A j \in Bays \cap {k} : TotalCargo(cargo'[j]) <= Space[j]
  BY <1>1, <1>3
<1> QED BY ONLY CargoOK, <1>3, <1>4, LoadsKept

(* Cancelling harvesters keeps their records correct.                      *)
LEMMA CancelTyped ==
  ASSUME HarvestOK, NEW hs, CancelHarvesting(hs), UNCHANGED <<commods, alive, powered>>
  PROVE  HarvestOK'
<1>1. 0 \in 0..Grain
  BY FiniteParts
<1> QED BY <1>1 DEF HarvestOK, CancelHarvesting

(* The cycle of a resource keeps the type.                                 *)
LEMMA CycleResourceTyped ==
  ASSUME CargoOK, HarvestOK, NEW r \in Resources, CycleResource(r)
  PROVE  CargoOK' /\ HarvestOK'
<1>1. HarvestOK'
  BY DEF HarvestOK, CycleResource
<1>2. cargo[r] \in [Commods -> Int] /\ Generates[r] \in [Commods -> Nat]
  BY Kinds, CargoAssumption DEF CargoOK
<1>3. Nothing \in [Commods -> Int]
  BY DEF Nothing
<1>4. \E items \in [Commods -> Int] : cargo' = [cargo EXCEPT ![r] = items]
  <2>1. CASE Generates[r] # Nothing
    <3> DEFINE items == [c \in Commods |-> IF Generates[r][c] = 0 THEN cargo[r][c]
                            ELSE Set(commods, r, c, cargo[r][c] + Generates[r][c])]
    <3>1. \A c \in Commods : Set(commods, r, c, cargo[r][c] + Generates[r][c]) \in Int
      BY <1>2 DEF Set
    <3>2. items \in [Commods -> Int]
      BY <1>2, <3>1
    <3>3. cargo' = [cargo EXCEPT ![r] = items]
      BY <2>1 DEF CycleResource
    <3> QED BY <3>2, <3>3
  <2>2. CASE Generates[r] = Nothing
    BY <1>3, <2>2 DEF CycleResource
  <2> QED BY <2>1, <2>2
<1>5. PICK items \in [Commods -> Int] : cargo' = [cargo EXCEPT ![r] = items]
  BY <1>4
<1>6. r \notin Pods
  BY Kinds
<1> QED BY <1>1, <1>5, <1>6, OutsideKeepsLoads

(* Deleting a commodity changes no cargo: the containers refuse to set a   *)
(* commodity that is off the list.                                         *)
LEMMA DeletionKeepsCargo ==
  ASSUME CargoOK, NEW c \in Commods, DelCommodity(c)
  PROVE  cargo' = cargo
<1>1. c \notin commods'
  BY DEF DelCommodity
<1>2. ASSUME NEW k \in Holders PROVE [cargo[k] EXCEPT ![c] = Set(commods', k, c, 0)] = cargo[k]
  BY <1>1 DEF Set, CargoOK
<1>3. cargo' = [k \in Holders |-> cargo[k]]
  BY <1>2 DEF DelCommodity
<1> QED BY <1>3 DEF CargoOK

(* No bay ever holds more than it has space for, and what containers hold  *)
(* are whole units: whatever harvesters had built up before they hand it   *)
(* over, however a pod is divided among bays, whatever softcode moves.     *)
THEOREM CargoTypeCorrect == Spec => []TypeOK
<1>1. Init => TypeOK
  <2> SUFFICES ASSUME Init PROVE CargoOK /\ HarvestOK
    BY TypeParts
  <2>1. CargoOK
    <3>1. Nothing \in Whole /\ \A r \in Resources : Stock[r] \in [Commods -> Int]
      BY NothingIsWhole, CargoAssumption
    <3>2. \A b \in Bays : cargo[b] = Nothing /\ Space[b] \in Nat
      BY Kinds, CargoAssumption DEF Init
    <3>3. /\ cargo = [k \in Holders |-> IF k \in Resources THEN Stock[k] ELSE Nothing]
          /\ Nothing \in [Commods -> Int]
      BY <3>1, WholeIsLoad DEF Init
    <3>4. cargo \in [Holders -> [Commods -> Int]]
      BY <3>1, <3>3
    <3>5. \A k \in Holders \ Resources : cargo[k] \in Whole
      BY <3>1, <3>3
    <3>6. \A b \in Bays : TotalCargo(cargo[b]) <= Space[b]
      BY <3>2, NothingHasNoUnits
    <3> QED BY <3>4, <3>5, <3>6 DEF CargoOK
  <2>2. HarvestOK
    BY FiniteParts DEF Init, HarvestOK
  <2> QED BY <2>1, <2>2
<1>2. TypeOK /\ [Next]_vars => TypeOK'
  <2> SUFFICES ASSUME CargoOK, HarvestOK, [Next]_vars PROVE CargoOK' /\ HarvestOK'
    BY TypeParts
  <2>0. ASSUME UNCHANGED cargo PROVE CargoOK'
    BY <2>0 DEF CargoOK
  <2>1. ASSUME NEW h \in Harvesters, CycleHarvester(h) PROVE CargoOK' /\ HarvestOK'
    <3>1. UNCHANGED <<commods, alive, powered>>
      BY <2>1 DEF CycleHarvester
    <3>2. CASE CancelHarvesting({h}) /\ UNCHANGED cargo
      BY <2>0, <3>1, <3>2, CancelTyped
    <3>3. ASSUME NEW y \in Yields, Extract(h, y) PROVE CargoOK' /\ HarvestOK'
      <4>1. y \in Nat /\ target[h] # None /\ commod[h] # None
        BY <2>1, CargoAssumption DEF CycleHarvester
      <4>2. target[h] \in Resources /\ commod[h] \in Commods
        BY <4>1 DEF HarvestOK
      <4>3. PICK bay \in Bays, units \in Nat, rest \in 0..Grain :
              Extracted(h, y, target[h], commod[h], bay, units, rest)
        BY <3>3, <4>1, Extraction
      <4>4. CargoOK'
        BY <4>1, <4>2, <4>3, HarvestKeepsLoads
      <4>5. builtUp' \in [Harvesters -> 0..Grain] /\ UNCHANGED <<target, commod>>
        BY <3>3, <4>3 DEF HarvestOK, Extracted, Extract
      <4> QED BY <3>1, <4>4, <4>5 DEF HarvestOK
    <3> QED BY <2>1, <3>2, <3>3 DEF CycleHarvester
  <2>2. ASSUME NEW h \in Harvesters, AbortHarvest(h) \/ SwitchPower(h)
        PROVE  CargoOK' /\ HarvestOK'
    <3>1. CASE AbortHarvest(h)
      BY <2>0, <3>1, CancelTyped DEF AbortHarvest
    <3>2. CASE SwitchPower(h)
      BY <2>0, <3>2 DEF SwitchPower, HarvestOK
    <3> QED BY <2>2, <3>1, <3>2
  <2>3. ASSUME NEW h \in Harvesters, NEW r \in Resources, NEW c \in Commods, Harvest(h, r, c)
        PROVE  CargoOK' /\ HarvestOK'
    BY <2>0, <2>3 DEF Harvest, HarvestOK
  <2>4. ASSUME NEW r \in Resources, CycleResource(r) PROVE CargoOK' /\ HarvestOK'
    BY <2>4, CycleResourceTyped
  <2>5. ASSUME NEW p \in Pods, PodExpires(p) PROVE CargoOK' /\ HarvestOK'
    <3>1. CargoOK'
      <4>1. Nothing \in Whole /\ Nothing \in [Commods -> Int] /\ p \in Resources \cup Pods
        BY NothingIsWhole, WholeIsLoad
      <4>2. cargo' = [cargo EXCEPT ![p] = Nothing]
        BY <2>5 DEF PodExpires
      <4> QED BY <4>1, <4>2, OutsideKeepsLoads
    <3> QED BY <2>5, <3>1 DEF PodExpires, HarvestOK
  <2>6. ASSUME NEW p \in Pods, NEW b \in Bays, Jettison(b, p) PROVE CargoOK' /\ HarvestOK'
    <3>1. CargoOK'
      BY <2>6, JettisonKeepsLoads DEF Jettison
    <3> QED BY <2>6, <3>1 DEF Jettison, HarvestOK
  <2>7. ASSUME NEW p \in Pods, NEW s, Collect(s, p) PROVE CargoOK' /\ HarvestOK'
    <3>1. PICK order \in Orders : \E left \in Whole : Collected(s, p, order, left)
      BY <2>7, Collection
    <3>2. CargoOK'
      BY <3>1, CollectKeepsLoads
    <3>3. alive' \subseteq alive /\ UNCHANGED <<commods, powered, target, commod, builtUp>>
      BY <2>7, <3>1, Collection DEF Collected
    <3> QED BY <3>2, <3>3 DEF HarvestOK
  <2>8. ASSUME NEW k \in Bays \cup Warehouses, NEW d \in Bays \cup Warehouses,
               NEW c \in Commods, NEW n \in Loads, TransferCargo(k, d, c, n)
        PROVE  CargoOK' /\ HarvestOK'
    <3>1. n \in Nat
      BY CargoAssumption
    <3>2. /\ Transferred(k, d, c, n) /\ k # d
          /\ cargo[k][c] + Grain * (-n) >= 0
          /\ d \in Bays => FreeSpace(d) >= n
          /\ UNCHANGED <<commods, alive, powered, target, commod, builtUp>>
      BY <2>8, <3>1, Transfer
    <3>3. CargoOK'
      BY <3>1, <3>2, TransferKeepsLoads
    <3> QED BY <3>2, <3>3 DEF HarvestOK
  <2>9. ASSUME NEW c \in Commods, DelCommodity(c) PROVE CargoOK' /\ HarvestOK'
    <3>1. CargoOK'
      BY <2>0, <2>9, DeletionKeepsCargo
    <3>2. commods' \subseteq Commods
      BY <2>9 DEF DelCommodity, HarvestOK
    <3>3. 0 \in 0..Grain
      BY FiniteParts
    <3> QED BY <2>9, <3>1, <3>2, <3>3 DEF DelCommodity, CancelHarvesting, HarvestOK
  <2>10. CASE Restart
    <3>1. 0 \in 0..Grain
      BY FiniteParts
    <3> QED BY <2>0, <2>10, <3>1 DEF Restart, HarvestOK
  <2>11. CASE UNCHANGED vars
    BY <2>11 DEF vars, CargoOK, HarvestOK
  <2> QED BY <2>1, <2>2, <2>3, <2>4, <2>5, <2>6, <2>7, <2>8, <2>9, <2>10, <2>11 DEF Next
<1> QED BY <1>1, <1>2, PTL DEF Spec

-----------------------------------------------------------------------------
(* The invariant that the balance of cargo needs: a harvester without a    *)
(* target has nothing built up, and what will be the next pod is empty.    *)
IdleIsEmpty == \A h \in Harvesters : target[h] = None => builtUp[h] = 0
GoneIsEmpty == \A p \in Pods \ alive : cargo[p] = Nothing
IInv == CargoOK /\ HarvestOK /\ IdleIsEmpty /\ GoneIsEmpty

(* No step leaves an idle harvester with something built up.               *)
LEMMA IdleStep ==
  ASSUME HarvestOK, IdleIsEmpty, [Next]_vars
  PROVE  IdleIsEmpty'
<1>0. \A h \in Harvesters : target[h] = None => builtUp[h] = 0
  BY DEF IdleIsEmpty
<1>1. ASSUME NEW h \in Harvesters, CycleHarvester(h) PROVE IdleIsEmpty'
  <2>1. CASE CancelHarvesting({h})
    BY <1>0, <2>1 DEF CancelHarvesting, IdleIsEmpty
  <2>2. ASSUME NEW y \in Yields, Extract(h, y) PROVE IdleIsEmpty'
    <3>1. target' = target /\ target[h] # None
          /\ \A g \in Harvesters \ {h} : builtUp'[g] = builtUp[g]
      BY <1>1, <2>2 DEF CycleHarvester, Extract, HarvestOK
    <3> QED BY <1>0, <3>1 DEF IdleIsEmpty
  <2> QED BY <1>1, <2>1, <2>2 DEF CycleHarvester
<1>2. ASSUME NEW h \in Harvesters, AbortHarvest(h) PROVE IdleIsEmpty'
  BY <1>0, <1>2 DEF AbortHarvest, CancelHarvesting, IdleIsEmpty
<1>3. ASSUME NEW h \in Harvesters, NEW r \in Resources, NEW c \in Commods, Harvest(h, r, c)
      PROVE  IdleIsEmpty'
  <2>1. r # None /\ \A g \in Harvesters \ {h} : target'[g] = target[g]
    BY <1>3, CargoAssumption DEF Harvest, HarvestOK
  <2>2. target'[h] = r /\ builtUp' = builtUp
    BY <1>3 DEF Harvest, HarvestOK
  <2> QED BY <1>0, <2>1, <2>2 DEF IdleIsEmpty
<1>4. ASSUME NEW c \in Commods, DelCommodity(c) PROVE IdleIsEmpty'
  BY <1>0, <1>4 DEF DelCommodity, CancelHarvesting, IdleIsEmpty
<1>5. CASE Restart
  BY <1>5 DEF Restart, IdleIsEmpty
<1>6. CASE UNCHANGED <<target, builtUp>>
  BY <1>0, <1>6 DEF IdleIsEmpty
<1>7. ASSUME NEW p \in Pods, NEW s, Collect(s, p) PROVE UNCHANGED <<target, builtUp>>
  BY <1>7 DEF Collect
<1>8. ASSUME \/ \E h \in Harvesters : SwitchPower(h)
             \/ \E r \in Resources : CycleResource(r)
             \/ \E p \in Pods : PodExpires(p) \/ \E b \in Bays : Jettison(b, p)
             \/ \E k, d \in Bays \cup Warehouses, c \in Commods, n \in Loads : TransferCargo(k, d, c, n)
             \/ UNCHANGED vars
      PROVE  UNCHANGED <<target, builtUp>>
  <2>1. ASSUME NEW h, SwitchPower(h) PROVE UNCHANGED <<target, builtUp>>
    BY <2>1 DEF SwitchPower
  <2>2. ASSUME NEW r, CycleResource(r) PROVE UNCHANGED <<target, builtUp>>
    BY <2>2 DEF CycleResource
  <2>3. ASSUME NEW p, PodExpires(p) PROVE UNCHANGED <<target, builtUp>>
    BY <2>3 DEF PodExpires
  <2>4. ASSUME NEW p, NEW b, Jettison(b, p) PROVE UNCHANGED <<target, builtUp>>
    BY <2>4 DEF Jettison
  <2>5. ASSUME NEW k, NEW d, NEW c, NEW n, TransferCargo(k, d, c, n)
        PROVE  UNCHANGED <<target, builtUp>>
    BY <2>5 DEF TransferCargo
  <2>6. ASSUME UNCHANGED vars PROVE UNCHANGED <<target, builtUp>>
    BY <2>6 DEF vars
  <2> QED BY <1>8, <2>1, <2>2, <2>3, <2>4, <2>5, <2>6
<1>9. CASE Next
  <2>1. CASE \E h \in Harvesters : CycleHarvester(h) \/ AbortHarvest(h) \/ SwitchPower(h)
    BY <2>1, <1>1, <1>2, <1>6, <1>8
  <2>2. CASE \E h \in Harvesters, r \in Resources, c \in Commods : Harvest(h, r, c)
    BY <2>2, <1>3
  <2>3. CASE \E p \in Pods : PodExpires(p) \/ \E b \in Bays : Jettison(b, p) \/ Collect(Owner[b], p)
    BY <2>3, <1>6, <1>7, <1>8
  <2> QED BY <1>9, <2>1, <2>2, <2>3, <1>4, <1>5, <1>6, <1>8 DEF Next
<1> QED BY <1>6, <1>8, <1>9

(* No step puts cargo into a pod that does not exist.                      *)
LEMMA GoneStep ==
  ASSUME CargoOK, HarvestOK, GoneIsEmpty, [Next]_vars
  PROVE  GoneIsEmpty'
<1>0. /\ \A p \in Pods : p \notin alive => cargo[p] = Nothing
      /\ DOMAIN cargo = Holders /\ Pods \subseteq Holders
  BY Kinds DEF GoneIsEmpty, CargoOK
<1>1. ASSUME alive' \cap Pods = alive \cap Pods, \A p \in Pods : cargo'[p] = cargo[p]
      PROVE  GoneIsEmpty'
  BY <1>0, <1>1 DEF GoneIsEmpty
<1>2. ASSUME NEW h \in Harvesters, CycleHarvester(h) PROVE GoneIsEmpty'
  <2>1. alive' = alive
    BY <1>2 DEF CycleHarvester
  <2>2. CASE UNCHANGED cargo
    BY <1>1, <2>1, <2>2
  <2>3. ASSUME NEW y \in Yields, Extract(h, y) PROVE GoneIsEmpty'
    <3>1. y \in Nat /\ target[h] # None /\ commod[h] # None
      BY <1>2, CargoAssumption DEF CycleHarvester
    <3>2. PICK bay \in Bays, units \in Nat, rest \in 0..Grain :
            Extracted(h, y, target[h], commod[h], bay, units, rest)
      BY <2>3, <3>1, Extraction
    <3>3. target[h] \in Resources
      BY <3>1 DEF HarvestOK
    <3>4. \A p \in Pods : cargo'[p] = cargo[p]
      BY <1>0, <3>2, <3>3, Kinds DEF Extracted
    <3> QED BY <1>1, <2>1, <3>4
  <2> QED BY <1>2, <2>2, <2>3 DEF CycleHarvester
<1>3. ASSUME NEW r \in Resources, CycleResource(r) PROVE GoneIsEmpty'
  <2>1. r \notin Pods
    BY Kinds
  <2>2. alive' \in {alive, alive \ {r}} /\ \A p \in Pods : cargo'[p] = cargo[p]
    BY <1>0, <1>3, <2>1 DEF CycleResource
  <2> QED BY <1>1, <2>1, <2>2
<1>4. ASSUME NEW p \in Pods, PodExpires(p) PROVE GoneIsEmpty'
  <2>1. alive' = alive \ {p} /\ cargo' = [cargo EXCEPT ![p] = Nothing]
    BY <1>4 DEF PodExpires
  <2> QED BY <1>0, <2>1 DEF GoneIsEmpty
<1>5. ASSUME NEW p \in Pods, NEW b \in Bays, Jettison(b, p) PROVE GoneIsEmpty'
  <2>1. alive' = alive \cup {p} /\ cargo' = [cargo EXCEPT ![p] = cargo[b], ![b] = Nothing]
    BY <1>5 DEF Jettison
  <2> QED BY <1>0, <2>1, Kinds DEF GoneIsEmpty
<1>6. ASSUME NEW p \in Pods, NEW s, Collect(s, p) PROVE GoneIsEmpty'
  <2>1. PICK order \in Orders : \E left \in Whole : Collected(s, p, order, left)
    BY <1>6, Collection
  <2>2. PICK left \in Whole : Collected(s, p, order, left)
    BY <2>1
  <2>3. BaysOf(s) \cap Pods = {}
    BY Kinds, FiniteParts
  <2>4. cargo'[p] = left /\ \A q \in Pods \ {p} : cargo'[q] = cargo[q]
    BY <1>0, <2>2, <2>3 DEF Collected
  <2>5. alive' = (IF TotalCargo(left) = 0 THEN alive \ {p} ELSE alive) /\ p \in alive
    BY <1>6, <2>2 DEF Collected, Collect
  <2>6. TotalCargo(left) = 0 => left = Nothing
    BY NoUnitsIsNothing
  <2> QED BY <1>0, <2>4, <2>5, <2>6 DEF GoneIsEmpty
<1>7. ASSUME NEW k \in Bays \cup Warehouses, NEW d \in Bays \cup Warehouses,
             NEW c \in Commods, NEW n \in Loads, TransferCargo(k, d, c, n)
      PROVE  GoneIsEmpty'
  <2>1. n \in Nat
    BY CargoAssumption
  <2>2. Transferred(k, d, c, n) /\ alive' = alive
    BY <1>7, <2>1, Transfer
  <2>3. \A p \in Pods : cargo'[p] = cargo[p]
    BY <1>0, <2>2, Kinds DEF Transferred
  <2> QED BY <1>1, <2>2, <2>3
<1>8. ASSUME NEW c \in Commods, DelCommodity(c) PROVE GoneIsEmpty'
  <2>1. cargo' = cargo /\ alive' = alive
    BY <1>8, DeletionKeepsCargo DEF DelCommodity
  <2> QED BY <1>1, <2>1
<1>9. CASE UNCHANGED <<alive, cargo>>
  BY <1>1, <1>9
<1> QED
  BY <1>2, <1>3, <1>4, <1>5, <1>6, <1>7, <1>8, <1>9
  DEF Next, vars, SwitchPower, AbortHarvest, Harvest, Restart

(* Every state has the type, idle harvesters have built nothing up, and    *)
(* pods that do not exist hold nothing. The last two do not follow from    *)
(* the type, and without them a new target or a new pod would make cargo   *)
(* out of nothing.                                                         *)
THEOREM CargoInvariant == Spec => []IInv
<1>1. Init => IdleIsEmpty /\ GoneIsEmpty
  BY Kinds DEF Init, IdleIsEmpty, GoneIsEmpty
<1>2. CargoOK /\ HarvestOK /\ IdleIsEmpty /\ GoneIsEmpty /\ [Next]_vars
        => IdleIsEmpty' /\ GoneIsEmpty'
  BY IdleStep, GoneStep
<1>3. TypeOK <=> CargoOK /\ HarvestOK
  BY TypeParts
<1>4. Spec => []TypeOK
  BY CargoTypeCorrect
<1> QED BY <1>1, <1>2, <1>3, <1>4, PTL DEF Spec, IInv

-----------------------------------------------------------------------------
(* What there is of a commodity, in containers and on the way. *)
InHold(c) == [k \in Holders |-> AtLeast(0, cargo[k][c])]
OnWay(c) == [h \in Harvesters |-> IF commod[h] = c THEN builtUp[h] ELSE 0]
Held(c) == SumFunctionOnSet(InHold(c), Holders)
Carried(c) == SumFunctionOnSet(OnWay(c), Harvesters)

Typed == CargoOK /\ HarvestOK

(* The amounts that are summed are natural numbers,                        *)
LEMMA AmountsTyped ==
  ASSUME Typed, NEW c \in Commods
  PROVE  /\ \A k \in Holders : InHold(c)[k] \in Nat
         /\ \A h \in Harvesters : OnWay(c)[h] \in Nat
<1>1. \A k \in Holders : cargo[k][c] \in Int
  BY DEF Typed, CargoOK
<1>2. \A h \in Harvesters : builtUp[h] \in Nat
  BY FiniteParts DEF Typed, HarvestOK
<1> QED BY <1>1, <1>2 DEF InHold, OnWay, AtLeast

(* and so they are after a step.                                           *)
LEMMA AmountsTypedAfter ==
  ASSUME Typed', NEW c \in Commods
  PROVE  /\ \A k \in Holders : InHold(c)'[k] \in Nat
         /\ \A h \in Harvesters : OnWay(c)'[h] \in Nat
<1>1. \A k \in Holders : cargo'[k][c] \in Int
  BY DEF Typed, CargoOK
<1>2. \A h \in Harvesters : builtUp'[h] \in Nat
  BY FiniteParts DEF Typed, HarvestOK
<1> QED BY <1>1, <1>2 DEF InHold, OnWay, AtLeast

(* There is of a commodity what is held and what is carried.               *)
LEMMA TotalParts ==
  ASSUME Typed, Typed', NEW c \in Commods
  PROVE  /\ Total(c) = Held(c) + Carried(c)
         /\ Total(c)' = Held(c)' + Carried(c)'
         /\ Held(c) \in Nat /\ Carried(c) \in Nat /\ Held(c)' \in Nat /\ Carried(c)' \in Nat
<1>1. Total(c) = Held(c) + Carried(c)
  BY DEF Total, Held, Carried, InHold, OnWay, SumFunction
<1>2. Total(c)' = Held(c)' + Carried(c)'
  BY DEF Total, Held, Carried, InHold, OnWay, SumFunction
<1>3. Held(c) \in Nat /\ Carried(c) \in Nat
  BY AmountsTyped, FiniteParts, SumIsNat DEF Held, Carried
<1>4. Held(c)' \in Nat /\ Carried(c)' \in Nat
  BY AmountsTypedAfter, FiniteParts, SumIsNat DEF Held, Carried
<1> QED BY <1>1, <1>2, <1>3, <1>4

(* Where harvesters at most drop what they had built up, nothing is made,  *)
(* and the cargo decides whether something is lost.                        *)
LEMMA NothingCarried ==
  ASSUME Typed, Typed', NEW c \in Commods,
         \A h \in Harvesters : \/ commod'[h] = commod[h] /\ builtUp'[h] = builtUp[h]
                               \/ builtUp'[h] = 0
  PROVE  Carried(c)' <= Carried(c)
<1>1. \A h \in Harvesters : OnWay(c)'[h] <= OnWay(c)[h] /\ OnWay(c)[h] \in Nat
  BY AmountsTyped DEF OnWay
<1> QED BY <1>1, AmountsTypedAfter, FiniteParts, SumMonotone DEF Carried

(* What harvesters carry depends on their records alone,                   *)
LEMMA SameCarried ==
  ASSUME NEW c, UNCHANGED <<commod, builtUp>>
  PROVE  Carried(c)' = Carried(c)
BY DEF Carried, OnWay

(* and what is held depends on the cargo alone.                            *)
LEMMA SameHeld ==
  ASSUME NEW c, UNCHANGED cargo
  PROVE  Held(c)' = Held(c)
BY DEF Held, InHold

(* One or two containers get other loads. *)
LEMMA OneHeld ==
  ASSUME Typed, Typed', NEW c \in Commods, NEW k \in Holders,
         \A j \in Holders \ {k} : cargo'[j][c] = cargo[j][c]
  PROVE  Held(c)' = Held(c) - AtLeast(0, cargo[k][c]) + AtLeast(0, cargo'[k][c])
<1> DEFINE f == InHold(c)
           g == InHold(c)'
<1>1. /\ \A j \in Holders : f[j] \in Int /\ g[j] \in Int
      /\ f[k] = AtLeast(0, cargo[k][c]) /\ g[k] = AtLeast(0, cargo'[k][c])
  BY AmountsTyped, AmountsTypedAfter DEF InHold
<1>2. \A j \in Holders \ {k} : g[j] = f[j]
  BY DEF InHold
<1> HIDE DEF f, g
<1>3. SumFunctionOnSet(g, Holders) = SumFunctionOnSet(f, Holders) - f[k] + g[k]
  BY ONLY <1>1, <1>2, FiniteParts, k \in Holders, SumChanged
<1> QED BY <1>1, <1>3 DEF Held, f, g

(* A change of two containers changes what is held by the change in these. *)
LEMMA TwoHeld ==
  ASSUME Typed, Typed', NEW c \in Commods, NEW k \in Holders, NEW d \in Holders, k # d,
         \A j \in Holders \ {k, d} : cargo'[j][c] = cargo[j][c]
  PROVE  Held(c)' = Held(c) - AtLeast(0, cargo[k][c]) - AtLeast(0, cargo[d][c])
                      + AtLeast(0, cargo'[k][c]) + AtLeast(0, cargo'[d][c])
<1> DEFINE f == InHold(c)
           g == InHold(c)'
           m == [j \in Holders |-> IF j = k THEN g[j] ELSE f[j]]
<1>1. /\ \A j \in Holders : f[j] \in Int /\ g[j] \in Int
      /\ f[k] = AtLeast(0, cargo[k][c]) /\ g[k] = AtLeast(0, cargo'[k][c])
      /\ f[d] = AtLeast(0, cargo[d][c]) /\ g[d] = AtLeast(0, cargo'[d][c])
  BY AmountsTyped, AmountsTypedAfter DEF InHold
<1>2. \A j \in Holders \ {k, d} : g[j] = f[j]
  BY DEF InHold
<1> HIDE DEF f, g
<1>3. /\ \A j \in Holders : m[j] \in Int
      /\ \A j \in Holders \ {k} : m[j] = f[j]
      /\ \A j \in Holders \ {d} : g[j] = m[j]
      /\ m[k] = g[k] /\ m[d] = f[d]
  BY <1>1, <1>2
<1> HIDE DEF m
<1>4. SumFunctionOnSet(m, Holders) = SumFunctionOnSet(f, Holders) - f[k] + m[k]
  BY ONLY <1>1, <1>3, FiniteParts, k \in Holders, SumChanged
<1>5. SumFunctionOnSet(g, Holders) = SumFunctionOnSet(m, Holders) - m[d] + g[d]
  BY ONLY <1>1, <1>3, FiniteParts, d \in Holders, SumChanged
<1>6. SumFunctionOnSet(f, Holders) \in Int
  BY ONLY <1>1, FiniteParts, SumIsInt
<1> QED BY <1>1, <1>3, <1>4, <1>5, <1>6 DEF Held, f, g

(* A change of one harvester changes what is carried by the change in it.  *)
LEMMA OneCarried ==
  ASSUME Typed, Typed', NEW c \in Commods, NEW h \in Harvesters,
         \A g \in Harvesters \ {h} : commod'[g] = commod[g] /\ builtUp'[g] = builtUp[g],
         commod[h] = c, commod'[h] = c
  PROVE  Carried(c)' = Carried(c) - builtUp[h] + builtUp'[h]
<1> DEFINE f == OnWay(c)
           g == OnWay(c)'
<1>1. /\ \A j \in Harvesters : f[j] \in Int /\ g[j] \in Int
      /\ f[h] = builtUp[h] /\ g[h] = builtUp'[h]
  BY AmountsTyped, AmountsTypedAfter DEF OnWay
<1>2. \A j \in Harvesters \ {h} : g[j] = f[j]
  BY DEF OnWay
<1> HIDE DEF f, g
<1>3. SumFunctionOnSet(g, Harvesters) = SumFunctionOnSet(f, Harvesters) - f[h] + g[h]
  BY ONLY <1>1, <1>2, FiniteParts, h \in Harvesters, SumChanged
<1> QED BY <1>1, <1>3 DEF Carried, f, g

-----------------------------------------------------------------------------
(* The balance of each operation. *)

(* Harvesting moves a commodity, or makes it where the resource is         *)
(* endless, and leaves the others alone.                                   *)
LEMMA HarvestBalance ==
  ASSUME Typed, Typed', NEW h \in Harvesters, NEW y \in Nat, NEW r \in Resources,
         NEW c \in Commods, NEW bay \in Bays, NEW units \in Nat, NEW rest \in 0..Grain,
         commod[h] = c, commod' = commod, Extracted(h, y, r, c, bay, units, rest)
  PROVE  /\ \A d \in Commods \ {c} : Total(d)' = Total(d)
         /\ ~Endless(h) => Total(c)' = Total(c)
         /\ Endless(h) => Total(c)' >= Total(c) \/ cargo' = cargo
<1>1. /\ r \in Holders /\ bay \in Holders /\ bay # r /\ DOMAIN cargo = Holders
      /\ \A k \in Holders : cargo[k] \in [Commods -> Int]
      /\ cargo[bay] \in [Commods -> Nat] /\ cargo[bay][c] \in Nat /\ cargo[r][c] \in Int
      /\ cargo = [k \in Holders |-> cargo[k]]
  BY Kinds DEF Typed, CargoOK, Whole
<1>2. /\ cargo'[r] = IF Endless(h) THEN cargo[r] ELSE [cargo[r] EXCEPT ![c] = cargo[r][c] - y]
      /\ cargo'[bay] = IF c \in commods THEN [cargo[bay] EXCEPT ![c] = cargo[bay][c] + Grain * units]
                       ELSE cargo[bay]
      /\ \A k \in Holders \ {r, bay} : cargo'[k] = cargo[k]
      /\ cargo' = [k \in Holders |-> cargo'[k]]
  BY <1>1 DEF Extracted
<1>3. /\ Grain * units + rest = builtUp[h] + y
      /\ y = 0 => units = 0
      /\ Endless(h) \/ (cargo[r][c] >= 0 /\ (c \in commods => cargo[r][c] >= y)
                          /\ (c \notin commods => y = 0))
  BY DEF Extracted
<1>4. builtUp' = [builtUp EXCEPT ![h] = rest] /\ builtUp \in [Harvesters -> 0..Grain]
  BY DEF Extracted, Typed, HarvestOK
<1>5. /\ builtUp'[h] = rest /\ \A g \in Harvesters \ {h} : builtUp'[g] = builtUp[g]
      /\ builtUp[h] \in Nat /\ rest \in Nat
  BY <1>4, FiniteParts
<1>6. Grain * units \in Nat /\ (units = 0 => Grain * units = 0)
  BY FiniteParts
<1>7. ASSUME NEW d \in Commods \ {c} PROVE Total(d)' = Total(d)
  <2>1. \A k \in Holders : cargo'[k][d] = cargo[k][d]
    BY <1>1, <1>2
  <2>2. Held(d)' = Held(d)
    BY <2>1 DEF Held, InHold
  <2>3. OnWay(d)' = OnWay(d)
    BY <1>5 DEF OnWay
  <2>4. Carried(d)' = Carried(d)
    BY <2>3 DEF Carried
  <2> QED BY <2>2, <2>4, TotalParts
<1>8. Carried(c)' = Carried(c) - builtUp[h] + rest
  BY <1>5, OneCarried
<1>9. /\ Total(c) = Held(c) + Carried(c) /\ Total(c)' = Held(c)' + Carried(c)'
      /\ Held(c) \in Nat /\ Carried(c) \in Nat /\ Held(c)' \in Nat /\ Carried(c)' \in Nat
  BY TotalParts
<1>10. ASSUME ~Endless(h) PROVE Total(c)' = Total(c)
  <2>1. CASE c \in commods
    <3>1. cargo'[r][c] = cargo[r][c] - y /\ cargo'[bay][c] = cargo[bay][c] + Grain * units
      BY <1>1, <1>2, <1>10, <2>1
    <3>2. /\ AtLeast(0, cargo'[r][c]) = cargo[r][c] - y
          /\ AtLeast(0, cargo[r][c]) = cargo[r][c]
          /\ AtLeast(0, cargo[bay][c]) = cargo[bay][c]
          /\ AtLeast(0, cargo'[bay][c]) = cargo[bay][c] + Grain * units
      BY <1>1, <1>3, <1>6, <1>10, <2>1, <3>1 DEF AtLeast
    <3>3. Held(c)' = Held(c) - AtLeast(0, cargo[r][c]) - AtLeast(0, cargo[bay][c])
                       + AtLeast(0, cargo'[r][c]) + AtLeast(0, cargo'[bay][c])
      BY <1>1, <1>2, TwoHeld
    <3>4. Held(c)' = Held(c) - y + Grain * units
      BY <1>1, <1>6, <1>9, <3>2, <3>3
    <3>5. Carried(c)' = Carried(c) + y - Grain * units
      BY <1>3, <1>5, <1>6, <1>8, <1>9
    <3>6. Held(c)' + Carried(c)' = Held(c) + Carried(c)
      BY ONLY <1>6, <1>9, <3>4, <3>5, y \in Nat
    <3> QED BY ONLY <1>9, <3>6
  <2>2. CASE c \notin commods
    <3>1. y = 0 /\ rest = builtUp[h]
      BY <1>3, <1>5, <1>6, <1>10, <2>2
    <3>2. \A k \in Holders : cargo'[k][c] = cargo[k][c]
      BY <1>1, <1>2, <2>2, <3>1
    <3>3. Held(c)' = Held(c)
      BY <3>2 DEF Held, InHold
    <3> QED BY <1>5, <1>8, <1>9, <3>1, <3>3
  <2> QED BY <2>1, <2>2
<1>11. ASSUME Endless(h) PROVE Total(c)' >= Total(c) \/ cargo' = cargo
  <2>1. CASE c \in commods
    <3>1. cargo'[bay][c] = cargo[bay][c] + Grain * units
      BY <1>1, <1>2, <2>1
    <3>2. /\ AtLeast(0, cargo[bay][c]) = cargo[bay][c]
          /\ AtLeast(0, cargo'[bay][c]) = cargo[bay][c] + Grain * units
      BY <1>1, <1>6, <3>1 DEF AtLeast
    <3>3. \A k \in Holders \ {bay} : cargo'[k][c] = cargo[k][c]
      BY <1>1, <1>2, <1>11
    <3>4. Held(c)' = Held(c) - AtLeast(0, cargo[bay][c]) + AtLeast(0, cargo'[bay][c])
      BY <1>1, <3>3, OneHeld
    <3>5. Held(c)' = Held(c) + Grain * units
      BY <1>1, <1>6, <1>9, <3>2, <3>4
    <3> QED BY <1>3, <1>5, <1>6, <1>8, <1>9, <3>5
  <2>2. CASE c \notin commods
    <3>1. \A k \in Holders : cargo'[k] = cargo[k]
      BY <1>1, <1>2, <1>11, <2>2
    <3>2. cargo' = [k \in Holders |-> cargo[k]]
      BY <1>2, <3>1
    <3> QED BY <1>1, <3>2
  <2> QED BY <2>1, <2>2
<1> QED BY <1>7, <1>10, <1>11

(* Jettisoning moves what is in the bay: the new pod held nothing.         *)
LEMMA JettisonBalance ==
  ASSUME Typed, Typed', GoneIsEmpty, NEW b \in Bays, NEW p \in Pods, Jettison(b, p),
         NEW c \in Commods
  PROVE  Total(c)' = Total(c)
<1>1. /\ b \in Holders /\ p \in Holders /\ p # b /\ DOMAIN cargo = Holders
      /\ cargo[p] = Nothing
  BY Kinds DEF Typed, CargoOK, GoneIsEmpty, Jettison
<1>2. /\ cargo'[p] = cargo[b] /\ cargo'[b] = Nothing
      /\ \A k \in Holders \ {p, b} : cargo'[k] = cargo[k]
  BY <1>1 DEF Jettison
<1>3. Nothing[c] = 0
  BY DEF Nothing
<1>4. Held(c)' = Held(c) - AtLeast(0, cargo[p][c]) - AtLeast(0, cargo[b][c])
                   + AtLeast(0, cargo'[p][c]) + AtLeast(0, cargo'[b][c])
  BY <1>1, <1>2, TwoHeld
<1>5. cargo[b][c] \in Int
  BY <1>1 DEF Typed, CargoOK
<1>6. Held(c) \in Nat
  BY TotalParts
<1>7. AtLeast(0, cargo[b][c]) \in Int /\ AtLeast(0, 0) = 0
  BY <1>5 DEF AtLeast
<1>8. Held(c)' = Held(c)
  BY <1>1, <1>2, <1>3, <1>4, <1>6, <1>7
<1>9. Carried(c)' = Carried(c)
  BY SameCarried DEF Jettison
<1> QED BY <1>8, <1>9, TotalParts

(* A transfer moves units.                                                 *)
LEMMA TransferBalance ==
  ASSUME Typed, Typed', NEW k \in Bays \cup Warehouses, NEW d \in Bays \cup Warehouses, k # d,
         NEW e \in Commods, NEW n \in Nat, Transferred(k, d, e, n),
         cargo[k][e] + Grain * (-n) >= 0, UNCHANGED <<commod, builtUp>>, NEW c \in Commods
  PROVE  Total(c)' = Total(c)
<1>1. /\ k \in Holders /\ d \in Holders /\ DOMAIN cargo = Holders
      /\ cargo[k] \in [Commods -> Nat] /\ cargo[d] \in [Commods -> Nat]
  BY Kinds DEF Typed, CargoOK, Whole
<1>2. /\ cargo'[d] = [cargo[d] EXCEPT ![e] = cargo[d][e] + Grain * n]
      /\ cargo'[k] = [cargo[k] EXCEPT ![e] = cargo[k][e] + Grain * (-n)]
      /\ \A j \in Holders \ {k, d} : cargo'[j] = cargo[j]
  BY <1>1 DEF Transferred
<1>3. Held(c)' = Held(c) - AtLeast(0, cargo[k][c]) - AtLeast(0, cargo[d][c])
                   + AtLeast(0, cargo'[k][c]) + AtLeast(0, cargo'[d][c])
  <2>1. Typed /\ Typed' /\ c \in Commods /\ k # d
    OBVIOUS
  <2>2. \A j \in Holders \ {k, d} : cargo'[j][c] = cargo[j][c]
    BY <1>2
  <2> QED BY ONLY <1>1, <2>1, <2>2, TwoHeld
<1>4. /\ Grain * n \in Nat /\ Grain * (-n) = -(Grain * n)
  BY FiniteParts
<1>5. /\ cargo[k][c] \in Nat /\ cargo[d][c] \in Nat /\ cargo'[k][c] \in Nat /\ cargo'[d][c] \in Nat
      /\ cargo'[k][c] + cargo'[d][c] = cargo[k][c] + cargo[d][c]
  <2>1. CASE c = e
    <3>1. /\ cargo'[k][c] = cargo[k][c] - Grain * n /\ cargo'[d][c] = cargo[d][c] + Grain * n
          /\ cargo[k][c] \in Nat /\ cargo[d][c] \in Nat /\ cargo[k][c] - Grain * n >= 0
      BY <1>1, <1>2, <1>4, <2>1
    <3> QED BY ONLY <1>4, <3>1
  <2>2. CASE c # e
    BY <1>1, <1>2, <2>2
  <2> QED BY <2>1, <2>2
<1>6. Held(c) \in Nat
  BY TotalParts
<1>7. Held(c)' = Held(c)
  BY ONLY <1>3, <1>5, <1>6 DEF AtLeast
<1>8. Carried(c)' = Carried(c)
  BY SameCarried
<1> QED BY <1>7, <1>8, TotalParts

(* Collecting a pod moves units, from one pod into many bays at once.      *)
LEMMA CollectBalance ==
  ASSUME Typed, Typed', NEW s, NEW p \in Pods, NEW order \in Orders, NEW left \in Whole,
         Collected(s, p, order, left), UNCHANGED <<commod, builtUp>>, NEW c \in Commods
  PROVE  Total(c)' = Total(c)
<1> DEFINE f == InHold(c)
           g == InHold(c)'
           out == [b \in BaysOf(s) |-> Stored(p, order, c, b)]
           R == Holders \ {p}
           m == [k \in R |-> IF k \in BaysOf(s) THEN out[k] ELSE 0]
           taken == SumFunctionOnSet(out, BaysOf(s))
<1>1. /\ p \in Holders /\ IsFiniteSet(R) /\ BaysOf(s) \in SUBSET R
      /\ IsFiniteSet(Holders) /\ DOMAIN cargo = Holders
      /\ p \in Holders \ Resources /\ BaysOf(s) \subseteq Holders \ Resources
  BY Kinds, FiniteParts, FS_RemoveElement DEF Typed, CargoOK
<1>2. /\ \A k \in Holders : f[k] \in Int /\ g[k] \in Int
      /\ \A k \in Holders : f[k] = AtLeast(0, cargo[k][c]) /\ g[k] = AtLeast(0, cargo'[k][c])
  BY AmountsTyped, AmountsTypedAfter DEF InHold
<1>3. /\ cargo'[p][c] = Remains(p, s, order, c)
      /\ \A b \in BaysOf(s) : cargo'[b][c] = cargo[b][c] + Stored(p, order, c, b)
      /\ \A k \in R \ BaysOf(s) : cargo'[k][c] = cargo[k][c]
  BY <1>1 DEF Collected
<1>4. /\ \A b \in BaysOf(s) : out[b] \in Nat /\ out[b] = Stored(p, order, c, b)
      /\ taken \in 0..cargo[p][c] /\ cargo[p][c] \in Nat
  <2>1. CargoOK
    BY DEF Typed
  <2>2. /\ \A b \in BaysOf(s) : out[b] \in Nat
        /\ taken \in 0..cargo[p][c]
    <3> HIDE DEF out
    <3> QED BY <2>1, ItemLasts DEF out
  <2> QED BY <1>1, <2>1, <2>2 DEF CargoOK, Whole
<1>5. Remains(p, s, order, c) = cargo[p][c] - taken
  BY DEF Remains, SumFunction
<1>6. f[p] = cargo[p][c] /\ g[p] = cargo[p][c] - taken
  <2> HIDE DEF f, g, taken
  <2> QED BY <1>1, <1>2, <1>3, <1>4, <1>5 DEF AtLeast
<1>7. \A k \in R : f[k] \in Int /\ m[k] \in Int /\ g[k] = f[k] + m[k]
  <2> HIDE DEF f, g
  <2>1. ASSUME NEW b \in BaysOf(s) PROVE g[b] = f[b] + m[b] /\ m[b] \in Int
    <3>1. m[b] = out[b] /\ out[b] \in Nat /\ cargo'[b][c] = cargo[b][c] + out[b]
      BY <1>1, <1>3, <1>4
    <3>2. cargo[b][c] \in Nat
      BY <1>1 DEF Typed, CargoOK, Whole
    <3>3. b \in Holders
      BY <1>1
    <3> HIDE DEF m, out
    <3> QED BY <1>2, <3>1, <3>2, <3>3 DEF AtLeast
  <2>2. ASSUME NEW k \in R \ BaysOf(s) PROVE g[k] = f[k] + m[k] /\ m[k] \in Int
    <3>1. m[k] = 0 /\ cargo'[k][c] = cargo[k][c] /\ k \in Holders
      BY <1>3
    <3> HIDE DEF m
    <3> QED BY <1>2, <3>1
  <2> QED BY <1>2, <2>1, <2>2
<1>8. SumFunctionOnSet(m, R) = taken
  <2>1. \A b \in BaysOf(s) : out[b] \in Int
    BY <1>4
  <2> HIDE DEF out, R
  <2> QED BY <1>1, <2>1, SumOfMasked
<1> HIDE DEF f, g, m, taken
<1>9. SumFunctionOnSet(g, R) = SumFunctionOnSet(f, R) + SumFunctionOnSet(m, R)
  <2> HIDE DEF R
  <2> QED BY ONLY <1>1, <1>7, SumOfBoth
<1>10. /\ SumFunctionOnSet(f, Holders) = f[p] + SumFunctionOnSet(f, R)
       /\ SumFunctionOnSet(g, Holders) = g[p] + SumFunctionOnSet(g, R)
  BY ONLY <1>1, <1>2, SumWithout
<1>11. SumFunctionOnSet(f, R) \in Int
  BY ONLY <1>1, <1>7, SumIsInt
<1>12. SumFunctionOnSet(g, Holders) = SumFunctionOnSet(f, Holders)
  BY ONLY <1>4, <1>6, <1>8, <1>9, <1>10, <1>11
<1>13. Held(c)' = Held(c)
  BY <1>12 DEF Held, f, g
<1>14. Carried(c)' = Carried(c)
  BY SameCarried
<1> QED BY <1>13, <1>14, TotalParts

(* What a resource generates or loses with its end, and a pod that expires. *)
LEMMA ResourceBalance ==
  ASSUME Typed, Typed', NEW r \in Resources, CycleResource(r), NEW c \in Commods
  PROVE  /\ Total(c)' >= Total(c)
         /\ Generates[r][c] = 0 => Total(c)' = Total(c)
<1>1. /\ r \in Holders /\ DOMAIN cargo = Holders /\ cargo[r] \in [Commods -> Int]
      /\ cargo[r][c] \in Int /\ Generates[r] \in [Commods -> Nat]
  BY Kinds, CargoAssumption DEF Typed, CargoOK
<1>2. PICK items : cargo' = [cargo EXCEPT ![r] = items]
  BY DEF CycleResource
<1>3. cargo'[r] = items /\ \A k \in Holders \ {r} : cargo'[k] = cargo[k]
  BY <1>1, <1>2
<1>4. Held(c)' = Held(c) - AtLeast(0, cargo[r][c]) + AtLeast(0, cargo'[r][c])
  <2>1. Typed /\ Typed' /\ c \in Commods
    OBVIOUS
  <2>2. \A k \in Holders \ {r} : cargo'[k][c] = cargo[k][c]
    BY <1>3
  <2> QED BY ONLY <1>1, <2>1, <2>2, OneHeld
<1>5. /\ AtLeast(0, cargo[r][c]) \in Int /\ AtLeast(0, cargo'[r][c]) \in Int
      /\ AtLeast(0, cargo'[r][c]) >= AtLeast(0, cargo[r][c])
      /\ Generates[r][c] = 0 => AtLeast(0, cargo'[r][c]) = AtLeast(0, cargo[r][c])
  <2>1. CASE Generates[r] # Nothing
    <3>1. cargo'[r][c] = IF Generates[r][c] = 0 THEN cargo[r][c]
                         ELSE Set(commods, r, c, cargo[r][c] + Generates[r][c])
      BY <1>1, <2>1 DEF CycleResource
    <3>2. Generates[r][c] \in Nat
      BY <1>1
    <3> QED BY <1>1, <3>1, <3>2 DEF Set, AtLeast
  <2>2. CASE Generates[r] = Nothing
    <3>1. cargo'[r][c] = 0 /\ cargo[r][c] <= 0
      BY <1>1, <2>2 DEF CycleResource, Nothing
    <3> QED BY <1>1, <3>1 DEF AtLeast
  <2> QED BY <2>1, <2>2
<1>6. Carried(c)' = Carried(c)
  BY SameCarried DEF CycleResource
<1>7. /\ Total(c) = Held(c) + Carried(c) /\ Total(c)' = Held(c)' + Carried(c)'
      /\ Held(c) \in Nat /\ Carried(c) \in Nat /\ Held(c)' \in Nat
  BY TotalParts
<1> QED BY <1>4, <1>5, <1>6, <1>7

(* An expiring pod adds nothing.                                           *)
LEMMA ExpiryBalance ==
  ASSUME Typed, Typed', NEW p \in Pods, PodExpires(p), NEW c \in Commods
  PROVE  Total(c)' <= Total(c)
<1>1. p \in Holders /\ DOMAIN cargo = Holders /\ cargo[p][c] \in Int
  BY Kinds DEF Typed, CargoOK
<1>2. cargo'[p][c] = 0 /\ \A k \in Holders \ {p} : cargo'[k][c] = cargo[k][c]
  BY <1>1 DEF PodExpires, Nothing
<1>3. Held(c)' = Held(c) - AtLeast(0, cargo[p][c]) + AtLeast(0, cargo'[p][c])
  BY <1>1, <1>2, OneHeld
<1>4. AtLeast(0, cargo[p][c]) \in Nat /\ AtLeast(0, cargo'[p][c]) = 0
  BY <1>1, <1>2 DEF AtLeast
<1>5. Carried(c)' = Carried(c)
  BY SameCarried DEF PodExpires
<1>6. /\ Total(c) = Held(c) + Carried(c) /\ Total(c)' = Held(c)' + Carried(c)'
      /\ Held(c) \in Nat /\ Carried(c) \in Nat /\ Held(c)' \in Nat
  BY TotalParts
<1> QED BY <1>3, <1>4, <1>5, <1>6

(* Where cargo stays and harvesters drop what they had built up, at most. *)
LEMMA DroppedBalance ==
  ASSUME Typed, Typed', UNCHANGED cargo, NEW c \in Commods,
         \A h \in Harvesters : \/ commod'[h] = commod[h] /\ builtUp'[h] = builtUp[h]
                               \/ builtUp'[h] = 0
  PROVE  Total(c)' <= Total(c)
BY SameHeld, NothingCarried, TotalParts

(* The books of a step: more only from a source, less only where nothing   *)
(* moves or a pod expires.                                                 *)
HasASource(c) ==
  \/ \E r \in Resources : CycleResource(r) /\ Generates[r][c] > 0
  \/ \E h \in Harvesters : commod[h] = c /\ Endless(h)

IsWrittenOff == cargo' = cargo \/ \E p \in Pods : PodExpires(p)

Balanced(c) ==
  /\ Total(c)' <= Total(c) \/ HasASource(c)
  /\ Total(c)' >= Total(c) \/ IsWrittenOff

(* Every step of the system is balanced.                                   *)
LEMMA Ledger ==
  ASSUME IInv, IInv', [Next]_vars, NEW c \in Commods
  PROVE  Balanced(c)
<1>0. Typed /\ Typed' /\ IdleIsEmpty /\ GoneIsEmpty
  BY DEF IInv, Typed
<1>t. Total(c) \in Int /\ Total(c)' \in Int
  BY <1>0, TotalParts
<1>e. ASSUME Total(c)' = Total(c) PROVE Balanced(c)
  BY <1>t, <1>e DEF Balanced
<1>d. ASSUME UNCHANGED cargo,
             \A h \in Harvesters : \/ commod'[h] = commod[h] /\ builtUp'[h] = builtUp[h]
                                   \/ builtUp'[h] = 0
      PROVE  Balanced(c)
  BY <1>0, <1>d, DroppedBalance DEF Balanced, IsWrittenOff
<1>c. ASSUME NEW hs, CancelHarvesting(hs), UNCHANGED cargo PROVE Balanced(c)
  <2>1. \A h \in Harvesters : \/ commod'[h] = commod[h] /\ builtUp'[h] = builtUp[h]
                              \/ builtUp'[h] = 0
    BY <1>c DEF CancelHarvesting
  <2> QED BY <1>c, <1>d, <2>1
<1>1. ASSUME NEW h \in Harvesters, CycleHarvester(h) PROVE Balanced(c)
  <2>1. CASE CancelHarvesting({h}) /\ UNCHANGED cargo
    BY <1>c, <2>1
  <2>2. ASSUME NEW y \in Yields, Extract(h, y) PROVE Balanced(c)
    <3>1. y \in Nat /\ target[h] # None /\ commod[h] # None /\ CargoOK /\ HarvestOK
      BY <1>0, <1>1, CargoAssumption DEF CycleHarvester, Typed
    <3>2. PICK bay \in Bays, units \in Nat, rest \in 0..Grain :
            Extracted(h, y, target[h], commod[h], bay, units, rest)
      BY <2>2, <3>1, Extraction
    <3>3. target[h] \in Resources /\ commod[h] \in Commods /\ commod' = commod
      BY <2>2, <3>1 DEF HarvestOK, Extract
    <3>4. PICK r \in Resources : r = target[h]
      BY <3>3
    <3>5. PICK e \in Commods : commod[h] = e
      BY <3>3
    <3>6. Extracted(h, y, r, e, bay, units, rest)
      BY <3>2, <3>4, <3>5
    <3>7. /\ \A d \in Commods \ {e} : Total(d)' = Total(d)
          /\ ~Endless(h) => Total(e)' = Total(e)
          /\ Endless(h) => Total(e)' >= Total(e) \/ cargo' = cargo
      BY <1>0, <3>1, <3>2, <3>3, <3>5, <3>6, HarvestBalance
    <3>8. CASE c # e
      BY <1>e, <3>7, <3>8
    <3>9. CASE c = e
      BY <1>e, <3>5, <3>7, <3>9 DEF Balanced, HasASource, IsWrittenOff
    <3> QED BY <3>8, <3>9
  <2> QED BY <1>1, <2>1, <2>2 DEF CycleHarvester
<1>2. ASSUME NEW h \in Harvesters, AbortHarvest(h) PROVE Balanced(c)
  BY <1>2, <1>c DEF AbortHarvest
<1>3. ASSUME NEW h \in Harvesters, NEW r \in Resources, NEW e \in Commods, Harvest(h, r, e)
      PROVE  Balanced(c)
  <2>1. builtUp' = builtUp /\ builtUp[h] = 0 /\ UNCHANGED cargo
    BY <1>0, <1>3 DEF Harvest, IdleIsEmpty
  <2>2. \A g \in Harvesters \ {h} : commod'[g] = commod[g]
    BY <1>0, <1>3 DEF Harvest, Typed, HarvestOK
  <2> QED BY <1>d, <2>1, <2>2
<1>4. ASSUME NEW r \in Resources, CycleResource(r) PROVE Balanced(c)
  <2>1. Total(c)' >= Total(c) /\ (Generates[r][c] = 0 => Total(c)' = Total(c))
    BY <1>0, <1>4, ResourceBalance
  <2>2. Generates[r][c] \in Nat
    BY CargoAssumption
  <2>3. CASE Generates[r][c] = 0
    BY <1>e, <2>1, <2>3
  <2>4. CASE Generates[r][c] > 0
    BY <1>4, <2>1, <2>4 DEF Balanced, HasASource
  <2> QED BY <2>2, <2>3, <2>4
<1>5. ASSUME NEW p \in Pods, PodExpires(p) PROVE Balanced(c)
  <2>1. Total(c)' <= Total(c)
    BY <1>0, <1>5, ExpiryBalance
  <2> QED BY <1>5, <2>1 DEF Balanced, IsWrittenOff
<1>6. ASSUME NEW p \in Pods, NEW b \in Bays, Jettison(b, p) PROVE Balanced(c)
  BY <1>0, <1>6, <1>e, JettisonBalance
<1>7. ASSUME NEW p \in Pods, NEW s, Collect(s, p) PROVE Balanced(c)
  <2>1. CargoOK
    BY <1>0 DEF Typed
  <2>2. UNCHANGED <<commod, builtUp>>
        /\ \E order \in Orders : \E left \in Whole : Collected(s, p, order, left)
    BY <1>7, <2>1, Collection
  <2>3. PICK order \in Orders : \E left \in Whole : Collected(s, p, order, left)
    BY <2>2
  <2> QED BY <1>0, <1>e, <2>2, <2>3, CollectBalance
<1>8. ASSUME NEW k \in Bays \cup Warehouses, NEW d \in Bays \cup Warehouses,
             NEW e \in Commods, NEW n \in Loads, TransferCargo(k, d, e, n)
      PROVE  Balanced(c)
  <2>1. n \in Nat /\ CargoOK /\ HarvestOK
    BY <1>0, CargoAssumption DEF Typed
  <2>2. /\ Transferred(k, d, e, n) /\ k # d /\ cargo[k][e] + Grain * (-n) >= 0
        /\ UNCHANGED <<commod, builtUp>>
    BY <1>8, <2>1, Transfer
  <2> QED BY <1>0, <1>e, <2>1, <2>2, TransferBalance
<1>9. ASSUME NEW e \in Commods, DelCommodity(e) PROVE Balanced(c)
  <2>1. cargo' = cargo
    BY <1>0, <1>9, DeletionKeepsCargo DEF Typed
  <2> QED BY <1>9, <1>c, <2>1 DEF DelCommodity
<1>10. CASE Restart
  BY <1>10, <1>d DEF Restart
<1>11. CASE UNCHANGED <<cargo, commod, builtUp>>
  BY <1>11, <1>d
<1> QED
  BY <1>1, <1>2, <1>3, <1>4, <1>5, <1>6, <1>7, <1>8, <1>9, <1>10, <1>11
  DEF Next, vars, SwitchPower

(* All the cargo there is more of than before was generated by a resource  *)
(* or harvested from one without end; and what there is less of was lost   *)
(* with a pod, or with what a harvester had built up.                      *)
THEOREM CargoComesFromSources == Spec => CargoHasASource
<1>1. IInv /\ IInv' /\ [Next]_vars
        => [\A c \in Commods : Total(c)' > Total(c) =>
              \/ \E r \in Resources : CycleResource(r) /\ Generates[r][c] > 0
              \/ \E h \in Harvesters : commod[h] = c /\ Endless(h)]_vars
  <2> SUFFICES ASSUME IInv, IInv', [Next]_vars, NEW c \in Commods, Total(c)' > Total(c)
               PROVE  \/ \E r \in Resources : CycleResource(r) /\ Generates[r][c] > 0
                      \/ \E h \in Harvesters : commod[h] = c /\ Endless(h)
    OBVIOUS
  <2>1. Total(c) \in Int /\ Total(c)' \in Int
    BY TotalParts DEF IInv, Typed
  <2>2. Total(c)' <= Total(c) \/ HasASource(c)
    BY Ledger DEF Balanced
  <2> QED BY <2>1, <2>2 DEF HasASource
<1> QED BY <1>1, CargoInvariant, PTL DEF Spec, CargoHasASource

(* There is less of a commodity than before only when a pod was lost with  *)
(* what it held; otherwise all the containers hold what they held before.  *)
THEOREM CargoIsKept == Spec => CargoIsNotLost
<1>1. IInv /\ IInv' /\ [Next]_vars
        => [\A c \in Commods : Total(c)' < Total(c) =>
              cargo' = cargo \/ \E p \in Pods : PodExpires(p)]_vars
  <2> SUFFICES ASSUME IInv, IInv', [Next]_vars, NEW c \in Commods, Total(c)' < Total(c)
               PROVE  cargo' = cargo \/ \E p \in Pods : PodExpires(p)
    OBVIOUS
  <2>1. Total(c) \in Int /\ Total(c)' \in Int
    BY TotalParts DEF IInv, Typed
  <2>2. Total(c)' >= Total(c) \/ IsWrittenOff
    BY Ledger DEF Balanced
  <2> QED BY <2>1, <2>2 DEF IsWrittenOff
<1> QED BY <1>1, CargoInvariant, PTL DEF Spec, CargoIsNotLost
=============================================================================
