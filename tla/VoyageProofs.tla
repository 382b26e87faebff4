---------------------------- MODULE VoyageProofs ----------------------------
(***************************************************************************)
(* Theorems about ships under way and where they end (Flight, Docking,     *)
(* Landing): for any engines, rates of turn, courses and power failures;   *)
(* for any objects, hatches, positions and docking distance; and for any   *)
(* ships, planets, landing locations, exits, failures and sequence lengths *)
(* that LandingAssumption allows.                                          *)
(***************************************************************************)
EXTENDS Flight, Docking, Landing, Sums

-----------------------------------------------------------------------------
(* Flight.                                                                 *)

(* The greater of two numbers.                                             *)
LEMMA MaxOfTwo ==
  ASSUME NEW a \in Int, NEW b \in Int
  PROVE  Max({a, b}) = IF a >= b THEN a ELSE b
<1>1. PICK x \in {a, b} : \A y \in {a, b} : x >= y
  <2>1. CASE a >= b
    BY <2>1
  <2>2. CASE ~(a >= b)
    BY <2>2
  <2> QED BY <2>1, <2>2
<1>2. Max({a, b}) \in {a, b} /\ \A y \in {a, b} : Max({a, b}) >= y
  BY <1>1 DEF Max
<1> QED BY <1>2

(* The lesser of two numbers.                                              *)
LEMMA MinOfTwo ==
  ASSUME NEW a \in Int, NEW b \in Int
  PROVE  Min({a, b}) = IF a <= b THEN a ELSE b
<1>1. PICK x \in {a, b} : \A y \in {a, b} : x <= y
  <2>1. CASE a <= b
    BY <2>1
  <2>2. CASE ~(a <= b)
    BY <2>2
  <2> QED BY <2>1, <2>2
<1>2. Min({a, b}) \in {a, b} /\ \A y \in {a, b} : Min({a, b}) <= y
  BY <1>1 DEF Min
<1> QED BY <1>2

(* Remainders of numbers less than one circle away. *)
LEMMA Remainder ==
  ASSUME NEW c \in Nat \ {0}, NEW x \in Int, -c < x, x < c
  PROVE  x % c = IF x >= 0 THEN x ELSE x + c
  OBVIOUS

(* The circle is four right angles, and no turn takes more than half of it *)
(* at a time.                                                              *)
LEMMA CircleFacts ==
  /\ Quarter \in Nat \ {0} /\ Rate \in Nat \ {0} /\ Rate <= 2 * Quarter
  /\ FullCircle \in Nat \ {0} /\ FullCircle = 4 * Quarter
BY FlightAssumption DEF FullCircle

(* The number of steps between two angles less than a circle apart. *)
LEMMA ArcIs ==
  ASSUME NEW a \in Int, NEW b \in Int, -FullCircle < a - b, a - b < FullCircle
  PROVE  Arc(a, b) = LET gap == IF a >= b THEN a - b ELSE a - b + FullCircle
                     IN  IF gap <= FullCircle - gap THEN gap ELSE FullCircle - gap
<1> DEFINE c == FullCircle
           x == a - b
           gap == IF a >= b THEN a - b ELSE a - b + c
<1>1. c \in Nat \ {0}
  BY CircleFacts
<1>2. x % c = gap
  <2>1. x \in Int /\ -c < x /\ x < c
    OBVIOUS
  <2>2. x % c = IF x >= 0 THEN x ELSE x + c
    <3> HIDE DEF x, c
    <3> QED BY <1>1, <2>1, Remainder
  <2> QED BY <2>2
<1>3. gap \in Int /\ c - gap \in Int
  BY <1>1
<1>4. Arc(a, b) = Min({gap, c - gap})
  BY <1>2 DEF Arc
<1>5. Min({gap, c - gap}) = IF gap <= c - gap THEN gap ELSE c - gap
  <2> HIDE DEF gap, c
  <2> QED BY <1>3, MinOfTwo
<1> QED BY <1>4, <1>5

(* The angle on the horizon goes the short way round. *)
LEMMA HorizonAngle ==
  ASSUME NEW h \in 0..(FullCircle - 1), NEW d \in 0..(FullCircle - 1)
  PROVE  /\ Angle(h, d) \in 0..(FullCircle - 1)
         /\ Arc(Angle(h, d), d) = Max({Arc(h, d) - Rate, 0})
<1> DEFINE n == Angle(h, d)
           a == Arc(h, d)
<1> USE CircleFacts
<1>1. /\ h > d /\ h - d < 2 * Quarter => n = IF h - Rate >= d THEN h - Rate ELSE d
      /\ h > d /\ h - d >= 2 * Quarter =>
           n = IF h + Rate < FullCircle THEN h + Rate
               ELSE IF h + Rate - FullCircle <= d THEN h + Rate - FullCircle ELSE d
      /\ h < d /\ d - h < 2 * Quarter => n = IF h + Rate <= d THEN h + Rate ELSE d
      /\ h < d /\ d - h >= 2 * Quarter =>
           n = IF h - Rate >= 0 THEN h - Rate
               ELSE IF h - Rate + FullCircle >= d THEN h - Rate + FullCircle ELSE d
      /\ h = d => n = h
  <2>1. /\ Max({h - Rate, d}) = IF h - Rate >= d THEN h - Rate ELSE d
        /\ Min({h + Rate, d}) = IF h + Rate <= d THEN h + Rate ELSE d
    BY MaxOfTwo, MinOfTwo
  <2>2. /\ Min({h + Rate - FullCircle, d})
             = IF h + Rate - FullCircle <= d THEN h + Rate - FullCircle ELSE d
        /\ Max({h - Rate + FullCircle, d})
             = IF h - Rate + FullCircle >= d THEN h - Rate + FullCircle ELSE d
    BY MaxOfTwo, MinOfTwo
  <2> QED BY <2>1, <2>2 DEF Angle
<1> HIDE DEF n
<1>2. n \in 0..(FullCircle - 1)
  BY <1>1
<1>3. a = LET gap == IF h >= d THEN h - d ELSE h - d + FullCircle
          IN  IF gap <= FullCircle - gap THEN gap ELSE FullCircle - gap
  BY ArcIs
<1>4. Arc(n, d) = LET gap == IF n >= d THEN n - d ELSE n - d + FullCircle
                  IN  IF gap <= FullCircle - gap THEN gap ELSE FullCircle - gap
  BY <1>2, ArcIs
<1>5. Max({a - Rate, 0}) = IF a - Rate >= 0 THEN a - Rate ELSE 0
  <2>1. a \in Int
    BY <1>3
  <2> HIDE DEF a
  <2> QED BY <2>1, MaxOfTwo
<1> HIDE DEF a
<1>6. Arc(n, d) = Max({a - Rate, 0})
  BY <1>1, <1>3, <1>4, <1>5
<1> QED BY <1>2, <1>6 DEF n, a

(* So does the elevation, unless it goes from one pole to the other. *)
LEMMA ElevationAngle ==
  ASSUME NEW h \in -Quarter..Quarter, NEW d \in -Quarter..Quarter
  PROVE  /\ Angle(h, d) \in -Quarter..(3 * Quarter)
         /\ h - d \notin {-2 * Quarter, 2 * Quarter} =>
              /\ Angle(h, d) \in -Quarter..Quarter
              /\ Arc(Angle(h, d), d) = Max({Arc(h, d) - Rate, 0})
<1> DEFINE n == Angle(h, d)
           a == Arc(h, d)
<1> USE CircleFacts
<1>1. /\ h > d /\ h - d < 2 * Quarter => n = IF h - Rate >= d THEN h - Rate ELSE d
      /\ h < d /\ d - h < 2 * Quarter => n = IF h + Rate <= d THEN h + Rate ELSE d
      /\ h = d => n = h
  <2>1. /\ Max({h - Rate, d}) = IF h - Rate >= d THEN h - Rate ELSE d
        /\ Min({h + Rate, d}) = IF h + Rate <= d THEN h + Rate ELSE d
    BY MaxOfTwo, MinOfTwo
  <2> QED BY <2>1 DEF Angle
<1>2. /\ h > d /\ h - d >= 2 * Quarter => n = h + Rate
      /\ h < d /\ d - h >= 2 * Quarter => n = h - Rate + FullCircle
  <2>1. Max({h - Rate + FullCircle, d})
             = IF h - Rate + FullCircle >= d THEN h - Rate + FullCircle ELSE d
    BY MaxOfTwo
  <2> QED BY <2>1 DEF Angle
<1> HIDE DEF n
<1>3. n \in -Quarter..(3 * Quarter)
  BY <1>1, <1>2
<1>4. ASSUME h - d \notin {-2 * Quarter, 2 * Quarter}
      PROVE  n \in -Quarter..Quarter /\ Arc(n, d) = Max({a - Rate, 0})
  <2>1. h - d < 2 * Quarter /\ d - h < 2 * Quarter
    BY <1>4
  <2>2. n \in -Quarter..Quarter
    BY <1>1, <2>1
  <2>3. a = LET gap == IF h >= d THEN h - d ELSE h - d + FullCircle
            IN  IF gap <= FullCircle - gap THEN gap ELSE FullCircle - gap
    BY ArcIs
  <2>4. Arc(n, d) = LET gap == IF n >= d THEN n - d ELSE n - d + FullCircle
                    IN  IF gap <= FullCircle - gap THEN gap ELSE FullCircle - gap
    BY <2>2, ArcIs
  <2>5. Max({a - Rate, 0}) = IF a - Rate >= 0 THEN a - Rate ELSE 0
    <3>1. a \in Int
      BY <2>3
    <3> HIDE DEF a
    <3> QED BY <3>1, MaxOfTwo
  <2> HIDE DEF a
  <2>6. Arc(n, d) = Max({a - Rate, 0})
    BY <1>1, <2>1, <2>3, <2>4, <2>5
  <2> QED BY <2>2, <2>6
<1> QED BY <1>3, <1>4 DEF n, a

(* Beyond a pole a heading begins on the other meridian. *)
LEMMA VectorTyped ==
  ASSUME NEW xy \in 0..(FullCircle - 1), NEW z \in -Quarter..(3 * Quarter)
  PROVE  /\ Vector(xy, z) \in Headings
         /\ z \in -Quarter..Quarter => Vector(xy, z) = <<xy, z>>
<1> USE CircleFacts
<1>1. z % FullCircle = IF z >= 0 THEN z ELSE z + FullCircle
  <2>1. FullCircle \in Nat \ {0} /\ z \in Int /\ -FullCircle < z /\ z < FullCircle
    OBVIOUS
  <2> QED BY ONLY <2>1, Remainder
<1>2. (xy + 2 * Quarter) % FullCircle \in 0..(FullCircle - 1)
  BY DEF FullCircle
<1> QED BY <1>1, <1>2 DEF Vector, Headings

(* The thrusters keep the heading on the sphere and turn it the short way. *)
LEMMA TurnedShort ==
  ASSUME heading \in Headings, NEW w \in Headings, NEW driving
  PROVE  LET h == Turned(w, driving)
         IN  /\ h \in Headings
             /\ h # heading /\ heading[2] - w[2] \notin {-2 * Quarter, 2 * Quarter} =>
                  \A i \in 1..2 : Arc(h[i], w[i]) = Max({Arc(heading[i], w[i]) - Rate, 0})
<1> DEFINE h == Turned(w, driving)
           xy == Angle(heading[1], w[1])
           z == Angle(heading[2], w[2])
<1>1. CASE h = heading
  BY <1>1
<1>2. CASE h # heading
  <2>1. h = Vector(xy, z)
    BY <1>2 DEF Turned
  <2>2. /\ heading[1] \in 0..(FullCircle - 1) /\ w[1] \in 0..(FullCircle - 1)
        /\ heading[2] \in -Quarter..Quarter /\ w[2] \in -Quarter..Quarter
    BY DEF Headings
  <2>3. /\ xy \in 0..(FullCircle - 1)
        /\ Arc(xy, w[1]) = Max({Arc(heading[1], w[1]) - Rate, 0})
    BY <2>2, HorizonAngle
  <2>4. /\ z \in -Quarter..(3 * Quarter)
        /\ heading[2] - w[2] \notin {-2 * Quarter, 2 * Quarter} =>
             /\ z \in -Quarter..Quarter
             /\ Arc(z, w[2]) = Max({Arc(heading[2], w[2]) - Rate, 0})
    BY <2>2, ElevationAngle
  <2> HIDE DEF h, xy, z
  <2>5. h \in Headings /\ (z \in -Quarter..Quarter => h = <<xy, z>>)
    BY <2>1, <2>3, <2>4, VectorTyped
  <2>6. ASSUME heading[2] - w[2] \notin {-2 * Quarter, 2 * Quarter}, NEW i \in 1..2
        PROVE  Arc(h[i], w[i]) = Max({Arc(heading[i], w[i]) - Rate, 0})
    <3>1. h[1] = xy /\ h[2] = z
      BY <2>4, <2>5, <2>6
    <3>2. i = 1 \/ i = 2
      OBVIOUS
    <3> QED BY <2>3, <2>4, <2>6, <3>1, <3>2
  <2>7. /\ h \in Headings
        /\ h # heading /\ heading[2] - w[2] \notin {-2 * Quarter, 2 * Quarter} =>
             \A i \in 1..2 : Arc(h[i], w[i]) = Max({Arc(heading[i], w[i]) - Rate, 0})
    BY <2>5, <2>6
  <2> QED BY <2>7 DEF h
<1> QED BY <1>1, <1>2

-----------------------------------------------------------------------------
(* A push adds at most the acceleration to the length of the velocity. *)
LEMMA PushedBound ==
  ASSUME NEW v \in Nat, NEW d \in Directions, NEW a \in Nat, NEW p \in Pushed(v, d, a)
  PROVE  p[1] \in Nat /\ p[1] <= v + a /\ p[2] \in Directions
<1>1. CASE d = "aside" /\ v > 0
  <2>1. Max({v - a, a - v}) = IF v - a >= a - v THEN v - a ELSE a - v
    BY MaxOfTwo
  <2>2. p \in {<<x, y>> : x \in Max({v - a, a - v})..(v + a), y \in {"ahead", "aside"}}
    BY <1>1 DEF Pushed
  <2> QED BY <2>1, <2>2 DEF Directions
<1>2. CASE ~(d = "aside" /\ v > 0)
  BY <1>2 DEF Pushed, Directions
<1> QED BY <1>1, <1>2

(* The opposite of a direction is one.                                     *)
LEMMA OppositeTyped ==
  ASSUME NEW d \in Directions
  PROVE  Opposite(d) \in Directions
BY DEF Opposite, Directions

(* The forward branch of CycleEngines does not take a ship beyond both the *)
(* speed it had and the speed it is to have.                               *)
LEMMA ForwardBound ==
  ASSUME NEW v \in Nat, NEW d \in Directions, NEW limit \in Nat, NEW a \in Nat,
         NEW p \in Forward(v, d, limit, a)
  PROVE  p[1] \in Nat /\ (p[1] <= v \/ p[1] <= limit) /\ p[2] \in Directions
<1> DEFINE first == IF v <= limit THEN Pushed(v, d, a) ELSE {<<v, d>>}
           Brake(q) == IF q[1] <= limit THEN {q}
                       ELSE {<<IF q[1] > limit + a THEN q[1] - a ELSE limit, r[2]>> :
                               r \in Pushed(q[1], q[2], a)}
<1>1. PICK q \in first : p \in Brake(q)
  BY DEF Forward
<1>2. /\ q[1] \in Nat /\ q[2] \in Directions
      /\ q[1] <= (IF v <= limit THEN v + a ELSE v)
  <2>1. CASE v <= limit
    BY <1>1, <2>1, PushedBound
  <2>2. CASE ~(v <= limit)
    BY <1>1, <2>2
  <2> QED BY <2>1, <2>2
<1>3. CASE q[1] <= limit
  BY <1>1, <1>2, <1>3
<1>4. CASE ~(q[1] <= limit)
  <2>1. PICK r \in Pushed(q[1], q[2], a) :
           p = <<IF q[1] > limit + a THEN q[1] - a ELSE limit, r[2]>>
    BY <1>1, <1>4
  <2>2. r[2] \in Directions
    BY <1>2, <2>1, PushedBound
  <2>3. p[1] = (IF q[1] > limit + a THEN q[1] - a ELSE limit) /\ p[2] = r[2]
    BY <2>1
  <2> QED BY <1>2, <1>4, <2>2, <2>3
<1> QED BY <1>3, <1>4

(* Nor does the branch for a ship that reverses.                           *)
LEMMA ReverseBound ==
  ASSUME NEW v \in Nat, NEW d \in Directions, NEW limit \in Nat, NEW a \in Nat,
         NEW p \in Reverse(v, d, limit, a)
  PROVE  p[1] \in Nat /\ (p[1] <= v \/ p[1] <= limit) /\ p[2] \in Directions
<1> DEFINE first == IF v <= limit
                    THEN {<<q[1], Opposite(q[2])>> : q \in Pushed(v, Opposite(d), a)}
                    ELSE {<<v, d>>}
<1>1. PICK q \in first :
        p = <<IF q[1] > limit + a THEN q[1] - a ELSE Min({q[1], limit}), q[2]>>
  BY DEF Reverse
<1>2. /\ q[1] \in Nat /\ q[2] \in Directions
      /\ q[1] <= (IF v <= limit THEN v + a ELSE v)
  <2>1. CASE v <= limit
    <3>1. PICK r \in Pushed(v, Opposite(d), a) : q = <<r[1], Opposite(r[2])>>
      BY <1>1, <2>1
    <3>2. r[1] \in Nat /\ r[1] <= v + a /\ r[2] \in Directions
      BY OppositeTyped, PushedBound
    <3>3. Opposite(r[2]) \in Directions
      BY <3>2, OppositeTyped
    <3> QED BY <2>1, <3>1, <3>2, <3>3
  <2>2. CASE ~(v <= limit)
    BY <1>1, <2>2
  <2> QED BY <2>1, <2>2
<1>3. Min({q[1], limit}) = IF q[1] <= limit THEN q[1] ELSE limit
  BY <1>2, MinOfTwo
<1>4. /\ p[1] = (IF q[1] > limit + a THEN q[1] - a ELSE Min({q[1], limit}))
      /\ p[2] = q[2]
  BY <1>1
<1> QED BY <1>2, <1>3, <1>4

(* The greatest of three numbers.                                          *)
LEMMA MaxOfThree ==
  ASSUME NEW a \in Int, NEW b \in Int, NEW c \in Int
  PROVE  /\ Max({a, b, c}) \in Int
         /\ a <= Max({a, b, c}) /\ b <= Max({a, b, c}) /\ c <= Max({a, b, c})
<1>1. PICK x \in {a, b, c} : \A y \in {a, b, c} : x >= y
  <2>1. \/ a >= b /\ a >= c
        \/ b >= a /\ b >= c
        \/ c >= a /\ c >= b
    OBVIOUS
  <2> QED BY <2>1
<1>2. Max({a, b, c}) \in {a, b, c} /\ \A y \in {a, b, c} : Max({a, b, c}) >= y
  BY <1>1 DEF Max
<1> QED BY <1>2

(* The length of a speed that is negative is a natural number.             *)
LEMMA NegativeTyped ==
  ASSUME NEW b \in Int
  PROVE  -b \in Int /\ (b < 0 => -b \in Nat)
OBVIOUS

(* A maximum over a speed and both signs of another is not below any.      *)
LEMMA MaxOfLength ==
  ASSUME NEW a \in Int, NEW b \in Int
  PROVE  /\ Max({a, b, -b}) \in Int
         /\ a <= Max({a, b, -b}) /\ b <= Max({a, b, -b}) /\ -b <= Max({a, b, -b})
<1> DEFINE c == -b
<1>1. c \in Int
  OBVIOUS
<1> HIDE DEF c
<1>2. /\ Max({a, b, c}) \in Int
      /\ a <= Max({a, b, c}) /\ b <= Max({a, b, c}) /\ c <= Max({a, b, c})
  BY <1>1, MaxOfThree
<1> QED BY <1>2 DEF c

(* There are finitely many engines, each with its numbers.                 *)
LEMMA EnginesFinite ==
  /\ IsFiniteSet(DOMAIN Engines) /\ DOMAIN Engines = 1..Len(Engines) /\ Len(Engines) \in Nat
  /\ \A e \in DOMAIN Engines :
       Engines[e].thrust \in Nat /\ Engines[e].maxSpeed \in Nat /\ Engines[e].burn \in Nat
<1> DEFINE Kind == [name : STRING, thrust : Nat, maxSpeed : Nat \ {0}, burn : Nat]
<1>1. Engines \in Seq(Kind)
  BY FlightAssumption
<1>2. DOMAIN Engines = 1..Len(Engines) /\ Len(Engines) \in Nat
  BY <1>1
<1>3. IsFiniteSet(1..Len(Engines))
  BY <1>2, FS_Interval
<1>4. \A e \in DOMAIN Engines : Engines[e] \in Kind
  <2> HIDE DEF Kind
  <2> QED BY <1>1, <1>2
<1> QED BY <1>2, <1>3, <1>4

(* The speed of the slowest engine with power, or none.                    *)
LEMMA MaxVelocityTyped ==
  ASSUME NEW P
  PROVE  MaxVelocity(P) \in Nat
<1> DEFINE limits == {Engines[e].maxSpeed : e \in HavePower(P)}
           f == [e \in HavePower(P) |-> Engines[e].maxSpeed]
<1>1. CASE limits = {}
  BY <1>1 DEF MaxVelocity
<1>2. CASE limits # {}
  <2>1. HavePower(P) \subseteq DOMAIN Engines /\ IsFiniteSet(HavePower(P))
    BY EnginesFinite, FS_Subset DEF HavePower
  <2>2. limits \subseteq Nat /\ limits \subseteq Int
    BY <2>1, EnginesFinite
  <2>3. f \in Surjection(HavePower(P), limits)
    BY DEF Surjection
  <2>4. IsFiniteSet(limits)
    <3> HIDE DEF f, limits
    <3> QED BY <2>1, <2>3, FS_Surjection
  <2>5. PICK x \in limits : \A y \in limits : x <= y
    <3> HIDE DEF limits
    <3> QED BY <1>2, <2>2, <2>4, FiniteHasLeast
  <2>6. Min(limits) \in limits
    <3> HIDE DEF limits
    <3> QED BY <2>5 DEF Min
  <2> QED BY <1>2, <2>2, <2>6 DEF MaxVelocity
<1> QED BY <1>1, <1>2

(* A speed brought within the limits.                                      *)
LEMMA ClampedTyped ==
  ASSUME NEW v \in Int
  PROVE  Clamped(v) \in Int
<1>1. MaxVelocity(powered) \in Nat
  BY MaxVelocityTyped
<1>2. MaxReverse(powered) \in Int
  <2>1. RevertPercent \in Nat
    BY FlightAssumption
  <2>2. MaxVelocity(powered) * RevertPercent \in Int
    BY <1>1, <2>1
  <2> QED BY <2>2 DEF MaxReverse
<1> QED BY <1>1, <1>2 DEF Clamped

(* The engines together push forward or not at all.                        *)
LEMMA AccelerationTyped == Acceleration \in Nat
<1> DEFINE f == [e \in DOMAIN Engines |-> Engines[e].thrust]
<1>1. IsFiniteSet(Burning) /\ Burning \subseteq DOMAIN Engines
  BY EnginesFinite, FS_Subset DEF Burning, HavePower
<1>2. \A e \in Burning : f[e] \in Nat
  BY <1>1, EnginesFinite
<1>3. SumFunctionOnSet(f, Burning) \in Nat
  <2> HIDE DEF f
  <2> QED BY <1>1, <1>2, SumIsNat
<1> QED BY <1>3 DEF Acceleration

(* What the engines drink one after the other is never more than there is. *)
LEMMA FuelBeforeTyped ==
  ASSUME fuel \in 0..Tank
  PROVE  \A e \in 1..(Len(Engines) + 1) : FuelBefore[e] \in 0..Tank
<1> DEFINE N == Len(Engines) + 1
           b == 1
           need(e) == IF e - 1 \in HavePower(powered) THEN Engines[e - 1].burn ELSE 0
           left(e, x) == Max({x - need(e), 0})
           step == [e \in b..N |-> [x \in 0..Tank |-> left(e, x)]]
           Full == {e \in b..N : FuelBefore[e] \in 0..Tank}
<1>1. N \in Int /\ b <= N /\ b \in Int /\ Tank \in Nat
  BY EnginesFinite, FlightAssumption
<1>2. \A e \in b..N : need(e) \in Nat
  BY EnginesFinite DEF HavePower
<1> HIDE DEF N, b, need
<1>3. ASSUME NEW e \in b..N, NEW x \in 0..Tank
      PROVE  left(e, x) \in 0..Tank
  <2>1. Max({x - need(e), 0}) = IF x - need(e) >= 0 THEN x - need(e) ELSE 0
    BY <1>1, <1>2, MaxOfTwo
  <2> QED BY <1>1, <1>2, <2>1
<1> HIDE DEF left
<1>4. step \in [b..N -> [0..Tank -> 0..Tank]]
  BY <1>3
<1>5. PICK g \in [b..N -> 0..Tank] :
        \A e \in b..N : g[e] = IF e = b THEN fuel ELSE step[e][g[e - 1]]
  <2> DEFINE S == 0..Tank
  <2>1. fuel \in S /\ step \in [b..N -> [S -> S]]
    BY <1>4
  <2> HIDE DEF step, S
  <2>2. PICK g : CountsOn(g, b, N, S, fuel, step)
    BY <1>1, <2>1, RecursionSolved
  <2> QED BY <2>2 DEF CountsOn, S
<1>6. \A e \in b..N : e # b => e - 1 \in b..N
  BY <1>1
<1>7. \A e \in b..N : g[e] = IF e = b THEN fuel ELSE left(e, g[e - 1])
  BY <1>5, <1>6
<1>8. g = [e \in b..N |-> IF e = b THEN fuel ELSE left(e, g[e - 1])]
  BY <1>7
<1>9. FuelBefore = [e \in b..N |-> IF e = b THEN fuel ELSE left(e, FuelBefore[e - 1])]
  BY <1>8 DEF FuelBefore, N, b, need, left
<1>10. b \in Full
  BY <1>1, <1>9
<1>11. ASSUME NEW e \in b..N, e # b, e - 1 \in Full
       PROVE  e \in Full
  BY <1>3, <1>9, <1>11
<1>12. b..N \subseteq Full
  <2> HIDE DEF Full
  <2> QED BY <1>1, <1>10, <1>11, IntervalInduction
<1> QED BY <1>12 DEF N, b

-----------------------------------------------------------------------------
(* The parts of a cycle.                                                   *)
LEMMA GuidanceTyped ==
  ASSUME FlightTypeOK, NEW g, g \in Guidance
  PROVE  /\ g.on \in BOOLEAN /\ g.wanted \in Headings /\ g.desired \in Int
         /\ g.active \in BOOLEAN /\ g.leave \in BOOLEAN
<1> DEFINE Kind == [on : BOOLEAN, wanted : Headings, desired : Int, active : BOOLEAN,
                    leave : BOOLEAN]
           none == [on |-> autopilot, wanted |-> wanted, desired |-> desired,
                    active |-> accelerating, leave |-> FALSE]
           Leaves == {FALSE, engaged}
           Steer(p) == [none EXCEPT !.wanted = p[1], !.leave = p[2]]
           Slow(p) == [p[1] EXCEPT !.desired = p[2], !.active = TRUE]
           steered == {Steer(p) : p \in Courses \X Leaves}
           slowed == {Slow(p) : p \in steered \X (0..(desired - 1))}
<1> SUFFICES g \in Kind
  OBVIOUS
<1>0. /\ Courses \subseteq Headings /\ wanted \in Headings /\ desired \in Int
      /\ autopilot \in BOOLEAN /\ accelerating \in BOOLEAN /\ Leaves \subseteq BOOLEAN
  BY FlightAssumption DEF FlightTypeOK
<1>1. none \in Kind
  BY <1>0
<1>2. steered \subseteq Kind
  <2>1. ASSUME NEW p \in Headings \X BOOLEAN
        PROVE  Steer(p) \in Kind
    <3> HIDE DEF none
    <3> QED BY <1>1
  <2> HIDE DEF Steer, Kind, none, Leaves
  <2> QED BY <1>0, <2>1
<1>3. slowed \subseteq Kind
  <2>1. ASSUME NEW p \in Kind \X Int
        PROVE  Slow(p) \in Kind
    OBVIOUS
  <2> HIDE DEF Slow, Kind, steered
  <2> QED BY <1>0, <1>2, <2>1
<1>4. [none EXCEPT !.on = FALSE] \in Kind
  <2>1. ASSUME NEW b \in BOOLEAN
        PROVE  [none EXCEPT !.on = b] \in Kind
    <3> HIDE DEF none
    <3> QED BY <1>1
  <2> HIDE DEF none, Kind
  <2> QED BY <2>1
<1>5. [none EXCEPT !.on = FALSE, !.desired = 0] \in Kind
  <2> DEFINE Arrive(b, v) == [none EXCEPT !.on = b, !.desired = v]
  <2>1. ASSUME NEW b \in BOOLEAN, NEW v \in Int
        PROVE  Arrive(b, v) \in Kind
    <3> HIDE DEF none
    <3> QED BY <1>1
  <2> HIDE DEF none, Kind, Arrive
  <2>2. FALSE \in BOOLEAN /\ 0 \in Int
    OBVIOUS
  <2>3. Arrive(FALSE, 0) \in Kind
    BY Zenon, <2>1, <2>2
  <2> QED BY <2>3 DEF Arrive
<1>6. CASE ~autopilot
  <2>1. g \in {none}
    BY <1>6 DEF Guidance
  <2> QED BY <1>1, <2>1
<1>7. CASE autopilot /\ "autopilot" \notin powered
  <2>1. g \in {[none EXCEPT !.on = FALSE]}
    BY <1>7 DEF Guidance
  <2> HIDE DEF none, Kind
  <2> QED BY <1>4, <2>1
<1>8. CASE autopilot /\ "autopilot" \in powered
  <2>1. g \in {[none EXCEPT !.on = FALSE, !.desired = 0]} \cup steered \cup slowed
    BY <1>8 DEF Guidance
  <2> HIDE DEF none, Kind, steered, slowed
  <2> QED BY <1>2, <1>3, <1>5, <2>1
<1> QED BY <1>6, <1>7, <1>8

(* The drive never holds more charge than it needs.                        *)
LEMMA CycleDriveTyped ==
  ASSUME FlightTypeOK, NEW leave \in BOOLEAN, CycleDrive(leave)
  PROVE  engaged' \in BOOLEAN /\ charge' \in 0..RequiredCharge
<1>1. RequiredCharge \in Nat /\ ChargeSpeed \in Nat /\ charge \in 0..RequiredCharge
  BY FlightAssumption DEF FlightTypeOK
<1>2. Min({charge + ChargeSpeed, RequiredCharge}) \in 0..RequiredCharge
  <2>1. Min({charge + ChargeSpeed, RequiredCharge})
          = IF charge + ChargeSpeed <= RequiredCharge THEN charge + ChargeSpeed
            ELSE RequiredCharge
    BY <1>1, MinOfTwo
  <2> QED BY <1>1, <2>1
<1>3. CASE "drive" \notin powered
  <2>1. engaged' = FALSE /\ charge' = 0
    BY <1>3 DEF CycleDrive
  <2>2. 0 \in 0..RequiredCharge
    BY <1>1
  <2> QED BY <2>1, <2>2
<1>4. CASE "drive" \in powered
  <2>1. engaged' = (engaged /\ ~leave)
    BY <1>4 DEF CycleDrive
  <2>2. charge' = charge \/ charge' = Min({charge + ChargeSpeed, RequiredCharge})
    BY <1>4 DEF CycleDrive
  <2>3. engaged' \in BOOLEAN
    BY <2>1 DEF FlightTypeOK
  <2> QED BY <1>1, <1>2, <2>2, <2>3
<1> QED BY <1>3, <1>4

(* The engines drink what there is, lose power at most, and push no        *)
(* further than the limit.                                                 *)
LEMMA EnginesBound ==
  ASSUME FlightTypeOK, NEW v \in Int, NEW d \in Directions, NEW active \in BOOLEAN,
         NEW driving, CycleEngines(v, d, active, driving)
  PROVE  /\ speed' \in Nat /\ along' \in Directions /\ desired' \in Int
         /\ accelerating' \in BOOLEAN /\ cut' \in BOOLEAN
         /\ fuel' \in 0..Tank /\ powered' \subseteq Systems
         /\ speed' <= Max({speed, desired', -desired'})
<1> DEFINE a == Acceleration
           limit == IF desired' < 0 THEN -desired' ELSE desired'
<1>0. speed \in Nat /\ speed \in Int
  BY DEF FlightTypeOK
<1>1. ASSUME NEW x \in BOOLEAN, Drift(v, d, x)
      PROVE  /\ speed' = speed /\ along' \in Directions /\ desired' \in Int
             /\ accelerating' \in BOOLEAN /\ cut' \in BOOLEAN
             /\ fuel' \in 0..Tank /\ powered' \subseteq Systems
  BY <1>1 DEF Drift, FlightTypeOK
<1>2. \/ \E x \in BOOLEAN : Drift(v, d, x)
      \/ /\ desired' = Clamped(v)
         /\ fuel' = FuelBefore[Len(Engines) + 1]
         /\ powered' = powered \ {Engines[e].name : e \in DOMAIN Engines \ Burning}
         /\ IF a = 0
            THEN cut' = TRUE /\ accelerating' = FALSE /\ speed' = speed /\ along' = d
            ELSE /\ UNCHANGED cut /\ accelerating' = TRUE
                 /\ \E p \in IF desired' < 0
                             THEN Reverse(speed, d, -desired', a)
                             ELSE Forward(speed, d, desired', a) :
                      /\ speed' = p[1]
                      /\ along' = IF p[1] = 0 THEN "aside" ELSE p[2]
  <2> HIDE DEF a
  <2> QED BY DEF CycleEngines, a
<1>3. CASE \E x \in BOOLEAN : Drift(v, d, x)
  <2>1. /\ speed' = speed /\ along' \in Directions /\ desired' \in Int
        /\ accelerating' \in BOOLEAN /\ cut' \in BOOLEAN
        /\ fuel' \in 0..Tank /\ powered' \subseteq Systems
    BY <1>1, <1>3
  <2>2. speed <= Max({speed, desired', -desired'})
    BY <1>0, <2>1, MaxOfLength
  <2> QED BY <1>0, <2>1, <2>2
<1>4. CASE ~\E x \in BOOLEAN : Drift(v, d, x)
  <2>1. desired' \in Int
    BY <1>2, <1>4, ClampedTyped
  <2>2. fuel' \in 0..Tank
    <3>1. Len(Engines) + 1 \in 1..(Len(Engines) + 1) /\ fuel \in 0..Tank
      BY EnginesFinite DEF FlightTypeOK
    <3> QED BY <1>2, <1>4, <3>1, FuelBeforeTyped
  <2>3. powered' \subseteq Systems
    BY <1>2, <1>4 DEF FlightTypeOK
  <2>4. a \in Nat
    BY AccelerationTyped
  <2>5. limit \in Nat /\ limit \in Int /\ limit <= Max({speed, desired', -desired'})
          /\ speed <= Max({speed, desired', -desired'})
          /\ Max({speed, desired', -desired'}) \in Int
    <3>1. /\ Max({speed, desired', -desired'}) \in Int
          /\ speed <= Max({speed, desired', -desired'})
          /\ desired' <= Max({speed, desired', -desired'})
          /\ -desired' <= Max({speed, desired', -desired'})
      BY <1>0, <2>1, MaxOfLength
    <3>2. CASE desired' < 0
      <4>1. limit = -desired' /\ -desired' \in Nat
        BY <2>1, <3>2, NegativeTyped
      <4> HIDE DEF limit
      <4> QED BY <3>1, <4>1
    <3>3. CASE ~(desired' < 0)
      <4>1. limit = desired' /\ desired' \in Nat
        BY <2>1, <3>3
      <4> HIDE DEF limit
      <4> QED BY <3>1, <4>1
    <3> QED BY <3>2, <3>3
  <2>6. CASE a = 0
    BY <1>0, <1>2, <1>4, <2>1, <2>2, <2>3, <2>5, <2>6
  <2>7. CASE a # 0
    <3>1. PICK p \in IF desired' < 0
                     THEN Reverse(speed, d, -desired', a)
                     ELSE Forward(speed, d, desired', a) :
             /\ speed' = p[1]
             /\ along' = IF p[1] = 0 THEN "aside" ELSE p[2]
      <4> HIDE DEF a
      <4> QED BY <1>2, <1>4, <2>7
    <3>2. p[1] \in Nat /\ (p[1] <= speed \/ p[1] <= limit) /\ p[2] \in Directions
      <4> HIDE DEF a
      <4>1. CASE desired' < 0
        <5>1. -desired' \in Nat /\ limit = -desired'
          BY <2>1, <4>1, NegativeTyped
        <5>2. p \in Reverse(speed, d, -desired', a)
          BY <3>1, <4>1
        <5> QED BY <1>0, <2>4, <5>1, <5>2, ReverseBound
      <4>2. CASE ~(desired' < 0)
        <5>1. desired' \in Nat /\ limit = desired'
          BY <2>1, <4>2
        <5> QED BY <1>0, <2>4, <3>1, <4>2, <5>1, ForwardBound
      <4> QED BY <4>1, <4>2
    <3>3. speed' <= Max({speed, desired', -desired'})
      <4> DEFINE m == Max({speed, desired', -desired'})
      <4>1. speed <= m /\ limit <= m /\ m \in Int /\ limit \in Int
        BY <2>5
      <4> HIDE DEF m, limit
      <4>2. speed' <= m
        BY <1>0, <3>1, <3>2, <4>1
      <4> QED BY <4>2 DEF m
    <3>4. along' \in Directions
      BY <3>1, <3>2 DEF Directions
    <3>5. accelerating' \in BOOLEAN /\ cut' \in BOOLEAN
      <4> HIDE DEF a
      <4> QED BY <1>2, <1>4, <2>7 DEF FlightTypeOK
    <3> QED BY <2>1, <2>2, <2>3, <3>1, <3>2, <3>3, <3>4, <3>5
  <2> QED BY <2>6, <2>7
<1> QED BY <1>3, <1>4

-----------------------------------------------------------------------------
(* Every step keeps the type, and the two promises of a step.              *)
LEMMA CycleKeeps ==
  ASSUME FlightTypeOK, Cycle
  PROVE  /\ FlightTypeOK'
         /\ speed' <= Max({speed, desired', -desired'})
         /\ heading' # heading /\ heading[2] - wanted'[2] \notin {-2 * Quarter, 2 * Quarter}
              => \A i \in 1..2 : Arc(heading'[i], wanted'[i])
                                   = Max({Arc(heading[i], wanted'[i]) - Rate, 0})
<1>1. PICK g \in Guidance :
        /\ autopilot' = g.on /\ wanted' = g.wanted
        /\ CycleDrive(g.leave)
        /\ heading' = Turned(g.wanted, engaged')
        /\ \E d \in IF speed = 0 THEN {"aside"} ELSE AlongAfter(heading') :
             CycleEngines(g.desired, d, g.active, engaged')
  BY DEF Cycle
<1>2. /\ g.on \in BOOLEAN /\ g.wanted \in Headings /\ g.desired \in Int
      /\ g.active \in BOOLEAN /\ g.leave \in BOOLEAN
  BY GuidanceTyped
<1>3. engaged' \in BOOLEAN /\ charge' \in 0..RequiredCharge
  BY <1>1, <1>2, CycleDriveTyped
<1>4. heading \in Headings /\ along \in Directions /\ online \in BOOLEAN /\ online' = online
  BY DEF FlightTypeOK, Cycle
<1>5. /\ heading' \in Headings
      /\ heading' # heading /\ heading[2] - wanted'[2] \notin {-2 * Quarter, 2 * Quarter}
           => \A i \in 1..2 : Arc(heading'[i], wanted'[i])
                                = Max({Arc(heading[i], wanted'[i]) - Rate, 0})
  BY <1>1, <1>2, <1>4, TurnedShort
<1>6. PICK d \in IF speed = 0 THEN {"aside"} ELSE AlongAfter(heading') :
        CycleEngines(g.desired, d, g.active, engaged')
  BY <1>1
<1>7. d \in Directions
  BY <1>4, <1>6 DEF AlongAfter, Directions
<1>8. /\ speed' \in Nat /\ along' \in Directions /\ desired' \in Int
      /\ accelerating' \in BOOLEAN /\ cut' \in BOOLEAN
      /\ fuel' \in 0..Tank /\ powered' \subseteq Systems
      /\ speed' <= Max({speed, desired', -desired'})
  BY <1>2, <1>6, <1>7, EnginesBound
<1>9. FlightTypeOK'
  BY <1>1, <1>2, <1>3, <1>4, <1>5, <1>8 DEF FlightTypeOK
<1> QED BY <1>5, <1>8, <1>9

(* What the crew orders turns no ship and changes no speed by itself.      *)
LEMMA OrdersKeep ==
  ASSUME FlightTypeOK, [FlightNext]_flightVars, ~Cycle
  PROVE  FlightTypeOK' /\ speed' = speed /\ heading' = heading
<1> USE DEF FlightTypeOK
<1>0. /\ Speeds \subseteq Int /\ Courses \subseteq Headings /\ Tank \in Nat
      /\ RequiredCharge \in Nat /\ PowerStates \subseteq SUBSET Systems
  BY FlightAssumption
<1>1. ASSUME NEW v \in Speeds, SetSpeed(v)
      PROVE  FlightTypeOK' /\ speed' = speed /\ heading' = heading
  BY <1>0, <1>1 DEF SetSpeed
<1>2. ASSUME NEW w \in Courses, SetHeading(w)
      PROVE  FlightTypeOK' /\ speed' = speed /\ heading' = heading
  BY <1>0, <1>2 DEF SetHeading
<1>3. CASE CutEngines
  BY <1>3 DEF CutEngines
<1>4. ASSUME NEW on \in BOOLEAN, Autopilot(on)
      PROVE  FlightTypeOK' /\ speed' = speed /\ heading' = heading
  BY <1>4 DEF Autopilot
<1>5. CASE Engage
  BY <1>0, <1>5 DEF Engage
<1>6. CASE Disengage
  BY <1>6 DEF Disengage
<1>7. ASSUME NEW P \in PowerStates, PowerChanges(P)
      PROVE  FlightTypeOK' /\ speed' = speed /\ heading' = heading
  <2>1. powered' \subseteq Systems
    BY <1>0, <1>7 DEF PowerChanges
  <2>2. online' \in BOOLEAN
    BY <1>7 DEF PowerChanges
  <2> QED BY <1>7, <2>1, <2>2 DEF PowerChanges
<1>8. CASE Refuel
  BY <1>0, <1>8 DEF Refuel
<1>9. CASE UNCHANGED flightVars
  BY <1>9 DEF flightVars
<1> QED BY <1>1, <1>2, <1>3, <1>4, <1>5, <1>6, <1>7, <1>8, <1>9 DEF FlightNext

(* All that a ship under way keeps has its type, for any engines, courses  *)
(* and power failures: the fuel of HSEngineInstance::ConsumeFuel never     *)
(* falls below zero nor the charge of the drive beyond what it needs.      *)
THEOREM FlightTypeCorrect == FlightSpec => []FlightTypeOK
<1>1. FlightInit => FlightTypeOK
  <2>1. <<0, 0>> \in Headings /\ 0 \in 0..RequiredCharge /\ Tank \in 0..Tank
    <3>1. 0 \in 0..(FullCircle - 1) /\ 0 \in -Quarter..Quarter
      BY CircleFacts
    <3>2. RequiredCharge \in Nat /\ Tank \in Nat
      BY FlightAssumption
    <3>3. <<0, 0>> \in Headings
      BY <3>1, Zenon DEF Headings
    <3>4. 0 \in 0..RequiredCharge /\ Tank \in 0..Tank
      BY <3>2
    <3> QED BY <3>3, <3>4
  <2> SUFFICES ASSUME FlightInit PROVE FlightTypeOK
    OBVIOUS
  <2>2. heading \in Headings /\ wanted \in Headings
    BY Zenon, <2>1 DEF FlightInit
  <2>3. fuel \in 0..Tank /\ charge \in 0..RequiredCharge
    BY Zenon, <2>1 DEF FlightInit
  <2>4. /\ speed \in Nat /\ along \in Directions /\ desired \in Int
    <3>1. speed = 0 /\ along = "aside" /\ desired = 0
      BY Zenon DEF FlightInit
    <3> QED BY <3>1 DEF Directions
  <2>5. /\ accelerating \in BOOLEAN /\ cut \in BOOLEAN
        /\ engaged \in BOOLEAN /\ autopilot \in BOOLEAN
        /\ powered \subseteq Systems /\ online \in BOOLEAN
    BY Zenon DEF FlightInit
  <2> QED BY <2>2, <2>3, <2>4, <2>5 DEF FlightTypeOK
<1>2. FlightTypeOK /\ [FlightNext]_flightVars => FlightTypeOK'
  BY CycleKeeps, OrdersKeep
<1> QED BY <1>1, <1>2, PTL DEF FlightSpec

(* Whatever engines fail and however the ship flies when it is given a new *)
(* speed: CycleEngines never takes it beyond both the speed it had and the *)
(* speed it is to have.                                                    *)
THEOREM SpeedIsBounded == FlightSpec => EnginesKeepTheLimit
<1>1. FlightTypeOK /\ [FlightNext]_flightVars
        => speed' <= Max({speed, desired', -desired'})
  <2> SUFFICES ASSUME FlightTypeOK, [FlightNext]_flightVars
               PROVE  speed' <= Max({speed, desired', -desired'})
    OBVIOUS
  <2>1. CASE Cycle
    BY <2>1, CycleKeeps
  <2>2. CASE ~Cycle
    <3>1. FlightTypeOK' /\ speed' = speed
      BY <2>2, OrdersKeep
    <3>2. speed \in Int /\ desired' \in Int
      BY <3>1 DEF FlightTypeOK
    <3>3. speed <= Max({speed, desired', -desired'})
      BY <3>2, MaxOfLength
    <3> QED BY <3>1, <3>3
  <2> QED BY <2>1, <2>2
<1> QED BY <1>1, FlightTypeCorrect, PTL DEF FlightSpec, EnginesKeepTheLimit

(* CycleThrusters turns a ship the short way, through the zero of the      *)
(* circle if need be, at its rate, and never beyond the heading it was     *)
(* given.                                                                  *)
THEOREM TurnsAreShort == FlightSpec => TurnsTheShortWay
<1> DEFINE Short ==
      heading' # heading /\ heading[2] - wanted'[2] \notin {-2 * Quarter, 2 * Quarter}
        => \A i \in 1..2 : Arc(heading'[i], wanted'[i])
                             = Max({Arc(heading[i], wanted'[i]) - Rate, 0})
<1>1. FlightTypeOK /\ [FlightNext]_flightVars => Short
  <2> SUFFICES ASSUME FlightTypeOK, [FlightNext]_flightVars, heading' # heading
               PROVE  Short
    OBVIOUS
  <2>1. Cycle
    BY OrdersKeep
  <2> QED BY <2>1, CycleKeeps
<1> QED BY <1>1, FlightTypeCorrect, PTL DEF FlightSpec, TurnsTheShortWay

-----------------------------------------------------------------------------
(* Docking.                                                                *)

USE DockingAssumption

-----------------------------------------------------------------------------
(* The first state has the type.                                           *)
LEMMA HatchesInitTyped == DockingInit => DockingTypeOK
BY DEF DockingInit, DockingTypeOK

(* Unlocking keeps the type.                                               *)
LEMMA UnlinkTyped ==
  ASSUME DockingTypeOK, NEW H, Unlink(H)
  PROVE  /\ linkedTo' \in [Hatches -> Hatches \cup {Nothing}]
         /\ exitTo' \in [Hatches -> Hatches \cup {Nothing}]
BY DEF Unlink, DockingTypeOK

(* Discarding hatches keeps the type.                                      *)
LEMMA DiscardTyped ==
  ASSUME DockingTypeOK, NEW H, Discard(H), present' \subseteq present
  PROVE  DockingTypeOK'
BY DEF Discard, DockingTypeOK

(* Every step keeps the type.                                              *)
LEMMA HatchesStepTyped == DockingTypeOK /\ [DockingNext]_dockingVars => DockingTypeOK'
<1> SUFFICES ASSUME DockingTypeOK, [DockingNext]_dockingVars PROVE DockingTypeOK'
  OBVIOUS
<1>1. ASSUME NEW h \in Hatches, NEW g \in Hatches, ConnectHatch(h, g) PROVE DockingTypeOK'
  BY <1>1 DEF ConnectHatch, Link, DockingTypeOK
<1>2. ASSUME NEW h \in Hatches, DisconnectHatch(h) PROVE DockingTypeOK'
  BY <1>2, UnlinkTyped DEF DisconnectHatch, DockingTypeOK
<1>3. ASSUME NEW h \in Hatches, SetClamped(h) PROVE DockingTypeOK'
  BY <1>3 DEF SetClamped, DockingTypeOK
<1>4. ASSUME NEW h \in Hatches, RemoveDockingHatch(h) PROVE DockingTypeOK'
  BY <1>4, DiscardTyped DEF RemoveDockingHatch
<1>5. ASSUME NEW o \in Bodies, NEW p \in Positions, Move(o, p) PROVE DockingTypeOK'
  BY <1>5, UnlinkTyped DEF Move, DockingTypeOK
<1>6. ASSUME NEW o \in Bodies, NEW p \in Positions, Gate(o, p) PROVE DockingTypeOK'
  BY <1>6 DEF Gate, DockingTypeOK
<1>7. ASSUME NEW o \in Bodies, NEW h \in Hatches, AddDockingHatch(o, h) PROVE DockingTypeOK'
  BY <1>7 DEF AddDockingHatch, DockingTypeOK
<1>8. ASSUME NEW o \in Bodies, DestroyObject(o) PROVE DockingTypeOK'
  BY <1>8, DiscardTyped DEF DestroyObject
<1>9. CASE UNCHANGED dockingVars
  BY <1>9 DEF dockingVars, DockingTypeOK
<1> QED BY <1>1, <1>2, <1>3, <1>4, <1>5, <1>6, <1>7, <1>8, <1>9 DEF DockingNext

(* Links, exits and owners keep their types. *)
THEOREM DockingTypeCorrect == DockingSpec => []DockingTypeOK
BY HatchesInitTyped, HatchesStepTyped, PTL DEF DockingSpec

-----------------------------------------------------------------------------
(* However hatches are connected, removed and added again, a hatch that is *)
(* connected by its own account has an exit that leads where it says.      *)
THEOREM ExitsLead == DockingSpec => []ConnectedExitsLead
<1>1. DockingInit => ConnectedExitsLead
  BY DEF DockingInit, ConnectedExitsLead
<1>2. DockingTypeOK /\ ConnectedExitsLead /\ [DockingNext]_dockingVars => ConnectedExitsLead'
  <2> SUFFICES ASSUME DockingTypeOK, ConnectedExitsLead, [DockingNext]_dockingVars PROVE ConnectedExitsLead'
    OBVIOUS
  <2>1. ASSUME NEW H, Unlink(H) PROVE ConnectedExitsLead'
    BY <2>1 DEF Unlink, ConnectedExitsLead
  <2>2. ASSUME NEW h \in Hatches, NEW g \in Hatches, Link(h, g) PROVE ConnectedExitsLead'
    BY <2>2 DEF Link, ConnectedExitsLead, DockingTypeOK
  <2>3. ASSUME NEW H, Discard(H) PROVE ConnectedExitsLead'
    BY <2>3 DEF Discard, ConnectedExitsLead
  <2>4. CASE UNCHANGED <<linkedTo, exitTo>>
    BY <2>4 DEF ConnectedExitsLead
  <2> QED
    BY <2>1, <2>2, <2>3, <2>4
    DEF DockingNext, ConnectHatch, DisconnectHatch, SetClamped, RemoveDockingHatch, Move,
        Gate, AddDockingHatch, DestroyObject, dockingVars
<1> QED BY <1>1, <1>2, DockingTypeCorrect, PTL DEF DockingSpec

-----------------------------------------------------------------------------
(* The strengthening of LinksAreMutual: exits that are no hatches are not  *)
(* linked to anything.                                                     *)
MutualInv ==
  /\ LinksAreMutual
  /\ ExitsFollowLinks
  /\ \A h \in Hatches : linkedTo[h] # Nothing => owner[h] # Nothing

(* Unlinking reaches whole pairs. *)
LEMMA UnlinkKeepsMutual ==
  ASSUME DockingTypeOK, MutualInv, NEW H \in SUBSET Hatches,
         \A h \in H : Disconnectable(h), Unlink(H), owner' = owner
  PROVE  MutualInv'
<1> DEFINE ends == H \cup {linkedTo[h] : h \in H}
<1>1. \A h \in Hatches : linkedTo'[h] = IF h \in ends THEN Nothing ELSE linkedTo[h]
  BY DEF Unlink
<1>2. \A h \in Hatches : exitTo'[h] = IF h \in ends THEN Nothing ELSE exitTo[h]
  BY DEF Unlink
<1>3. ASSUME NEW h \in Hatches, Disconnectable(h)', linkedTo'[h] \in ends \ Reusable PROVE FALSE
  <2>1. /\ h \notin ends /\ linkedTo'[h] = linkedTo[h] /\ Disconnectable(h)
        /\ linkedTo[h] \notin Reusable
    BY <1>1, <1>3 DEF Disconnectable
  <2>2. linkedTo[linkedTo[h]] = h
    BY <2>1 DEF MutualInv, LinksAreMutual
  <2>3. linkedTo[h] \notin H
    BY <2>1, <2>2
  <2>4. PICK k \in H : linkedTo[h] = linkedTo[k]
    BY <1>3, <2>1, <2>3
  <2>5. linkedTo[linkedTo[k]] = k
    BY <2>1, <2>4 DEF MutualInv, LinksAreMutual
  <2> QED BY <2>1, <2>2, <2>4, <2>5
<1>4. LinksAreMutual'
  <2> SUFFICES ASSUME NEW h \in Hatches, Disconnectable(h)', linkedTo'[h] \notin Reusable
               PROVE  linkedTo'[linkedTo'[h]] = h
    BY DEF LinksAreMutual
  <2>1. linkedTo'[h] = linkedTo[h] /\ Disconnectable(h) /\ linkedTo[h] \in Hatches
    BY <1>1 DEF Disconnectable, DockingTypeOK
  <2>2. linkedTo[h] \notin ends
    BY <1>3, <2>1
  <2>3. linkedTo[linkedTo[h]] = h
    BY <2>1 DEF MutualInv, LinksAreMutual
  <2> QED BY <1>1, <2>1, <2>2, <2>3
<1>5. ExitsFollowLinks'
  BY <1>1, <1>2 DEF MutualInv, ExitsFollowLinks
<1> QED BY <1>1, <1>4, <1>5 DEF MutualInv

(* A lock that is made is made on both sides.                              *)
LEMMA LinkKeepsMutual ==
  ASSUME DockingTypeOK, MutualInv, NEW h \in Hatches, NEW g \in Hatches, ConnectHatch(h, g)
  PROVE  MutualInv'
<1>1. h # g /\ owner[h] # Nothing /\ owner[g] # Nothing
  BY DEF ConnectHatch
<1>2. /\ \A k \in Hatches : linkedTo'[k] = CASE k = h -> g [] k = g -> h [] OTHER -> linkedTo[k]
      /\ \A k \in Hatches : exitTo'[k] = CASE k = h -> g [] k = g -> h [] OTHER -> exitTo[k]
  BY <1>1 DEF ConnectHatch, Link, DockingTypeOK
<1>3. ASSUME NEW k \in Hatches \ {h, g}, Disconnectable(k), linkedTo[k] \notin Reusable
      PROVE linkedTo[k] \notin {h, g}
  BY <1>3 DEF ConnectHatch, MutualInv, LinksAreMutual
<1>4. LinksAreMutual'
  <2> SUFFICES ASSUME NEW k \in Hatches, Disconnectable(k)', linkedTo'[k] \notin Reusable
               PROVE  linkedTo'[linkedTo'[k]] = k
    BY DEF LinksAreMutual
  <2>1. CASE k \in {h, g}
    BY <1>1, <1>2, <2>1
  <2>2. CASE k \notin {h, g}
    <3>1. linkedTo'[k] = linkedTo[k] /\ Disconnectable(k) /\ linkedTo[k] \in Hatches
      BY <1>2, <2>2 DEF Disconnectable, ConnectHatch, DockingTypeOK
    <3>2. linkedTo[k] \notin {h, g} /\ linkedTo[linkedTo[k]] = k
      BY <1>3, <2>2, <3>1 DEF MutualInv, LinksAreMutual
    <3> QED BY <1>2, <3>1, <3>2
  <2> QED BY <2>1, <2>2
<1>5. ExitsFollowLinks'
  BY <1>1, <1>2 DEF MutualInv, ExitsFollowLinks, ConnectHatch
<1>6. \A k \in Hatches : linkedTo'[k] # Nothing => owner'[k] # Nothing
  BY <1>1, <1>2 DEF MutualInv, ConnectHatch
<1> QED BY <1>4, <1>5, <1>6 DEF MutualInv

(* Discarding hatches releases both sides.                                 *)
LEMMA DiscardKeepsMutual ==
  ASSUME DockingTypeOK, MutualInv, NEW H, Discard(H)
  PROVE  MutualInv'
<1>1. /\ \A h \in Hatches : linkedTo'[h] = IF h \in H THEN Nothing ELSE linkedTo[h]
      /\ \A h \in Hatches : owner'[h] = IF h \in H THEN Nothing ELSE owner[h]
      /\ exitTo' = exitTo
  BY DEF Discard
<1>2. LinksAreMutual'
  <2> SUFFICES ASSUME NEW h \in Hatches, Disconnectable(h)', linkedTo'[h] \notin Reusable
               PROVE  linkedTo'[linkedTo'[h]] = h
    BY DEF LinksAreMutual
  <2>1. linkedTo'[h] = linkedTo[h] /\ linkedTo[h] \in Hatches /\ h \notin H
    BY <1>1 DEF Disconnectable, DockingTypeOK
  <2>2. linkedTo[h] \notin H /\ Disconnectable(h)
    BY <1>1, <2>1 DEF Disconnectable
  <2> QED BY <1>1, <2>1, <2>2 DEF MutualInv, LinksAreMutual
<1> QED BY <1>1, <1>2 DEF MutualInv, ExitsFollowLinks

(* Every step keeps locks mutual.                                          *)
LEMMA StepKeepsMutual ==
  ASSUME DockingTypeOK, MutualInv, [DockingNext]_dockingVars
  PROVE  MutualInv'
<1>1. ASSUME NEW h \in Hatches, NEW g \in Hatches, ConnectHatch(h, g) PROVE MutualInv'
  BY <1>1, LinkKeepsMutual
<1>2. ASSUME NEW h \in Hatches, DisconnectHatch(h) PROVE MutualInv'
  BY <1>2, UnlinkKeepsMutual DEF DisconnectHatch
<1>3. ASSUME NEW o \in Bodies, NEW p \in Positions, Move(o, p) PROVE MutualInv'
  <2>1. Stray(o, p) \in SUBSET Hatches /\ \A h \in Stray(o, p) : Disconnectable(h)
    BY DEF Stray, HatchesOf
  <2> QED BY <1>3, <2>1, UnlinkKeepsMutual DEF Move
<1>4. ASSUME NEW h \in Hatches, RemoveDockingHatch(h) PROVE MutualInv'
  BY <1>4, DiscardKeepsMutual DEF RemoveDockingHatch
<1>5. ASSUME NEW o \in Bodies, DestroyObject(o) PROVE MutualInv'
  BY <1>5, DiscardKeepsMutual DEF DestroyObject
<1>6. ASSUME NEW o \in Bodies, NEW h \in Hatches, AddDockingHatch(o, h) PROVE MutualInv'
  <2>1. /\ h \in Reusable /\ linkedTo' = linkedTo /\ exitTo' = exitTo
        /\ \A k \in Hatches \ {h} : owner'[k] = owner[k]
        /\ linkedTo[h] = Nothing
    BY <1>6 DEF AddDockingHatch, MutualInv, DockingTypeOK
  <2>2. ASSUME NEW k \in Hatches, Disconnectable(k)', linkedTo'[k] \notin Reusable
        PROVE  linkedTo'[linkedTo'[k]] = k
    <3>1. Disconnectable(k) /\ linkedTo[k] \in Hatches \ {h}
      BY <2>1, <2>2 DEF Disconnectable, DockingTypeOK
    <3> QED BY <2>1, <2>2, <3>1 DEF MutualInv, LinksAreMutual
  <2>3. LinksAreMutual'
    BY <2>2 DEF LinksAreMutual
  <2> QED BY <2>1, <2>3 DEF MutualInv, ExitsFollowLinks
<1>7. CASE UNCHANGED <<owner, linkedTo, exitTo>>
  BY <1>7 DEF MutualInv, LinksAreMutual, ExitsFollowLinks, Disconnectable
<1> QED
  BY <1>1, <1>2, <1>3, <1>4, <1>5, <1>6, <1>7
  DEF DockingNext, SetClamped, Gate, dockingVars

(* Links are mutual, and one can walk through a hatch exactly if it is     *)
(* connected, but for hatches that were removed and added again.           *)
THEOREM LinksStayMutual == DockingSpec => [](LinksAreMutual /\ ExitsFollowLinks)
<1>1. DockingInit => MutualInv
  BY DEF DockingInit, MutualInv, LinksAreMutual, ExitsFollowLinks, Disconnectable
<1>2. DockingTypeOK /\ MutualInv /\ [DockingNext]_dockingVars => MutualInv'
  BY StepKeepsMutual
<1>3. MutualInv => LinksAreMutual /\ ExitsFollowLinks
  BY DEF MutualInv
<1> QED BY <1>1, <1>2, <1>3, DockingTypeCorrect, PTL DEF DockingSpec

-----------------------------------------------------------------------------
(* The distance is the same both ways.                                     *)
LEMMA DistanceSymmetric ==
  ASSUME NEW p \in Positions, NEW q \in Positions
  PROVE  Distance(p, q) \in Int /\ Distance(p, q) = Distance(q, p)
<1>1. p \in Int /\ q \in Int
  OBVIOUS
<1>2. CASE p < q
  BY <1>1, <1>2 DEF Distance
<1>3. CASE ~(p < q)
  BY <1>1, <1>3 DEF Distance
<1> QED BY <1>2, <1>3

(* An object that moves finds all its links that have become too long      *)
(* among its own hatches: they are mutual.                                 *)
LEMMA MoveKeepsRange ==
  ASSUME DockingTypeOK, MutualInv, LinkedWithinRange,
         NEW o \in Bodies, NEW p \in Positions, Move(o, p)
  PROVE  LinkedWithinRange'
<1> SUFFICES ASSUME NEW h \in Hatches, Disconnectable(h)', linkedTo'[h] \notin Reusable,
                    {owner'[h], owner'[linkedTo'[h]]} \cap Gaters = {}
             PROVE  Distance(pos'[owner'[h]], pos'[owner'[linkedTo'[h]]]) <= DockingDistance
  BY DEF LinkedWithinRange
<1> DEFINE ends == Stray(o, p) \cup {linkedTo[k] : k \in Stray(o, p)}
<1>1. /\ h \notin ends /\ linkedTo'[h] = linkedTo[h] /\ owner' = owner
      /\ linkedTo[h] \in Hatches /\ Disconnectable(h)
  BY DEF Move, Unlink, Disconnectable, DockingTypeOK
<1> DEFINE g == linkedTo[h]
<1>2. linkedTo[g] = h /\ owner[h] # Nothing /\ owner[g] # Nothing
  BY <1>1 DEF MutualInv, LinksAreMutual, Disconnectable
<1>3. owner[h] \in Bodies /\ owner[g] \in Bodies /\ pos \in [Bodies -> Positions]
  BY <1>1, <1>2 DEF DockingTypeOK
<1>4. \A q \in Bodies : pos'[q] = IF q = o THEN p ELSE pos[q]
  BY <1>3 DEF Move
<1> DEFINE q == pos'[owner[h]]
<1>5. CASE owner[h] = owner[g]
  <2>1. q \in Int /\ pos'[owner[g]] = q
    BY <1>3, <1>4, <1>5
  <2>2. Distance(q, q) = 0
    BY <2>1 DEF Distance
  <2> QED BY <1>1, <2>1, <2>2
<1>6. CASE owner[h] = o /\ owner[g] # o
  <2>1. h \notin Stray(o, p)
    BY <1>1
  <2>2. ~(Distance(p, pos[owner[g]]) > DockingDistance)
    BY <1>1, <1>6, <2>1 DEF Stray, HatchesOf
  <2>3. pos'[owner[h]] = p /\ pos'[owner[g]] = pos[owner[g]]
    BY <1>3, <1>4, <1>6
  <2>4. Distance(p, pos[owner[g]]) \in Int
    BY <1>3, DistanceSymmetric
  <2> QED BY <1>1, <2>2, <2>3, <2>4
<1>7. CASE owner[g] = o /\ owner[h] # o
  <2>1. Disconnectable(g)
    BY <1>1, <1>2 DEF Disconnectable
  <2>2. g \notin Stray(o, p)
    BY <1>1, <1>2
  <2>3. ~(Distance(p, pos[owner[h]]) > DockingDistance)
    BY <1>1, <1>2, <1>7, <2>1, <2>2 DEF Stray, HatchesOf
  <2>4. pos'[owner[g]] = p /\ pos'[owner[h]] = pos[owner[h]]
    BY <1>3, <1>4, <1>7
  <2>5. /\ Distance(p, pos[owner[h]]) \in Int
        /\ Distance(p, pos[owner[h]]) = Distance(pos[owner[h]], p)
    BY <1>3, DistanceSymmetric
  <2> QED BY <1>1, <2>3, <2>4, <2>5
<1>8. CASE owner[g] # o /\ owner[h] # o
  BY <1>1, <1>3, <1>4, <1>8 DEF LinkedWithinRange
<1> QED BY <1>5, <1>6, <1>7, <1>8

(* Every step keeps locked hatches in range.                               *)
LEMMA StepKeepsRange ==
  ASSUME DockingTypeOK, MutualInv, LinkedWithinRange, [DockingNext]_dockingVars
  PROVE  LinkedWithinRange'
<1>1. ASSUME NEW h \in Hatches, NEW g \in Hatches, ConnectHatch(h, g)
      PROVE LinkedWithinRange'
  <2>1. owner[h] \in Bodies /\ owner[g] \in Bodies /\ pos \in [Bodies -> Positions]
    BY <1>1 DEF ConnectHatch, DockingTypeOK
  <2>2. Distance(pos[owner[g]], pos[owner[h]]) <= DockingDistance
    BY <1>1, <2>1, DistanceSymmetric DEF ConnectHatch
  <2> QED BY <1>1, <2>2 DEF ConnectHatch, Link, LinkedWithinRange, Disconnectable, DockingTypeOK
<1>2. ASSUME NEW h \in Hatches, DisconnectHatch(h) PROVE LinkedWithinRange'
  BY <1>2 DEF DisconnectHatch, Unlink, LinkedWithinRange, Disconnectable
<1>3. ASSUME NEW o \in Bodies, NEW p \in Positions, Move(o, p) PROVE LinkedWithinRange'
  BY <1>3, MoveKeepsRange
<1>4. ASSUME NEW H, Discard(H) PROVE LinkedWithinRange'
  BY <1>4 DEF Discard, LinkedWithinRange, Disconnectable, DockingTypeOK
<1>5. ASSUME NEW o \in Bodies, NEW h \in Hatches, AddDockingHatch(o, h)
      PROVE LinkedWithinRange'
  <2> SUFFICES ASSUME NEW k \in Hatches, Disconnectable(k)', linkedTo'[k] \notin Reusable,
                      {owner'[k], owner'[linkedTo'[k]]} \cap Gaters = {}
               PROVE  Distance(pos'[owner'[k]], pos'[owner'[linkedTo'[k]]]) <= DockingDistance
    BY DEF LinkedWithinRange
  <2>1. /\ h \in Reusable /\ linkedTo' = linkedTo /\ pos' = pos
        /\ \A i \in Hatches \ {h} : owner'[i] = owner[i]
        /\ linkedTo[h] = Nothing
    BY <1>5 DEF AddDockingHatch, MutualInv, DockingTypeOK
  <2>2. k # h /\ linkedTo[k] \in Hatches \ {h}
    BY <2>1 DEF Disconnectable, DockingTypeOK
  <2> QED BY <2>1, <2>2 DEF LinkedWithinRange, Disconnectable
<1>6. ASSUME NEW o \in Bodies, NEW p \in Positions, Gate(o, p)
      PROVE LinkedWithinRange'
  <2> SUFFICES ASSUME NEW k \in Hatches, Disconnectable(k)', linkedTo'[k] \notin Reusable,
                      {owner'[k], owner'[linkedTo'[k]]} \cap Gaters = {}
               PROVE  Distance(pos'[owner'[k]], pos'[owner'[linkedTo'[k]]]) <= DockingDistance
    BY DEF LinkedWithinRange
  <2>1. /\ owner' = owner /\ linkedTo' = linkedTo /\ o \in Gaters
        /\ \A q \in Bodies \ {o} : pos'[q] = pos[q]
    BY <1>6 DEF Gate, DockingTypeOK
  <2>2. Disconnectable(k) /\ linkedTo[k] \in Hatches
    BY <2>1 DEF Disconnectable, DockingTypeOK
  <2>3. linkedTo[linkedTo[k]] = k
    BY <2>1, <2>2 DEF MutualInv, LinksAreMutual
  <2>4. owner[k] \in Bodies \ {o} /\ owner[linkedTo[k]] \in Bodies \ {o}
    BY <2>1, <2>2, <2>3 DEF MutualInv, Disconnectable, DockingTypeOK
  <2> QED BY <2>1, <2>2, <2>4 DEF LinkedWithinRange
<1>7. CASE UNCHANGED <<owner, linkedTo, pos>>
  BY <1>7 DEF LinkedWithinRange, Disconnectable
<1> QED
  BY <1>1, <1>2, <1>3, <1>4, <1>5, <1>6, <1>7
  DEF DockingNext, SetClamped, RemoveDockingHatch, DestroyObject, dockingVars

(* Connected objects are within docking distance, but for ships that gate  *)
(* and hatches that were removed and added again.                          *)
THEOREM LinksStayShort == DockingSpec => []LinkedWithinRange
<1>1. DockingInit => MutualInv /\ LinkedWithinRange
  BY DEF DockingInit, MutualInv, LinksAreMutual, ExitsFollowLinks, LinkedWithinRange, Disconnectable
<1>2. DockingTypeOK /\ MutualInv /\ LinkedWithinRange /\ [DockingNext]_dockingVars
        => MutualInv' /\ LinkedWithinRange'
  BY StepKeepsMutual, StepKeepsRange
<1> QED BY <1>1, <1>2, DockingTypeCorrect, PTL DEF DockingSpec
-----------------------------------------------------------------------------
(* Where one gets by walking through each lasting hatch. *)
Beyond ==
  [h \in Lasting |->
     IF owner[h] # Nothing /\ exitTo[h] \in {g \in Lasting : owner[g] # Nothing}
     THEN exitTo[h] ELSE Nothing]

(* One gets where the link leads. *)
LEMMA BeyondIsLink ==
  ASSUME MutualInv, NEW h \in Lasting, Beyond[h] # Nothing
  PROVE  /\ Beyond[h] = linkedTo[h] /\ exitTo[h] = linkedTo[h]
         /\ linkedTo[h] \in Lasting /\ Disconnectable(h)
         /\ linkedTo[linkedTo[h]] = h
<1>1. /\ owner[h] # Nothing /\ exitTo[h] = Beyond[h]
      /\ exitTo[h] \in Lasting /\ owner[exitTo[h]] # Nothing
  BY DEF Beyond
<1>2. exitTo[h] = linkedTo[h]
  BY <1>1 DEF MutualInv, ExitsFollowLinks, Lasting
<1>3. Disconnectable(h)
  BY <1>1, <1>2 DEF Disconnectable
<1> QED BY <1>1, <1>2, <1>3 DEF MutualInv, LinksAreMutual, Lasting

(* Unlocking closes passages only.                                         *)
LEMMA UnlinkCloses ==
  ASSUME DockingTypeOK, MutualInv, NEW H \in SUBSET Hatches,
         \A h \in H : Disconnectable(h), Unlink(H), owner' = owner
  PROVE  \E S \in SUBSET Lasting : Passage!Close(S)
<1> DEFINE ends == H \cup {linkedTo[h] : h \in H}
           S == ends \cap Lasting
<1>1. \A h \in Lasting : Beyond'[h] = IF h \in ends THEN Nothing ELSE Beyond[h]
  BY DEF Unlink, Beyond, Lasting
<1>2. ASSUME NEW h \in Lasting, Beyond[h] # Nothing, Beyond[h] \in S PROVE h \in ends
  <2>1. /\ Beyond[h] = linkedTo[h] /\ linkedTo[h] \in Lasting
        /\ linkedTo[linkedTo[h]] = h
    BY <1>2, BeyondIsLink
  <2>2. CASE linkedTo[h] \in H
    BY <2>1, <2>2
  <2>3. CASE linkedTo[h] \notin H
    <3>1. PICK k \in H : linkedTo[k] = linkedTo[h]
      BY <1>2, <2>1, <2>3
    <3>2. linkedTo[linkedTo[k]] = k
      BY <2>1, <3>1 DEF MutualInv, LinksAreMutual, Lasting
    <3> QED BY <2>1, <3>1, <3>2
  <2> QED BY <2>2, <2>3
<1>3. \A h \in Lasting :
        Beyond'[h] = IF h \in S \/ (Beyond[h] # Nothing /\ Beyond[h] \in S)
                     THEN Nothing ELSE Beyond[h]
  BY <1>1, <1>2
<1>4. Beyond' = [h \in Lasting |->
        IF h \in S \/ (Beyond[h] # Nothing /\ Beyond[h] \in S) THEN Nothing ELSE Beyond[h]]
  BY <1>3 DEF Beyond
<1>5. S \in SUBSET Lasting
  OBVIOUS
<1> HIDE DEF S
<1> QED BY <1>4, <1>5 DEF Passage!Close, Beyond

(* Discarding closes passages only.                                        *)
LEMMA DiscardCloses ==
  ASSUME NEW H, Discard(H)
  PROVE  \E S \in SUBSET Lasting : Passage!Close(S)
<1> DEFINE S == H \cap Lasting
<1>1. \A h \in Lasting :
        Beyond'[h] = IF h \in S \/ (Beyond[h] # Nothing /\ Beyond[h] \in S)
                     THEN Nothing ELSE Beyond[h]
  BY DEF Discard, Beyond, Lasting
<1>2. Beyond' = [h \in Lasting |->
        IF h \in S \/ (Beyond[h] # Nothing /\ Beyond[h] \in S) THEN Nothing ELSE Beyond[h]]
  BY <1>1 DEF Beyond
<1> QED BY <1>2 DEF Passage!Close, Beyond

(* Connecting opens one passage.                                           *)
LEMMA ConnectOpens ==
  ASSUME DockingTypeOK, MutualInv, NEW h \in Hatches, NEW g \in Hatches, ConnectHatch(h, g)
  PROVE  (\E a, b \in Lasting : Passage!Open(a, b)) \/ Beyond' = Beyond
<1>1. /\ h # g /\ owner' = owner /\ owner[h] # Nothing /\ owner[g] # Nothing
      /\ linkedTo[h] = Nothing /\ linkedTo[g] = Nothing
  BY DEF ConnectHatch
<1>2. \A k \in Hatches : exitTo'[k] = CASE k = h -> g [] k = g -> h [] OTHER -> exitTo[k]
  BY <1>1 DEF ConnectHatch, Link, DockingTypeOK
<1>3. ASSUME NEW k \in {h, g} \cap Lasting PROVE Beyond[k] = Nothing
  BY <1>1, <1>3, BeyondIsLink DEF Disconnectable
<1>4. CASE h \in Lasting /\ g \in Lasting
  <2>1. \A k \in Lasting :
          Beyond'[k] = IF k = g THEN h ELSE IF k = h THEN g ELSE Beyond[k]
    BY <1>1, <1>2, <1>4 DEF Beyond, Lasting
  <2>2. Beyond' = [Beyond EXCEPT ![h] = g, ![g] = h]
    <3>1. /\ Beyond = [k \in Lasting |-> Beyond[k]]
          /\ Beyond' = [k \in Lasting |-> Beyond'[k]]
      BY DEF Beyond
    <3> HIDE DEF Beyond
    <3> QED BY <1>4, <2>1, <3>1
  <2>3. Beyond[h] = Nothing /\ Beyond[g] = Nothing
    BY <1>3, <1>4
  <2>4. Passage!Open(h, g)
    BY <1>1, <2>2, <2>3 DEF Passage!Open, Beyond
  <2> QED BY <1>4, <2>4
<1>5. CASE ~(h \in Lasting /\ g \in Lasting)
  <2>1. \A k \in Lasting \ {h, g} : Beyond'[k] = Beyond[k]
    BY <1>1, <1>2 DEF Beyond, Lasting
  <2>2. \A k \in {h, g} \cap Lasting : Beyond'[k] = Nothing
    BY <1>1, <1>2, <1>5 DEF Beyond, Lasting
  <2>3. \A k \in Lasting : Beyond'[k] = Beyond[k]
    BY <1>3, <2>1, <2>2
  <2> QED BY <2>3 DEF Beyond
<1> QED BY <1>4, <1>5

(* Every step is one of the promise, or a stutter.                         *)
LEMMA StepIsPassage ==
  ASSUME DockingTypeOK, MutualInv, [DockingNext]_dockingVars
  PROVE  Passage!Next \/ Beyond' = Beyond
<1>1. ASSUME NEW h \in Hatches, NEW g \in Hatches, ConnectHatch(h, g)
      PROVE  Passage!Next \/ Beyond' = Beyond
  BY <1>1, ConnectOpens DEF Passage!Next
<1>2. ASSUME NEW h \in Hatches, DisconnectHatch(h) PROVE Passage!Next
  BY <1>2, UnlinkCloses DEF DisconnectHatch, Passage!Next
<1>3. ASSUME NEW o \in Bodies, NEW p \in Positions, Move(o, p) PROVE Passage!Next
  <2>1. Stray(o, p) \in SUBSET Hatches /\ \A h \in Stray(o, p) : Disconnectable(h)
    BY DEF Stray, HatchesOf
  <2> QED BY <1>3, <2>1, UnlinkCloses DEF Move, Passage!Next
<1>4. ASSUME NEW H, Discard(H) PROVE Passage!Next
  BY <1>4, DiscardCloses DEF Passage!Next
<1>5. ASSUME NEW o \in Bodies, NEW h \in Hatches, AddDockingHatch(o, h)
      PROVE  Beyond' = Beyond
  <2>1. h \notin Lasting /\ exitTo' = exitTo /\ \A k \in Lasting : owner'[k] = owner[k]
    BY <1>5 DEF AddDockingHatch, Lasting, DockingTypeOK
  <2> QED BY <2>1 DEF Beyond
<1>6. CASE UNCHANGED <<owner, exitTo>>
  BY <1>6 DEF Beyond
<1> QED
  BY <1>1, <1>2, <1>3, <1>4, <1>5, <1>6
  DEF DockingNext, SetClamped, RemoveDockingHatch, DestroyObject, Gate, dockingVars

(* Docking implements Passages: for any objects and hatches, every step    *)
(* opens one passage between free hatches, closes passages on both sides,  *)
(* or leaves them as they are.                                             *)
THEOREM DockingImplementsPassages == DockingSpec => PassageSpec
<1>1. DockingInit => Passage!Init
  BY DEF DockingInit, Passage!Init, Lasting
<1>2. DockingTypeOK /\ MutualInv /\ [DockingNext]_dockingVars => [Passage!Next]_Beyond
  BY StepIsPassage
<1>3. DockingInit => MutualInv
  BY DEF DockingInit, MutualInv, LinksAreMutual, ExitsFollowLinks, Disconnectable
<1>4. DockingTypeOK /\ MutualInv /\ [DockingNext]_dockingVars => MutualInv'
  BY StepKeepsMutual
<1>5. DockingSpec => Passage!Init /\ [][Passage!Next]_Beyond
  BY <1>1, <1>2, <1>3, <1>4, DockingTypeCorrect, PTL DEF DockingSpec
<1> QED BY <1>5, PTL DEF PassageSpec, Passage!Spec, Beyond

-----------------------------------------------------------------------------
(* Landing.                                                                *)

HIDE DockingAssumption
USE LandingAssumption DEF Objects, Rooms, Modes

-----------------------------------------------------------------------------
(* What one tick of a sequence does to the berth of ship s. *)
LEMMA AdvanceTyped ==
  ASSUME TypeOK, NEW s \in Ships, AdvanceSequence(s)
  PROVE  /\ landedLoc' \in [Ships -> Rooms \cup {None}]
         /\ landedObj' \in [Ships -> Objects \cup {None}]
         /\ timer' \in [Ships -> (-LaunchTicks)..LandingTicks]
         /\ room' \in [Ships -> Rooms \cup {Space}]
         /\ roster' \in [Objects -> [Ships -> 0..RosterBound]]
<1>1. CASE timer[s] = 0 \/ landedLoc[s] \notin sites
  BY <1>1 DEF AdvanceSequence, TypeOK, berthVars
<1>2. CASE ~(timer[s] = 0 \/ landedLoc[s] \notin sites)
  <2>1. timer' \in [Ships -> (-LaunchTicks)..LandingTicks]
    BY <1>2 DEF AdvanceSequence, TypeOK
  <2>2. landedLoc[s] \in Locations /\ Host[landedLoc[s]] \in Objects
    BY <1>2 DEF TypeOK
  <2>3. CASE Arrives(s)
    BY <2>1, <2>2, <2>3 DEF Arrives, TypeOK
  <2>4. CASE Departs(s)
    BY <2>1, <2>2, <2>4 DEF Departs, TypeOK
  <2>5. CASE UNCHANGED <<landedLoc, landedObj, room, roster>>
    BY <2>1, <2>5 DEF TypeOK
  <2> QED BY <1>2, <2>3, <2>4, <2>5 DEF AdvanceSequence
<1> QED BY <1>1, <1>2

(* A cycle leaves only objects on the contact list. *)
LEMMA ContactsTyped ==
  ASSUME TypeOK, NEW s \in Ships, NEW seen \in MaySee(s), NEW left \in ContactsAfter(s, seen)
  PROVE  left \subseteq Objects
<1>1. seen \subseteq Objects
  BY DEF MaySee
<1>2. contacts[s] \subseteq Objects
  BY DEF TypeOK
<1> QED BY <1>1, <1>2 DEF ContactsAfter

(* A cycle keeps the type.                                                 *)
LEMMA CycleTyped ==
  ASSUME TypeOK, NEW s \in Ships, CycleShip(s)
  PROVE  TypeOK'
<1>1. contacts' \in [Ships -> SUBSET Objects]
  <2>1. CASE UNCHANGED contacts
    BY <2>1 DEF TypeOK
  <2>2. CASE \E seen \in MaySee(s) : \E left \in ContactsAfter(s, seen) :
               contacts' = [contacts EXCEPT ![s] = left]
    BY <2>2, ContactsTyped DEF TypeOK
  <2> QED BY <2>1, <2>2 DEF CycleShip
<1>2. AdvanceSequence(s) \/ UNCHANGED berthVars
  BY DEF CycleShip
<1>3. CASE AdvanceSequence(s)
  BY <1>1, <1>3, AdvanceTyped DEF CycleShip, TypeOK
<1>4. CASE UNCHANGED berthVars
  BY <1>1, <1>4 DEF CycleShip, TypeOK, berthVars
<1> QED BY <1>2, <1>3, <1>4

(* The first state has the type.                                           *)
LEMMA InitTyped == Init => TypeOK
BY DEF Init, TypeOK

(* Every step keeps the types. *)
LEMMA StepTyped == TypeOK /\ [Next]_vars => TypeOK'
<1> SUFFICES ASSUME TypeOK, [Next]_vars PROVE TypeOK'
  OBVIOUS
<1>1. ASSUME NEW s \in Ships, CycleShip(s) PROVE TypeOK'
  BY <1>1, CycleTyped
<1>2. ASSUME NEW s \in Ships, NEW l \in Locations, Land(s, l) PROVE TypeOK'
  BY <1>2 DEF Land, TypeOK
<1>3. ASSUME NEW s \in Ships, Launch(s) PROVE TypeOK'
  BY <1>3 DEF Launch, TypeOK
<1>4. ASSUME NEW s \in Ships, NEW r \in Rooms, Taxi(s, r) PROVE TypeOK'
  BY <1>4 DEF Taxi, TypeOK
<1>5. ASSUME NEW s \in Ships, PowerFails(s) PROVE TypeOK'
  BY <1>5 DEF PowerFails, TypeOK, berthVars
<1>6. ASSUME NEW s \in Ships, PowerReturns(s) PROVE TypeOK'
  BY <1>6 DEF PowerReturns, TypeOK, berthVars
<1>7. ASSUME NEW l \in Locations, RemoveLandingLocation(l) PROVE TypeOK'
  BY <1>7 DEF RemoveLandingLocation, TypeOK, berthVars
<1>8. ASSUME NEW o \in Objects, ObjectDestroyed(o) PROVE TypeOK'
  BY <1>8 DEF ObjectDestroyed, TypeOK, berthVars
<1>9. CASE Restart
  BY <1>9 DEF Restart, TypeOK
<1>10. CASE UNCHANGED vars
  BY <1>10 DEF vars, TypeOK
<1> QED
  BY <1>1, <1>2, <1>3, <1>4, <1>5, <1>6, <1>7, <1>8, <1>9, <1>10
  DEF Next, Running, Sweep

(* The landing state of every ship stays within its types, restarts and    *)
(* removed objects included.                                               *)
THEOREM LandingTypeCorrect == Spec => []TypeOK
BY InitTyped, StepTyped, PTL DEF Spec

-----------------------------------------------------------------------------
(* A ship that the code takes to be in flight is so in every respect; in   *)
(* particular no ship without a landing location is in a sequence, where   *)
(* HSShip::Cycle would never advance it.                                   *)
THEOREM FlightStaysCoherent == Spec => []FlightIsCoherent
<1>1. Init => FlightIsCoherent
  BY DEF Init, FlightIsCoherent
<1>2. TypeOK /\ FlightIsCoherent /\ [Next]_vars => FlightIsCoherent'
  <2> SUFFICES ASSUME TypeOK, FlightIsCoherent, [Next]_vars PROVE FlightIsCoherent'
    OBVIOUS
  <2>1. ASSUME NEW s \in Ships, CycleShip(s) PROVE FlightIsCoherent'
    <3>1. CASE UNCHANGED berthVars
      BY <3>1 DEF FlightIsCoherent, berthVars
    <3>2. CASE AdvanceSequence(s) /\ ~UNCHANGED berthVars
      <4>1. landedLoc[s] \in Locations
        BY <3>2 DEF AdvanceSequence, TypeOK
      <4>2. CASE Departs(s)
        BY <3>2, <4>1, <4>2 DEF AdvanceSequence, Departs, FlightIsCoherent, TypeOK
      <4>3. CASE Arrives(s) \/ UNCHANGED <<landedLoc, landedObj, room, roster>>
        BY <3>2, <4>1, <4>3 DEF AdvanceSequence, Arrives, FlightIsCoherent, TypeOK
      <4> QED BY <3>2, <4>2, <4>3 DEF AdvanceSequence
    <3> QED BY <2>1, <3>1, <3>2 DEF CycleShip
  <2>2. ASSUME NEW s \in Ships, NEW l \in Locations, Land(s, l) PROVE FlightIsCoherent'
    BY <2>2 DEF Land, FlightIsCoherent, TypeOK
  <2>3. ASSUME NEW s \in Ships, Launch(s) PROVE FlightIsCoherent'
    BY <2>3 DEF Launch, FlightIsCoherent, TypeOK
  <2>4. ASSUME NEW s \in Ships, NEW r \in Rooms, Taxi(s, r) PROVE FlightIsCoherent'
    BY <2>4 DEF Taxi, FlightIsCoherent, TypeOK
  <2>5. CASE Restart
    BY <2>5 DEF Restart, FlightIsCoherent
  <2>6. CASE UNCHANGED berthVars
    BY <2>6 DEF FlightIsCoherent, berthVars
  <2> QED
    BY <2>1, <2>2, <2>3, <2>4, <2>5, <2>6
    DEF Next, Running, Sweep, PowerFails, PowerReturns, RemoveLandingLocation,
        ObjectDestroyed, vars, berthVars
<1> QED BY <1>1, <1>2, LandingTypeCorrect, PTL DEF Spec

-----------------------------------------------------------------------------
(* The steady specification has the same type.                             *)
LEMMA SteadyTyped == SteadySpec => []TypeOK
<1>1. [Running]_vars => [Next]_vars
  BY DEF Next
<1> QED BY <1>1, InitTyped, StepTyped, PTL DEF SteadySpec

(* While the game is not restarted, a ship outside a landing sequence      *)
(* stands where mLandedLoc says, and people who leave it get there.        *)
THEOREM LandedShipsAreThere == SteadySpec => []LandedShipIsThere
<1>1. Init => LandedShipIsThere
  BY DEF Init, LandedShipIsThere
<1>2. TypeOK /\ LandedShipIsThere /\ [Running]_vars => LandedShipIsThere'
  <2> SUFFICES ASSUME TypeOK, LandedShipIsThere, [Running]_vars
               PROVE  LandedShipIsThere'
    OBVIOUS
  <2>1. ASSUME NEW s \in Ships, CycleShip(s) PROVE LandedShipIsThere'
    <3>1. CASE UNCHANGED berthVars
      BY <3>1 DEF LandedShipIsThere, berthVars
    <3>2. CASE AdvanceSequence(s) /\ ~UNCHANGED berthVars
      <4>1. timer[s] \in Int /\ timer' = [timer EXCEPT ![s] = IF @ > 0 THEN @ - 1 ELSE @ + 1]
        BY <3>2 DEF AdvanceSequence, TypeOK
      <4>2. CASE timer[s] = -1 /\ Departs(s)
        BY <4>1, <4>2 DEF Departs, LandedShipIsThere, TypeOK
      <4>3. CASE timer[s] = 1 /\ Arrives(s)
        BY <4>1, <4>3 DEF Arrives, LandedShipIsThere, TypeOK
      <4>4. CASE timer[s] \notin {1, -1} /\ UNCHANGED <<landedLoc, landedObj, room, roster>>
        BY <3>2, <4>1, <4>4 DEF AdvanceSequence, LandedShipIsThere, TypeOK
      <4> QED BY <3>2, <4>2, <4>3, <4>4 DEF AdvanceSequence
    <3> QED BY <2>1, <3>1, <3>2 DEF CycleShip
  <2>2. ASSUME NEW s \in Ships, NEW l \in Locations, Land(s, l) PROVE LandedShipIsThere'
    BY <2>2 DEF Land, LandedShipIsThere, TypeOK
  <2>3. ASSUME NEW s \in Ships, Launch(s) PROVE LandedShipIsThere'
    BY <2>3 DEF Launch, LandedShipIsThere, TypeOK
  <2>4. ASSUME NEW s \in Ships, NEW r \in Rooms, Taxi(s, r) PROVE LandedShipIsThere'
    BY <2>4 DEF Taxi, LandedShipIsThere, TypeOK
  <2>5. CASE UNCHANGED berthVars
    BY <2>5 DEF LandedShipIsThere, berthVars
  <2> QED
    BY <2>1, <2>2, <2>3, <2>4, <2>5
    DEF Running, Sweep, PowerFails, PowerReturns, RemoveLandingLocation,
        ObjectDestroyed, vars, berthVars
<1> QED BY <1>1, <1>2, SteadyTyped, PTL DEF SteadySpec

-----------------------------------------------------------------------------
(* Why a landed ship does not land again although Land does not ask: its   *)
(* contact list has been emptied on the way down.  A cycle may leave one   *)
(* stale contact, so that it takes two cycles, and a computer with power   *)
(* in both.                                                                *)
AtMostOne(S) == \A x, y \in S : x = y

QuietInv ==
  \A s \in Ships :
    /\ timer[s] # 0 => mode[s] # "dark"
    /\ timer[s] > 0 => landedObj[s] = None /\ landedLoc[s] # None
    /\ timer[s] > 0 /\ timer[s] < LandingTicks => AtMostOne(contacts[s])
    /\ landedObj[s] # None => landedLoc[s] # None /\ contacts[s] = {}

(* A cycle with nothing to be seen leaves at most one contact of several,  *)
(* and none of one.                                                        *)
LEMMA StaleContactsGo ==
  ASSUME NEW s \in Ships, landedLoc[s] # None,
         NEW seen \in MaySee(s), NEW left \in ContactsAfter(s, seen)
  PROVE  AtMostOne(left) /\ (AtMostOne(contacts[s]) => left = {})
<1>1. seen = {}
  BY DEF MaySee
<1>2. left = {} \/ \E o \in contacts[s] : left = {o}
  BY <1>1 DEF ContactsAfter
<1>3. ASSUME AtMostOne(contacts[s]) PROVE left = {}
  <2>1. contacts[s] = {} \/ \E o \in contacts[s] : contacts[s] = {o}
    BY <1>3 DEF AtMostOne
  <2>2. Cardinality(contacts[s]) < 2
    <3>1. CASE contacts[s] = {}
      BY <3>1, FS_EmptySet
    <3>2. CASE \E o \in contacts[s] : contacts[s] = {o}
      <4>1. Cardinality(contacts[s]) = 1
        BY <3>2, FS_Singleton
      <4> QED BY <4>1
    <3> QED BY <2>1, <3>1, <3>2
  <2>3. contacts[s] \ seen = contacts[s]
    BY <1>1
  <2> QED BY <1>1, <2>2, <2>3 DEF ContactsAfter
<1> QED BY <1>2, <1>3 DEF AtMostOne

(* A cycle keeps ships in a bay quiet.                                     *)
LEMMA CycleKeepsQuiet ==
  ASSUME TypeOK, QuietInv, LandingTicks > 1, NEW s \in Ships, CycleShip(s)
  PROVE  QuietInv'
<1> DEFINE Quiet(q) ==
      /\ timer'[q] # 0 => mode'[q] # "dark"
      /\ timer'[q] > 0 => landedObj'[q] = None /\ landedLoc'[q] # None
      /\ timer'[q] > 0 /\ timer'[q] < LandingTicks => AtMostOne(contacts'[q])
      /\ landedObj'[q] # None => landedLoc'[q] # None /\ contacts'[q] = {}
<1>1. CASE UNCHANGED <<contacts, berthVars>>
  BY <1>1 DEF CycleShip, QuietInv, berthVars
<1>2. CASE mode[s] # "cold" /\ AdvanceSequence(s)
  <2>1. PICK left :
          /\ contacts' = [contacts EXCEPT ![s] = left]
          /\ \/ left = contacts[s] /\ mode[s] = "dark"
             \/ mode[s] = "manned" /\ \E seen \in MaySee(s) : left \in ContactsAfter(s, seen)
    BY <1>2 DEF CycleShip, TypeOK
  <2>2. contacts'[s] = left
    BY <2>1 DEF TypeOK
  <2>3. ASSUME NEW q \in Ships \ {s} PROVE Quiet(q)
    <3>1. /\ timer'[q] = timer[q] /\ landedObj'[q] = landedObj[q]
          /\ landedLoc'[q] = landedLoc[q] /\ contacts'[q] = contacts[q]
          /\ mode'[q] = mode[q]
      BY <1>2, <2>1 DEF CycleShip, AdvanceSequence, Arrives, Departs, TypeOK, berthVars
    <3> QED BY <3>1 DEF QuietInv
  <2>4. mode' = mode
    BY DEF CycleShip
  <2>5. landedLoc[s] # None /\ mode[s] # "dark" =>
          AtMostOne(left) /\ (AtMostOne(contacts[s]) => left = {})
    BY <2>1, StaleContactsGo
  <2>6. contacts[s] = {} => AtMostOne(contacts[s])
    BY DEF AtMostOne
  <2>7. timer[s] \in Int /\ timer[s] <= LandingTicks
    BY DEF TypeOK
  <2>8. landedObj[s] # None => left = {}
    BY <2>1, <2>5, <2>6 DEF QuietInv
  <2>9. Quiet(s)
    <3>1. CASE UNCHANGED berthVars
      BY <2>2, <2>4, <2>5, <2>6, <2>8, <3>1 DEF QuietInv, berthVars
    <3>2. CASE timer'[s] = timer[s] - 1 /\ timer[s] = 1 /\ Arrives(s)
      <4>1. landedLoc'[s] # None /\ timer'[s] = 0
        BY <2>7, <3>2 DEF Arrives, QuietInv
      <4>2. left = {}
        BY <2>5, <2>7, <3>2 DEF QuietInv
      <4> QED BY <2>2, <4>1, <4>2
    <3>3. CASE timer'[s] = timer[s] + 1 /\ timer[s] = -1 /\ Departs(s)
      BY <2>2, <2>7, <3>3 DEF Departs, TypeOK
    <3>4. CASE /\ timer[s] # 0 /\ timer[s] \notin {1, -1}
               /\ timer'[s] = (IF timer[s] > 0 THEN timer[s] - 1 ELSE timer[s] + 1)
               /\ UNCHANGED <<landedLoc, landedObj, room, roster>>
      <4>1. CASE timer[s] > 0
        <5>1. landedObj[s] = None /\ landedLoc[s] # None /\ AtMostOne(left) /\ mode[s] # "dark"
          BY <2>5, <2>7, <4>1 DEF QuietInv
        <5> QED BY <2>2, <2>4, <2>7, <3>4, <4>1, <5>1
      <4>2. CASE timer[s] < 0
        <5>1. timer'[s] < 0 /\ mode[s] # "dark"
          BY <2>7, <3>4, <4>2 DEF QuietInv
        <5> QED BY <2>2, <2>4, <2>7, <2>8, <3>4, <4>2, <5>1 DEF QuietInv
      <4> QED BY <2>7, <3>4, <4>1, <4>2
    <3> QED BY <1>2, <2>7, <3>1, <3>2, <3>3, <3>4 DEF AdvanceSequence, TypeOK
  <2> QED BY <2>3, <2>9 DEF QuietInv
<1> QED BY <1>1, <1>2 DEF CycleShip

(* Every step keeps them quiet.                                            *)
LEMMA StepKeepsQuiet ==
  ASSUME TypeOK, QuietInv, [Running]_vars, LandingTicks > 1, "dark" \notin Failures
  PROVE  QuietInv'
<1>1. ASSUME NEW s \in Ships, CycleShip(s) PROVE QuietInv'
  BY <1>1, CycleKeepsQuiet
<1>2. ASSUME NEW s \in Ships, NEW l \in Locations, Land(s, l) PROVE QuietInv'
  <2>1. timer[s] = 0 /\ mode[s] = "manned" /\ contacts[s] # {} /\ l # None
    BY <1>2 DEF Land
  <2>2. landedObj[s] = None
    BY <2>1 DEF QuietInv
  <2> QED BY <1>2, <2>1, <2>2 DEF Land, QuietInv, TypeOK
<1>3. ASSUME NEW s \in Ships, Launch(s) PROVE QuietInv'
  BY <1>3 DEF Launch, QuietInv, TypeOK
<1>4. ASSUME NEW s \in Ships, NEW r \in Rooms, Taxi(s, r) PROVE QuietInv'
  BY <1>4 DEF Taxi, QuietInv, TypeOK
<1>5. ASSUME NEW s \in Ships, PowerFails(s) PROVE QuietInv'
  BY <1>5 DEF PowerFails, QuietInv, TypeOK, berthVars
<1>6. ASSUME NEW s \in Ships, PowerReturns(s) PROVE QuietInv'
  BY <1>6 DEF PowerReturns, QuietInv, TypeOK, berthVars
<1>7. CASE UNCHANGED <<berthVars, contacts, mode>>
  BY <1>7 DEF QuietInv, berthVars
<1> QED
  BY <1>1, <1>2, <1>3, <1>4, <1>5, <1>6, <1>7
  DEF Running, Sweep, RemoveLandingLocation, ObjectDestroyed, vars, berthVars

(* A landed ship does not land a second time, provided that its computer   *)
(* never loses power while the ship stays online, that landing takes at    *)
(* least two cycles and that the game is not restarted.                    *)
THEOREM LandedShipsDoNotLand ==
  ASSUME LandingTicks > 1, "dark" \notin Failures
  PROVE  SteadySpec => NoSecondLanding
<1>1. Init => QuietInv
  BY DEF Init, QuietInv
<1>2. TypeOK /\ QuietInv /\ [Running]_vars => QuietInv'
  BY StepKeepsQuiet
<1>3. TypeOK /\ QuietInv /\ [Running]_vars
        => [\A s \in Ships : landedObj[s] # None /\ timer[s] = 0
                                => timer'[s] # LandingTicks]_vars
  <2> SUFFICES ASSUME TypeOK, QuietInv, [Running]_vars,
                      NEW s \in Ships, landedObj[s] # None, timer[s] = 0
               PROVE  timer'[s] # LandingTicks
    OBVIOUS
  <2>1. ASSUME NEW q \in Ships, CycleShip(q) PROVE timer'[s] = 0 \/ q = s
    BY <2>1 DEF CycleShip, AdvanceSequence, TypeOK, berthVars
  <2>2. CASE CycleShip(s)
    BY <2>2 DEF CycleShip, AdvanceSequence, TypeOK, berthVars
  <2>3. ASSUME NEW q \in Ships, NEW l \in Locations, Land(q, l) PROVE timer'[s] = 0
    BY <2>3 DEF Land, QuietInv, TypeOK
  <2>4. ASSUME NEW q \in Ships, Launch(q) PROVE timer'[s] # LandingTicks
    BY <2>4 DEF Launch, TypeOK
  <2>5. CASE UNCHANGED timer
    BY <2>5
  <2> QED
    BY <2>1, <2>2, <2>3, <2>4, <2>5
    DEF Running, Sweep, Taxi, PowerFails, PowerReturns, RemoveLandingLocation,
        ObjectDestroyed, vars, berthVars
<1> QED BY <1>1, <1>2, <1>3, SteadyTyped, PTL DEF SteadySpec, NoSecondLanding

-----------------------------------------------------------------------------
(* Home gives every room the object it belongs to.  If no exit leads from  *)
(* one object to another, a landed ship stays with the object it landed on. *)
StaysHome(Home) ==
  /\ Home \in [Rooms -> Objects]
  /\ \A l \in Locations : Home[l] = Host[l]
  /\ \A e \in Exits : Home[e[1]] = Home[e[2]]

RosterInv(Home) ==
  /\ alive = Objects
  /\ RosterIsAccurate
  /\ \A s \in Ships : landedObj[s] # None =>
        landedLoc[s] = room[s] /\ room[s] \in Rooms /\ landedObj[s] = Home[room[s]]

(* A cycle keeps the rosters.                                              *)
LEMMA CycleKeepsRoster ==
  ASSUME TypeOK, QuietInv, NEW Home, StaysHome(Home), RosterInv(Home),
         NEW s \in Ships, AdvanceSequence(s), ~UNCHANGED berthVars, alive' = alive
  PROVE  RosterInv(Home)'
<1>1. /\ landedLoc[s] \in Locations /\ timer[s] \in Int /\ timer[s] # 0
      /\ Host[landedLoc[s]] \in Objects /\ Home[landedLoc[s]] = Host[landedLoc[s]]
  BY DEF AdvanceSequence, TypeOK, StaysHome
<1>2. CASE timer[s] = 1 /\ Arrives(s)
  <2>1. landedObj[s] = None
    BY <1>2 DEF QuietInv
  <2>2. roster[Host[landedLoc[s]]][s] = 0
    BY <1>1, <2>1 DEF RosterInv, RosterIsAccurate
  <2>3. \A o \in Objects, q \in Ships :
          roster'[o][q] = IF q = s /\ o = Host[landedLoc[s]] THEN 1 ELSE roster[o][q]
    BY <1>1, <1>2, <2>2 DEF Arrives, TypeOK
  <2>4. \A q \in Ships : landedObj'[q] = IF q = s THEN Host[landedLoc[s]] ELSE landedObj[q]
    BY <1>2 DEF Arrives, TypeOK
  <2>5. RosterIsAccurate'
    BY <1>1, <2>1, <2>3, <2>4 DEF RosterInv, RosterIsAccurate
  <2> QED BY <1>1, <1>2, <2>4, <2>5 DEF Arrives, RosterInv, TypeOK
<1>3. CASE timer[s] = -1 /\ Departs(s)
  <2>1. landedObj[s] \in {None, Host[landedLoc[s]]}
    BY <1>1 DEF RosterInv
  <2>2. roster[Host[landedLoc[s]]][s] \in {0, 1}
    BY <1>1 DEF RosterInv, RosterIsAccurate
  <2>3. \A o \in Objects, q \in Ships :
          roster'[o][q] = IF q = s /\ o = Host[landedLoc[s]] THEN 0 ELSE roster[o][q]
    BY <1>1, <1>3, <2>2 DEF Departs, TypeOK
  <2>4. \A q \in Ships : landedObj'[q] = IF q = s THEN None ELSE landedObj[q]
    BY <1>3 DEF Departs, TypeOK
  <2>5. RosterIsAccurate'
    BY <1>1, <2>1, <2>3, <2>4 DEF RosterInv, RosterIsAccurate
  <2> QED BY <1>1, <1>3, <2>4, <2>5 DEF Departs, RosterInv, TypeOK
<1>4. CASE UNCHANGED <<landedLoc, landedObj, room, roster>>
  BY <1>4 DEF RosterInv, RosterIsAccurate
<1> QED BY <1>1, <1>2, <1>3, <1>4 DEF AdvanceSequence

(* Every step keeps the rosters.                                           *)
LEMMA StepKeepsRoster ==
  ASSUME TypeOK, QuietInv, NEW Home, StaysHome(Home), RosterInv(Home),
         Perishable \cap Objects = {}, [Running]_vars
  PROVE  RosterInv(Home)'
<1>1. ASSUME NEW s \in Ships, CycleShip(s) PROVE RosterInv(Home)'
  <2>1. CASE UNCHANGED berthVars
    BY <1>1, <2>1 DEF CycleShip, RosterInv, RosterIsAccurate, berthVars
  <2>2. CASE AdvanceSequence(s) /\ ~UNCHANGED berthVars
    BY <1>1, <2>2, CycleKeepsRoster DEF CycleShip
  <2> QED BY <1>1, <2>1, <2>2 DEF CycleShip
<1>2. ASSUME NEW s \in Ships, NEW l \in Locations, Land(s, l) PROVE RosterInv(Home)'
  <2>1. landedObj[s] = None
    BY <1>2 DEF Land, QuietInv
  <2> QED BY <1>2, <2>1 DEF Land, RosterInv, RosterIsAccurate, TypeOK
<1>3. ASSUME NEW s \in Ships, NEW r \in Rooms, Taxi(s, r) PROVE RosterInv(Home)'
  <2>1. Home[room[s]] = Home[r]
    BY <1>3 DEF Taxi, StaysHome
  <2>2. RosterIsAccurate'
    BY <1>3 DEF Taxi, RosterInv, RosterIsAccurate
  <2> QED BY <1>3, <2>1, <2>2 DEF Taxi, RosterInv, TypeOK
<1>4. ASSUME NEW o \in Objects, ObjectDestroyed(o) PROVE FALSE
  BY <1>4 DEF ObjectDestroyed
<1>5. CASE UNCHANGED <<alive, landedLoc, landedObj, room, roster>>
  BY <1>5 DEF RosterInv, RosterIsAccurate
<1> QED
  BY <1>1, <1>2, <1>3, <1>4, <1>5
  DEF Running, Sweep, Launch, PowerFails, PowerReturns, RemoveLandingLocation,
      vars, berthVars

(* The rosters agree with mLandedObj, provided that besides the conditions *)
(* of LandedShipsDoNotLand no object is destroyed and no exit leads from   *)
(* one object's rooms to another's.  The violation runs drop one of these  *)
(* conditions each.                                                        *)
THEOREM RostersStayAccurate ==
  ASSUME LandingTicks > 1, "dark" \notin Failures, Perishable \cap Objects = {},
         NEW Home, StaysHome(Home)
  PROVE  SteadySpec => []RosterIsAccurate
<1>1. Init => QuietInv /\ RosterInv(Home)
  BY DEF Init, QuietInv, RosterInv, RosterIsAccurate
<1>2. TypeOK /\ QuietInv /\ RosterInv(Home) /\ [Running]_vars
        => QuietInv' /\ RosterInv(Home)'
  BY StepKeepsQuiet, StepKeepsRoster
<1>3. RosterInv(Home) => RosterIsAccurate
  BY DEF RosterInv
<1> QED BY <1>1, <1>2, <1>3, SteadyTyped, PTL DEF SteadySpec
=============================================================================
