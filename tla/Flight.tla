------------------------------- MODULE Flight -------------------------------
(***************************************************************************)
(* A ship under way (HSShip.cpp, HSEngine.cpp, HSDimensionalDrive.cpp,     *)
(* HSAutopilot.cpp, HSConsole.cpp).                                        *)
(*                                                                         *)
(* Once in a cycle the autopilot may give orders, the drive charges, the   *)
(* thrusters turn the ship and the engines push it along its heading; in   *)
(* between come the orders of the crew, in any order.  Who has power is    *)
(* for ShipPower to say; here it changes freely.  The ship is in space all *)
(* the time: landing is in module Landing.                                 *)
(*                                                                         *)
(* Angles are counted in steps, speeds in whole numbers.  Of the direction *)
(* of the velocity only its relation to the heading is kept.               *)
(***************************************************************************)
EXTENDS Integers, Sequences, FiniteSetsExt

CONSTANTS
  Quarter,         (* steps of a right angle                               *)
  Rate,            (* GetAngularVelocity / sqrt(GetTotalMass), in steps    *)
  Engines,         (* the engines in the order of mSystems: of each its    *)
                   (* name, thrust over the ship's mass, maxSpeed and burn *)
  RevertPercent,   (* RevertThrust of the configuration                    *)
  Tank,            (* fuel when the tanks are full                         *)
  RequiredCharge, ChargeSpeed,
  Courses,         (* bound: the headings that are asked for               *)
  Speeds,          (* bound: the speeds that are asked for                 *)
  PowerStates      (* bound: which systems may have power at a time        *)

FullCircle == 4 * Quarter
Headings == (0..(FullCircle - 1)) \X (-Quarter..Quarter)
Systems == {Engines[e].name : e \in DOMAIN Engines}
             \cup {"computer", "thrusters", "drive", "autopilot"}

ASSUME FlightAssumption ==
  /\ Quarter \in Nat \ {0} /\ Rate \in 1..(2 * Quarter)
  /\ Engines \in Seq([name : STRING, thrust : Nat, maxSpeed : Nat \ {0}, burn : Nat])
  /\ RevertPercent \in 0..100 /\ Tank \in Nat
  /\ RequiredCharge \in Nat \ {0} /\ ChargeSpeed \in Nat \ {0}
  /\ Courses \subseteq Headings /\ Speeds \subseteq Int /\ PowerStates \subseteq SUBSET Systems

VARIABLES
  heading,       (* mHeading, a pair of angles                             *)
  wanted,        (* mDesiredHeading                                        *)
  speed,         (* the length of mVelocity                                *)
  along,         (* its direction: "ahead", "astern" or "aside"            *)
  desired,       (* mDesiredVelocity                                       *)
  accelerating,  (* mAccelerating                                          *)
  cut,           (* mEnginesCut                                            *)
  fuel,          (* in the tanks that feed the engines                     *)
  charge,        (* mCurrentCharge of the dimensional drive                *)
  engaged,       (* whether the drive is engaged                           *)
  autopilot,     (* whether the autopilot is engaged                       *)
  powered,       (* the systems that have power                            *)
  online         (* mOnline                                                *)

flightVars == <<heading, wanted, speed, along, desired, accelerating, cut, fuel,
                charge, engaged, autopilot, powered, online>>

Directions == {"ahead", "astern", "aside"}

-----------------------------------------------------------------------------
(* Turning. *)

(* HSVector3D from two angles, and back: beyond a pole the other meridian  *)
(* begins.                                                                 *)
Vector(xy, z) ==
  LET up == z % FullCircle
  IN  CASE up <= Quarter -> <<xy, up>>
        [] up > Quarter /\ up < 3 * Quarter ->
             <<(xy + 2 * Quarter) % FullCircle, 2 * Quarter - up>>
        [] OTHER -> <<xy, up - FullCircle>>

(* At a pole all meridians are one. *)
Same(h, d) == h[2] = d[2] /\ (h[1] = d[1] \/ h[2] \in {-Quarter, Quarter})

(* Mutant: no turn goes through the zero of the circle. *)
AngleNeverThroughZero(h, d) ==
  IF h > d THEN Max({h - Rate, d}) ELSE Min({h + Rate, d})

(* An angle h on its way to d in CycleThrusters, in the direction in which *)
(* less than half a circle is left, and not beyond d.                      *)
Angle(h, d) ==
  CASE h > d /\ h - d < 2 * Quarter -> Max({h - Rate, d})
    [] h > d /\ h - d >= 2 * Quarter ->
         IF h + Rate >= FullCircle THEN Min({h + Rate - FullCircle, d}) ELSE h + Rate
    [] h < d /\ d - h < 2 * Quarter -> Min({h + Rate, d})
    [] h < d /\ d - h >= 2 * Quarter ->
         IF h - Rate < 0 THEN Max({h - Rate + FullCircle, d}) ELSE h - Rate
    [] h = d -> h

(* HSShip::CycleThrusters. *)
Turned(w, driving) ==
  IF Same(heading, w) \/ driving \/ "thrusters" \notin powered THEN heading
  ELSE Vector(Angle(heading[1], w[1]), Angle(heading[2], w[2]))

(* How the velocity may lie to a new heading. *)
AlongAfter(h) ==
  IF Same(h, heading) THEN {along}
  ELSE IF along = "aside" THEN Directions ELSE Directions \ {along}

-----------------------------------------------------------------------------
(* Pushing. *)

HavePower(P) == {e \in DOMAIN Engines : Engines[e].name \in P}

(* HSShip::GetMaxVelocity: that of the slowest engine with power. *)
MaxVelocity(P) ==
  LET limits == {Engines[e].maxSpeed : e \in HavePower(P)}
  IN  IF limits = {} THEN 0 ELSE Min(limits)

MaxReverse(P) == (MaxVelocity(P) * RevertPercent) \div 100

(* What is left in the tanks before each engine has drunk from them. *)
FuelBefore[e \in 1..(Len(Engines) + 1)] ==
  IF e = 1 THEN fuel
  ELSE LET need == IF e - 1 \in HavePower(powered) THEN Engines[e - 1].burn ELSE 0
       IN  Max({FuelBefore[e - 1] - need, 0})

(* HSEngineInstance::ConsumeFuel. *)
Burning == {e \in HavePower(powered) : Engines[e].burn <= FuelBefore[e]}

Acceleration == SumFunctionOnSet([e \in DOMAIN Engines |-> Engines[e].thrust], Burning)

(* A velocity of length v, lying in direction d to the way one is pushed,  *)
(* with a more that way.  "ahead" is the way one is pushed.                *)
Pushed(v, d, a) ==
  CASE v = 0 -> {<<a, "ahead">>}
    [] v > 0 /\ d = "ahead" -> {<<v + a, "ahead">>}
    [] v > a /\ d = "astern" -> {<<v - a, "astern">>}
    [] v = a /\ v > 0 /\ d = "astern" -> {<<0, x>> : x \in Directions}
    [] v > 0 /\ v < a /\ d = "astern" -> {<<a - v, "ahead">>}
    [] v > 0 /\ d = "aside" ->
         {<<x, y>> : x \in Max({v - a, a - v})..(v + a), y \in {"ahead", "aside"}}

Opposite(d) == CASE d = "ahead" -> "astern" [] d = "astern" -> "ahead" [] OTHER -> "aside"

(* Mutant: one goes on pushing until the limit is passed. *)
ForwardUncapped(v, d, limit, a) == IF v <= limit THEN Pushed(v, d, a) ELSE {<<v, d>>}

(* Mutant: the last bit of speed above the limit is not taken away. *)
ForwardWithoutRest(v, d, limit, a) ==
  LET first == IF v <= limit THEN Pushed(v, d, a) ELSE {<<v, d>>}
  IN  {<<IF p[1] > limit + a THEN p[1] - a ELSE p[1], p[2]>> : p \in first}

(* The forward branch of CycleEngines: a push unless one is too fast, then *)
(* the length is brought down to the limit while the direction turns.      *)
Forward(v, d, limit, a) ==
  LET first == IF v <= limit THEN Pushed(v, d, a) ELSE {<<v, d>>}
      Brake(p) == IF p[1] <= limit THEN {p}
                  ELSE {<<IF p[1] > limit + a THEN p[1] - a ELSE limit, q[2]>> :
                          q \in Pushed(p[1], p[2], a)}
  IN  UNION {Brake(p) : p \in first}

(* The reverse branch, where the direction does not turn when one brakes.  *)
Reverse(v, d, limit, a) ==
  LET first == IF v <= limit THEN {<<p[1], Opposite(p[2])>> : p \in Pushed(v, Opposite(d), a)}
               ELSE {<<v, d>>}
  IN  {<<IF p[1] > limit + a THEN p[1] - a ELSE Min({p[1], limit}), p[2]>> : p \in first}

Clamped(v) ==
  IF v > MaxVelocity(powered) THEN MaxVelocity(powered)
  ELSE IF RevertPercent > 0 /\ v < -MaxReverse(powered) THEN -MaxReverse(powered)
  ELSE v

(* HSShip::CycleEngines after autopilot and thrusters, with desired speed  *)
(* v and velocity in direction d.  A ship that reverses is never done.     *)
Drift(v, d, active) ==
  /\ desired' = v /\ along' = d /\ accelerating' = active
  /\ UNCHANGED <<speed, cut, fuel, powered>>

CycleEngines(v, d, active, driving) ==
  LET settled == \/ speed = 0 /\ v = 0
                 \/ Engines # <<>> /\ d = "ahead" /\ speed = v /\ v # 0
  IN  IF ~active \/ cut \/ driving THEN Drift(v, d, active)
      ELSE IF settled THEN Drift(v, d, FALSE)
      ELSE IF Engines = <<>> THEN Drift(v, d, TRUE)
      ELSE /\ desired' = Clamped(v)
           /\ fuel' = FuelBefore[Len(Engines) + 1]
           /\ powered' = powered \ {Engines[e].name : e \in DOMAIN Engines \ Burning}
           /\ IF Acceleration = 0
              THEN cut' = TRUE /\ accelerating' = FALSE /\ speed' = speed /\ along' = d
              ELSE /\ UNCHANGED cut /\ accelerating' = TRUE
                   /\ \E p \in IF desired' < 0
                               THEN Reverse(speed, d, -desired', Acceleration)
                               ELSE Forward(speed, d, desired', Acceleration) :
                        /\ speed' = p[1]
                        /\ along' = IF p[1] = 0 THEN "aside" ELSE p[2]

-----------------------------------------------------------------------------
(* HSAutopilotInstance::Cycle: what it leaves the ship with.  How far the  *)
(* destination is, and where, is open; only a ship that flies forward is   *)
(* slowed down when it comes near.                                         *)
Guidance ==
  LET none == [on |-> autopilot, wanted |-> wanted, desired |-> desired,
               active |-> accelerating, leave |-> FALSE]
      steered == {[none EXCEPT !.wanted = p[1], !.leave = p[2]] :
                    p \in Courses \X {FALSE, engaged}}
      slowed == {[p[1] EXCEPT !.desired = p[2], !.active = TRUE] :
                   p \in steered \X (0..(desired - 1))}
  IN  IF ~autopilot THEN {none}
      ELSE IF "autopilot" \notin powered THEN {[none EXCEPT !.on = FALSE]}
      ELSE {[none EXCEPT !.on = FALSE, !.desired = 0]} \cup steered \cup slowed

(* HSDimensionalDriveInstance::Cycle, before or after the autopilot. *)
CycleDrive(leave) ==
  IF "drive" \notin powered THEN engaged' = FALSE /\ charge' = 0
  ELSE /\ engaged' = (engaged /\ ~leave)
       /\ charge' \in (IF engaged THEN {charge} ELSE {})
                     \cup (IF engaged' THEN {} ELSE {Min({charge + ChargeSpeed, RequiredCharge})})

(* HSShip::Cycle, which does no more than move a ship that is offline. *)
Cycle ==
  /\ online
  /\ \E g \in Guidance :
       /\ autopilot' = g.on /\ wanted' = g.wanted
       /\ CycleDrive(g.leave)
       /\ heading' = Turned(g.wanted, engaged')
       /\ \E d \in IF speed = 0 THEN {"aside"} ELSE AlongAfter(heading') :
            CycleEngines(g.desired, d, g.active, engaged')
  /\ UNCHANGED online

-----------------------------------------------------------------------------
(* The orders of the crew.  All need the computer. *)
SetSpeed(v) ==
  /\ "computer" \in powered
  /\ v <= MaxVelocity(powered)
  /\ v < 0 => RevertPercent > 0 /\ v >= -MaxReverse(powered)
  /\ desired' = v /\ accelerating' = TRUE /\ cut' = FALSE
  /\ UNCHANGED <<heading, wanted, speed, along, fuel, charge, engaged, autopilot, powered, online>>

(* HSConsole::SetHeading, and HSComputerInstance::Intercept. *)
SetHeading(w) ==
  /\ "computer" \in powered
  /\ wanted' = w /\ accelerating' = TRUE
  /\ UNCHANGED <<heading, speed, along, desired, cut, fuel, charge, engaged, autopilot,
                 powered, online>>

CutEngines ==
  /\ "computer" \in powered
  /\ cut' = TRUE
  /\ UNCHANGED <<heading, wanted, speed, along, desired, accelerating, fuel, charge, engaged,
                 autopilot, powered, online>>

Autopilot(on) ==
  /\ {"computer", "autopilot"} \subseteq powered /\ autopilot # on
  /\ autopilot' = on
  /\ UNCHANGED <<heading, wanted, speed, along, desired, accelerating, cut, fuel, charge,
                 engaged, powered, online>>

(* Engaging asks for the charge, not for power. *)
Engage ==
  /\ "computer" \in powered /\ ~engaged /\ charge >= RequiredCharge
  /\ engaged' = TRUE /\ charge' = 0
  /\ UNCHANGED <<heading, wanted, speed, along, desired, accelerating, cut, fuel, autopilot,
                 powered, online>>

Disengage ==
  /\ "computer" \in powered /\ engaged
  /\ engaged' = FALSE
  /\ UNCHANGED <<heading, wanted, speed, along, desired, accelerating, cut, fuel, charge,
                 autopilot, powered, online>>

(* Module ShipPower: systems get and lose power; a ship without any may go *)
(* offline, and come back.                                                 *)
PowerChanges(P) ==
  /\ powered' = P
  /\ online' \in IF P = {} THEN BOOLEAN ELSE {TRUE}
  /\ UNCHANGED <<heading, wanted, speed, along, desired, accelerating, cut, fuel, charge,
                 engaged, autopilot>>

(* @space/set of CURRENTFUEL. *)
Refuel ==
  /\ fuel' = Tank
  /\ UNCHANGED <<heading, wanted, speed, along, desired, accelerating, cut, charge, engaged,
                 autopilot, powered, online>>

-----------------------------------------------------------------------------
FlightInit ==
  /\ heading = <<0, 0>> /\ wanted = <<0, 0>>
  /\ speed = 0 /\ along = "aside" /\ desired = 0
  /\ accelerating = TRUE /\ cut = FALSE
  /\ fuel = Tank /\ charge = 0 /\ engaged = FALSE /\ autopilot = FALSE
  /\ powered = {} /\ online = TRUE

FlightNext ==
  \/ Cycle
  \/ \E v \in Speeds : SetSpeed(v)
  \/ \E w \in Courses : SetHeading(w)
  \/ CutEngines
  \/ \E on \in BOOLEAN : Autopilot(on)
  \/ Engage \/ Disengage
  \/ \E P \in PowerStates : PowerChanges(P)
  \/ Refuel

(* The game cycles every ship once a second, whatever the crew does. *)
FlightSpec == FlightInit /\ [][FlightNext]_flightVars /\ WF_flightVars(Cycle)
-----------------------------------------------------------------------------
FlightTypeOK ==
  /\ heading \in Headings /\ wanted \in Headings
  /\ speed \in Nat /\ along \in Directions /\ desired \in Int
  /\ accelerating \in BOOLEAN /\ cut \in BOOLEAN
  /\ fuel \in 0..Tank /\ charge \in 0..RequiredCharge
  /\ engaged \in BOOLEAN /\ autopilot \in BOOLEAN
  /\ powered \subseteq Systems /\ online \in BOOLEAN

(* The number of steps between two angles. *)
Arc(a, b) ==
  LET gap == (a - b) % FullCircle
  IN  Min({gap, FullCircle - gap})

(* A ship turns the short way, through the zero of the circle if need be,  *)
(* by its rate or as much as is left, and never beyond the heading it was  *)
(* given.  From one pole to the other all ways are equally long, and the   *)
(* code takes one that leaves the angles first.                            *)
TurnsTheShortWay ==
  [][heading' # heading /\ heading[2] - wanted'[2] \notin {-2 * Quarter, 2 * Quarter}
       => \A i \in 1..2 : Arc(heading'[i], wanted'[i])
                            = Max({Arc(heading[i], wanted'[i]) - Rate, 0})]_flightVars

(* Whatever engines fail and whichever way the ship flies when it is told  *)
(* to go faster, slower or back: the engines never take it beyond both the *)
(* speed it had and the speed it is to have.                               *)
EnginesKeepTheLimit ==
  [][speed' <= Max({speed, desired', -desired'})]_flightVars

(* A ship told to stop does, from any speed and direction, unless it is    *)
(* told otherwise, has no thrust (the engines are cut then), goes offline  *)
(* or engages its drive: orders, turns and power failures in between       *)
(* change nothing.                                                         *)
StopIsReached ==
  (online /\ accelerating /\ ~cut /\ desired = 0)
    ~> (speed = 0 \/ desired # 0 \/ cut \/ engaged \/ ~online)
=============================================================================
