------------------------------ MODULE MCFlight ------------------------------
(***************************************************************************)
(* A ship with a fast engine that burns fuel and a slow one that does not. *)
(* Eight directions on the horizon, of which a turn takes three at a time. *)
(***************************************************************************)
EXTENDS Flight

MCEngines ==
  <<[name |-> "main", thrust |-> 1, maxSpeed |-> 3, burn |-> 1],
    [name |-> "aux", thrust |-> 1, maxSpeed |-> 2, burn |-> 0]>>

MCSpeeds == -1..3

MCCourses == {<<0, 0>>, <<5, 1>>, <<2, -2>>}

MCPowerStates ==
  LET crew == {"computer", "thrusters"}
  IN  {{}, crew \cup {"main"}, crew \cup {"main", "aux"}, {"computer", "drive", "autopilot", "main"},
       crew \cup {"drive", "autopilot", "main"}}
=============================================================================
