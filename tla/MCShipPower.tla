---------------------------- MODULE MCShipPower ----------------------------
(***************************************************************************)
(* Small ships for TLC: an engine, thrusters and the main computer, which  *)
(* is not last in mSystems, and two reactors.                              *)
(***************************************************************************)
EXTENDS ShipPower

CONSTANTS reactor, second, engine, thrusters, computer

MCConsumers == {engine, thrusters, computer}
MCPosition == [s \in Systems |->
                 CASE s = reactor -> 0 [] s = engine -> 1 [] s = computer -> 2
                   [] s = thrusters -> 3 [] OTHER -> 4]
MCOptimal == [s \in MCConsumers |-> 1]
(* The engine tolerates an overload of 100%, the thrusters of none. *)
MCPeakDraw == [s \in MCConsumers |-> IF s = engine THEN 2 ELSE 1]
(* MaxOutput 3, MaxOverload 1/3, condition 0, 1/2 or 1. *)
MCRated == [r \in Reactors |-> [c \in 0..Pristine |-> (3 * c) \div Pristine]]
MCPeak == [r \in Reactors |-> [c \in 0..Pristine |-> (4 * c) \div Pristine]]
MCCharge == [r \in Reactors |-> 2]
(* The first reactor burns fuel; the second, with a fuel efficiency of 0,  *)
(* burns none, so that a ship may stay online.                             *)
MCBurn == [r \in Reactors |-> IF r = reactor THEN 1 ELSE 0]
(* Requests for output, one of them more than a reactor can deliver. *)
MCPositiveRequests == {0, 1, 4}
(* ... and one that the player typed with a minus sign. *)
MCFewRequests == {-1, 0, 1, 4}
=============================================================================
