----------------------------- MODULE MCLanding -----------------------------
(***************************************************************************)
(* A carrier with a hangar bay, a smaller ship with one of its own, and a  *)
(* planet with a landing pad, from which an exit leads to an apron.        *)
(***************************************************************************)
EXTENDS Landing

CONSTANTS carrier, shuttle, planet, pad, hangar, locker, apron

MCHost == [l \in Locations |->
             CASE l = pad -> planet [] l = hangar -> carrier [] OTHER -> shuttle]
MCSize == [s \in Ships |-> IF s = carrier THEN 2 ELSE 1]
(* Each fits on the pad, but not both; nothing fits into the locker but ... *)
MCCapacity == [l \in Locations |-> IF l = pad THEN 2 ELSE 1]
(* ... in an instance where it is as large as the carrier. *)
MCLargeLocker == [l \in Locations |-> 2]
(* Ways out of the pad that stay on the planet. *)
MCLocalExits == {<<pad, apron>>, <<apron, pad>>}
=============================================================================
