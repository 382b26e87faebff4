------------------------------ MODULE MCCombat ------------------------------
(***************************************************************************)
(* A hunter with a sensor and two weapons, a quarry without, but with two  *)
(* shields to starboard and none elsewhere, and two buoys.                 *)
(***************************************************************************)
EXTENDS Combat

CONSTANTS hunter, quarry, buoy, beacon, bridge, helm, cannon, lance, screen, plate, starboard, fore

MCComputer == [s \in Ships |-> IF s = hunter THEN bridge ELSE helm]
MCOwner == [x \in Weapons \cup Shields |-> IF x \in Weapons THEN hunter ELSE quarry]
MCPosition == [h \in Shields |-> IF h = screen THEN 1 ELSE 2]
MCMountPoint == [h \in Shields |-> starboard]
(* The cannon charges in two cycles and may fire after one. *)
MCFullCharge == [w \in Weapons |-> IF w = cannon THEN 4 ELSE 2]
MCMinCharge == [w \in Weapons |-> 2]
MCSpeed == [w \in Weapons |-> 2]
MCOne == [h \in Shields |-> 1]
MCHull == [s \in Ships |-> IF s = quarry THEN 2 ELSE 1]
=============================================================================
