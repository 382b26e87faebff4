------------------------------ MODULE MCRepair ------------------------------
(***************************************************************************)
(* A tender with a repair bench and two engines of a class, and a guest    *)
(* with an engine of that class.                                           *)
(***************************************************************************)
EXTENDS Repair

CONSTANTS tender, guest, bench, port, star, spare, engine, shop

MCOwner == [x \in Systems |-> IF x = spare THEN guest ELSE tender]
MCClass == [x \in Systems |-> IF x \in Benches THEN shop ELSE engine]
MCPosition == [x \in Systems |-> CASE x = port -> 1 [] x = bench -> 2 [] x = star -> 3 [] OTHER -> 4]
(* Work comes in units that make halves and thirds of it whole conditions; *)
(* a bench in ruins does none. *)
MCWork == [b \in Benches |-> [c \in 0..Full |-> 12 * c]]
MCMass == [x \in Systems |-> 2]
MCHull == [s \in Ships |-> 2]
(* A point takes two thirds of what a bench as new can do: a half is not   *)
(* worth a point, nor is all that a bench in poor condition does.          *)
MCHullMass == [s \in Ships |-> 48]
=============================================================================
