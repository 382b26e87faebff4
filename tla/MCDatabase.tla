----------------------------- MODULE MCDatabase -----------------------------
(***************************************************************************)
(* Two universes, two hull classes and two systems at most, of two types   *)
(* with a table each.  In the beginning there is a ship with a system of   *)
(* the second type and a console in a universe, and a second hull class.   *)
(***************************************************************************)
EXTENDS Database

CONSTANTS main, other, frigate, cruiser, zone, alpha, beta, pod1, pod2,
          engine, shield, drive, screen, spare, helm

MCInitialRows ==
  [x \in {main, frigate, cruiser, alpha, shield, screen, helm} |->
     CASE x = main -> [place |-> 1]
       [] x = frigate -> [id |-> 0]
       [] x = cruiser -> [id |-> 1]
       [] x = alpha -> [univ |-> main, in |-> main, class |-> 0, hull |-> frigate]
       [] x = shield -> [id |-> 0]
       [] x = screen -> [ship |-> alpha, systemId |-> 0, system |-> shield, byHand |-> FALSE]
       [] x = helm -> [ship |-> alpha]]

MCType == [x \in {engine, drive, shield, screen, spare} |-> IF x \in {engine, drive} THEN 1 ELSE 2]
=============================================================================
