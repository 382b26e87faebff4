---------------------------- MODULE MCClientView ----------------------------
(***************************************************************************)
(* Two ships, two numbers of contacts and two objects.  The first number   *)
(* is given to the one and the other object, whose places differ by steps  *)
(* within the tolerance or beyond it; the second comes and goes, and its   *)
(* object only moves, within the tolerance.  The ship drifts to and fro    *)
(* within the tolerance, and its hull changes with it.                     *)
(***************************************************************************)
EXTENDS ClientView

CONSTANTS i, j, planet, probe

Seen(o, l) == [object |-> o, place |-> l]

Picture(x, y) == [k \in Ids |-> IF k = i THEN x ELSE y]

MCPictures ==
  {Picture(Seen(planet, 0), Nothing),
   Picture(Seen(probe, 1), Seen(planet, 0)),
   Picture(Seen(planet, 2), Seen(planet, 1))}

MCNavStats == {[place |-> 0, hull |-> 2], [place |-> 1, hull |-> 1]}
=============================================================================
