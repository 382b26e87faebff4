----------------------------- MODULE MCDocking -----------------------------
(***************************************************************************)
(* A ferry with two hatches, a pod and a station with one each.            *)
(***************************************************************************)
EXTENDS Docking

CONSTANTS ferry, pod, station, bow, stern, podlock, gangway

MCFitted == [h \in Hatches |->
               CASE h \in {bow, stern} -> ferry [] h = podlock -> pod [] OTHER -> station]
=============================================================================
