------------------------------ MODULE Passages ------------------------------
(***************************************************************************)
(* What docking promises: a passage joins two hatches that are free, one   *)
(* can walk through it both ways, and it closes on both sides at once.     *)
(***************************************************************************)
CONSTANTS Hatches, Nothing

VARIABLE beyond   (* the hatch behind which one gets by walking through *)

Open(h, g) ==
  /\ h # g /\ beyond[h] = Nothing /\ beyond[g] = Nothing
  /\ beyond' = [beyond EXCEPT ![h] = g, ![g] = h]

(* Some passages close, each on both sides. *)
Close(H) ==
  beyond' = [h \in Hatches |->
    IF h \in H \/ (beyond[h] # Nothing /\ beyond[h] \in H) THEN Nothing ELSE beyond[h]]

Init == beyond = [h \in Hatches |-> Nothing]

Next ==
  \/ \E h, g \in Hatches : Open(h, g)
  \/ \E H \in SUBSET Hatches : Close(H)

Spec == Init /\ [][Next]_beyond
=============================================================================
