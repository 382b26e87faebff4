------------------------------- MODULE Store -------------------------------
(***************************************************************************)
(* What saving and loading promise: the game changes by commands, a save   *)
(* keeps all of it, and a recovery brings back exactly what was kept.  A   *)
(* save that breaks off leaves, of every thing, the old row, the new one   *)
(* or none; what is recovered from that, or was recovered from it before,  *)
(* may be anything.  There are loose rows, which do not say what the thing *)
(* in the game was: they may come back as another row, or not at all.      *)
(***************************************************************************)
EXTENDS Naturals

CONSTANTS Nothing, Loose

VARIABLES
  now,       (* the row of every thing in the game                         *)
  kept,      (* its row in the store                                       *)
  torn,      (* the last save broke off                                    *)
  tainted,   (* the game goes back to such a save                          *)
  commands   (* how many commands there were                               *)

Change ==
  /\ commands' = commands + 1
  /\ UNCHANGED <<kept, torn, tainted>>

Save ==
  /\ kept' = now
  /\ torn' = FALSE
  /\ UNCHANGED <<now, tainted, commands>>

Break ==
  /\ DOMAIN kept' = DOMAIN kept
  /\ \A x \in DOMAIN kept : kept'[x] \in {now[x], kept[x], Nothing}
  /\ torn' = TRUE
  /\ UNCHANGED <<now, tainted, commands>>

Recover ==
  /\ DOMAIN now' = DOMAIN kept
  /\ tainted' = (torn \/ tainted)
  /\ ~tainted' => \A x \in DOMAIN kept : kept[x] \notin Loose => now'[x] = kept[x]
  /\ UNCHANGED <<kept, torn, commands>>

Init == kept = now /\ torn = FALSE /\ tainted = FALSE /\ commands = 0

Next == Change \/ Save \/ Break \/ Recover

Spec == Init /\ [][Next]_<<now, kept, torn, tainted, commands>>
=============================================================================
