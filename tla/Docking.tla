------------------------------ MODULE Docking ------------------------------
(***************************************************************************)
(* Docking hatches (HSDockingHatch.cpp, HSComputer.cpp, HSObject.cpp,      *)
(* HSCommand.cpp).                                                         *)
(*                                                                         *)
(* A hatch is a MUSH exit.  Two connected hatches refer to each other by   *)
(* mLinkedTo, and each exit leads to the room of the other.  Nothing keeps *)
(* the two sides together but the code that links and unlinks them, and    *)
(* HSObject::Cycle, which breaks links that have become too long.          *)
(*                                                                         *)
(* LINKEDTO is written with the database and exits are kept by the MUSH: a *)
(* restart changes nothing here.                                           *)
(***************************************************************************)
EXTENDS Integers, FiniteSets

CONSTANTS
  Bodies,           (* HSObjects                                           *)
  Crewed,           (* those that have a computer to connect hatches with  *)
  Hatches,          (* exits that are docking hatches at some time         *)
  Fitted,           (* the object each hatch belongs to at first           *)
  Reusable,         (* bound: removed hatches that may be added again      *)
  Gaters,           (* bound: ships that may pass a jump gate              *)
  Positions,        (* where objects can be, on a line                     *)
  DockingDistance,  (* of the configuration                                *)
  Nothing           (* DBRefNothing                                        *)

ASSUME DockingAssumption ==
  /\ Crewed \subseteq Bodies /\ Gaters \subseteq Crewed
  /\ Reusable \subseteq Hatches
  /\ Fitted \in [Hatches -> Bodies]
  /\ Nothing \notin Bodies \cup Hatches
  /\ Positions \subseteq Int /\ DockingDistance \in Nat

VARIABLES
  owner,     (* mObjectID of each hatch, Nothing for an exit that is none *)
  linkedTo,  (* mLinkedTo of each hatch                                    *)
  clamped,   (* the hatches that are clamped                               *)
  exitTo,    (* the hatch to whose room each exit leads                    *)
  present,   (* the objects that exist                                     *)
  pos        (* mLocation of every object                                  *)

dockingVars == <<owner, linkedTo, clamped, exitTo, present, pos>>

-----------------------------------------------------------------------------
HatchesOf(o) == {h \in Hatches : owner[h] = o}

Distance(p, q) == IF p < q THEN q - p ELSE p - q

Link(h, g) ==
  /\ linkedTo' = [linkedTo EXCEPT ![h] = g, ![g] = h]
  /\ exitTo' = [exitTo EXCEPT ![h] = g, ![g] = h]

(* Mutants: only our side is unlinked, or the exits are left open. *)
UnlinkOurs(H) ==
  /\ linkedTo' = [h \in Hatches |-> IF h \in H THEN Nothing ELSE linkedTo[h]]
  /\ exitTo' = [h \in Hatches |->
       IF h \in H \cup {linkedTo[k] : k \in H} THEN Nothing ELSE exitTo[h]]

UnlinkLeavingExits(H) ==
  /\ linkedTo' = [h \in Hatches |->
       IF h \in H \cup {linkedTo[k] : k \in H} THEN Nothing ELSE linkedTo[h]]
  /\ UNCHANGED exitTo

(* HSDockingHatch::Disconnect of each hatch in H.  The hatch a link leads  *)
(* to is unlinked too, whatever it is linked to itself.                    *)
Unlink(H) ==
  LET ends == H \cup {linkedTo[h] : h \in H}
  IN  /\ linkedTo' = [h \in Hatches |-> IF h \in ends THEN Nothing ELSE linkedTo[h]]
      /\ exitTo' = [h \in Hatches |-> IF h \in ends THEN Nothing ELSE exitTo[h]]

(* A link whose other end is gone cannot be disconnected. *)
Disconnectable(h) == linkedTo[h] # Nothing /\ owner[linkedTo[h]] # Nothing

(* Mutant: the distance is taken before the object has moved. *)
StrayFromOldPlace(o, p) ==
  {h \in HatchesOf(o) :
     Disconnectable(h) /\ Distance(pos[o], pos[owner[linkedTo[h]]]) > DockingDistance}

(* The hatches of o that are too far from what they are linked to when o   *)
(* has got to p.                                                           *)
Stray(o, p) ==
  {h \in HatchesOf(o) :
     /\ Disconnectable(h)
     /\ owner[linkedTo[h]] # o
     /\ Distance(p, pos[owner[linkedTo[h]]]) > DockingDistance}

-----------------------------------------------------------------------------
(* HSComputerInstance::ConnectHatch.  The target is a contact on sensors,  *)
(* so that it is another object.                                           *)
ConnectHatch(h, g) ==
  /\ owner[h] \in Crewed /\ owner[g] # Nothing /\ owner[g] # owner[h]
  /\ linkedTo[h] = Nothing /\ linkedTo[g] = Nothing
  /\ {h, g} \cap clamped = {}
  /\ Distance(pos[owner[h]], pos[owner[g]]) <= DockingDistance
  /\ Link(h, g)
  /\ UNCHANGED <<owner, clamped, present, pos>>

(* HSComputerInstance::DisconnectHatch looks at the clamp of its own side. *)
DisconnectHatch(h) ==
  /\ owner[h] \in Crewed /\ h \notin clamped
  /\ Disconnectable(h)
  /\ Unlink({h})
  /\ UNCHANGED <<owner, clamped, present, pos>>

(* HSObject::Cycle of an object that has velocity. *)
Move(o, p) ==
  /\ o \in present /\ p # pos[o]
  /\ pos' = [pos EXCEPT ![o] = p]
  /\ Unlink(Stray(o, p))
  /\ UNCHANGED <<owner, clamped, present>>

(* HSComputerInstance::Gate moves a ship that has none, as does the end of *)
(* a launch.                                                               *)
Gate(s, p) ==
  /\ s \in present \cap Gaters
  /\ pos' = [pos EXCEPT ![s] = p]
  /\ UNCHANGED <<owner, linkedTo, clamped, exitTo, present>>

(* @space/set of CLAMPED. *)
SetClamped(h) ==
  /\ owner[h] # Nothing
  /\ \/ clamped' = clamped \cup {h}
     \/ clamped' = clamped \ {h}
  /\ UNCHANGED <<owner, linkedTo, exitTo, present, pos>>

(* Hatches cease to be hatches: their links go with them, but neither the  *)
(* exits nor the other ends of the links are touched.                      *)
Discard(H) ==
  /\ owner' = [h \in Hatches |-> IF h \in H THEN Nothing ELSE owner[h]]
  /\ linkedTo' = [h \in Hatches |-> IF h \in H THEN Nothing ELSE linkedTo[h]]
  /\ clamped' = clamped \ H
  /\ UNCHANGED <<exitTo, pos>>

(* HSCommandAddDockingHatch and HSCommandRemoveDockingHatch. *)
AddDockingHatch(o, h) ==
  /\ o \in present /\ owner[h] = Nothing /\ h \in Reusable
  /\ owner' = [owner EXCEPT ![h] = o]
  /\ UNCHANGED <<linkedTo, clamped, exitTo, present, pos>>

RemoveDockingHatch(h) ==
  /\ owner[h] # Nothing
  /\ Discard({h})
  /\ UNCHANGED present

(* HSDB::ObjectDestroyed. *)
DestroyObject(o) ==
  /\ o \in present
  /\ present' = present \ {o}
  /\ Discard(HatchesOf(o))

-----------------------------------------------------------------------------
DockingInit ==
  /\ owner = Fitted
  /\ linkedTo = [h \in Hatches |-> Nothing]
  /\ clamped = {}
  /\ exitTo = [h \in Hatches |-> Nothing]
  /\ present = Bodies
  /\ pos \in [Bodies -> Positions]

DockingNext ==
  \/ \E h, g \in Hatches : ConnectHatch(h, g)
  \/ \E h \in Hatches :
       DisconnectHatch(h) \/ SetClamped(h) \/ RemoveDockingHatch(h)
  \/ \E o \in Bodies, p \in Positions : Move(o, p) \/ Gate(o, p)
  \/ \E o \in Bodies, h \in Hatches : AddDockingHatch(o, h)
  \/ \E o \in Bodies : DestroyObject(o)

DockingSpec == DockingInit /\ [][DockingNext]_dockingVars
-----------------------------------------------------------------------------
DockingTypeOK ==
  /\ owner \in [Hatches -> Bodies \cup {Nothing}]
  /\ linkedTo \in [Hatches -> Hatches \cup {Nothing}]
  /\ clamped \subseteq Hatches
  /\ exitTo \in [Hatches -> Hatches \cup {Nothing}]
  /\ present \subseteq Bodies
  /\ pos \in [Bodies -> Positions]

(* Two connected hatches are connected to each other and to no third one,  *)
(* through any order of connecting, moving away, removal and destruction.  *)
(* A hatch that was removed and added again may be referred to by the one  *)
(* it was connected to before.                                             *)
LinksAreMutual ==
  \A h \in Hatches : Disconnectable(h) /\ linkedTo[h] \notin Reusable
                        => linkedTo[linkedTo[h]] = h

(* People can walk out of a hatch if and only if it is connected, and end  *)
(* up behind the hatch it is connected to, unless it was removed while it  *)
(* was connected and added again.                                          *)
ExitsFollowLinks ==
  \A h \in Hatches \ Reusable : owner[h] # Nothing => exitTo[h] = linkedTo[h]

(* Even when removed hatches are added again and links go stale, a hatch   *)
(* that takes itself for connected has its exit open to that very hatch.   *)
ConnectedExitsLead ==
  \A h \in Hatches : linkedTo[h] # Nothing => exitTo[h] = linkedTo[h]

(* Only objects within DockingDistance of each other stay connected        *)
(* (HSComputer.cpp:1458 "That target is too far away to connect a docking  *)
(* hatch"), although only the object that moves looks at its own hatches.  *)
(* Ships that passed a jump gate are the exception.                        *)
LinkedWithinRange ==
  \A h \in Hatches :
    /\ Disconnectable(h) /\ linkedTo[h] \notin Reusable
    /\ {owner[h], owner[linkedTo[h]]} \cap Gaters = {}
    => Distance(pos[owner[h]], pos[owner[linkedTo[h]]]) <= DockingDistance

(* What docking is for: one walks through a hatch to the hatch it is       *)
(* connected to, and back; a passage opens between two free hatches only,  *)
(* and closes on both sides in one step, whether one side disconnects,     *)
(* moves away, is removed or is destroyed.  Hatches that were removed and  *)
(* added again are left out.                                               *)
Lasting == Hatches \ Reusable

Passage ==
  INSTANCE Passages WITH
    Hatches <- Lasting,
    beyond <- [h \in Lasting |->
      IF owner[h] # Nothing /\ exitTo[h] \in {g \in Lasting : owner[g] # Nothing}
      THEN exitTo[h] ELSE Nothing]

PassageSpec == Passage!Spec
=============================================================================
