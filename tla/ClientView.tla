----------------------------- MODULE ClientView -----------------------------
(***************************************************************************)
(* What a player sees in the graphical client (HSClientConnection.cpp,     *)
(* hsnetwork/, HSClientWindow.cpp, HSShipStatus.cpp).                      *)
(*                                                                         *)
(* The server keeps for every connection what it has told the client, and  *)
(* sends only what has changed since; the client keeps no more than what   *)
(* it was told.  Which ship is shown is decided by the console that the    *)
(* player mans: the game thread tells the connection when that changes,    *)
(* the worker thread asks when the player logs in.                         *)
(*                                                                         *)
(* There is one player, with one client.  A connection may be lost at any  *)
(* time, with all that is under way, and made again.  What the sensors of  *)
(* a ship show is for module Combat to say; here it is anything.  Packets  *)
(* arrive whole, and the engineering packet, which is sent in full every   *)
(* time, is left out.                                                      *)
(***************************************************************************)
EXTENDS Integers, Sequences, SequencesExt

CONSTANTS
  Ships,      (* ships with a console                                      *)
  Ids,        (* numbers of contacts                                       *)
  Nothing,    (* no ship, no contact, no packet                            *)
  Values,     (* what the fields of packets hold                           *)
  Pictures,   (* bound: lists of contacts that a computer may have         *)
  NavStats,   (* bound: positions and hulls that a ship may have           *)
  WireBound,  (* bound: packets under way when the game sends more         *)
  DriftBound  (* bound: changes of a place in a row that are not sent      *)

(* Of the fields of a contact packet the object it is and its place are    *)
(* kept, of those of a navigation packet place and hull.  Object and hull  *)
(* stand for the numbers and names, place for the vectors.  Places count   *)
(* steps of 0.00001.                                                       *)
ContactFields == {"object", "place"}
NavFields == {"place", "hull"}

(* What there can be to say of a contact, and of the ship itself. *)
Sights == {c \in [ContactFields -> Values] : c.place \in Int}
Bearings == {n \in [NavFields -> Values] : n.place \in Int}

ASSUME ClientViewAssumption ==
  /\ Nothing \notin Ships /\ IsFiniteSet(Ids)
  /\ Pictures \subseteq [Ids -> Sights \cup {Nothing}]
  /\ Nothing \notin [ContactFields -> Values \cup {Nothing}]
  /\ NavStats \subseteq Bearings /\ Nothing \notin Bearings
  /\ 0 \in Values /\ WireBound \in Nat /\ DriftBound \in Nat

VARIABLES
  manned,    (* the ship whose console the player mans                     *)
  loggedIn,  (* mUser of the connection is the player                      *)
  ship,      (* mShip                                                      *)
  last,      (* mLastNavStat                                               *)
  current,   (* mCurrentContacts                                           *)
  worker,    (* what the worker thread is in the middle of, and the ship   *)
             (* it has found to show                                       *)
  toClient,  (* packets on their way to the client                         *)
  toServer,  (* packets on their way to the server                         *)
  connected, (* mConnected of HSShipStatus                                 *)
  named,     (* its mName while it is mManned, or else Nothing             *)
  nav,       (* its mPosition and mHullCurrent                             *)
  contacts,  (* its mContacts                                              *)
  told,      (* history: the connection knows of the last change of manned *)
  ghosts,    (* history: contacts shown when the last connection was lost  *)
  unsent,    (* history: changes of the place of each contact of current   *)
  unsentNav  (* and of last since it was last sent                         *)

connection == <<loggedIn, ship, last, current, unsent, unsentNav>>
status == <<connected, named, nav, contacts>>
viewVars == <<manned, connection, worker, toClient, toServer, status, told, ghosts>>

NoContacts == [i \in Ids |-> Nothing]
AllSent == [i \in Ids |-> 0]

Idle == [at |-> "waits", ship |-> Nothing]

-----------------------------------------------------------------------------
(* Packets. *)

Message(m) == [type |-> m]
ShipInfo(s) == [type |-> "shipinfo", name |-> s]

(* HSPM_NOCONSOLEMANNED, or the name of the ship. *)
Manning(s) == IF s = Nothing THEN Message("noconsole") ELSE ShipInfo(s)

(* HSVector3D compares with a tolerance, all else is compared exactly.     *)
Same(f, a, b) == IF f = "place" THEN a - b \in -1..1 ELSE a = b

(* HSNetworkPacket::ByteStream of a flagged packet: all of it, or what     *)
(* differs from the latest.                                                *)
ByteStream(new, latest) ==
  IF latest = Nothing THEN new
  ELSE LET changed == {f \in DOMAIN new : ~Same(f, new[f], latest[f])}
       IN  [f \in changed |-> new[f]]

(* Mutant: the new packet is the latest one even if nothing was sent.      *)
LatestAnyway(new, latest) == new

(* Which packet the next one is compared with: if anything is sent it is   *)
(* the new one, with all its fields, or else the one there was.            *)
Latest(new, latest) == IF new # Nothing /\ ByteStream(new, latest) = <<>> THEN latest ELSE new

(* History: new changes the place that is compared with, and does not send *)
(* it.                                                                     *)
Unsent(new, latest, n) ==
  IF new = Nothing \/ latest = Nothing THEN 0
  ELSE LET sent == ByteStream(new, latest)
       IN  IF "place" \in DOMAIN sent THEN 0
           ELSE IF sent # <<>> /\ new.place # latest.place THEN n + 1 ELSE n

(* RetrievePacket, and the tests of mContentFlag. *)
Retrieved(sent, old) == [f \in DOMAIN old |-> IF f \in DOMAIN sent THEN sent[f] ELSE old[f]]

NavPackets(n) ==
  LET sent == ByteStream(n, last)
  IN  IF sent = <<>> THEN <<>> ELSE <<[type |-> "navstat", fields |-> sent]>>

ContactPacket(i, sent, removed) ==
  [type |-> "contact", id |-> i, fields |-> sent, removed |-> removed]

(* The packets of a set of contacts, in the order of a loop over them.     *)
InSomeOrder(packet) ==
  LET ids == SetToSeq(DOMAIN packet) IN [k \in DOMAIN ids |-> packet[ids[k]]]

(* What UpdateClient says of the contacts in p: those that are new or have *)
(* changed, then those that are gone.  The object type in the latter is  *)
(* not initialized, and may or may not be sent.                            *)
ContactPackets(p, garbage) ==
  LET differ == {i \in Ids : p[i] # Nothing /\ ByteStream(p[i], current[i]) # <<>>}
      gone == {i \in Ids : p[i] = Nothing /\ current[i] # Nothing}
  IN  InSomeOrder([i \in differ |-> ContactPacket(i, ByteStream(p[i], current[i]), FALSE)])
      \o InSomeOrder([i \in gone |-> ContactPacket(i, garbage, TRUE)])

-----------------------------------------------------------------------------
(* The game thread. *)

(* Mutant: HSShip::Cycle frees the console and tells nobody. *)
FreedInSilence(s) ==
  /\ manned # s /\ (manned = Nothing \/ s = Nothing)
  /\ Len(toClient) <= WireBound
  /\ manned' = s
  /\ IF loggedIn /\ s # Nothing THEN ship' = s /\ toClient' = Append(toClient, Manning(s))
     ELSE UNCHANGED <<ship, toClient>>
  /\ told' = (worker.at \in {"waits", "logs in"})
  /\ UNCHANGED <<loggedIn, last, current, unsent, unsentNav, worker, toServer, status, ghosts>>

(* The player mans a console, or ceases to: HSCommandMan and Unman, or     *)
(* HSShip::Cycle finds the player gone.  HSServer::ConsoleUpdate.  An      *)
(* answer that the worker has already made up comes later.                 *)
ManConsole(s) ==
  /\ manned # s /\ (manned = Nothing \/ s = Nothing)
  /\ Len(toClient) <= WireBound
  /\ manned' = s
  /\ IF loggedIn THEN ship' = s /\ toClient' = Append(toClient, Manning(s))
     ELSE UNCHANGED <<ship, toClient>>
  /\ told' = (worker.at \in {"waits", "logs in"})
  /\ UNCHANGED <<loggedIn, last, current, unsent, unsentNav, worker, toServer, status, ghosts>>

(* HSCommandDelConsole, or HSDB::ObjectDestroyed of the console. *)
DelConsole ==
  /\ manned # Nothing
  /\ manned' = Nothing
  /\ told' = ~loggedIn
  /\ UNCHANGED <<connection, worker, toClient, toServer, status, ghosts>>

(* HSClientConnection::UpdateClient.  Without a computer the ship's        *)
(* contacts are not looked at.                                             *)
UpdateClient ==
  /\ ship # Nothing /\ Len(toClient) <= WireBound
  /\ \E n \in NavStats, p \in Pictures \cup {current}, garbage \in {<<>>, [object |-> Nothing]} :
       /\ last' = Latest(n, last)
       /\ current' = [i \in Ids |-> Latest(p[i], current[i])]
       /\ unsentNav' = Unsent(n, last, unsentNav)
       /\ unsent' = [i \in Ids |-> Unsent(p[i], current[i], unsent[i])]
       /\ toClient' = toClient \o NavPackets(n) \o ContactPackets(p, garbage)
  /\ unsentNav' <= DriftBound /\ \A i \in Ids : unsent'[i] <= DriftBound
  /\ UNCHANGED <<manned, loggedIn, ship, worker, toServer, status, told, ghosts>>

-----------------------------------------------------------------------------
(* The worker thread: HSClientConnection::HandlePacket and HandleMessage.  *)
(* The game may do anything between its steps.                             *)
Receives(m) ==
  /\ worker.at = "waits" /\ toServer # <<>> /\ Head(toServer) = m
  /\ toServer' = Tail(toServer)

(* A login: mUser is set, and then the console looked for. *)
Login ==
  /\ Receives("login")
  /\ loggedIn' = TRUE
  /\ toClient' = Append(toClient, Message("accepted"))
  /\ worker' = [at |-> "logs in", ship |-> Nothing]
  /\ UNCHANGED <<manned, ship, last, current, unsent, unsentNav, status, told, ghosts>>

LoginDenied ==
  /\ Receives("wrong login")
  /\ toClient' = Append(toClient, Message("denied"))
  /\ UNCHANGED <<manned, connection, worker, status, told, ghosts>>

(* FindConsoleMannedBy.  If it finds none, mShip is left as it is. *)
LoginFinds ==
  /\ worker.at = "logs in"
  /\ worker' = [at |-> "found", ship |-> manned]
  /\ told' = (told \/ manned # Nothing)
  /\ UNCHANGED <<manned, connection, toClient, toServer, status, ghosts>>

LoginEnds ==
  /\ worker.at = "found"
  /\ ship' = IF worker.ship # Nothing THEN worker.ship ELSE ship
  /\ worker' = Idle
  /\ UNCHANGED <<manned, loggedIn, last, current, unsent, unsentNav, toClient, toServer, status,
                 told, ghosts>>

(* HSPM_REQUESTSHIPINFO: mShip is read and, a moment later, answered. *)
Request ==
  /\ Receives("request")
  /\ worker' = [at |-> "answers", ship |-> ship]
  /\ UNCHANGED <<manned, connection, toClient, status, told, ghosts>>

Answer ==
  /\ worker.at = "answers"
  /\ toClient' = Append(toClient, Manning(worker.ship))
  /\ worker' = Idle
  /\ UNCHANGED <<manned, connection, toServer, status, told, ghosts>>

-----------------------------------------------------------------------------
(* The client. *)

(* HSShipStatus::HandleContactPacket.  A contact that is not known is      *)
(* added with what the packet says of it.                                  *)
HandleContactPacket(p, known) ==
  IF p.removed /\ known[p.id] # Nothing THEN [known EXCEPT ![p.id] = Nothing]
  ELSE LET old == IF known[p.id] = Nothing THEN [f \in ContactFields |-> Nothing]
                  ELSE known[p.id]
       IN  [known EXCEPT ![p.id] = Retrieved(p.fields, old)]

HandleNavPacket(p, known) == Retrieved(p.fields, known)

(* What the client shows of contacts and navigation, and what it makes of  *)
(* packet p when it shows v.                                               *)
view == [contacts |-> contacts, nav |-> nav]

Noted(p, v) ==
  [contacts |-> IF p.type = "contact" THEN HandleContactPacket(p, v.contacts) ELSE v.contacts,
   nav |-> IF p.type = "navstat" THEN HandleNavPacket(p, v.nav) ELSE v.nav]

(* Losing the connection ends what both sides do with it; the client keeps *)
(* what it shows.                                                          *)
Lose ==
  /\ connected' = FALSE /\ loggedIn' = FALSE /\ ship' = Nothing
  /\ last' = Nothing /\ current' = NoContacts /\ unsent' = AllSent /\ unsentNav' = 0
  /\ worker' = Idle /\ toClient' = <<>> /\ toServer' = <<>>
  /\ told' = TRUE
  /\ UNCHANGED <<manned, named, nav>>

Disconnect ==
  /\ connected
  /\ Lose
  /\ ghosts' = {i \in Ids : contacts[i] # Nothing}
  /\ UNCHANGED contacts

(* HSServer::ConnectionAccepted, and ConnectionAttempt in the client. *)
Connect ==
  /\ ~connected
  /\ connected' = TRUE
  /\ toClient' = <<Message("welcome")>>
  /\ UNCHANGED <<manned, connection, worker, toServer, named, nav, contacts, told, ghosts>>

(* Mutant: the client that was let in asks for nothing. *)
ReplyToWelcomeOnly(m) == IF m = "welcome" THEN {<<"login">>, <<"wrong login">>} ELSE {<<>>}

(* HSClientWindow::HandleMessage: what the client sends to message m. *)
Replies(m) ==
  CASE m = "welcome" -> {<<"login">>, <<"wrong login">>}
    [] m = "accepted" -> {<<"request">>}
    [] OTHER -> {<<>>}

(* HSClientWindow::DataRead, for one packet of its buffer. *)
ReadPacket ==
  /\ toClient # <<>>
  /\ LET p == Head(toClient)
     IN  IF p.type = "denied" THEN Lose /\ ghosts' = {i \in Ids : contacts[i] # Nothing}
                                   /\ UNCHANGED contacts
         ELSE /\ toClient' = Tail(toClient)
              /\ \E r \in Replies(p.type) : toServer' = toServer \o r
              /\ named' = CASE p.type = "shipinfo" -> p.name
                            [] p.type = "noconsole" -> Nothing
                            [] OTHER -> named
              /\ nav' = Noted(p, view).nav /\ contacts' = Noted(p, view).contacts
              /\ UNCHANGED <<manned, connection, worker, connected, told, ghosts>>

-----------------------------------------------------------------------------
ViewInit ==
  /\ manned = Nothing
  /\ loggedIn = FALSE /\ ship = Nothing /\ last = Nothing /\ current = NoContacts
  /\ worker = Idle /\ toClient = <<>> /\ toServer = <<>>
  /\ connected = FALSE /\ named = Nothing
  /\ nav = [f \in NavFields |-> 0] /\ contacts = NoContacts
  /\ told = TRUE /\ ghosts = {} /\ unsent = AllSent /\ unsentNav = 0

Serve == Login \/ LoginDenied \/ LoginFinds \/ LoginEnds \/ Request \/ Answer

ViewNext ==
  \/ \E s \in Ships \cup {Nothing} : ManConsole(s)
  \/ DelConsole
  \/ UpdateClient
  \/ Serve
  \/ ReadPacket
  \/ Disconnect
  \/ Connect

(* The worker handles what arrives and the client reads what is sent. *)
ViewSpec == ViewInit /\ [][ViewNext]_viewVars /\ WF_viewVars(Serve) /\ WF_viewVars(ReadPacket)
-----------------------------------------------------------------------------
(* All there can be on the way to the client.                              *)
Parts(fields, values) == UNION {[some -> values] : some \in SUBSET fields}

Packets ==
  {Message(m) : m \in {"welcome", "accepted", "denied", "noconsole"}}
    \cup {ShipInfo(s) : s \in Ships}
    \cup [type : {"navstat"}, fields : Parts(NavFields, Values)]
    \cup [type : {"contact"}, id : Ids, removed : BOOLEAN,
          fields : Parts(ContactFields, Values \cup {Nothing})]

ViewTypeOK ==
  /\ manned \in Ships \cup {Nothing} /\ ship \in Ships \cup {Nothing}
  /\ loggedIn \in BOOLEAN /\ connected \in BOOLEAN /\ told \in BOOLEAN
  /\ last \in NavStats \cup {Nothing} /\ current \in [Ids -> Sights \cup {Nothing}]
  /\ unsent \in [Ids -> Nat] /\ unsentNav \in Nat
  /\ worker \in [at : {"waits", "logs in", "found", "answers"}, ship : Ships \cup {Nothing}]
  /\ named \in Ships \cup {Nothing} /\ ghosts \subseteq Ids
  /\ nav \in [NavFields -> Values]
  /\ contacts \in [Ids -> [ContactFields -> Values \cup {Nothing}] \cup {Nothing}]
  /\ toClient \in Seq(Packets) /\ toServer \in Seq({"login", "wrong login", "request"})

(* What a client that shows v will show when it has read the packets.      *)
Shown(v, packets) ==
  LET after[k \in 0..Len(packets)] == IF k = 0 THEN v ELSE Noted(packets[k], after[k - 1])
  IN  after[Len(packets)]

(* What is shown and what is noted as sent agree, but for n changes of the *)
(* place that were too small to be sent.                                   *)
UpToDate(shown, noted, n) ==
  /\ \A f \in DOMAIN noted \ {"place"} : shown[f] = noted[f]
  /\ shown.place - noted.place \in -n..n

(* The client, when it has read what is under way, shows the contacts and  *)
(* the ship as the server believes it does, although no packet has more    *)
(* than differences and contact numbers come again for other objects and   *)
(* on other ships.  A change of a place within the tolerance goes unsent   *)
(* and is noted as sent when the packet has anything else to say: so the   *)
(* place shown is off by at most the tolerance for each such packet since  *)
(* the place was last sent, and by nothing else.  Beyond that the client   *)
(* shows at most contacts of a connection that was lost, which nobody      *)
(* clears.                                                                 *)
ViewAgrees ==
  LET shown == Shown(view, toClient)
  IN  /\ \A i \in Ids :
           IF current[i] = Nothing THEN shown.contacts[i] # Nothing => i \in ghosts
           ELSE shown.contacts[i] # Nothing /\ UpToDate(shown.contacts[i], current[i], unsent[i])
      /\ last # Nothing => UpToDate(shown.nav, last, unsentNav)

(* Nothing that tells which ship is manned is under way. *)
Settled ==
  /\ loggedIn /\ worker = Idle /\ toServer = <<>>
  /\ \A k \in DOMAIN toClient : toClient[k].type \in {"navstat", "contact"}

(* The client shows the ship whose console the player mans, however login, *)
(* questions and changes of the console cross.  Only a change that falls   *)
(* into the middle of a login or an answer, or a console that is deleted,  *)
(* goes unnoticed, until the next change or login.                         *)
CrewIsShown == Settled /\ told => ship = manned /\ named = manned

(* Whoever mans a console and is logged in gets to see the ship, unless    *)
(* something changes before.                                               *)
ShipAppears ==
  \A s \in Ships :
    (loggedIn /\ told /\ manned = s)
      ~> (named = s \/ manned # s \/ ~loggedIn \/ ~told)
=============================================================================
