------------------------------ MODULE ClientView ------------------------------
(***************************************************************************)
(* What a client draws of the world around its user, and the notifications *)
(* of the server that are to keep it true.                                 *)
(*                                                                         *)
(* The server compares what a subject sees before and after every step and *)
(* tells each side what came into sight (ADD), moved in it (MOVE) and left *)
(* it (REMOVE); it keeps no list of what a client has been told, except a  *)
(* cached list per monster.  The client mirrors that into its map          *)
(* `players`; while it fades from one zone to the next it collects what is *)
(* added in g_pendingObjects instead and ignores its own moves.            *)
(*                                                                         *)
(* The world is a strip of cells cut into zones; only the grid of a zone   *)
(* is searched, so nobody sees over its border.  The zone threads' tasks   *)
(* are steps, and what they post reaches a client complete and in order    *)
(* (SessionSend).  A request is handled at once and its answers may be     *)
(* late; but one that was sent to a zone its user has left since may still *)
(* run there (ZoneServer), and that thread finds nobody near the user.     *)
(* Names, hit points, animations and the avatar's own weapon are left out; *)
(* when a monster is awake is MonsterLife's matter, who may take a field   *)
(* item FieldItem's, whom the login places in no zone ZoneServer's.        *)
(***************************************************************************)
EXTENDS Integers, Sequences, FiniteSets, SequencesExt

CONSTANTS
  Users, Monsters,
  Items,           \* ids for field items, each used once
  Viewers,         \* users whose clients are looked at; the others are only seen
  Cells, ZoneOf,   \* the strip of cells and the zone of each
  Spawns,          \* cells the monsters start in
  VIEW_RANGE,
  Patient,         \* TRUE: users wait for their last request and its fade
  None,
  MaxSteps,        \* bound: requests, disconnects and steps of monsters
  MaxDeaths,       \* bound: kills
  MaxLag           \* bound: notices a client has yet to process when more happens

ASSUME ViewAssumption ==
  /\ Cells \subseteq Int /\ Cells # {} /\ Spawns \subseteq Cells /\ VIEW_RANGE \in Nat
  /\ Patient \in BOOLEAN
  /\ Viewers \subseteq Users
  /\ Users \cap Monsters = {} /\ Items \cap (Users \cup Monsters) = {}
  /\ None \notin Cells \cup Users \cup Monsters \cup Items
  /\ \A c \in Cells : ZoneOf[c] # None
  /\ IsFiniteSet(Users) /\ IsFiniteSet(Monsters) /\ IsFiniteSet(Items)
  /\ {MaxSteps, MaxDeaths, MaxLag} \subseteq Nat

VARIABLES
  \* server
  user,      \* on: in the registry and in a grid; cell; alive; weapon in
             \* hand; whether it has changed zone, and left tasks behind
  monster,   \* cell and alive; a dead one is in no grid
  viewList,  \* Monster::m_viewList
  ground,    \* the cell of a field item; None before and after
  fresh,     \* ids of field items not used yet
  \* the link
  chan,      \* notifications posted to each client and not yet processed
  \* clients
  client,
  \* bounds and observations
  steps, deaths,
  late,      \* subjects whose picture a client itself let go out of date
  unsure,    \* users whose weapon the last news about them did not tell
  struck,    \* users killed by the thread of a zone whose grid they are not in
  stray,     \* users moved or disconnected by such a thread
  untold     \* users whose last change of weapon such a thread told to nobody

field    == <<ground, fresh>>
bounds   == <<steps, deaths>>
observed == <<late, unsure, struck, stray, untold>>
vars     == <<user, monster, viewList, field, chan, client, bounds, observed>>

Subjects == Users \cup Monsters \cup Items
Zones    == {ZoneOf[c] : c \in Cells}

\* "new": not logged in; "grid": in the grid of its cell's zone; "between":
\* m_transferring; "off": dead and out of the grid; "out": disconnected.
UserStates    == [on: {"new", "grid", "between", "off", "out"}, cell: Cells, alive: BOOLEAN,
                  armed: BOOLEAN, crossed: BOOLEAN]
MonsterStates == [cell: Cells, alive: BOOLEAN]

Types   == {"LOGIN_ACK", "ADD", "MOVE", "REMOVE", "DIE", "RESPAWN", "EQUIP"}
Notices == [type: Types, id: Subjects, cell: Cells \cup {None}, armed: BOOLEAN]

\* The state of an OBJECT a client holds: drawn, hidden, or playing its death.
Pictures == UNION {[S -> [cell: Cells, look: {"shown", "hidden", "dying"},
                          armed: BOOLEAN]] : S \in SUBSET Subjects}
\* LOADING and FADE_IN, between which only the screen differs, are "FADE_IN".
ZoneTransState == {"NONE", "FADE_OUT", "FADE_IN"}
Clients == [avatar: Cells \cup {None}, zone: Zones \cup {None}, isDead: BOOLEAN,
            trans: ZoneTransState, pendingPlayer: Cells \cup {None},
            players: Pictures, pendingObjects: Pictures]

TypeOK ==
  /\ user \in [Users -> UserStates]
  /\ monster \in [Monsters -> MonsterStates]
  /\ viewList \in [Monsters -> SUBSET Users]
  /\ ground \in [Items -> Cells \cup {None}] /\ fresh \subseteq Items
  /\ chan \in [Viewers -> Seq(Notices)]
  /\ client \in [Viewers -> Clients]
  /\ steps \in 0 .. MaxSteps /\ deaths \in 0 .. MaxDeaths
  /\ late \in [Viewers -> SUBSET Subjects]
  /\ unsure \in [Viewers -> SUBSET Users]
  /\ struck \subseteq Users /\ stray \subseteq Users /\ untold \subseteq Users

-----------------------------------------------------------------------------
\* Sight

Dist(a, b) == IF a < b THEN b - a ELSE a - b

IsAdjacent(a, b) == Dist(a, b) = 1

\* CanSee, between neighbours in one zone's grid.
CanSee(a, b) == ZoneOf[a] = ZoneOf[b] /\ Dist(a, b) <= VIEW_RANGE

Exists(u) == user[u].on \in {"grid", "between", "off"}
InGrid(u) == user[u].on = "grid"

\* CollectUsers: the users in the grid that see a subject at cell c.
CollectUsers(c) == {u \in Users : InGrid(u) /\ CanSee(user[u].cell, c)}

\* CollectSubjects: what user u sees from cell c.
CollectSubjects(u, c) ==
  UNION {CollectUsers(c) \ {u},
         {m \in Monsters : monster[m].alive /\ CanSee(monster[m].cell, c)},
         {i \in Items : ground[i] # None /\ CanSee(ground[i], c)}}

\* What user u sees now: nothing when it is in no grid.
Visible(u) == IF InGrid(u) THEN CollectSubjects(u, user[u].cell) ELSE {}

CellOf(s) == IF s \in Users THEN user[s].cell
             ELSE IF s \in Monsters THEN monster[s].cell ELSE ground[s]
Armed(s)  == s \in Users /\ user[s].armed

-----------------------------------------------------------------------------
\* Notifications

Notice(type, s, c) == [type |-> type, id |-> s, cell |-> c, armed |-> Armed(s)]
Removal(s)         == Notice("REMOVE", s, None)

\* The same kind of notice about every subject of S, in no particular order.
Adds(S)     == SetToSeq({Notice("ADD", s, CellOf(s)) : s \in S})
Removals(S) == SetToSeq({Removal(s) : s \in S})

\* PostSend of out[u] to every user; the packets for a user that is gone
\* go nowhere.
Post(out) ==
  chan' = [u \in Viewers |-> IF Exists(u) THEN chan[u] \o out[u] ELSE <<>>]

\* The same notice to all users that see cell c.
Tell(c, notice) ==
  Post([v \in Viewers |-> IF v \in CollectUsers(c) THEN <<notice>> ELSE <<>>])

InTime  == \A u \in Viewers : Len(chan[u]) <= MaxLag
Counted == InTime /\ steps < MaxSteps /\ steps' = steps + 1
Fatal   == InTime /\ deaths < MaxDeaths /\ deaths' = deaths + 1

-----------------------------------------------------------------------------
\* Users

\* The client has seen the answer to what it last asked and is not fading.
\* It walks every 500 ms at most and not in a fade, and a respawn takes 30 s;
\* nothing but patience keeps a user from a second teleport in a fade.
Settled(u) ==
  Patient /\ u \in Viewers =>
    /\ client[u].trans = "NONE"
    /\ \A i \in DOMAIN chan[u] : chan[u][i].id # u

\* NotifyPlayerEnteredWorld: u appears at cell c and is told what is there.
Entered(u, c, type) ==
  [v \in Users |->
     IF v = u THEN Adds(CollectSubjects(u, c))
     ELSE IF v \in CollectUsers(c) THEN <<Notice(type, u, c)>> ELSE <<>>]

\* HandleGetUserInfo at the saved place, HandleAddUserInfo at a random one.
Login(u) ==
  /\ user[u].on = "new"
  /\ \E c \in Cells :
       LET out == Entered(u, c, "ADD") IN
       /\ user' = [user EXCEPT ![u].on = "grid", ![u].cell = c]
       /\ chan' = [v \in Viewers |->
                     IF v = u THEN <<Notice("LOGIN_ACK", u, c)>> \o out[u]
                     ELSE IF Exists(v) THEN chan[v] \o out[v] ELSE <<>>]
  /\ UNCHANGED <<monster, viewList, field, client, bounds, observed>>

\* HandlePlayerMove inside a zone.
MoveInZone(u, c) ==
  LET old == Visible(u)
      new == CollectSubjects(u, c)
      moved == c # user[u].cell
  IN
  /\ user' = [user EXCEPT ![u].cell = c]
  /\ Post([v \in Viewers |->
       IF v = u THEN <<Notice("MOVE", u, c)>> \o
                     (IF moved THEN Adds(new \ old) \o Removals(old \ new) ELSE <<>>)
       ELSE IF ~moved \/ v \notin old \cup new THEN <<>>
       ELSE IF v \notin old THEN <<Notice("ADD", u, c)>>
       ELSE IF v \in new THEN <<Notice("MOVE", u, c)>>
       ELSE <<Removal(u)>>])

\* Mutant: the user is removed from its neighbours' sight, not they from its.
HandleZoneTransfer_NoRemoval(u, c) ==
  /\ user' = [user EXCEPT ![u].cell = c, ![u].on = "between",
                          ![u].crossed = TRUE]
  /\ Post([v \in Viewers |->
       IF v = u THEN <<Notice("MOVE", u, c)>> \o Removals(Visible(u)) ELSE <<>>])

\* HandleZoneTransfer, on the thread of the zone that the user leaves.
HandleZoneTransfer(u, c) ==
  LET old == Visible(u) IN
  /\ user' = [user EXCEPT ![u].cell = c, ![u].on = "between",
                          ![u].crossed = TRUE]
  /\ Post([v \in Viewers |->
       IF v = u THEN <<Notice("MOVE", u, c)>> \o Removals(old)
       ELSE IF v \in old THEN <<Removal(u)>> ELSE <<>>])

HandlePlayerMove(u, c) ==
  IF ZoneOf[c] = ZoneOf[user[u].cell] THEN MoveInZone(u, c)
                                      ELSE HandleZoneTransfer(u, c)

\* The requests a dead or transferring user makes change nothing.
Moves(u) == Exists(u) /\ user[u].alive /\ user[u].on # "between" /\ Settled(u) /\ Counted

IsTileOccupiedByMonster(u, c) ==
  \E m \in Monsters \cap DOMAIN client[u].players : client[u].players[m].cell = c

\* client_main and USER_MOVE_REQ: the client blocks the keys in a fade and
\* before a tile it draws a monster on; the server computes the step anew.
Walk(u) ==
  /\ Moves(u)
  /\ client[u].avatar # None /\ client[u].trans = "NONE"
  /\ \E d \in {-1, 1} :
       /\ ~IsTileOccupiedByMonster(u, client[u].avatar + d)
       /\ LET c == IF user[u].cell + d \in Cells THEN user[u].cell + d ELSE user[u].cell
          IN HandlePlayerMove(u, c)
  /\ UNCHANGED <<monster, viewList, field, client, deaths, observed>>

\* ProcessChatCommand and USER_TELEPORT_REQ.
Teleport(u) ==
  /\ Moves(u)
  /\ \E c \in Cells : HandlePlayerMove(u, c)
  /\ UNCHANGED <<monster, viewList, field, client, deaths, observed>>

\* A request or a Disconnect that was addressed to a zone u has left since:
\* its thread runs it once HandleEnterZone has lowered the flag, past every
\* guard, and CollectSubjects, RemoveObject and UpdatePosition refuse a
\* sector of another zone.  (So a step or teleport inside u's zone comes to
\* nothing, and a discarded item lies in no grid.)
Misrouted(u) == InGrid(u) /\ user[u].crossed

\* HandleZoneTransfer there: nothing is seen to leave, u's own sight either.
\* (The id stays in the grid left; what u is still told and shown through it
\* is not modelled.)
StrayMove(u) ==
  /\ Misrouted(u) /\ Moves(u)
  /\ \E c \in Cells :
       /\ ZoneOf[c] # ZoneOf[user[u].cell]
       /\ user' = [user EXCEPT ![u].cell = c, ![u].on = "between"]
       /\ Post([v \in Viewers |-> IF v = u THEN <<Notice("MOVE", u, c)>> ELSE <<>>])
  /\ stray' = stray \cup {u}
  /\ UNCHANGED <<monster, viewList, field, client, deaths, late, unsure, struck, untold>>

\* HandleEnterZone, on the thread of the new zone.
HandleEnterZone(u) ==
  /\ user[u].on = "between"
  /\ user' = [user EXCEPT ![u].on = "grid"]
  /\ Post(Entered(u, user[u].cell, "ADD"))
  /\ UNCHANGED <<monster, viewList, field, client, bounds, observed>>

\* A transfer is finished before a disconnect is handled.
Disconnect(u) ==
  /\ user[u].on \in {"grid", "off"} /\ Counted
  /\ user' = [user EXCEPT ![u].on = "out"]
  /\ chan' = [v \in Viewers |->
       IF v = u THEN <<>>
       ELSE IF v \in Visible(u) THEN Append(chan[v], Removal(u)) ELSE chan[v]]
  /\ UNCHANGED <<monster, viewList, field, client, deaths, observed>>

\* Disconnect on the thread of a zone left: no neighbour is found to be told.
StrayDisconnect(u) ==
  /\ Misrouted(u) /\ Counted
  /\ user' = [user EXCEPT ![u].on = "out"]
  /\ chan' = [v \in Viewers |-> IF v = u THEN <<>> ELSE chan[v]]
  /\ stray' = stray \cup {u}
  /\ UNCHANGED <<monster, viewList, field, client, deaths, late, unsure, struck, untold>>

\* HandleAttackToPlayer, the fatal blow.  It runs on the monster's zone: a
\* victim outside of that zone's grid is neither removed nor announced.
KillUser(u) ==
  /\ Exists(u) /\ user[u].alive /\ Fatal
  /\ \E m \in Monsters :
       /\ monster[m].alive
       /\ IsAdjacent(monster[m].cell, user[u].cell)
       /\ LET here == InGrid(u) /\ ZoneOf[monster[m].cell] = ZoneOf[user[u].cell] IN
          /\ user' = [user EXCEPT ![u].alive = FALSE, ![u].on = IF here THEN "off" ELSE @]
          /\ IF here THEN Tell(user[u].cell, Notice("DIE", u, None)) ELSE UNCHANGED chan
          /\ struck' = IF here THEN struck ELSE struck \cup {u}
  /\ UNCHANGED <<monster, viewList, field, client, steps, late, unsure, stray, untold>>

\* UserHelper::HandleRespawn, 30 seconds later, somewhere in its zone.
HandleRespawn(u) ==
  /\ Exists(u) /\ ~user[u].alive /\ user[u].on # "between" /\ Settled(u)
  /\ \E c \in {x \in Cells : ZoneOf[x] = ZoneOf[user[u].cell]} :
       LET out == Entered(u, c, "RESPAWN") IN
       /\ user' = [user EXCEPT ![u].on = "grid", ![u].cell = c, ![u].alive = TRUE]
       /\ Post([out EXCEPT ![u] = <<Notice("RESPAWN", u, c)>> \o @])
  /\ UNCHANGED <<monster, viewList, field, client, bounds, observed>>

-----------------------------------------------------------------------------
\* Weapons and field items

\* BroadcastEquipChange, after ITEM_EQUIP_REQ, ITEM_UNEQUIP_REQ or the discard
\* of what is equipped: nobody sees a user that is in no grid.
EquipChange(u) ==
  /\ Exists(u) /\ user[u].on # "between" /\ Counted
  /\ user' = [user EXCEPT ![u].armed = ~@]
  /\ Post([v \in Viewers |->
       IF v \in Visible(u)
       THEN <<[Notice("EQUIP", u, None) EXCEPT !.armed = ~user[u].armed]>> ELSE <<>>])
  /\ untold' = untold \ {u}
  /\ UNCHANGED <<monster, viewList, field, client, deaths, late, unsure, struck, stray>>

\* The same on the thread of a zone left, which owns no inventory but changes
\* it: the viewers are looked for in the wrong grid.
StrayEquip(u) ==
  /\ Misrouted(u) /\ Counted
  /\ user' = [user EXCEPT ![u].armed = ~@]
  /\ untold' = untold \cup {u}
  /\ UNCHANGED <<monster, viewList, field, chan, client, deaths, late, unsure, struck, stray>>

\* SpawnFieldItem: a new id, in the registry and the grid.
Lay(i, c) == ground' = [ground EXCEPT ![i] = c] /\ fresh' = fresh \ {i}

\* ITEM_DISCARD_REQ, where the user is or died.
Discard(u) ==
  /\ Exists(u) /\ user[u].on # "between" /\ Counted
  /\ \E i \in fresh : Lay(i, user[u].cell) /\ Tell(user[u].cell, Notice("ADD", i, user[u].cell))
  /\ UNCHANGED <<user, monster, viewList, client, deaths, observed>>

\* RemoveFieldItem: a user on its cell picks it up, or 30 seconds are over.
RemoveFieldItem(i) ==
  /\ ground[i] # None /\ InTime
  /\ ground' = [ground EXCEPT ![i] = None]
  /\ Tell(ground[i], Removal(i))
  /\ UNCHANGED <<user, monster, viewList, fresh, client, bounds, observed>>

-----------------------------------------------------------------------------
\* Monsters

\* Mutant: only those are told whose list changes.
Replace_Silent(m, c, oldList, newList) ==
  Post([u \in Viewers |->
    IF u \in newList \ oldList THEN <<Notice("ADD", m, c)>>
    ELSE IF u \in oldList \ newList THEN <<Removal(m)>> ELSE <<>>])

\* Replace: what a monster's step from oldList to newList is to its viewers.
Replace(m, c, oldList, newList) ==
  Post([u \in Viewers |->
    IF u \in newList
    THEN <<Notice(IF u \in oldList THEN "MOVE" ELSE "ADD", m, c)>>
    ELSE IF u \in oldList THEN <<Removal(m)>> ELSE <<>>])

\* RandomMove and AStarMove: the list of the monster's last step is taken for
\* what its viewers see now.  Only a user of the zone keeps a monster moving.
MonsterMove(m) ==
  /\ monster[m].alive /\ Counted
  /\ \E u \in Users : Exists(u) /\ ZoneOf[user[u].cell] = ZoneOf[monster[m].cell]
  /\ \E c \in {monster[m].cell - 1, monster[m].cell + 1} \cap Cells :
       /\ ZoneOf[c] = ZoneOf[monster[m].cell]
       /\ monster' = [monster EXCEPT ![m].cell = c]
       /\ Replace(m, c, viewList[m], CollectUsers(c))
       /\ viewList' = [viewList EXCEPT ![m] = CollectUsers(c)]
  /\ UNCHANGED <<user, field, client, deaths, observed>>

\* AttackMonster, the fatal blow.  HandleItemDrop may leave an item where
\* the monster fell.
KillMonster(m) ==
  LET c == monster[m].cell IN
  /\ monster[m].alive /\ Fatal
  /\ \E u \in Users : /\ InGrid(u) /\ user[u].alive
                      /\ ZoneOf[user[u].cell] = ZoneOf[c] /\ IsAdjacent(c, user[u].cell)
  /\ monster' = [monster EXCEPT ![m].alive = FALSE]
  /\ viewList' = [viewList EXCEPT ![m] = {}]
  /\ \/ /\ Tell(c, Notice("DIE", m, None))
        /\ UNCHANGED field
     \/ \E i \in fresh :
          /\ Lay(i, c)
          /\ Post([v \in Viewers |->
               IF v \in CollectUsers(c)
               THEN <<Notice("DIE", m, None), Notice("ADD", i, c)>> ELSE <<>>])
  /\ UNCHANGED <<user, client, steps, observed>>

\* MonsterHelper::HandleRespawn: the same id at a random place of the zone.
MonsterRespawn(m) ==
  /\ ~monster[m].alive
  /\ \E c \in {x \in Cells : ZoneOf[x] = ZoneOf[monster[m].cell]} :
       /\ monster' = [monster EXCEPT ![m] = [cell |-> c, alive |-> TRUE]]
       /\ Tell(c, Notice("RESPAWN", m, c))
  /\ UNCHANGED <<user, viewList, field, client, bounds, observed>>

-----------------------------------------------------------------------------
\* Clients: ProcessPacket, for client record c of user u and notice n

Draw(map, n, armed) ==
  [s \in DOMAIN map \cup {n.id} |->
     IF s = n.id THEN [cell |-> n.cell, look |-> "shown", armed |-> armed] ELSE map[s]]
Without(map, s) == Restrict(map, DOMAIN map \ {s})

Fading(c) == c.trans = "FADE_OUT"

\* Mutant: the tile is taken for the zone.
OnLoginAck_Undivided(c, n) == [c EXCEPT !.avatar = n.cell, !.zone = n.cell]

OnLoginAck(c, n) == [c EXCEPT !.avatar = n.cell, !.zone = ZoneOf[n.cell]]

\* While the screen fades out the new zone's objects are buffered.
OnAdd(c, n) ==
  IF Fading(c) THEN [c EXCEPT !.pendingObjects = Draw(@, n, n.armed)]
               ELSE [c EXCEPT !.players = Draw(@, n, n.armed)]

NoPictures == [s \in {} |-> None]

\* Mutant: the place to appear at after the fade is not noted.
TriggerZoneTransition_NoPlace(c, n) ==
  [c EXCEPT !.zone = ZoneOf[n.cell], !.players = NoPictures,
            !.pendingObjects = NoPictures, !.trans = "FADE_OUT"]

TriggerZoneTransition(c, n) ==
  [c EXCEPT !.pendingPlayer = n.cell, !.zone = ZoneOf[n.cell],
            !.players = NoPictures, !.pendingObjects = NoPictures,
            !.trans = "FADE_OUT"]

\* The user's own move; it is ignored until the last transition is over.
OnOwnMove(c, n) ==
  IF c.trans # "NONE" THEN c
  ELSE IF c.zone # None /\ ZoneOf[n.cell] # c.zone THEN TriggerZoneTransition(c, n)
  ELSE [c EXCEPT !.avatar = n.cell]

\* Walking ends a monster's death animation.
OnMove(c, n) ==
  IF n.id \notin DOMAIN c.players THEN c
  ELSE [c EXCEPT !.players[n.id].cell = n.cell,
                 !.players[n.id].look = IF @ = "dying" THEN "shown" ELSE @]

OnRemove(c, n) == [c EXCEPT !.players = Without(@, n.id)]

\* A monster plays its death, a user is hidden.
OnDie(c, n) ==
  IF n.id \notin DOMAIN c.players THEN c
  ELSE [c EXCEPT !.players[n.id].look = IF n.id \in Monsters THEN "dying" ELSE "hidden"]

\* Known or not, buffer or not, the subject is drawn; the notice does not
\* say with which weapon.
OnRespawn(c, n) ==
  LET armed == n.id \in DOMAIN c.players /\ c.players[n.id].armed
  IN [c EXCEPT !.players = Draw(@, n, armed)]

\* Mutant: a weapon put away stays in the picture.
OnEquipChange_OnlyDrawn(c, n) ==
  IF n.id \notin DOMAIN c.players THEN c
  ELSE [c EXCEPT !.players[n.id].armed = @ \/ n.armed]

OnEquipChange(c, n) ==
  IF n.id \notin DOMAIN c.players THEN c
  ELSE [c EXCEPT !.players[n.id].armed = n.armed]

ProcessPacket(c, u, n) ==
  CASE n.type = "LOGIN_ACK"              -> OnLoginAck(c, n)
    [] n.type = "ADD"                    -> OnAdd(c, n)
    [] n.type = "MOVE" /\ n.id = u       -> OnOwnMove(c, n)
    [] n.type = "MOVE" /\ n.id # u       -> OnMove(c, n)
    [] n.type = "REMOVE"                 -> OnRemove(c, n)
    [] n.type = "EQUIP"                  -> OnEquipChange(c, n)
    [] n.type = "DIE" /\ n.id = u        -> [c EXCEPT !.isDead = TRUE]
    [] n.type = "DIE" /\ n.id # u        -> OnDie(c, n)
    [] n.type = "RESPAWN" /\ n.id = u    -> [c EXCEPT !.avatar = n.cell, !.isDead = FALSE]
    [] n.type = "RESPAWN" /\ n.id # u    -> OnRespawn(c, n)

\* What is out of date after notice n: everything when the own user dies, for
\* nobody tells the dead; a buffered object whose news goes to `players`.
\* A transition forgets, and other news brings a picture up to date.
Late(c, u, n, old) ==
  IF n.id = u
  THEN CASE n.type = "DIE" -> old \cup DOMAIN c.players \cup DOMAIN c.pendingObjects
         [] n.type = "MOVE" /\ OnOwnMove(c, n).trans # c.trans -> {}
         [] OTHER -> old
  ELSE IF n.type = "EQUIP" THEN old
  ELSE IF n.type # "ADD" /\ n.id \in DOMAIN c.pendingObjects THEN old \cup {n.id}
  ELSE old \ {n.id}

\* A respawn is drawn with the weapon of an old picture, or with none, and
\* a change of weapon does not reach a buffered picture either.
Unsure(c, u, n, old) ==
  CASE \/ n.type = "RESPAWN" /\ n.id \in Users \ {u}
       \/ n.type = "EQUIP" /\ n.id \in DOMAIN c.pendingObjects -> old \cup {n.id}
    [] n.type = "ADD" \/ (n.type = "EQUIP" /\ n.id \notin DOMAIN c.pendingObjects)
         -> old \ {n.id}
    [] OTHER -> old

\* process_data: the next packet of the stream.
Receive(u) ==
  /\ chan[u] # <<>>
  /\ client' = [client EXCEPT ![u] = ProcessPacket(@, u, Head(chan[u]))]
  /\ late' = [late EXCEPT ![u] = Late(client[u], u, Head(chan[u]), @)]
  /\ unsure' = [unsure EXCEPT ![u] = Unsure(client[u], u, Head(chan[u]), @)]
  /\ chan' = [chan EXCEPT ![u] = Tail(@)]
  /\ UNCHANGED <<user, monster, viewList, field, bounds, struck, stray, untold>>

\* The render loop: a monster whose death has been played is dropped.
DeathDone(u) ==
  /\ \E m \in DOMAIN client[u].players :
       /\ client[u].players[m].look = "dying"
       /\ client' = [client EXCEPT ![u].players = Without(@, m)]
  /\ UNCHANGED <<user, monster, viewList, field, chan, bounds, observed>>

\* Mutant: the buffered objects are thrown away, not flushed.
FadedOut_NoFlush(c) ==
  [c EXCEPT !.avatar = c.pendingPlayer, !.pendingObjects = NoPictures, !.trans = "FADE_IN"]

\* The buffered pictures take the place of those drawn.
Flushed(c) ==
  [s \in DOMAIN c.pendingObjects \cup DOMAIN c.players |->
     IF s \in DOMAIN c.pendingObjects THEN c.pendingObjects[s] ELSE c.players[s]]

\* The screen is black: the avatar moves over and the buffer is flushed.
FadedOut(c) ==
  [c EXCEPT !.avatar = c.pendingPlayer,
            !.players = Flushed(c),
            !.pendingObjects = NoPictures,
            !.trans = "FADE_IN"]

\* The render loop's zone transition, after 0.5, 0.8 and 0.5 seconds.
Fade(u) ==
  /\ client[u].trans # "NONE"
  /\ client' = [client EXCEPT ![u] =
       IF Fading(@) THEN FadedOut(@) ELSE [@ EXCEPT !.trans = "NONE"]]
  /\ UNCHANGED <<user, monster, viewList, field, chan, bounds, observed>>

-----------------------------------------------------------------------------
FreshClient ==
  [avatar |-> None, zone |-> None, isDead |-> FALSE, trans |-> "NONE",
   pendingPlayer |-> None, players |-> NoPictures, pendingObjects |-> NoPictures]

Init ==
  /\ user = [u \in Users |-> [on |-> "new", cell |-> CHOOSE c \in Cells : TRUE,
                             alive |-> TRUE, armed |-> FALSE, crossed |-> FALSE]]
  /\ monster \in [Monsters -> [cell: Spawns, alive: {TRUE}]]
  /\ viewList = [m \in Monsters |-> {}]
  /\ ground = [i \in Items |-> None] /\ fresh = Items
  /\ chan = [u \in Viewers |-> <<>>]
  /\ client = [u \in Viewers |-> FreshClient]
  /\ steps = 0 /\ deaths = 0
  /\ late = [u \in Viewers |-> {}]
  /\ unsure = [u \in Viewers |-> {}]
  /\ struck = {} /\ stray = {} /\ untold = {}

Server ==
  \/ \E u \in Viewers : Walk(u)
  \/ \E u \in Users : \/ Login(u) \/ Teleport(u) \/ HandleEnterZone(u)
                      \/ Disconnect(u) \/ KillUser(u) \/ HandleRespawn(u)
                      \/ EquipChange(u) \/ Discard(u)
                      \/ StrayMove(u) \/ StrayDisconnect(u) \/ StrayEquip(u)
  \/ \E i \in Items : RemoveFieldItem(i)
  \/ \E m \in Monsters : MonsterMove(m) \/ KillMonster(m) \/ MonsterRespawn(m)

ClientFrame(u) == Receive(u) \/ DeathDone(u) \/ Fade(u)

Next == Server \/ \E u \in Viewers : ClientFrame(u)

Spec == Init /\ [][Next]_vars

-----------------------------------------------------------------------------
\* Client u has processed all that was posted to it and is not in a fade.
UpToDate(u) == Exists(u) /\ chan[u] = <<>> /\ client[u].trans = "NONE"

Shown(u, s) == s \in DOMAIN client[u].players /\ client[u].players[s].look = "shown"

\* Whatever walks, teleports, deaths and zone changes came before, a client
\* that is up to date draws every user and field item its own user sees
\* (HandlePlayerMove, NotifyPlayerEnteredWorld, the flush after a fade).
NothingMissing ==
  \A u \in Viewers : UpToDate(u) =>
    \A s \in Visible(u) \ Monsters : Shown(u, s)

\* It draws no user or item that its own user does not see: every way out of
\* sight is announced by the thread that owns the user.  Out of date are only
\* pictures from before its own death, those it had buffered in a fade when
\* the news came, and what concerns a user that another zone's thread has
\* killed, moved or disconnected (Disconnect and HandleZoneTransfer then
\* tell nobody: KillUser, StrayMove, StrayDisconnect).
NoGhosts ==
  \A u \in Viewers : UpToDate(u) =>
    \A s \in Subjects \ Monsters :
      Shown(u, s) /\ s \notin late[u] /\ {u, s} \cap (struck \cup stray) = {} =>
        s \in Visible(u)

\* What it draws of what its user sees, monsters included, is where it is on
\* the server (MOVE notifications of walks, steps and respawns), but for
\* pictures from before its own death or of a fade's buffer.
PlacesRight ==
  \A u \in Viewers : UpToDate(u) =>
    \A s \in Visible(u) \cap DOMAIN client[u].players :
      s \notin late[u] => client[u].players[s].cell = CellOf(s)

\* The weapon it draws in a user's hand is the one equipped, but for users it
\* has learned of by a respawn, a notice with no item in it, for changes
\* that it dropped in a fade, and for users whose last change ran on the
\* thread of a zone they had left (BroadcastEquipChange, SUBJECT_ADD_NFY).
WeaponsRight ==
  \A u \in Viewers : UpToDate(u) =>
    \A v \in (Users \cap Visible(u)) \ (untold \cup unsure[u]) :
      v \in DOMAIN client[u].players =>
        client[u].players[v].armed = user[v].armed

\* The avatar is where the server has the user, in the zone it is in, and
\* the client knows whether it is dead, unless a monster of another zone
\* struck (own MOVE, RESPAWN and DIE, and the pending position of a fade).
AvatarRight ==
  \A u \in Viewers : UpToDate(u) =>
    /\ client[u].avatar = user[u].cell
    /\ client[u].zone = ZoneOf[user[u].cell]
    /\ u \notin struck => client[u].isDead = ~user[u].alive

\* The portfolio (portfolio.html:530): what comes into sight is announced
\* as new.  So a client that is up to date draws the monsters its user sees.
MonstersShown ==
  \A u \in Viewers : UpToDate(u) =>
    \A m \in Monsters \cap Visible(u) : m \in DOMAIN client[u].players
=============================================================================
