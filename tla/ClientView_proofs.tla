------------------------- MODULE ClientView_proofs -------------------------
(***************************************************************************)
(* Proofs about ClientView: types, and that an up-to-date client has its   *)
(* avatar where the server has the user, for every number of users,        *)
(* monsters, items, cells and notices under way.                           *)
(***************************************************************************)
EXTENDS ClientView, FiniteSums_proofs, SequenceTheorems

-----------------------------------------------------------------------------
(***************************************************************************)
(* The invariants                                                          *)
(***************************************************************************)

\* The notices that say where the own user is.
Placing == {"LOGIN_ACK", "MOVE", "RESPAWN"}

\* The notices the code posts to user v: those that place a subject name a
\* cell, only users change weapons, and a login is answered to its user.
Fit(v) == {n \in Notices : /\ n.type \in Placing \cup {"ADD"} => n.cell \in Cells
                           /\ n.type = "EQUIP" => n.id \in Users
                           /\ n.type = "LOGIN_ACK" => n.id = v}

\* Notices to user v about others.
News(v) == {n \in Fit(v) : n.id # v}

\* Types, with what the notices on their way are.
ViewInv == TypeOK /\ \A v \in Viewers : chan[v] \in Seq(Fit(v))

Present == {"grid", "between", "off"}

\* Where the notices of the given types about user u itself are in its queue.
Own(queue, u, types) ==
  {i \in DOMAIN queue : queue[i].id = u /\ queue[i].type \in types}

\* Client c of user u, who is in state s and whose notices are queued: the one
\* that places the avatar is still to come and right, or the avatar is, or
\* will be after the fade, where the user is.
AvatarPlaced(queue, c, u, s) ==
  /\ \A i \in DOMAIN queue : queue[i].id = u => queue[i].type \in Placing \cup {"DIE"}
  /\ \A i, j \in Own(queue, u, Placing) : i = j
  /\ \A i \in Own(queue, u, Placing) :
       /\ queue[i].cell = s.cell /\ c.trans = "NONE"
       /\ queue[i].type = "MOVE" => c.zone # None
       /\ queue[i].type = "RESPAWN" => c.zone = ZoneOf[s.cell]
  /\ Own(queue, u, Placing) = {} =>
       /\ c.zone = ZoneOf[s.cell]
       /\ s.cell = IF Fading(c) THEN c.pendingPlayer ELSE c.avatar

\* The same of isDead: the own death follows the own respawn.
DeathKnown(queue, c, u, s) ==
  /\ \A i \in Own(queue, u, Placing), j \in Own(queue, u, {"DIE"}) : i < j
  /\ Own(queue, u, {"DIE"}) # {} => ~s.alive
  /\ Own(queue, u, {"DIE"}) = {} /\ Own(queue, u, {"RESPAWN"}) # {} => s.alive
  /\ Own(queue, u, {"DIE", "RESPAWN"}) = {} => c.isDead = ~s.alive

\* hit: the users that a monster of another zone has killed.
AvatarOK(queue, c, u, s, hit) ==
  /\ s.on = "new" => queue = <<>> /\ c = FreshClient /\ s.alive
  /\ s.on \in Present => /\ AvatarPlaced(queue, c, u, s)
                         /\ u \notin hit => DeathKnown(queue, c, u, s)

AvatarInv ==
  \A u \in Viewers : AvatarOK(chan[u], client[u], u, user[u], struck)

-----------------------------------------------------------------------------
(***************************************************************************)
(* Queues of notices                                                       *)
(***************************************************************************)

\* News about others does not touch the own notices.
LEMMA OwnConcat ==
  ASSUME NEW u, NEW queue \in Seq(Notices), NEW q \in Seq(News(u))
  PROVE  /\ queue \o q \in Seq(Notices)
         /\ \A i \in DOMAIN queue : i \in DOMAIN (queue \o q) /\ (queue \o q)[i] = queue[i]
         /\ \A i \in DOMAIN (queue \o q) \ DOMAIN queue : (queue \o q)[i].id # u
         /\ \A T : Own(queue \o q, u, T) = Own(queue, u, T)
<1>1. q \in Seq(Notices) /\ \A i \in DOMAIN q : q[i].id # u
  <2>1. \A n \in News(u) : n \in Notices /\ n.id # u BY DEF News, Fit
  <2> QED BY <2>1
<1>2. PICK r : r = queue \o q OBVIOUS
<1>3. PICK K \in Nat, L \in Nat : /\ K = Len(queue) /\ DOMAIN queue = 1..K
                                  /\ L = Len(q) /\ DOMAIN q = 1..L
  BY <1>1
<1>4. /\ r \in Seq(Notices) /\ DOMAIN r = 1..(K + L)
      /\ \A i \in 1..K : r[i] = queue[i]
      /\ \A i \in (K + 1)..(K + L) : r[i] = q[i - K]
  BY <1>1, <1>2, <1>3
<1>5. \A i \in DOMAIN r \ DOMAIN queue : r[i].id # u
  <2> SUFFICES ASSUME NEW i \in DOMAIN r \ DOMAIN queue PROVE r[i].id # u OBVIOUS
  <2>1. i \in (K + 1)..(K + L) /\ i - K \in 1..L BY <1>3, <1>4
  <2> QED BY <1>1, <1>3, <1>4, <2>1
<1>6. \A i \in DOMAIN queue : i \in DOMAIN r /\ r[i] = queue[i] BY <1>3, <1>4
<1>7. \A T : Own(r, u, T) = Own(queue, u, T)
  BY <1>5, <1>6 DEF Own
<1> QED BY <1>2, <1>4, <1>5, <1>6, <1>7

LEMMA AppendConcat ==
  ASSUME NEW S, NEW queue \in Seq(S), NEW n \in S, NEW q \in Seq(S)
  PROVE  queue \o (<<n>> \o q) = Append(queue, n) \o q
<1>1. <<n>> \in Seq(S) OBVIOUS
<1>2. Append(queue, n) = queue \o <<n>> OBVIOUS
<1> QED BY <1>1, <1>2, ConcatAssociative

\* r is queue with own notice n added in place k.
Added(r, queue, u, n, k) ==
  /\ r[k] = n
  /\ \A i \in DOMAIN queue : i < k /\ r[i] = queue[i]
  /\ \A i \in DOMAIN r : i \in DOMAIN queue \/ i = k
  /\ \A T : n.type \in T => Own(r, u, T) = Own(queue, u, T) \cup {k}
  /\ \A T : n.type \notin T => Own(r, u, T) = Own(queue, u, T)

LEMMA OwnAppend ==
  ASSUME NEW u, NEW queue \in Seq(Notices), NEW n \in Notices, n.id = u
  PROVE  Added(Append(queue, n), queue, u, n, Len(queue) + 1)
<1>1. PICK r : r = Append(queue, n) OBVIOUS
<1>2. PICK K \in Nat : K = Len(queue) /\ DOMAIN queue = 1..K OBVIOUS
<1>3. /\ r \in Seq(Notices) /\ DOMAIN r = 1..(K + 1)
      /\ \A i \in 1..K : r[i] = queue[i]
      /\ r[K + 1] = n
  BY <1>1, <1>2
<1>4. /\ \A i \in DOMAIN queue : i \in DOMAIN r /\ i < K + 1 /\ r[i] = queue[i]
      /\ K + 1 \in DOMAIN r /\ r[K + 1] = n /\ K + 1 \notin DOMAIN queue
      /\ \A i \in DOMAIN r : i \in DOMAIN queue \/ i = K + 1
  BY <1>2, <1>3
<1>5. \A T : n.type \in T => Own(r, u, T) = Own(queue, u, T) \cup {K + 1}
  BY <1>4 DEF Own
<1>6. \A T : n.type \notin T => Own(r, u, T) = Own(queue, u, T)
  BY <1>4 DEF Own
<1> QED BY <1>1, <1>2, <1>4, <1>5, <1>6 DEF Added

\* r is queue without its head.
Rest(r, queue, u) ==
  /\ 1 \in DOMAIN queue
  /\ DOMAIN queue \subseteq Nat /\ DOMAIN r \subseteq Nat \ {0}
  /\ \A i \in DOMAIN r : r[i] = queue[i + 1]
  /\ \A T : \A i \in Nat \ {0} : i \in Own(r, u, T) <=> i + 1 \in Own(queue, u, T)
  /\ \A T : 1 \notin Own(queue, u, T) => (Own(r, u, T) = {} <=> Own(queue, u, T) = {})

LEMMA OwnTail ==
  ASSUME NEW u, NEW queue \in Seq(Notices), queue # <<>>
  PROVE  Rest(Tail(queue), queue, u)
<1>1. PICK r : r = Tail(queue) OBVIOUS
<1>2. PICK K \in Nat : K = Len(queue) /\ DOMAIN queue = 1..K /\ K > 0
  BY EmptySeq
<1>3. /\ r \in Seq(Notices) /\ DOMAIN r = 1..(K - 1)
      /\ \A i \in 1..(K - 1) : r[i] = queue[i + 1]
  BY <1>1, <1>2
<1>4. /\ 1 \in DOMAIN queue
      /\ DOMAIN queue \subseteq Nat /\ DOMAIN r \subseteq Nat \ {0}
      /\ \A i \in DOMAIN r : r[i] = queue[i + 1]
      /\ \A i \in DOMAIN queue : i = 1 \/ (i - 1 \in Nat \ {0} /\ (i - 1) + 1 = i)
      /\ \A i \in Nat \ {0} : i \in DOMAIN r <=> i + 1 \in DOMAIN queue
  BY <1>2, <1>3
<1>5. \A T : \A i \in Nat \ {0} : i \in Own(r, u, T) <=> i + 1 \in Own(queue, u, T)
  BY <1>4 DEF Own
<1>6. ASSUME NEW T, 1 \notin Own(queue, u, T)
      PROVE  Own(r, u, T) = {} <=> Own(queue, u, T) = {}
  <2>1. Own(r, u, T) \subseteq DOMAIN r /\ Own(queue, u, T) \subseteq DOMAIN queue
    BY DEF Own
  <2>2. ASSUME NEW i \in Own(r, u, T) PROVE Own(queue, u, T) # {}
    <3>1. i \in Nat \ {0} BY <1>4, <2>1, <2>2
    <3> QED BY <1>5, <2>2, <3>1
  <2>3. ASSUME NEW i \in Own(queue, u, T) PROVE Own(r, u, T) # {}
    <3>1. i - 1 \in Nat \ {0} /\ (i - 1) + 1 = i BY <1>4, <1>6, <2>1, <2>3
    <3> QED BY <1>5, <2>3, <3>1
  <2> QED BY <2>2, <2>3
<1> QED BY <1>1, <1>4, <1>5, <1>6 DEF Rest

-----------------------------------------------------------------------------
(***************************************************************************)
(* The avatar                                                              *)
(***************************************************************************)

\* News about others, and changes of the own user that are not its place or,
\* unless another zone's monster struck, its life.
LEMMA AvatarNews ==
  ASSUME NEW u, NEW queue \in Seq(Notices), NEW q \in Seq(News(u)), NEW c, NEW s, NEW t,
         NEW hit, NEW now,
         AvatarOK(queue, c, u, s, hit), s.on \in Present, t.on \in Present,
         t.cell = s.cell, hit \subseteq now, u \notin now => t.alive = s.alive
  PROVE  AvatarOK(queue \o q, c, u, t, now)
<1>1. PICK r : r = queue \o q OBVIOUS
<1>2. /\ \A i \in DOMAIN queue : i \in DOMAIN r /\ r[i] = queue[i]
      /\ \A i \in DOMAIN r \ DOMAIN queue : r[i].id # u
      /\ \A T : Own(r, u, T) = Own(queue, u, T)
  BY <1>1, OwnConcat
<1>3. t.on # "new" BY DEF Present
<1>4. AvatarPlaced(queue, c, u, s) /\ (u \notin now => DeathKnown(queue, c, u, s))
  BY DEF AvatarOK
<1>5. AvatarPlaced(r, c, u, t)
  <2>1. \A i \in DOMAIN r : r[i].id = u => r[i].type \in Placing \cup {"DIE"}
    BY <1>2, <1>4 DEF AvatarPlaced
  <2>2. \A i \in Own(queue, u, Placing) : r[i] = queue[i] BY <1>2 DEF Own
  <2> QED BY <1>2, <1>4, <2>1, <2>2 DEF AvatarPlaced
<1>6. u \notin now => DeathKnown(r, c, u, t)
  BY <1>2, <1>4 DEF DeathKnown
<1> QED BY <1>1, <1>3, <1>5, <1>6 DEF AvatarOK

\* A settled client is sent its new place.
LEMMA AvatarMoves ==
  ASSUME NEW u, NEW queue \in Seq(Notices), \A i \in DOMAIN queue : queue[i].id # u,
         NEW n \in Notices, n.id = u, n.type \in {"MOVE", "RESPAWN"},
         NEW c, NEW s, NEW t, NEW hit,
         AvatarOK(queue, c, u, s, hit), s.on \in Present, t.on \in Present,
         c.trans = "NONE", n.cell = t.cell, ZoneOf[s.cell] # None,
         n.type = "MOVE" => t.alive = s.alive,
         n.type = "RESPAWN" => t.alive /\ ZoneOf[t.cell] = ZoneOf[s.cell]
  PROVE  AvatarOK(Append(queue, n), c, u, t, hit)
<1>1. PICK r : r = Append(queue, n) OBVIOUS
<1>2. PICK K : K = Len(queue) + 1 /\ Added(r, queue, u, n, K) BY <1>1, OwnAppend
<1>3. \A T : Own(queue, u, T) = {} BY DEF Own
<1>4. /\ r[K] = n /\ \A i \in DOMAIN r : i \in DOMAIN queue \/ i = K
      /\ \A i \in DOMAIN queue : r[i] = queue[i]
      /\ \A T : n.type \in T => Own(r, u, T) = {K}
      /\ \A T : n.type \notin T => Own(r, u, T) = {}
  BY <1>2, <1>3 DEF Added
<1>5. Own(r, u, Placing) = {K} /\ Own(r, u, {"DIE"}) = {}
  BY <1>4 DEF Placing
<1>6. t.on # "new" BY DEF Present
<1>7. c.zone = ZoneOf[s.cell] BY <1>3 DEF AvatarOK, AvatarPlaced
<1>8. AvatarPlaced(r, c, u, t)
  <2>1. \A i \in DOMAIN r : r[i].id = u => r[i].type \in Placing \cup {"DIE"}
    BY <1>4 DEF Placing
  <2> QED BY <1>4, <1>5, <1>7, <2>1 DEF AvatarPlaced
<1>9. ASSUME u \notin hit PROVE DeathKnown(r, c, u, t)
  <2>1. c.isDead = ~s.alive BY <1>3, <1>9 DEF AvatarOK, DeathKnown
  <2>2. CASE n.type = "MOVE"
    <3>1. Own(r, u, {"RESPAWN"}) = {} BY <1>4, <2>2
    <3> QED BY <1>5, <2>1, <2>2, <3>1 DEF DeathKnown
  <2>3. CASE n.type = "RESPAWN"
    <3>1. Own(r, u, {"DIE", "RESPAWN"}) = {K} BY <1>4, <2>3
    <3> QED BY <1>5, <2>3, <3>1 DEF DeathKnown
  <2> QED BY <2>2, <2>3
<1> QED BY <1>1, <1>6, <1>8, <1>9 DEF AvatarOK

\* The user is told of its death.
LEMMA AvatarDies ==
  ASSUME NEW u, NEW queue \in Seq(Notices), NEW n \in Notices, n.id = u, n.type = "DIE",
         NEW c, NEW s, NEW t, NEW hit,
         AvatarOK(queue, c, u, s, hit), s.on \in Present, t.on \in Present,
         t.cell = s.cell, ~t.alive
  PROVE  AvatarOK(Append(queue, n), c, u, t, hit)
<1>1. PICK r : r = Append(queue, n) OBVIOUS
<1>2. PICK K : K = Len(queue) + 1 /\ Added(r, queue, u, n, K) BY <1>1, OwnAppend
<1>3. n.type \notin Placing /\ n.type \in {"DIE"} /\ n.type \in {"DIE", "RESPAWN"}
  BY DEF Placing
<1>4. /\ r[K] = n /\ \A i \in DOMAIN r : i \in DOMAIN queue \/ i = K
      /\ \A i \in DOMAIN queue : r[i] = queue[i] /\ i < K
      /\ Own(r, u, Placing) = Own(queue, u, Placing)
      /\ Own(r, u, {"DIE"}) = Own(queue, u, {"DIE"}) \cup {K}
      /\ Own(r, u, {"DIE", "RESPAWN"}) = Own(queue, u, {"DIE", "RESPAWN"}) \cup {K}
  <2>1. ASSUME NEW T, n.type \in T PROVE Own(r, u, T) = Own(queue, u, T) \cup {K}
    BY <1>2, <2>1 DEF Added
  <2>2. Own(r, u, {"DIE"}) = Own(queue, u, {"DIE"}) \cup {K} BY <1>3, <2>1
  <2>3. Own(r, u, {"DIE", "RESPAWN"}) = Own(queue, u, {"DIE", "RESPAWN"}) \cup {K}
    BY <1>3, <2>1
  <2> QED BY <1>2, <1>3, <2>2, <2>3 DEF Added
<1>5. t.on # "new" BY DEF Present
<1>6. AvatarPlaced(queue, c, u, s) /\ (u \notin hit => DeathKnown(queue, c, u, s))
  BY DEF AvatarOK
<1>7. \A i \in Own(queue, u, Placing) : r[i] = queue[i] /\ i < K BY <1>4 DEF Own
<1>8. AvatarPlaced(r, c, u, t)
  <2>1. \A i \in DOMAIN r : r[i].id = u => r[i].type \in Placing \cup {"DIE"}
    BY <1>4, <1>6 DEF AvatarPlaced
  <2> QED BY <1>4, <1>6, <1>7, <2>1 DEF AvatarPlaced
<1>9. u \notin hit => DeathKnown(r, c, u, t)
  BY <1>4, <1>6, <1>7 DEF DeathKnown
<1> QED BY <1>1, <1>5, <1>8, <1>9 DEF AvatarOK

\* The head of the queue is taken and does not place the avatar.
LEMMA PlacedTail ==
  ASSUME NEW u, NEW queue \in Seq(Notices), queue # <<>>, 1 \notin Own(queue, u, Placing),
         NEW c, NEW d, NEW s, AvatarPlaced(queue, c, u, s),
         d.avatar = c.avatar, d.zone = c.zone, d.trans = c.trans,
         d.pendingPlayer = c.pendingPlayer
  PROVE  AvatarPlaced(Tail(queue), d, u, s)
<1>1. PICK r : r = Tail(queue) /\ Rest(r, queue, u) BY OwnTail
<1>2. /\ 1 \in DOMAIN queue
      /\ DOMAIN queue \subseteq Nat /\ DOMAIN r \subseteq Nat \ {0}
      /\ \A i \in DOMAIN r : r[i] = queue[i + 1]
      /\ \A T : \A i \in Nat \ {0} : i \in Own(r, u, T) <=> i + 1 \in Own(queue, u, T)
      /\ \A T : 1 \notin Own(queue, u, T) => (Own(r, u, T) = {} <=> Own(queue, u, T) = {})
  BY <1>1 DEF Rest
<1>3. \A T : Own(r, u, T) \subseteq DOMAIN r /\ Own(queue, u, T) \subseteq DOMAIN queue
  BY DEF Own
<1>5. ASSUME NEW i \in DOMAIN r, r[i].id = u PROVE r[i].type \in Placing \cup {"DIE"}
  <2>1. i + 1 \in Own(queue, u, {r[i].type})
    <3>1. i \in Own(r, u, {r[i].type}) BY <1>5 DEF Own
    <3> QED BY <1>2, <1>5, <3>1
  <2> QED BY <1>2, <1>5, <2>1 DEF AvatarPlaced, Own
<1>6. \A i, j \in Own(r, u, Placing) : i = j
  <2> SUFFICES ASSUME NEW i \in Own(r, u, Placing), NEW j \in Own(r, u, Placing)
               PROVE  i = j
    OBVIOUS
  <2>1. i \in Nat \ {0} /\ j \in Nat \ {0} BY <1>2, <1>3
  <2>2. i + 1 = j + 1 BY <1>2, <2>1 DEF AvatarPlaced
  <2> QED BY <2>1, <2>2
<1>7. \A i \in Own(r, u, Placing) : i + 1 \in Own(queue, u, Placing) /\ r[i] = queue[i + 1]
  BY <1>2, <1>3
<1>8. Fading(d) <=> Fading(c) BY DEF Fading
<1>9. \A i \in Own(r, u, Placing) :
        /\ r[i].cell = s.cell /\ d.trans = "NONE"
        /\ r[i].type = "MOVE" => d.zone # None
        /\ r[i].type = "RESPAWN" => d.zone = ZoneOf[s.cell]
  BY <1>7 DEF AvatarPlaced
<1>10. Own(r, u, Placing) = {} =>
         /\ d.zone = ZoneOf[s.cell]
         /\ s.cell = IF Fading(d) THEN d.pendingPlayer ELSE d.avatar
  BY <1>2, <1>8 DEF AvatarPlaced
<1> QED BY <1>1, <1>5, <1>6, <1>9, <1>10 DEF AvatarPlaced

\* It is news about another.
LEMMA AvatarHearsNews ==
  ASSUME NEW u, NEW queue \in Seq(Notices), queue # <<>>, queue[1].id # u,
         NEW c, NEW d, NEW s, NEW hit,
         AvatarOK(queue, c, u, s, hit),
         d.avatar = c.avatar, d.zone = c.zone, d.trans = c.trans,
         d.pendingPlayer = c.pendingPlayer, d.isDead = c.isDead
  PROVE  AvatarOK(Tail(queue), d, u, s, hit)
<1>1. PICK r : r = Tail(queue) /\ Rest(r, queue, u) BY OwnTail
<1>2. /\ 1 \in DOMAIN queue
      /\ DOMAIN queue \subseteq Nat /\ DOMAIN r \subseteq Nat \ {0}
      /\ \A i \in DOMAIN r : r[i] = queue[i + 1]
      /\ \A T : \A i \in Nat \ {0} : i \in Own(r, u, T) <=> i + 1 \in Own(queue, u, T)
      /\ \A T : 1 \notin Own(queue, u, T) => (Own(r, u, T) = {} <=> Own(queue, u, T) = {})
  BY <1>1 DEF Rest
<1>3. \A T : Own(r, u, T) \subseteq DOMAIN r /\ Own(queue, u, T) \subseteq DOMAIN queue
  BY DEF Own
<1>4. \A T : 1 \notin Own(queue, u, T) BY DEF Own
<1>5. \A T : Own(r, u, T) = {} <=> Own(queue, u, T) = {}
  BY <1>2, <1>4
<1>6. ASSUME DeathKnown(queue, c, u, s) PROVE DeathKnown(r, d, u, s)
  <2>1. \A i \in Own(r, u, Placing), j \in Own(r, u, {"DIE"}) : i < j
    <3> SUFFICES ASSUME NEW i \in Own(r, u, Placing), NEW j \in Own(r, u, {"DIE"})
                 PROVE  i < j
      OBVIOUS
    <3>1. i \in Nat \ {0} /\ j \in Nat \ {0} BY <1>2, <1>3
    <3>2. i + 1 < j + 1 BY <1>2, <1>6, <3>1 DEF DeathKnown
    <3> QED BY <3>1, <3>2
  <2> QED BY <1>5, <1>6, <2>1 DEF DeathKnown
<1>7. AvatarPlaced(queue, c, u, s) => AvatarPlaced(r, d, u, s)
  BY <1>1, <1>4, PlacedTail
<1>8. s.on # "new" BY DEF AvatarOK
<1> QED BY <1>1, <1>6, <1>7, <1>8 DEF AvatarOK

\* It is the own death.
LEMMA AvatarHearsDeath ==
  ASSUME NEW u, NEW queue \in Seq(Notices), queue # <<>>,
         queue[1].id = u, queue[1].type = "DIE",
         NEW c, NEW d, NEW s, NEW hit,
         AvatarOK(queue, c, u, s, hit),
         d.avatar = c.avatar, d.zone = c.zone, d.trans = c.trans,
         d.pendingPlayer = c.pendingPlayer, d.isDead = TRUE
  PROVE  AvatarOK(Tail(queue), d, u, s, hit)
<1>1. PICK r : r = Tail(queue) /\ Rest(r, queue, u) BY OwnTail
<1>2. /\ 1 \in DOMAIN queue
      /\ DOMAIN queue \subseteq Nat /\ DOMAIN r \subseteq Nat \ {0}
      /\ \A i \in DOMAIN r : r[i] = queue[i + 1]
      /\ \A T : \A i \in Nat \ {0} : i \in Own(r, u, T) <=> i + 1 \in Own(queue, u, T)
      /\ \A T : 1 \notin Own(queue, u, T) => (Own(r, u, T) = {} <=> Own(queue, u, T) = {})
  BY <1>1 DEF Rest
<1>3. \A T : Own(r, u, T) \subseteq DOMAIN r /\ Own(queue, u, T) \subseteq DOMAIN queue
  BY DEF Own
<1>4. 1 \notin Own(queue, u, Placing) /\ 1 \in Own(queue, u, {"DIE"})
  BY <1>2 DEF Own, Placing
<1>5. ASSUME DeathKnown(queue, c, u, s) PROVE DeathKnown(r, d, u, s)
  <2>1. ~s.alive BY <1>4, <1>5 DEF DeathKnown
  <2>2. Own(r, u, Placing) = {}
    <3> SUFFICES ASSUME NEW i \in Own(r, u, Placing) PROVE FALSE OBVIOUS
    <3>1. i \in Nat \ {0} BY <1>2, <1>3
    <3>2. i + 1 < 1 BY <1>2, <1>4, <1>5, <3>1 DEF DeathKnown
    <3> QED BY <3>1, <3>2
  <2>3. Own(r, u, {"RESPAWN"}) = {} BY <2>2 DEF Own, Placing
  <2> QED BY <2>1, <2>2, <2>3 DEF DeathKnown
<1>6. AvatarPlaced(queue, c, u, s) => AvatarPlaced(r, d, u, s)
  BY <1>1, <1>4, PlacedTail
<1>7. s.on # "new" BY DEF AvatarOK
<1> QED BY <1>1, <1>5, <1>6, <1>7 DEF AvatarOK

\* It is the own place.
LEMMA AvatarHearsPlace ==
  ASSUME NEW u, NEW queue \in Seq(Notices), queue # <<>>,
         queue[1].id = u, queue[1].type \in Placing,
         NEW c, NEW d, NEW s, NEW hit,
         AvatarOK(queue, c, u, s, hit),
         d.zone = ZoneOf[s.cell], s.cell = IF Fading(d) THEN d.pendingPlayer ELSE d.avatar,
         d.isDead = IF queue[1].type = "RESPAWN" THEN FALSE ELSE c.isDead
  PROVE  AvatarOK(Tail(queue), d, u, s, hit)
<1>1. PICK r : r = Tail(queue) /\ Rest(r, queue, u) BY OwnTail
<1>2. /\ 1 \in DOMAIN queue
      /\ DOMAIN queue \subseteq Nat /\ DOMAIN r \subseteq Nat \ {0}
      /\ \A i \in DOMAIN r : r[i] = queue[i + 1]
      /\ \A T : \A i \in Nat \ {0} : i \in Own(r, u, T) <=> i + 1 \in Own(queue, u, T)
      /\ \A T : 1 \notin Own(queue, u, T) => (Own(r, u, T) = {} <=> Own(queue, u, T) = {})
  BY <1>1 DEF Rest
<1>3. \A T : Own(r, u, T) \subseteq DOMAIN r /\ Own(queue, u, T) \subseteq DOMAIN queue
  BY DEF Own
<1>4. 1 \in Own(queue, u, Placing) /\ 1 \notin Own(queue, u, {"DIE"})
  BY <1>2 DEF Own, Placing
<1>5. ASSUME AvatarPlaced(queue, c, u, s)
      PROVE  Own(r, u, Placing) = {} /\ AvatarPlaced(r, d, u, s)
  <2>1. Own(r, u, Placing) = {}
    <3> SUFFICES ASSUME NEW i \in Own(r, u, Placing) PROVE FALSE OBVIOUS
    <3>1. i \in Nat \ {0} BY <1>2, <1>3
    <3>2. i + 1 = 1 BY <1>2, <1>4, <1>5, <3>1 DEF AvatarPlaced
    <3> QED BY <3>1, <3>2
  <2>2. ASSUME NEW i \in DOMAIN r, r[i].id = u PROVE r[i].type \in Placing \cup {"DIE"}
    <3>1. i + 1 \in Own(queue, u, {r[i].type})
      <4>1. i \in Own(r, u, {r[i].type}) BY <2>2 DEF Own
      <4> QED BY <1>2, <2>2, <4>1
    <3> QED BY <1>2, <1>5, <2>2, <3>1 DEF AvatarPlaced, Own
  <2> QED BY <2>1, <2>2 DEF AvatarPlaced
<1>6. ASSUME AvatarPlaced(queue, c, u, s), DeathKnown(queue, c, u, s)
      PROVE  DeathKnown(r, d, u, s)
  <2>1. Own(r, u, Placing) = {} BY <1>5, <1>6
  <2>2. Own(r, u, {"RESPAWN"}) = {} BY <2>1 DEF Own, Placing
  <2>3. Own(r, u, {"DIE"}) = {} <=> Own(queue, u, {"DIE"}) = {} BY <1>2, <1>4
  <2>4. ASSUME Own(r, u, {"DIE", "RESPAWN"}) = {} PROVE d.isDead = ~s.alive
    <3>1. Own(r, u, {"DIE"}) = {} BY <2>4 DEF Own
    <3>2. CASE queue[1].type = "RESPAWN"
      <4>1. 1 \in Own(queue, u, {"RESPAWN"}) BY <1>2, <3>2 DEF Own
      <4> QED BY <1>6, <2>3, <3>1, <3>2, <4>1 DEF DeathKnown
    <3>3. CASE queue[1].type # "RESPAWN"
      <4>1. 1 \notin Own(queue, u, {"DIE", "RESPAWN"}) BY <3>3 DEF Own, Placing
      <4>2. Own(queue, u, {"DIE", "RESPAWN"}) = {} BY <1>2, <2>4, <4>1
      <4> QED BY <1>6, <3>3, <4>2 DEF DeathKnown
    <3> QED BY <3>2, <3>3
  <2> QED BY <1>6, <2>1, <2>2, <2>3, <2>4 DEF DeathKnown
<1>7. s.on # "new" BY DEF AvatarOK
<1> QED BY <1>1, <1>5, <1>6, <1>7 DEF AvatarOK

-----------------------------------------------------------------------------
(***************************************************************************)
(* The client                                                              *)
(***************************************************************************)

\* What a client knows of one subject.
Objects == [cell: Cells, look: {"shown", "hidden", "dying"}, armed: BOOLEAN]

LEMMA PictureLemma ==
  /\ \A p \in Pictures : /\ DOMAIN p \subseteq Subjects
                         /\ \A s \in DOMAIN p : p[s] \in Objects
                         /\ p \in [DOMAIN p -> Objects]
  /\ \A S \in SUBSET Subjects : \A p \in [S -> Objects] : p \in Pictures
BY DEF Pictures, Objects

LEMMA DrawType ==
  ASSUME NEW p \in Pictures, NEW n \in Notices, n.cell \in Cells, NEW armed \in BOOLEAN
  PROVE  Draw(p, n, armed) \in Pictures
<1>1. DOMAIN p \subseteq Subjects /\ \A s \in DOMAIN p : p[s] \in Objects
  BY PictureLemma
<1>2. n.id \in Subjects BY DEF Notices
<1>3. [cell |-> n.cell, look |-> "shown", armed |-> armed] \in Objects BY DEF Objects
<1>4. Draw(p, n, armed) \in [DOMAIN p \cup {n.id} -> Objects]
  BY <1>1, <1>3 DEF Draw
<1>5. DOMAIN p \cup {n.id} \in SUBSET Subjects BY <1>1, <1>2
<1> QED BY <1>4, <1>5, PictureLemma

LEMMA WithoutType ==
  ASSUME NEW p \in Pictures, NEW s
  PROVE  Without(p, s) \in Pictures
<1>1. DOMAIN p \subseteq Subjects /\ \A t \in DOMAIN p : p[t] \in Objects
  BY PictureLemma
<1>2. Without(p, s) \in [DOMAIN p \ {s} -> Objects]
  BY <1>1 DEF Without, Restrict
<1>3. DOMAIN p \ {s} \in SUBSET Subjects BY <1>1
<1> QED BY <1>2, <1>3, PictureLemma

\* One picture is changed.
LEMMA RedrawType ==
  ASSUME NEW p \in Pictures, NEW s \in DOMAIN p, NEW o \in Objects
  PROVE  [p EXCEPT ![s] = o] \in Pictures
<1>1. DOMAIN p \in SUBSET Subjects /\ p \in [DOMAIN p -> Objects] BY PictureLemma
<1>2. [p EXCEPT ![s] = o] \in [DOMAIN p -> Objects] BY <1>1
<1> QED BY <1>1, <1>2, PictureLemma

LEMMA NoPicturesType == NoPictures \in Pictures
<1>1. NoPictures \in [{} -> Objects] BY DEF NoPictures
<1> QED BY <1>1, PictureLemma

LEMMA FlushedType ==
  ASSUME NEW c \in Clients
  PROVE  Flushed(c) \in Pictures
<1>1. c.players \in Pictures /\ c.pendingObjects \in Pictures BY DEF Clients
<1>2. /\ DOMAIN c.players \subseteq Subjects /\ \A t \in DOMAIN c.players : c.players[t] \in Objects
      /\ DOMAIN c.pendingObjects \subseteq Subjects
      /\ \A t \in DOMAIN c.pendingObjects : c.pendingObjects[t] \in Objects
  BY <1>1, PictureLemma
<1>3. Flushed(c) \in [DOMAIN c.pendingObjects \cup DOMAIN c.players -> Objects]
  BY <1>2 DEF Flushed
<1>4. DOMAIN c.pendingObjects \cup DOMAIN c.players \in SUBSET Subjects BY <1>2
<1> QED BY <1>3, <1>4, PictureLemma

\* Client d is client c with other pictures.
Redrawn(c, d) ==
  /\ d \in Clients
  /\ d.avatar = c.avatar /\ d.zone = c.zone /\ d.trans = c.trans
  /\ d.pendingPlayer = c.pendingPlayer /\ d.isDead = c.isDead

LEMMA RedrawnLemma ==
  ASSUME NEW c \in Clients, NEW p \in Pictures
  PROVE  /\ Redrawn(c, [c EXCEPT !.players = p])
         /\ Redrawn(c, [c EXCEPT !.pendingObjects = p])
BY DEF Redrawn, Clients

\* News about others changes only pictures.
LEMMA ClientHearsNews ==
  ASSUME NEW u, NEW c \in Clients, NEW n \in News(u)
  PROVE  Redrawn(c, ProcessPacket(c, u, n))
<1>1. /\ n \in Notices /\ n.id # u /\ n.type # "LOGIN_ACK"
      /\ n.type \in {"MOVE", "RESPAWN", "ADD"} => n.cell \in Cells
      /\ n.type \in Types /\ n.armed \in BOOLEAN
  BY DEF News, Fit, Placing, Notices
<1>2. c.players \in Pictures /\ c.pendingObjects \in Pictures BY DEF Clients
<1>3. PICK d : d = ProcessPacket(c, u, n) OBVIOUS
<1>4. ASSUME n.id \in DOMAIN c.players
      PROVE  c.players[n.id] \in Objects
  BY <1>2, <1>4, PictureLemma
<1>5. CASE n.type = "ADD"
  <2>1. d = OnAdd(c, n) BY <1>3, <1>5 DEF ProcessPacket
  <2>2. /\ Draw(c.players, n, n.armed) \in Pictures
        /\ Draw(c.pendingObjects, n, n.armed) \in Pictures
    BY <1>1, <1>2, <1>5, DrawType
  <2>3. \/ d = [c EXCEPT !.players = Draw(c.players, n, n.armed)]
        \/ d = [c EXCEPT !.pendingObjects = Draw(c.pendingObjects, n, n.armed)]
    BY <2>1 DEF OnAdd, Clients
  <2> QED BY <1>3, <2>2, <2>3, RedrawnLemma
<1>6. CASE n.type = "MOVE"
  <2>1. d = OnMove(c, n) BY <1>1, <1>3, <1>6 DEF ProcessPacket
  <2>2. CASE n.id \notin DOMAIN c.players BY <1>3, <2>1, <2>2 DEF Redrawn, OnMove
  <2>3. CASE n.id \in DOMAIN c.players
    <3>1. PICK o : o = [c.players[n.id] EXCEPT
                          !.cell = n.cell, !.look = IF @ = "dying" THEN "shown" ELSE @]
      OBVIOUS
    <3>2. o \in Objects BY <1>1, <1>4, <1>6, <2>3, <3>1 DEF Objects
    <3>3. d = [c EXCEPT !.players = [c.players EXCEPT ![n.id] = o]]
      BY <1>2, <1>4, <2>1, <2>3, <3>1 DEF OnMove, Clients, Objects
    <3>4. [c.players EXCEPT ![n.id] = o] \in Pictures BY <1>2, <2>3, <3>2, RedrawType
    <3>5. PICK p \in Pictures : d = [c EXCEPT !.players = p] BY <3>3, <3>4
    <3> QED BY <1>3, <3>5, RedrawnLemma
  <2> QED BY <2>2, <2>3
<1>7. CASE n.type = "REMOVE"
  <2>1. d = [c EXCEPT !.players = Without(c.players, n.id)]
    BY <1>3, <1>7 DEF ProcessPacket, OnRemove, Clients
  <2>2. Without(c.players, n.id) \in Pictures BY <1>2, WithoutType
  <2> QED BY <1>3, <2>1, <2>2, RedrawnLemma
<1>8. CASE n.type = "DIE"
  <2>1. d = OnDie(c, n) BY <1>1, <1>3, <1>8 DEF ProcessPacket
  <2>2. CASE n.id \notin DOMAIN c.players BY <1>3, <2>1, <2>2 DEF Redrawn, OnDie
  <2>3. CASE n.id \in DOMAIN c.players
    <3>1. PICK o : o = [c.players[n.id] EXCEPT
                          !.look = IF n.id \in Monsters THEN "dying" ELSE "hidden"]
      OBVIOUS
    <3>2. o \in Objects BY <1>4, <2>3, <3>1 DEF Objects
    <3>3. d = [c EXCEPT !.players = [c.players EXCEPT ![n.id] = o]]
      BY <1>2, <1>4, <2>1, <2>3, <3>1 DEF OnDie, Clients, Objects
    <3>4. [c.players EXCEPT ![n.id] = o] \in Pictures BY <1>2, <2>3, <3>2, RedrawType
    <3>5. PICK p \in Pictures : d = [c EXCEPT !.players = p] BY <3>3, <3>4
    <3> QED BY <1>3, <3>5, RedrawnLemma
  <2> QED BY <2>2, <2>3
<1>9. CASE n.type = "RESPAWN"
  <2>1. PICK armed : armed = (n.id \in DOMAIN c.players /\ c.players[n.id].armed) OBVIOUS
  <2>2. armed \in BOOLEAN BY <2>1
  <2>3. d = [c EXCEPT !.players = Draw(c.players, n, armed)]
    BY <1>1, <1>3, <1>9, <2>1 DEF ProcessPacket, OnRespawn, Clients
  <2>4. Draw(c.players, n, armed) \in Pictures BY <1>1, <1>2, <1>9, <2>2, DrawType
  <2> QED BY <1>3, <2>3, <2>4, RedrawnLemma
<1>10. CASE n.type = "EQUIP"
  <2>1. d = OnEquipChange(c, n) BY <1>3, <1>10 DEF ProcessPacket
  <2>2. CASE n.id \notin DOMAIN c.players BY <1>3, <2>1, <2>2 DEF Redrawn, OnEquipChange
  <2>3. CASE n.id \in DOMAIN c.players
    <3>1. PICK o : o = [c.players[n.id] EXCEPT !.armed = n.armed] OBVIOUS
    <3>2. o \in Objects BY <1>1, <1>4, <2>3, <3>1 DEF Objects
    <3>3. d = [c EXCEPT !.players = [c.players EXCEPT ![n.id] = o]]
      BY <1>2, <1>4, <2>1, <2>3, <3>1 DEF OnEquipChange, Clients, Objects
    <3>4. [c.players EXCEPT ![n.id] = o] \in Pictures BY <1>2, <2>3, <3>2, RedrawType
    <3>5. PICK p \in Pictures : d = [c EXCEPT !.players = p] BY <3>3, <3>4
    <3> QED BY <1>3, <3>5, RedrawnLemma
  <2> QED BY <2>2, <2>3
<1> QED BY <1>1, <1>5, <1>6, <1>7, <1>8, <1>9, <1>10 DEF Types

\* No such notice is sent to the user it is about.
LEMMA ClientHearsOdd ==
  ASSUME NEW u, NEW c \in Clients, NEW n \in Fit(u), n.type \in {"ADD", "REMOVE", "EQUIP"}
  PROVE  ProcessPacket(c, u, n) \in Clients
<1>1. PICK v : v # u /\ v # n.id
  <2>1. (CHOOSE x : x \notin {u, n.id}) \notin {u, n.id} BY NoSetContainsEverything
  <2> QED BY <2>1
<1>2. n \in News(v) BY <1>1 DEF News, Fit
<1>3. ProcessPacket(c, u, n) = ProcessPacket(c, v, n) BY DEF ProcessPacket
<1>4. Redrawn(c, ProcessPacket(c, v, n)) BY <1>2, ClientHearsNews
<1> QED BY <1>3, <1>4 DEF Redrawn

\* The notice of the own death.
Deceased(c, d) ==
  /\ d \in Clients
  /\ d.avatar = c.avatar /\ d.zone = c.zone /\ d.trans = c.trans
  /\ d.pendingPlayer = c.pendingPlayer /\ d.isDead = TRUE

LEMMA ClientHearsDeath ==
  ASSUME NEW u, NEW c \in Clients, NEW n, n.id = u, n.type = "DIE"
  PROVE  Deceased(c, ProcessPacket(c, u, n))
<1>1. ProcessPacket(c, u, n) = [c EXCEPT !.isDead = TRUE] BY DEF ProcessPacket
<1> QED BY <1>1 DEF Deceased, Clients

\* The notices of the own place: what comes of them where they are right.
Placed(c, n, d) ==
  /\ d \in Clients
  /\ /\ n.type = "MOVE" => c.zone # None
     /\ n.type = "RESPAWN" => c.zone = ZoneOf[n.cell]
     /\ c.trans = "NONE"
     => /\ d.zone = ZoneOf[n.cell]
        /\ n.cell = IF Fading(d) THEN d.pendingPlayer ELSE d.avatar
        /\ d.isDead = IF n.type = "RESPAWN" THEN FALSE ELSE c.isDead

LEMMA ClientHearsPlace ==
  ASSUME NEW u, NEW c \in Clients, NEW n \in Fit(u), n.id = u, n.type \in Placing
  PROVE  Placed(c, n, ProcessPacket(c, u, n))
<1>1. n.cell \in Cells /\ ZoneOf[n.cell] \in Zones BY DEF Fit, Zones
<1>2. PICK d : d = ProcessPacket(c, u, n) OBVIOUS
<1>3. NoPictures \in Pictures BY NoPicturesType
<1>4. CASE n.type = "LOGIN_ACK"
  <2>1. d = [c EXCEPT !.avatar = n.cell, !.zone = ZoneOf[n.cell]]
    BY <1>2, <1>4 DEF ProcessPacket, OnLoginAck
  <2>2. /\ d \in Clients /\ d.avatar = n.cell /\ d.zone = ZoneOf[n.cell]
        /\ d.trans = c.trans /\ d.isDead = c.isDead
    BY <1>1, <2>1 DEF Clients
  <2> QED BY <1>2, <1>4, <2>2 DEF Placed, Fading
<1>5. CASE n.type = "RESPAWN"
  <2>1. d = [c EXCEPT !.avatar = n.cell, !.isDead = FALSE]
    BY <1>2, <1>5 DEF ProcessPacket
  <2>2. /\ d \in Clients /\ d.avatar = n.cell /\ d.zone = c.zone
        /\ d.trans = c.trans /\ d.isDead = FALSE
    BY <1>1, <2>1 DEF Clients
  <2> QED BY <1>2, <1>5, <2>2 DEF Placed, Fading
<1>6. CASE n.type = "MOVE"
  <2>1. d = OnOwnMove(c, n) BY <1>2, <1>6 DEF ProcessPacket
  <2>2. CASE c.trans # "NONE" BY <1>2, <2>1, <2>2 DEF OnOwnMove, Placed
  <2>3. CASE c.trans = "NONE" /\ c.zone # None /\ ZoneOf[n.cell] # c.zone
    <3>1. d = TriggerZoneTransition(c, n) BY <2>1, <2>3 DEF OnOwnMove
    <3>2. /\ d \in Clients /\ d.zone = ZoneOf[n.cell] /\ d.pendingPlayer = n.cell
          /\ d.trans = "FADE_OUT" /\ d.isDead = c.isDead
      BY <1>1, <1>3, <3>1 DEF TriggerZoneTransition, Clients, ZoneTransState
    <3> QED BY <1>2, <1>6, <3>2 DEF Placed, Fading
  <2>4. CASE c.trans = "NONE" /\ ~(c.zone # None /\ ZoneOf[n.cell] # c.zone)
    <3>1. d = [c EXCEPT !.avatar = n.cell] BY <2>1, <2>4 DEF OnOwnMove
    <3>2. /\ d \in Clients /\ d.avatar = n.cell /\ d.zone = c.zone
          /\ d.trans = c.trans /\ d.isDead = c.isDead
      BY <1>1, <3>1 DEF Clients
    <3> QED BY <1>2, <1>6, <2>4, <3>2 DEF Placed, Fading
  <2> QED BY <2>2, <2>3, <2>4
<1> QED BY <1>4, <1>5, <1>6 DEF Placing

\* A fade goes on.
LEMMA ClientFades ==
  ASSUME NEW c \in Clients, c.trans # "NONE",
         NEW d, d = IF Fading(c) THEN FadedOut(c) ELSE [c EXCEPT !.trans = "NONE"]
  PROVE  /\ d \in Clients /\ d.zone = c.zone /\ d.isDead = c.isDead /\ ~Fading(d)
         /\ d.avatar = IF Fading(c) THEN c.pendingPlayer ELSE c.avatar
<1>1. CASE Fading(c)
  <2>1. Flushed(c) \in Pictures /\ NoPictures \in Pictures BY FlushedType, NoPicturesType
  <2>2. d = FadedOut(c) BY <1>1
  <2> QED BY <1>1, <2>1, <2>2 DEF FadedOut, Clients, ZoneTransState, Fading
<1>2. CASE ~Fading(c) BY <1>2 DEF Clients, ZoneTransState, Fading
<1> QED BY <1>1, <1>2

LEMMA AvatarFades ==
  ASSUME NEW u, NEW queue \in Seq(Notices), NEW c, NEW d, NEW s, NEW hit,
         AvatarOK(queue, c, u, s, hit), c.trans # "NONE",
         d.zone = c.zone, d.isDead = c.isDead, ~Fading(d),
         d.avatar = IF Fading(c) THEN c.pendingPlayer ELSE c.avatar
  PROVE  AvatarOK(queue, d, u, s, hit)
<1>1. s.on # "new" BY DEF AvatarOK, FreshClient
<1>2. ASSUME AvatarPlaced(queue, c, u, s) PROVE AvatarPlaced(queue, d, u, s)
  <2>1. Own(queue, u, Placing) = {} BY <1>2 DEF AvatarPlaced
  <2> QED BY <1>2, <2>1 DEF AvatarPlaced
<1>3. DeathKnown(queue, c, u, s) => DeathKnown(queue, d, u, s) BY DEF DeathKnown
<1> QED BY <1>1, <1>2, <1>3 DEF AvatarOK

\* Only pictures change.
LEMMA AvatarRedrawn ==
  ASSUME NEW u, NEW queue \in Seq(Notices), NEW c, NEW d, NEW s, NEW hit,
         AvatarOK(queue, c, u, s, hit), Redrawn(c, d), c # FreshClient
  PROVE  AvatarOK(queue, d, u, s, hit)
<1>1. s.on # "new" BY DEF AvatarOK
<1>2. AvatarPlaced(queue, c, u, s) => AvatarPlaced(queue, d, u, s)
  BY DEF AvatarPlaced, Redrawn, Fading
<1>3. DeathKnown(queue, c, u, s) => DeathKnown(queue, d, u, s)
  BY DEF DeathKnown, Redrawn
<1> QED BY <1>1, <1>2, <1>3 DEF AvatarOK

\* What is recorded of pictures that are out of date.
LEMMA LateType ==
  ASSUME NEW u, NEW c \in Clients, NEW n \in Fit(u), NEW l \in SUBSET Subjects,
         NEW w \in SUBSET Users
  PROVE  Late(c, u, n, l) \in SUBSET Subjects /\ Unsure(c, u, n, w) \in SUBSET Users
<1>1. n.id \in Subjects /\ (n.type = "EQUIP" => n.id \in Users) BY DEF Fit, Notices
<1>2. DOMAIN c.players \subseteq Subjects /\ DOMAIN c.pendingObjects \subseteq Subjects
  BY PictureLemma DEF Clients
<1>3. Late(c, u, n, l) \subseteq l \cup DOMAIN c.players \cup DOMAIN c.pendingObjects \cup {n.id}
  BY DEF Late
<1>4. Unsure(c, u, n, w) \subseteq Users BY <1>1 DEF Unsure
<1> QED BY <1>1, <1>2, <1>3, <1>4

-----------------------------------------------------------------------------
(***************************************************************************)
(* Steps of the clients                                                    *)
(***************************************************************************)

\* What a step has to keep.
Kept == ViewInv' /\ (Patient /\ AvatarInv => AvatarInv')

\* Only client u, its queue and what is recorded of it change.
LEMMA ClientStep ==
  ASSUME ViewInv, NEW u \in Viewers, NEW q \in Seq(Fit(u)), NEW d \in Clients,
         UNCHANGED <<user, monster, viewList, field, bounds, struck, stray, untold>>,
         chan' = [chan EXCEPT ![u] = q], client' = [client EXCEPT ![u] = d],
         late' \in [Viewers -> SUBSET Subjects], unsure' \in [Viewers -> SUBSET Users],
         AvatarInv => AvatarOK(q, d, u, user[u], struck)
  PROVE  Kept
<1>1. TypeOK /\ \A v \in Viewers : chan[v] \in Seq(Fit(v)) BY DEF ViewInv
<1>2. q \in Seq(Notices)
  <2>1. Fit(u) \subseteq Notices BY DEF Fit
  <2> QED BY <2>1
<1>3. /\ chan' \in [Viewers -> Seq(Notices)] /\ client' \in [Viewers -> Clients]
      /\ chan'[u] = q /\ client'[u] = d
      /\ \A v \in Viewers \ {u} : chan'[v] = chan[v] /\ client'[v] = client[v]
  BY <1>1, <1>2 DEF TypeOK
<1>4. TypeOK' BY <1>1, <1>3 DEF TypeOK, field, bounds
<1>5. \A v \in Viewers : chan'[v] \in Seq(Fit(v)) BY <1>1, <1>3
<1>6. ViewInv' BY <1>4, <1>5 DEF ViewInv, Fit
<1>7. AvatarInv => AvatarInv'
  <2> SUFFICES ASSUME AvatarInv, NEW v \in Viewers
               PROVE  AvatarOK(chan'[v], client'[v], v, user'[v], struck')
    BY DEF AvatarInv
  <2>1. user' = user /\ struck' = struck OBVIOUS
  <2>2. CASE v = u BY <1>3, <2>1, <2>2
  <2>3. CASE v # u
    <3>1. AvatarOK(chan[v], client[v], v, user[v], struck) BY DEF AvatarInv
    <3> QED BY <1>3, <2>1, <2>3, <3>1
  <2> QED BY <2>2, <2>3
<1> QED BY <1>6, <1>7 DEF Kept

LEMMA ReceiveStep ==
  ASSUME ViewInv, NEW u \in Viewers, Receive(u)
  PROVE  Kept
<1>1. /\ chan[u] \in Seq(Fit(u)) /\ chan \in [Viewers -> Seq(Notices)]
      /\ chan[u] # <<>> /\ client[u] \in Clients /\ TypeOK
  BY DEF ViewInv, TypeOK, Receive
<1>2. PICK q : q = chan[u] OBVIOUS
<1>3. PICK c \in Clients : c = client[u] BY <1>1
<1>4. PICK n : n = Head(q) OBVIOUS
<1>5. PICK s : s = user[u] OBVIOUS
<1>6. q \in Seq(Notices) /\ q \in Seq(Fit(u)) /\ q # <<>> BY <1>1, <1>2
<1>7. n \in Fit(u) /\ Tail(q) \in Seq(Fit(u)) /\ n = q[1] /\ 1 \in DOMAIN q
  BY <1>4, <1>6
<1>8. PICK d : d = ProcessPacket(c, u, n) OBVIOUS
<1>9. PICK hit : hit = struck OBVIOUS
<1>10. /\ d \in Clients
       /\ AvatarInv => AvatarOK(Tail(q), d, u, s, hit)
  <2>1. ASSUME AvatarInv PROVE AvatarOK(q, c, u, s, hit)
    BY <1>2, <1>3, <1>5, <1>9, <2>1 DEF AvatarInv
  <2>2. CASE n.id # u
    <3>1. n \in News(u) BY <1>7, <2>2 DEF News
    <3>2. Redrawn(c, d) BY <1>8, <3>1, ClientHearsNews
    <3> QED BY <1>6, <1>7, <2>1, <2>2, <3>2, AvatarHearsNews DEF Redrawn
  <2>3. CASE n.id = u /\ n.type = "DIE"
    <3>1. Deceased(c, d) BY <1>8, <2>3, ClientHearsDeath
    <3> QED BY <1>6, <1>7, <2>1, <2>3, <3>1, AvatarHearsDeath DEF Deceased
  <2>4. CASE n.id = u /\ n.type \in Placing
    <3>1. Placed(c, n, d) BY <1>7, <1>8, <2>4, ClientHearsPlace
    <3>2. ASSUME AvatarInv PROVE AvatarOK(Tail(q), d, u, s, hit)
      <4>1. AvatarOK(q, c, u, s, hit) BY <2>1, <3>2
      <4>2. s.on # "new" BY <1>6, <4>1 DEF AvatarOK
      <4>3. CASE s.on \notin Present BY <4>2, <4>3 DEF AvatarOK
      <4>4. CASE s.on \in Present
        <5>1. 1 \in Own(q, u, Placing) BY <1>7, <2>4 DEF Own
        <5>2. /\ n.cell = s.cell /\ c.trans = "NONE"
              /\ n.type = "MOVE" => c.zone # None
              /\ n.type = "RESPAWN" => c.zone = ZoneOf[s.cell]
          BY <1>7, <4>1, <4>4, <5>1 DEF AvatarOK, AvatarPlaced
        <5>3. /\ d.zone = ZoneOf[s.cell]
              /\ s.cell = IF Fading(d) THEN d.pendingPlayer ELSE d.avatar
              /\ d.isDead = IF n.type = "RESPAWN" THEN FALSE ELSE c.isDead
          BY <3>1, <5>2 DEF Placed
        <5> QED BY <1>6, <1>7, <2>4, <4>1, <5>3, AvatarHearsPlace
      <4> QED BY <4>3, <4>4
    <3> QED BY <3>1, <3>2 DEF Placed
  <2>5. CASE n.id = u /\ n.type \notin Placing \cup {"DIE"}
    <3>1. d \in Clients
      <4>1. n.type \in {"ADD", "REMOVE", "EQUIP"}
        BY <1>7, <2>5 DEF Fit, Notices, Types, Placing
      <4> QED BY <1>7, <1>8, <2>5, <4>1, ClientHearsOdd
    <3>2. ASSUME AvatarInv, s.on \in Present PROVE FALSE
      BY <1>7, <2>1, <2>5, <3>2 DEF AvatarOK, AvatarPlaced
    <3>3. ASSUME AvatarInv PROVE AvatarOK(Tail(q), d, u, s, hit)
      <4>1. AvatarOK(q, c, u, s, hit) BY <2>1, <3>3
      <4>2. s.on # "new" BY <1>6, <4>1 DEF AvatarOK
      <4> QED BY <3>2, <3>3, <4>2 DEF AvatarOK
    <3> QED BY <3>1, <3>3
  <2> QED BY <2>2, <2>3, <2>4, <2>5
<1>11. /\ chan' = [chan EXCEPT ![u] = Tail(q)] /\ client' = [client EXCEPT ![u] = d]
       /\ late' = [late EXCEPT ![u] = Late(c, u, n, late[u])]
       /\ unsure' = [unsure EXCEPT ![u] = Unsure(c, u, n, unsure[u])]
       /\ UNCHANGED <<user, monster, viewList, field, bounds, struck, stray, untold>>
  BY <1>2, <1>3, <1>4, <1>8 DEF Receive
<1>12. /\ late' \in [Viewers -> SUBSET Subjects] /\ unsure' \in [Viewers -> SUBSET Users]
  <2>1. Late(c, u, n, late[u]) \in SUBSET Subjects /\ Unsure(c, u, n, unsure[u]) \in SUBSET Users
    BY <1>1, <1>7, LateType DEF TypeOK
  <2> QED BY <1>1, <1>11, <2>1 DEF TypeOK
<1>13. AvatarInv => AvatarOK(Tail(q), d, u, user[u], struck)
  BY <1>5, <1>9, <1>10
<1> QED BY <1>7, <1>10, <1>11, <1>12, <1>13, ClientStep

LEMMA DeathDoneStep ==
  ASSUME ViewInv, NEW u \in Viewers, DeathDone(u)
  PROVE  Kept
<1>1. /\ chan[u] \in Seq(Fit(u)) /\ chan \in [Viewers -> Seq(Notices)]
      /\ client \in [Viewers -> Clients] /\ TypeOK
  BY DEF ViewInv, TypeOK
<1>2. PICK c \in Clients : c = client[u] BY <1>1
<1>3. PICK m \in DOMAIN c.players : client' = [client EXCEPT ![u].players = Without(@, m)]
  BY <1>2 DEF DeathDone
<1>4. PICK d : d = [c EXCEPT !.players = Without(c.players, m)] OBVIOUS
<1>5. Redrawn(c, d)
  <2>1. Without(c.players, m) \in Pictures BY WithoutType DEF Clients
  <2> QED BY <1>4, <2>1, RedrawnLemma
<1>6. client' = [client EXCEPT ![u] = d] BY <1>1, <1>2, <1>3, <1>4
<1>7. c # FreshClient BY <1>3 DEF FreshClient, NoPictures
<1>8. ASSUME AvatarInv PROVE AvatarOK(chan[u], d, u, user[u], struck)
  <2>1. PICK hit : hit = struck OBVIOUS
  <2>2. AvatarOK(chan[u], c, u, user[u], hit) BY <1>2, <1>8, <2>1 DEF AvatarInv
  <2>3. AvatarOK(chan[u], d, u, user[u], hit) BY <1>1, <1>5, <1>7, <2>2, AvatarRedrawn
  <2> QED BY <2>1, <2>3
<1>9. /\ chan' = [chan EXCEPT ![u] = chan[u]]
      /\ UNCHANGED <<user, monster, viewList, field, bounds, struck, stray, untold>>
      /\ late' \in [Viewers -> SUBSET Subjects] /\ unsure' \in [Viewers -> SUBSET Users]
  BY <1>1 DEF DeathDone, observed, TypeOK
<1>10. d \in Clients BY <1>5 DEF Redrawn
<1> QED BY <1>1, <1>6, <1>8, <1>9, <1>10, ClientStep

LEMMA FadeStep ==
  ASSUME ViewInv, NEW u \in Viewers, Fade(u)
  PROVE  Kept
<1>1. /\ chan[u] \in Seq(Fit(u)) /\ chan \in [Viewers -> Seq(Notices)]
      /\ client \in [Viewers -> Clients] /\ TypeOK
  BY DEF ViewInv, TypeOK
<1>2. PICK c \in Clients : c = client[u] BY <1>1
<1>3. PICK d : d = IF Fading(c) THEN FadedOut(c) ELSE [c EXCEPT !.trans = "NONE"] OBVIOUS
<1>4. c.trans # "NONE" /\ client' = [client EXCEPT ![u] = d]
  BY <1>1, <1>2, <1>3 DEF Fade
<1>5. /\ d \in Clients /\ d.zone = c.zone /\ d.isDead = c.isDead /\ ~Fading(d)
      /\ d.avatar = IF Fading(c) THEN c.pendingPlayer ELSE c.avatar
  BY <1>3, <1>4, ClientFades
<1>6. ASSUME AvatarInv PROVE AvatarOK(chan[u], d, u, user[u], struck)
  <2>1. PICK hit : hit = struck OBVIOUS
  <2>2. AvatarOK(chan[u], c, u, user[u], hit) BY <1>2, <1>6, <2>1 DEF AvatarInv
  <2>3. AvatarOK(chan[u], d, u, user[u], hit) BY <1>1, <1>4, <1>5, <2>2, AvatarFades
  <2> QED BY <2>1, <2>3
<1>7. /\ chan' = [chan EXCEPT ![u] = chan[u]]
      /\ UNCHANGED <<user, monster, viewList, field, bounds, struck, stray, untold>>
      /\ late' \in [Viewers -> SUBSET Subjects] /\ unsure' \in [Viewers -> SUBSET Users]
  BY <1>1 DEF Fade, observed, TypeOK
<1> QED BY <1>1, <1>4, <1>5, <1>6, <1>7, ClientStep

-----------------------------------------------------------------------------
(***************************************************************************)
(* Steps of the server                                                     *)
(***************************************************************************)

LEMMA FitTypes ==
  ASSUME NEW v
  PROVE  /\ Fit(v) \subseteq Notices /\ News(v) \subseteq Fit(v)
         /\ Seq(Fit(v)) \subseteq Seq(Notices) /\ Seq(News(v)) \subseteq Seq(Fit(v))
<1>1. Fit(v) \subseteq Notices /\ News(v) \subseteq Fit(v) BY DEF Fit, News
<1> QED BY <1>1

\* A login is answered.
LEMMA AvatarLogin ==
  ASSUME NEW u, NEW n \in Notices, n.id = u, n.type = "LOGIN_ACK", NEW t, NEW hit,
         t.on \in Present, t.alive = TRUE, n.cell = t.cell
  PROVE  AvatarOK(<<n>>, FreshClient, u, t, hit)
<1>1. PICK r : r = <<n>> OBVIOUS
<1>2. DOMAIN r = {1} /\ r[1] = n BY <1>1
<1>3. /\ Own(r, u, Placing) = {1} /\ Own(r, u, {"DIE"}) = {}
      /\ Own(r, u, {"RESPAWN"}) = {} /\ Own(r, u, {"DIE", "RESPAWN"}) = {}
  BY <1>2 DEF Own, Placing
<1>4. t.on # "new" BY DEF Present
<1>5. PICK c : c = FreshClient /\ c.trans = "NONE" /\ c.isDead = FALSE
  <2>1. FreshClient.trans = "NONE" /\ FreshClient.isDead = FALSE BY DEF FreshClient
  <2> QED BY <2>1
<1>6. AvatarPlaced(r, c, u, t) BY <1>2, <1>3, <1>5 DEF AvatarPlaced, Placing
<1>7. DeathKnown(r, c, u, t) BY <1>3, <1>5 DEF DeathKnown
<1> QED BY <1>1, <1>4, <1>5, <1>6, <1>7 DEF AvatarOK

\* The ways in which a step of the server concerns viewer v: it is not there;
\* it leaves; it hears of others, or is struck from another zone; it is told
\* its new place; its death; the answer to its login.
Away(v) ==
  /\ user[v].on \notin Present /\ user'[v] = user[v] /\ chan'[v] \in {<<>>, chan[v]}
Leaves(v) ==
  user'[v].on = "out" /\ chan'[v] = <<>>
Hears(v) ==
  /\ user[v].on \in Present /\ user'[v].on \in Present
  /\ user'[v].cell = user[v].cell /\ (v \notin struck' => user'[v].alive = user[v].alive)
  /\ \E q \in Seq(News(v)) : chan'[v] = chan[v] \o q
Moved(v) ==
  /\ user[v].on \in Present /\ user'[v].on \in Present /\ Settled(v) /\ struck' = struck
  /\ \E n \in Fit(v), q \in Seq(News(v)) :
       /\ n.id = v /\ n.type \in {"MOVE", "RESPAWN"} /\ n.cell = user'[v].cell
       /\ n.type = "MOVE" => user'[v].alive = user[v].alive
       /\ n.type = "RESPAWN" => /\ user'[v].alive = TRUE
                                /\ ZoneOf[user'[v].cell] = ZoneOf[user[v].cell]
       /\ chan'[v] = chan[v] \o (<<n>> \o q)
Dies(v) ==
  /\ user[v].on \in Present /\ user'[v].on \in Present /\ struck' = struck
  /\ user'[v].cell = user[v].cell /\ user'[v].alive = FALSE
  /\ \E n \in Fit(v) : n.id = v /\ n.type = "DIE" /\ chan'[v] = chan[v] \o <<n>>
Arrives(v) ==
  /\ user[v].on = "new" /\ user'[v].on \in Present /\ struck' = struck
  /\ user'[v].alive = user[v].alive
  /\ \E n \in Fit(v), q \in Seq(News(v)) :
       /\ n.id = v /\ n.type = "LOGIN_ACK" /\ n.cell = user'[v].cell
       /\ chan'[v] = <<n>> \o q
Concerns(v) == Away(v) \/ Leaves(v) \/ Hears(v) \/ Moved(v) \/ Dies(v) \/ Arrives(v)

\* Queues keep their type.
LEMMA ConcernsType ==
  ASSUME ViewInv, NEW v \in Viewers, Concerns(v)
  PROVE  chan'[v] \in Seq(Fit(v))
<1>1. chan[v] \in Seq(Fit(v)) /\ Seq(News(v)) \subseteq Seq(Fit(v))
  BY FitTypes DEF ViewInv
<1>2. \A n \in Fit(v) : <<n>> \in Seq(Fit(v)) OBVIOUS
<1>3. \A q \in Seq(Fit(v)), r \in Seq(Fit(v)) : q \o r \in Seq(Fit(v)) OBVIOUS
<1>4. CASE Away(v)
  <2>1. chan'[v] = <<>> \/ chan'[v] = chan[v] BY <1>4 DEF Away
  <2>2. <<>> \in Seq(Fit(v)) OBVIOUS
  <2> QED BY <1>1, <2>1, <2>2
<1>5. CASE Leaves(v) BY <1>5 DEF Leaves
<1>6. CASE Hears(v)
  <2>1. PICK q \in Seq(News(v)) : chan'[v] = chan[v] \o q BY <1>6 DEF Hears
  <2> QED BY <1>1, <1>3, <2>1
<1>7. CASE Moved(v)
  <2>1. PICK n \in Fit(v), q \in Seq(News(v)) : chan'[v] = chan[v] \o (<<n>> \o q)
    BY <1>7 DEF Moved
  <2>2. <<n>> \o q \in Seq(Fit(v)) BY <1>1, <1>2, <1>3
  <2> QED BY <1>1, <1>3, <2>1, <2>2
<1>8. CASE Dies(v)
  <2>1. PICK n \in Fit(v) : chan'[v] = chan[v] \o <<n>> BY <1>8 DEF Dies
  <2> QED BY <1>1, <1>2, <1>3, <2>1
<1>9. CASE Arrives(v)
  <2>1. PICK n \in Fit(v), q \in Seq(News(v)) : chan'[v] = <<n>> \o q
    BY <1>9 DEF Arrives
  <2> QED BY <1>1, <1>2, <1>3, <2>1
<1> QED BY <1>4, <1>5, <1>6, <1>7, <1>8, <1>9 DEF Concerns

\* The avatar is right after any of them.
LEMMA ConcernsAvatar ==
  ASSUME ViewInv, NEW v \in Viewers, Concerns(v), client' = client,
         struck \subseteq struck', Patient,
         AvatarOK(chan[v], client[v], v, user[v], struck)
  PROVE  AvatarOK(chan'[v], client'[v], v, user'[v], struck')
<1>0. PICK queue \in Seq(Notices) : queue = chan[v] BY DEF ViewInv, TypeOK
<1>1. PICK r, c, s, t, hit, now :
        /\ queue = chan[v] /\ r = chan'[v] /\ c = client[v] /\ s = user[v] /\ t = user'[v]
        /\ hit = struck /\ now = struck'
  BY <1>0
<1>2. AvatarOK(queue, c, v, s, hit) /\ hit \subseteq now BY <1>1
<1>3. SUFFICES AvatarOK(r, c, v, t, now) BY <1>1
<1>4. v \in Users /\ s.cell \in Cells /\ ZoneOf[s.cell] # None
  BY <1>1, ViewAssumption DEF ViewInv, TypeOK, UserStates
<1>5. CASE Away(v)
  <2>1. s.on \notin Present /\ t = s /\ (r = <<>> \/ r = queue) BY <1>1, <1>5 DEF Away
  <2> QED BY <1>2, <2>1 DEF AvatarOK
<1>6. CASE Leaves(v)
  <2>1. t.on = "out" BY <1>1, <1>6 DEF Leaves
  <2> QED BY <2>1 DEF AvatarOK, Present
<1>7. CASE Hears(v)
  <2>1. /\ s.on \in Present /\ t.on \in Present /\ t.cell = s.cell
        /\ v \notin now => t.alive = s.alive
    BY <1>1, <1>7 DEF Hears
  <2>2. PICK q \in Seq(News(v)) : r = queue \o q BY <1>1, <1>7 DEF Hears
  <2>3. AvatarOK(queue \o q, c, v, t, now) BY <1>2, <2>1, AvatarNews
  <2> QED BY <2>2, <2>3
<1>8. CASE Moved(v)
  <2>1. s.on \in Present /\ t.on \in Present /\ now = hit BY <1>1, <1>8 DEF Moved
  <2>2. c.trans = "NONE" /\ \A i \in DOMAIN queue : queue[i].id # v
    BY <1>1, <1>8 DEF Moved, Settled
  <2>3. PICK n \in Fit(v), q \in Seq(News(v)) :
          /\ n.id = v /\ n.type \in {"MOVE", "RESPAWN"} /\ n.cell = t.cell
          /\ n.type = "MOVE" => t.alive = s.alive
          /\ n.type = "RESPAWN" => t.alive = TRUE /\ ZoneOf[t.cell] = ZoneOf[s.cell]
          /\ r = queue \o (<<n>> \o q)
    BY <1>1, <1>8 DEF Moved
  <2>4. n \in Notices /\ q \in Seq(Notices) BY FitTypes
  <2>5. AvatarOK(Append(queue, n), c, v, t, hit)
    BY <1>2, <1>4, <2>1, <2>2, <2>3, <2>4, AvatarMoves
  <2>6. Append(queue, n) \in Seq(Notices) BY <2>4
  <2>7. AvatarOK(Append(queue, n) \o q, c, v, t, hit)
    BY <2>1, <2>5, <2>6, AvatarNews
  <2>8. r = Append(queue, n) \o q BY <2>3, <2>4, AppendConcat
  <2> QED BY <2>1, <2>7, <2>8
<1>9. CASE Dies(v)
  <2>1. /\ s.on \in Present /\ t.on \in Present /\ now = hit /\ t.cell = s.cell /\ ~t.alive
    BY <1>1, <1>9 DEF Dies
  <2>2. PICK n \in Fit(v) : n.id = v /\ n.type = "DIE" /\ r = queue \o <<n>>
    BY <1>1, <1>9 DEF Dies
  <2>3. n \in Notices BY FitTypes
  <2>4. AvatarOK(Append(queue, n), c, v, t, hit)
    BY <1>2, <2>1, <2>2, <2>3, AvatarDies
  <2>5. r = Append(queue, n) BY <2>2, <2>3
  <2> QED BY <2>1, <2>4, <2>5
<1>10. CASE Arrives(v)
  <2>1. /\ s.on = "new" /\ t.on \in Present /\ now = hit /\ t.alive = s.alive
    BY <1>1, <1>10 DEF Arrives
  <2>2. PICK n \in Fit(v), q \in Seq(News(v)) :
          n.id = v /\ n.type = "LOGIN_ACK" /\ n.cell = t.cell /\ r = <<n>> \o q
    BY <1>1, <1>10 DEF Arrives
  <2>3. s.alive \in BOOLEAN BY <1>1, <1>4 DEF ViewInv, TypeOK, UserStates
  <2>4. c = FreshClient /\ t.alive = TRUE BY <1>2, <2>1, <2>3 DEF AvatarOK
  <2>5. n \in Notices /\ <<n>> \in Seq(Notices) BY FitTypes
  <2>6. AvatarOK(<<n>>, c, v, t, hit) BY <2>1, <2>2, <2>4, <2>5, AvatarLogin
  <2>7. AvatarOK(<<n>> \o q, c, v, t, hit) BY <2>1, <2>5, <2>6, AvatarNews
  <2> QED BY <2>1, <2>2, <2>7
<1> QED BY <1>5, <1>6, <1>7, <1>8, <1>9, <1>10 DEF Concerns

\* A step of the server.
LEMMA ServerStep ==
  ASSUME ViewInv, UNCHANGED <<client, late, unsure>>,
         user' \in [Users -> UserStates], monster' \in [Monsters -> MonsterStates],
         viewList' \in [Monsters -> SUBSET Users],
         ground' \in [Items -> Cells \cup {None}], fresh' \subseteq Items,
         steps' \in 0 .. MaxSteps, deaths' \in 0 .. MaxDeaths,
         struck \subseteq struck', struck' \subseteq Users,
         stray' \subseteq Users, untold' \subseteq Users,
         chan' = [v \in Viewers |-> chan'[v]], \A v \in Viewers : Concerns(v)
  PROVE  Kept
<1>1. \A v \in Viewers : chan'[v] \in Seq(Fit(v)) BY ConcernsType
<1>2. \A v \in Viewers : chan'[v] \in Seq(Notices) BY <1>1, FitTypes
<1>3. TypeOK' BY <1>2 DEF ViewInv, TypeOK
<1>4. ViewInv' BY <1>1, <1>3 DEF ViewInv, Fit
<1>5. ASSUME Patient, AvatarInv PROVE AvatarInv'
  <2> SUFFICES ASSUME NEW v \in Viewers
               PROVE  AvatarOK(chan'[v], client'[v], v, user'[v], struck')
    BY DEF AvatarInv
  <2>1. AvatarOK(chan[v], client[v], v, user[v], struck) BY <1>5 DEF AvatarInv
  <2> QED BY <1>5, <2>1, ConcernsAvatar
<1> QED BY <1>4, <1>5 DEF Kept

-----------------------------------------------------------------------------
(***************************************************************************)
(* What the handlers post                                                  *)
(***************************************************************************)

LEMMA NoticeLemma ==
  ASSUME TypeOK, NEW type \in Types, NEW s \in Subjects, NEW c \in Cells \cup {None},
         type \in Placing \cup {"ADD"} => c \in Cells, type = "EQUIP" => s \in Users
  PROVE  /\ Notice(type, s, c) \in Notices
         /\ Notice(type, s, c).id = s /\ Notice(type, s, c).type = type
         /\ Notice(type, s, c).cell = c
         /\ Notice(type, s, c) \in Fit(s)
         /\ \A v : v # s /\ type # "LOGIN_ACK" => Notice(type, s, c) \in News(v)
<1>1. Armed(s) \in BOOLEAN BY DEF Armed
<1>2. PICK n : n = Notice(type, s, c) OBVIOUS
<1>3. n \in Notices /\ n.id = s /\ n.type = type /\ n.cell = c
  BY <1>1, <1>2 DEF Notice, Notices
<1>4. n \in Fit(s) BY <1>3 DEF Fit
<1>5. \A v : v # s /\ type # "LOGIN_ACK" => n \in News(v) BY <1>3 DEF News, Fit
<1> QED BY <1>2, <1>3, <1>4, <1>5

\* The notices about subjects, to others than themselves.
LEMMA NewsLemma ==
  ASSUME TypeOK, NEW v, NEW s \in Subjects, v # s
  PROVE  /\ <<Removal(s)>> \in Seq(News(v))
         /\ <<Notice("DIE", s, None)>> \in Seq(News(v))
         /\ \A c \in Cells : /\ <<Notice("ADD", s, c)>> \in Seq(News(v))
                             /\ <<Notice("MOVE", s, c)>> \in Seq(News(v))
                             /\ <<Notice("RESPAWN", s, c)>> \in Seq(News(v))
<1>1. Removal(s) \in News(v)
  BY NoticeLemma DEF Removal, Types, Placing
<1>2. Notice("DIE", s, None) \in News(v)
  BY NoticeLemma DEF Types, Placing
<1>3. ASSUME NEW c \in Cells
      PROVE  /\ Notice("ADD", s, c) \in News(v) /\ Notice("MOVE", s, c) \in News(v)
             /\ Notice("RESPAWN", s, c) \in News(v)
  BY NoticeLemma DEF Types
<1> QED BY <1>1, <1>2, <1>3

\* What a user sees is others, where they are.
LEMMA SightLemma ==
  ASSUME TypeOK, NEW u \in Users, NEW c
  PROVE  /\ CollectSubjects(u, c) \subseteq Subjects \ {u}
         /\ \A s \in CollectSubjects(u, c) : CellOf(s) \in Cells
         /\ Visible(u) \subseteq Subjects \ {u}
         /\ \A v \in Visible(u) \cap Users : Exists(v)
<1>1. ASSUME NEW e
      PROVE  /\ CollectSubjects(u, e) \subseteq Subjects \ {u}
             /\ \A s \in CollectSubjects(u, e) : CellOf(s) \in Cells
             /\ \A v \in CollectSubjects(u, e) \cap Users : Exists(v)
  <2> SUFFICES ASSUME NEW s \in CollectSubjects(u, e)
               PROVE  /\ s \in Subjects \ {u} /\ CellOf(s) \in Cells
                      /\ s \in Users => Exists(s)
    OBVIOUS
  <2>1. CASE s \in CollectUsers(e) \ {u}
    BY <2>1 DEF CollectUsers, Subjects, CellOf, TypeOK, UserStates, InGrid, Exists
  <2>2. CASE s \in Monsters
    <3>1. s \notin Users BY <2>2, ViewAssumption
    <3> QED BY <2>2, <3>1 DEF Subjects, CellOf, TypeOK, MonsterStates
  <2>3. CASE s \in Items /\ ground[s] # None
    <3>1. s \notin Users \cup Monsters BY <2>3, ViewAssumption
    <3> QED BY <2>3, <3>1 DEF Subjects, CellOf, TypeOK
  <2> QED BY <2>1, <2>2, <2>3 DEF CollectSubjects
<1>2. Visible(u) \subseteq CollectSubjects(u, user[u].cell) BY DEF Visible
<1> QED BY <1>1, <1>2

LEMMA FiniteSubjects ==
  ASSUME NEW S \in SUBSET Subjects
  PROVE  IsFiniteSet(S)
<1>1. IsFiniteSet(Users \cup Monsters) BY ViewAssumption, FS_Union
<1>2. IsFiniteSet(Subjects) BY <1>1, ViewAssumption, FS_Union DEF Subjects
<1> QED BY <1>2, FS_Subset

LEMMA AddsType ==
  ASSUME TypeOK, NEW u \in Users, NEW S \in SUBSET (Subjects \ {u}),
         \A s \in S : CellOf(s) \in Cells
  PROVE  Adds(S) \in Seq(News(u))
<1> DEFINE f == [s \in S |-> Notice("ADD", s, CellOf(s))]
           T == {Notice("ADD", s, CellOf(s)) : s \in S}
<1>1. IsFiniteSet(S) BY FiniteSubjects
<1>2. T = {f[s] : s \in S} OBVIOUS
<1>3. T \subseteq News(u)
  <2> SUFFICES ASSUME NEW s \in S PROVE Notice("ADD", s, CellOf(s)) \in News(u) OBVIOUS
  <2>1. PICK c \in Cells : c = CellOf(s) OBVIOUS
  <2>2. Notice("ADD", s, c) \in News(u) BY NoticeLemma DEF Types
  <2> QED BY <2>1, <2>2
<1>4. DOMAIN f = S OBVIOUS
<1>5. Adds(S) = SetToSeq(T) BY DEF Adds
<1> HIDE DEF f, T
<1>6. IsFiniteSet(T) BY <1>1, <1>2, <1>4, FiniteValues
<1>7. SetToSeq(T) \in Seq(T) BY <1>6, SetToSeqLemma
<1> QED BY <1>3, <1>5, <1>7

LEMMA RemovalsType ==
  ASSUME TypeOK, NEW u \in Users, NEW S \in SUBSET (Subjects \ {u})
  PROVE  Removals(S) \in Seq(News(u))
<1> DEFINE f == [s \in S |-> Removal(s)]
           T == {Removal(s) : s \in S}
<1>1. IsFiniteSet(S) BY FiniteSubjects
<1>2. T = {f[s] : s \in S} OBVIOUS
<1>3. T \subseteq News(u)
  <2> SUFFICES ASSUME NEW s \in S PROVE Removal(s) \in News(u) OBVIOUS
  <2> QED BY NoticeLemma DEF Types, Removal, Placing
<1>4. DOMAIN f = S OBVIOUS
<1>5. Removals(S) = SetToSeq(T) BY DEF Removals
<1> HIDE DEF f, T
<1>6. IsFiniteSet(T) BY <1>1, <1>2, <1>4, FiniteValues
<1>7. SetToSeq(T) \in Seq(T) BY <1>6, SetToSeqLemma
<1> QED BY <1>3, <1>5, <1>7

\* NotifyPlayerEnteredWorld.
LEMMA EnteredType ==
  ASSUME TypeOK, NEW u \in Users, NEW c \in Cells, NEW type \in {"ADD", "RESPAWN"},
         NEW v \in Users
  PROVE  Entered(u, c, type)[v] \in Seq(News(v))
<1>1. CASE v = u
  <2>1. Entered(u, c, type)[v] = Adds(CollectSubjects(u, c)) BY <1>1 DEF Entered
  <2>2. Adds(CollectSubjects(u, c)) \in Seq(News(u)) BY SightLemma, AddsType
  <2> QED BY <1>1, <2>1, <2>2
<1>2. CASE v # u
  <2>1. u \in Subjects BY DEF Subjects
  <2>2. <<Notice(type, u, c)>> \in Seq(News(v)) BY <1>2, <2>1, NewsLemma
  <2>3. \/ Entered(u, c, type)[v] = <<Notice(type, u, c)>>
        \/ Entered(u, c, type)[v] = <<>>
    BY <1>2 DEF Entered
  <2>4. <<>> \in Seq(News(v)) OBVIOUS
  <2> QED BY <2>2, <2>3, <2>4
<1> QED BY <1>1, <1>2

\* What is posted to a viewer that the step does not change.
LEMMA PostLemma ==
  ASSUME ViewInv, NEW out, Post(out), NEW v \in Viewers, user'[v] = user[v],
         out[v] \in Seq(News(v))
  PROVE  Concerns(v)
<1>1. chan'[v] = IF Exists(v) THEN chan[v] \o out[v] ELSE <<>> BY DEF Post
<1>2. CASE Exists(v)
  <2>1. Hears(v) BY <1>1, <1>2 DEF Hears, Exists, Present
  <2> QED BY <2>1 DEF Concerns
<1>3. CASE ~Exists(v)
  <2>1. Away(v) BY <1>1, <1>3 DEF Away, Exists, Present
  <2> QED BY <2>1 DEF Concerns
<1> QED BY <1>2, <1>3

\* The same notice to all users that see a cell.
LEMMA TellLemma ==
  ASSUME ViewInv, NEW notice, NEW c, Tell(c, notice), NEW v \in Viewers, user'[v] = user[v],
         <<notice>> \in Seq(News(v))
  PROVE  Concerns(v)
<1> DEFINE out == [w \in Viewers |-> IF w \in CollectUsers(c) THEN <<notice>> ELSE <<>>]
<1>1. Post(out) BY DEF Tell
<1>2. out[v] = <<notice>> \/ out[v] = <<>> OBVIOUS
<1>3. <<>> \in Seq(News(v)) OBVIOUS
<1>4. out[v] \in Seq(News(v)) BY <1>2, <1>3
<1> HIDE DEF out
<1> QED BY <1>1, <1>4, PostLemma

LEMMA PostDomain ==
  ASSUME NEW out, Post(out)
  PROVE  chan' = [v \in Viewers |-> chan'[v]]
BY DEF Post

\* The parts of the type invariant that a step leaves alone.
LEMMA ServerTypes ==
  ASSUME ViewInv
  PROVE  /\ TypeOK
         /\ user \in [Users -> UserStates] /\ monster \in [Monsters -> MonsterStates]
         /\ viewList \in [Monsters -> SUBSET Users]
         /\ ground \in [Items -> Cells \cup {None}] /\ fresh \subseteq Items
         /\ steps \in 0 .. MaxSteps /\ deaths \in 0 .. MaxDeaths
         /\ struck \subseteq Users /\ Viewers \subseteq Users
         /\ stray \subseteq Users /\ untold \subseteq Users
         /\ chan = [v \in Viewers |-> chan[v]]
         /\ Counted => steps' \in 0 .. MaxSteps
         /\ Fatal => deaths' \in 0 .. MaxDeaths
<1>1. /\ TypeOK
      /\ user \in [Users -> UserStates] /\ monster \in [Monsters -> MonsterStates]
      /\ viewList \in [Monsters -> SUBSET Users]
      /\ ground \in [Items -> Cells \cup {None}] /\ fresh \subseteq Items
      /\ steps \in 0 .. MaxSteps /\ deaths \in 0 .. MaxDeaths
      /\ struck \subseteq Users /\ Viewers \subseteq Users
      /\ stray \subseteq Users /\ untold \subseteq Users
  BY ViewAssumption DEF ViewInv, TypeOK
<1>2. chan = [v \in Viewers |-> chan[v]] BY DEF ViewInv, TypeOK
<1>3. MaxSteps \in Nat /\ MaxDeaths \in Nat BY ViewAssumption
<1> QED BY <1>1, <1>2, <1>3 DEF Counted, Fatal

\* One user changes.
LEMMA UserChange ==
  ASSUME TypeOK, NEW u \in Users, NEW t \in UserStates, user' = [user EXCEPT ![u] = t]
  PROVE  /\ user' \in [Users -> UserStates] /\ user'[u] = t
         /\ \A v \in Users \ {u} : user'[v] = user[v]
BY DEF TypeOK

-----------------------------------------------------------------------------
(***************************************************************************)
(* The handlers                                                            *)
(***************************************************************************)

LEMMA LoginStep ==
  ASSUME ViewInv, NEW u \in Users, Login(u)
  PROVE  Kept
<1>0. PICK c \in Cells : \E out :
        /\ out = Entered(u, c, "ADD")
        /\ user' = [user EXCEPT ![u].on = "grid", ![u].cell = c]
        /\ chan' = [v \in Viewers |->
                     IF v = u THEN <<Notice("LOGIN_ACK", u, c)>> \o out[u]
                     ELSE IF Exists(v) THEN chan[v] \o out[v] ELSE <<>>]
  BY DEF Login
<1>1. TypeOK BY ServerTypes
<1>2. PICK out :
        /\ out = Entered(u, c, "ADD")
        /\ user' = [user EXCEPT ![u].on = "grid", ![u].cell = c]
        /\ chan' = [v \in Viewers |->
                     IF v = u THEN <<Notice("LOGIN_ACK", u, c)>> \o out[u]
                     ELSE IF Exists(v) THEN chan[v] \o out[v] ELSE <<>>]
  BY <1>0
<1>3. PICK t : t = [user[u] EXCEPT !.on = "grid", !.cell = c] OBVIOUS
<1>4. t \in UserStates /\ t.on = "grid" /\ t.cell = c /\ t.alive = user[u].alive
  <2>1. user[u] \in UserStates BY <1>1 DEF TypeOK
  <2> QED BY <1>3, <2>1 DEF UserStates
<1>5. user' = [user EXCEPT ![u] = t] BY <1>1, <1>2, <1>3 DEF TypeOK, UserStates
<1>6. /\ user' \in [Users -> UserStates] /\ user'[u] = t
      /\ \A v \in Users \ {u} : user'[v] = user[v]
  BY <1>1, <1>4, <1>5, UserChange
<1>7. \A v \in Users : out[v] \in Seq(News(v)) BY <1>1, <1>2, EnteredType
<1>8. ASSUME NEW v \in Viewers PROVE Concerns(v)
  <2>1. v \in Users BY ViewAssumption
  <2>2. CASE v = u
    <3>1. PICK n : n = Notice("LOGIN_ACK", u, c) OBVIOUS
    <3>2. u \in Subjects BY DEF Subjects
    <3>3. n \in Fit(u) /\ n.id = u /\ n.type = "LOGIN_ACK" /\ n.cell = c
      BY <1>1, <3>1, <3>2, NoticeLemma DEF Types
    <3>4. chan'[v] = <<n>> \o out[v] BY <1>2, <2>2, <3>1
    <3>5. user[u].on = "new" /\ struck' = struck BY DEF Login, observed
    <3>6. Arrives(v)
      BY <1>4, <1>6, <1>7, <2>1, <2>2, <3>3, <3>4, <3>5 DEF Arrives, Present
    <3> QED BY <3>6 DEF Concerns
  <2>3. CASE v # u
    <3>1. chan'[v] = IF Exists(v) THEN chan[v] \o out[v] ELSE <<>> BY <1>2, <2>3
    <3>2. user'[v] = user[v] BY <1>6, <2>1, <2>3
    <3>3. CASE Exists(v)
      <4>1. Hears(v) BY <1>7, <2>1, <3>1, <3>2, <3>3 DEF Hears, Exists, Present
      <4> QED BY <4>1 DEF Concerns
    <3>4. CASE ~Exists(v)
      <4>1. Away(v) BY <3>1, <3>2, <3>4 DEF Away, Exists, Present
      <4> QED BY <4>1 DEF Concerns
    <3> QED BY <3>3, <3>4
  <2> QED BY <2>2, <2>3
<1>9. chan' = [v \in Viewers |-> chan'[v]] BY <1>2
<1>10. UNCHANGED <<monster, viewList, ground, fresh, client, steps, deaths, late, unsure, struck,
                 stray, untold>>
  BY DEF Login, field, bounds, observed
<1> QED BY <1>6, <1>8, <1>9, <1>10, ServerTypes, ServerStep

\* A move, on whatever thread: the user is told of it before anything else.
LEMMA MovedStep ==
  ASSUME ViewInv, NEW u \in Users, Moves(u), NEW c \in Cells,
         NEW t \in UserStates, user' = [user EXCEPT ![u] = t],
         t.on \in Present, t.cell = c, t.alive = user[u].alive,
         NEW out, Post(out), \A v \in Viewers \ {u} : out[v] \in Seq(News(v)),
         u \in Viewers => \E q \in Seq(News(u)) : out[u] = <<Notice("MOVE", u, c)>> \o q,
         UNCHANGED <<monster, viewList, field, client, deaths, late, unsure, struck>>,
         stray' \subseteq Users, untold' \subseteq Users
  PROVE  Kept
<1>1. TypeOK BY ServerTypes
<1>2. u \in Subjects BY DEF Subjects
<1>3. /\ user' \in [Users -> UserStates] /\ user'[u] = t
      /\ \A v \in Users \ {u} : user'[v] = user[v]
  BY <1>1, UserChange
<1>4. struck' = struck OBVIOUS
<1>5. ASSUME NEW v \in Viewers PROVE Concerns(v)
  <2>1. v \in Users BY ViewAssumption
  <2>2. CASE v = u
    <3>1. PICK q \in Seq(News(u)) : out[u] = <<Notice("MOVE", u, c)>> \o q BY <2>2
    <3>2. PICK n : n = Notice("MOVE", u, c) OBVIOUS
    <3>3. n \in Fit(u) /\ n.id = u /\ n.type = "MOVE" /\ n.cell = c
      BY <1>1, <1>2, <3>2, NoticeLemma DEF Types
    <3>4. user[u].on \in Present /\ Settled(u) /\ Exists(u)
      BY DEF Moves, Exists, Present
    <3>5. chan'[v] = chan[v] \o (<<n>> \o q) BY <2>2, <3>1, <3>2, <3>4 DEF Post
    <3>6. /\ user'[v].on \in Present /\ user'[v].cell = c /\ user'[v].alive = user[v].alive
          /\ user[v].on \in Present /\ Settled(v)
          /\ n \in Fit(v) /\ n.id = v /\ n.type = "MOVE" /\ n.cell = c /\ q \in Seq(News(v))
      BY <1>3, <2>2, <3>3, <3>4
    <3>7. Moved(v) BY <1>4, <3>5, <3>6 DEF Moved
    <3> QED BY <3>7 DEF Concerns
  <2>3. CASE v # u
    <3>1. user'[v] = user[v] /\ out[v] \in Seq(News(v)) BY <1>3, <2>1, <2>3
    <3> QED BY <3>1, PostLemma
  <2> QED BY <2>2, <2>3
<1>6. chan' = [v \in Viewers |-> chan'[v]] BY PostDomain
<1>7. UNCHANGED <<monster, viewList, ground, fresh, client, deaths, late, unsure, struck>>
      /\ Counted
  BY DEF Moves, field
<1> QED BY <1>3, <1>5, <1>6, <1>7, ServerTypes, ServerStep

\* HandlePlayerMove, inside a zone or out of it.
LEMMA MoveStep ==
  ASSUME ViewInv, NEW u \in Users, Moves(u), NEW c \in Cells, HandlePlayerMove(u, c),
         UNCHANGED <<monster, viewList, field, client, deaths, observed>>
  PROVE  Kept
<1>1. TypeOK BY ServerTypes
<1>2. u \in Subjects BY DEF Subjects
<1>3. PICK t, out :
        /\ user' = [user EXCEPT ![u] = t] /\ t \in UserStates
        /\ t.on \in Present /\ t.cell = c /\ t.alive = user[u].alive
        /\ Post(out)
        /\ \A v \in Viewers \ {u} : out[v] \in Seq(News(v))
        /\ u \in Viewers => \E q \in Seq(News(u)) : out[u] = <<Notice("MOVE", u, c)>> \o q
  <2>1. user[u].on \in Present BY DEF Moves, Exists, Present
  <2>2. /\ Visible(u) \in SUBSET (Subjects \ {u})
        /\ CollectSubjects(u, c) \in SUBSET (Subjects \ {u})
        /\ \A s \in CollectSubjects(u, c) : CellOf(s) \in Cells
    BY <1>1, SightLemma
  <2>3. <<>> \in Seq(News(u)) /\ \A v : <<>> \in Seq(News(v)) OBVIOUS
  <2>4. CASE MoveInZone(u, c)
    <3> DEFINE old == Visible(u)
               new == CollectSubjects(u, c)
               moved == c # user[u].cell
               tail == IF moved THEN Adds(new \ old) \o Removals(old \ new) ELSE <<>>
               out == [v \in Viewers |->
                 IF v = u THEN <<Notice("MOVE", u, c)>> \o tail
                 ELSE IF ~moved \/ v \notin old \cup new THEN <<>>
                 ELSE IF v \notin old THEN <<Notice("ADD", u, c)>>
                 ELSE IF v \in new THEN <<Notice("MOVE", u, c)>>
                 ELSE <<Removal(u)>>]
    <3>1. Post(out) /\ user' = [user EXCEPT ![u].cell = c] BY <2>4 DEF MoveInZone
    <3>2. tail \in Seq(News(u))
      <4>1. Adds(new \ old) \in Seq(News(u)) BY <1>1, <2>2, AddsType
      <4>2. Removals(old \ new) \in Seq(News(u)) BY <1>1, <2>2, RemovalsType
      <4> HIDE DEF old, new
      <4> QED BY <2>3, <4>1, <4>2
    <3>3. u \in Viewers => out[u] = <<Notice("MOVE", u, c)>> \o tail OBVIOUS
    <3>4. ASSUME NEW v \in Viewers \ {u} PROVE out[v] \in Seq(News(v))
      <4>1. \/ out[v] = <<>> \/ out[v] = <<Notice("ADD", u, c)>>
            \/ out[v] = <<Notice("MOVE", u, c)>> \/ out[v] = <<Removal(u)>>
        OBVIOUS
      <4>2. /\ <<Notice("ADD", u, c)>> \in Seq(News(v)) /\ <<Removal(u)>> \in Seq(News(v))
            /\ <<Notice("MOVE", u, c)>> \in Seq(News(v))
        BY <1>1, <1>2, <3>4, NewsLemma
      <4> HIDE DEF out
      <4> QED BY <2>3, <4>1, <4>2
    <3> HIDE DEF out, tail
    <3>5. PICK t : t = [user[u] EXCEPT !.cell = c] OBVIOUS
    <3>6. t \in UserStates /\ t.on = user[u].on /\ t.cell = c /\ t.alive = user[u].alive
      <4>1. user[u] \in UserStates BY <1>1 DEF TypeOK
      <4> QED BY <3>5, <4>1 DEF UserStates
    <3>7. user' = [user EXCEPT ![u] = t] BY <1>1, <3>1, <3>5 DEF TypeOK, UserStates
    <3>8. t.on \in Present BY <2>1, <3>6
    <3>9. u \in Viewers => \E q \in Seq(News(u)) : out[u] = <<Notice("MOVE", u, c)>> \o q
      BY <3>2, <3>3
    <3> HIDE DEF old, new
    <3>10. /\ user' = [user EXCEPT ![u] = t] /\ t \in UserStates
           /\ t.on \in Present /\ t.cell = c /\ t.alive = user[u].alive
           /\ Post(out)
           /\ \A v \in Viewers \ {u} : out[v] \in Seq(News(v))
           /\ u \in Viewers => \E q \in Seq(News(u)) : out[u] = <<Notice("MOVE", u, c)>> \o q
      BY <3>1, <3>4, <3>6, <3>7, <3>8, <3>9
    <3> QED BY <3>10, Zenon
  <2>5. CASE HandleZoneTransfer(u, c)
    <3> DEFINE old == Visible(u)
               out == [v \in Viewers |->
                 IF v = u THEN <<Notice("MOVE", u, c)>> \o Removals(old)
                 ELSE IF v \in old THEN <<Removal(u)>> ELSE <<>>]
    <3>1. Post(out) /\ user' = [user EXCEPT ![u].cell = c, ![u].on = "between",
                                              ![u].crossed = TRUE]
      BY <2>5 DEF HandleZoneTransfer
    <3>2. Removals(old) \in Seq(News(u)) BY <1>1, <2>2, RemovalsType
    <3>3. u \in Viewers => out[u] = <<Notice("MOVE", u, c)>> \o Removals(old) OBVIOUS
    <3>4. ASSUME NEW v \in Viewers \ {u} PROVE out[v] \in Seq(News(v))
      <4>1. out[v] = <<>> \/ out[v] = <<Removal(u)>> OBVIOUS
      <4>2. <<Removal(u)>> \in Seq(News(v)) BY <1>1, <1>2, <3>4, NewsLemma
      <4> HIDE DEF out
      <4> QED BY <2>3, <4>1, <4>2
    <3> HIDE DEF out, old
    <3>5. PICK t : t = [user[u] EXCEPT !.cell = c, !.on = "between", !.crossed = TRUE]
      OBVIOUS
    <3>6. t \in UserStates /\ t.on = "between" /\ t.cell = c /\ t.alive = user[u].alive
      <4>1. user[u] \in UserStates BY <1>1 DEF TypeOK
      <4> QED BY <3>5, <4>1 DEF UserStates
    <3>7. user' = [user EXCEPT ![u] = t] BY <1>1, <3>1, <3>5 DEF TypeOK, UserStates
    <3>8. t.on \in Present BY <3>6 DEF Present
    <3>9. u \in Viewers => \E q \in Seq(News(u)) : out[u] = <<Notice("MOVE", u, c)>> \o q
      BY <3>2, <3>3
    <3>10. /\ user' = [user EXCEPT ![u] = t] /\ t \in UserStates
           /\ t.on \in Present /\ t.cell = c /\ t.alive = user[u].alive
           /\ Post(out)
           /\ \A v \in Viewers \ {u} : out[v] \in Seq(News(v))
           /\ u \in Viewers => \E q \in Seq(News(u)) : out[u] = <<Notice("MOVE", u, c)>> \o q
      BY <3>1, <3>4, <3>6, <3>7, <3>8, <3>9
    <3> QED BY <3>10, Zenon
  <2> QED BY <2>4, <2>5 DEF HandlePlayerMove
<1>4. stray' \subseteq Users /\ untold' \subseteq Users
      /\ UNCHANGED <<monster, viewList, field, client, deaths, late, unsure, struck>>
  BY ServerTypes DEF observed
<1> QED BY <1>3, <1>4, MovedStep

\* The same on the thread of a zone left: only the user is told.
LEMMA StrayMoveStep ==
  ASSUME ViewInv, NEW u \in Users, StrayMove(u)
  PROVE  Kept
<1>1. PICK c \in Cells :
        /\ user' = [user EXCEPT ![u].cell = c, ![u].on = "between"]
        /\ Post([v \in Viewers |-> IF v = u THEN <<Notice("MOVE", u, c)>> ELSE <<>>])
  BY DEF StrayMove
<1>2. PICK out :
        out = [v \in Viewers |-> IF v = u THEN <<Notice("MOVE", u, c)>> ELSE <<>>]
  OBVIOUS
<1>3. PICK t : t = [user[u] EXCEPT !.cell = c, !.on = "between"] OBVIOUS
<1>4. t \in UserStates /\ t.on = "between" /\ t.cell = c /\ t.alive = user[u].alive
  <2>1. user[u] \in UserStates BY DEF ViewInv, TypeOK
  <2> QED BY <1>3, <2>1 DEF UserStates
<1>5. user' = [user EXCEPT ![u] = t]
  BY <1>1, <1>3 DEF ViewInv, TypeOK, UserStates
<1>6. \A v : <<>> \in Seq(News(v)) OBVIOUS
<1>7. u \in Viewers => \E q \in Seq(News(u)) : out[u] = <<Notice("MOVE", u, c)>> \o q
  <2>1. PICK n : n = Notice("MOVE", u, c) OBVIOUS
  <2>2. <<n>> \o <<>> = <<n>> OBVIOUS
  <2> QED BY <1>2, <1>6, <2>1, <2>2
<1>8. /\ Moves(u) /\ stray' \subseteq Users /\ untold' \subseteq Users
      /\ UNCHANGED <<monster, viewList, field, client, deaths, late, unsure, struck>>
  BY ServerTypes DEF StrayMove
<1> QED BY <1>1, <1>2, <1>4, <1>5, <1>6, <1>7, <1>8, MovedStep DEF Present

\* A user that is there changes neither its place nor its life.
LEMMA StayStep ==
  ASSUME ViewInv, NEW u \in Users, Exists(u), NEW t \in UserStates,
         user' = [user EXCEPT ![u] = t], t.on \in Present,
         t.cell = user[u].cell, t.alive = user[u].alive,
         NEW out, Post(out), \A v \in Viewers : out[v] \in Seq(News(v)),
         struck' = struck
  PROVE  /\ user' \in [Users -> UserStates] /\ chan' = [v \in Viewers |-> chan'[v]]
         /\ \A v \in Viewers : Concerns(v)
<1>1. /\ user' \in [Users -> UserStates] /\ user'[u] = t
      /\ \A v \in Users \ {u} : user'[v] = user[v]
  BY ServerTypes, UserChange
<1>2. ASSUME NEW v \in Viewers PROVE Concerns(v)
  <2>1. v \in Users BY ViewAssumption
  <2>2. CASE v = u
    <3>1. chan'[v] = chan[v] \o out[v] BY <2>2 DEF Post
    <3>2. /\ user[v].on \in Present /\ user'[v].on \in Present
          /\ user'[v].cell = user[v].cell /\ user'[v].alive = user[v].alive
      BY <1>1, <2>2 DEF Exists, Present
    <3>3. Hears(v) BY <3>1, <3>2 DEF Hears
    <3> QED BY <3>3 DEF Concerns
  <2>3. CASE v # u
    <3>1. user'[v] = user[v] BY <1>1, <2>1, <2>3
    <3> QED BY <3>1, PostLemma
  <2> QED BY <2>2, <2>3
<1> QED BY <1>1, <1>2, PostDomain

LEMMA EnterStep ==
  ASSUME ViewInv, NEW u \in Users, HandleEnterZone(u)
  PROVE  Kept
<1>1. TypeOK BY ServerTypes
<1>2. PICK out : out = Entered(u, user[u].cell, "ADD") OBVIOUS
<1>3. user[u].cell \in Cells BY <1>1 DEF TypeOK, UserStates
<1>4. \A v \in Users : out[v] \in Seq(News(v)) BY <1>1, <1>2, <1>3, EnteredType
<1>5. PICK t : t = [user[u] EXCEPT !.on = "grid"] OBVIOUS
<1>6. /\ t \in UserStates /\ t.on = "grid" /\ t.cell = user[u].cell
      /\ t.alive = user[u].alive
  <2>1. user[u] \in UserStates BY <1>1 DEF TypeOK
  <2> QED BY <1>5, <2>1 DEF UserStates
<1>7. user' = [user EXCEPT ![u] = t] BY <1>1, <1>5 DEF HandleEnterZone, TypeOK, UserStates
<1>8. Exists(u) /\ t.on \in Present /\ Post(out)
  BY <1>2, <1>6 DEF HandleEnterZone, Exists, Present
<1>9. UNCHANGED <<monster, viewList, ground, fresh, client, steps, deaths, late, unsure, struck,
                 stray, untold>>
  BY DEF HandleEnterZone, field, bounds, observed
<1>10. \A v \in Viewers : out[v] \in Seq(News(v)) BY <1>4, ViewAssumption
<1>11. /\ user' \in [Users -> UserStates] /\ chan' = [v \in Viewers |-> chan'[v]]
       /\ \A v \in Viewers : Concerns(v)
  BY <1>6, <1>7, <1>8, <1>9, <1>10, StayStep
<1> QED BY <1>9, <1>11, ServerTypes, ServerStep

LEMMA EquipStep ==
  ASSUME ViewInv, NEW u \in Users, EquipChange(u)
  PROVE  Kept
<1>1. TypeOK BY ServerTypes
<1> DEFINE n == [Notice("EQUIP", u, None) EXCEPT !.armed = ~user[u].armed]
           out == [v \in Viewers |-> IF v \in Visible(u) THEN <<n>> ELSE <<>>]
<1>2. Post(out) BY DEF EquipChange
<1>3. user[u].armed \in BOOLEAN BY <1>1 DEF TypeOK, UserStates
<1>4. n = [type |-> "EQUIP", id |-> u, cell |-> None, armed |-> ~user[u].armed]
  BY DEF Notice
<1>5. ASSUME NEW v \in Viewers PROVE out[v] \in Seq(News(v))
  <2>1. CASE v \in Visible(u)
    <3>1. v # u BY <1>1, <2>1, SightLemma
    <3>2. n \in Notices /\ n.id = u /\ n.type = "EQUIP"
      BY <1>3, <1>4 DEF Notices, Types, Subjects
    <3> HIDE DEF n
    <3>3. n \in News(v) BY <3>1, <3>2 DEF News, Fit, Placing
    <3> QED BY <2>1, <3>3
  <2>2. CASE v \notin Visible(u) BY <2>2
  <2> QED BY <2>1, <2>2
<1> HIDE DEF out, n
<1>6. PICK t : t = [user[u] EXCEPT !.armed = ~user[u].armed] OBVIOUS
<1>7. /\ t \in UserStates /\ t.on = user[u].on /\ t.cell = user[u].cell
      /\ t.alive = user[u].alive
  <2>1. user[u] \in UserStates BY <1>1 DEF TypeOK
  <2> QED BY <1>6, <2>1 DEF UserStates
<1>8. user' = [user EXCEPT ![u] = t] BY <1>1, <1>6 DEF EquipChange, TypeOK, UserStates
<1>9. Exists(u) /\ t.on \in Present /\ Counted BY <1>7 DEF EquipChange, Exists, Present
<1>10. /\ UNCHANGED <<monster, viewList, ground, fresh, client, deaths, late, unsure, struck,
                      stray>>
       /\ untold' \subseteq Users
  BY ServerTypes DEF EquipChange, field
<1>11. /\ user' \in [Users -> UserStates] /\ chan' = [v \in Viewers |-> chan'[v]]
       /\ \A v \in Viewers : Concerns(v)
  BY <1>2, <1>5, <1>7, <1>8, <1>9, <1>10, StayStep
<1> QED BY <1>9, <1>10, <1>11, ServerTypes, ServerStep

LEMMA StrayEquipStep ==
  ASSUME ViewInv, NEW u \in Users, StrayEquip(u)
  PROVE  Kept
<1>1. PICK t : t = [user[u] EXCEPT !.armed = ~user[u].armed] OBVIOUS
<1>2. /\ t \in UserStates /\ t.on = user[u].on /\ t.cell = user[u].cell
      /\ t.alive = user[u].alive
  <2>1. user[u] \in UserStates BY DEF ViewInv, TypeOK
  <2> QED BY <1>1, <2>1 DEF UserStates
<1>3. user' = [user EXCEPT ![u] = t]
  BY <1>1 DEF StrayEquip, ViewInv, TypeOK, UserStates
<1>4. /\ user' \in [Users -> UserStates] /\ user'[u] = t
      /\ \A v \in Users \ {u} : user'[v] = user[v]
  BY <1>2, <1>3, ServerTypes, UserChange
<1>5. user[u].on \in Present /\ Counted
  BY DEF StrayEquip, Misrouted, InGrid, Present
<1>6. /\ UNCHANGED <<monster, viewList, ground, fresh, client, deaths, late, unsure, struck,
                     stray, chan>>
      /\ untold' \subseteq Users
  BY ServerTypes DEF StrayEquip, field
<1>7. ASSUME NEW v \in Viewers PROVE Concerns(v)
  <2>1. v \in Users /\ chan[v] \in Seq(Notices) BY ViewAssumption DEF ViewInv, TypeOK
  <2>2. CASE user[v].on \in Present
    <3>1. chan'[v] = chan[v] \o <<>> /\ <<>> \in Seq(News(v)) BY <1>6, <2>1
    <3>2. user'[v].on \in Present /\ user'[v].cell = user[v].cell
          /\ user'[v].alive = user[v].alive
      BY <1>2, <1>4, <2>1, <2>2
    <3>3. Hears(v) BY <1>6, <2>2, <3>1, <3>2 DEF Hears
    <3> QED BY <3>3 DEF Concerns
  <2>3. CASE user[v].on \notin Present
    <3>1. user'[v] = user[v] BY <1>4, <1>5, <2>1, <2>3
    <3>2. Away(v) BY <1>6, <2>3, <3>1 DEF Away
    <3> QED BY <3>2 DEF Concerns
  <2> QED BY <2>2, <2>3
<1>8. chan' = [v \in Viewers |-> chan'[v]] BY <1>6, ServerTypes
<1> QED BY <1>4, <1>5, <1>6, <1>7, <1>8, ServerTypes, ServerStep

\* A disconnect of which the users of S that see it go are told.
LEMMA OutStep ==
  ASSUME ViewInv, NEW u \in Users, Counted, user' = [user EXCEPT ![u].on = "out"],
         NEW S, S \subseteq Visible(u),
         chan' = [v \in Viewers |->
           IF v = u THEN <<>>
           ELSE IF v \in S THEN Append(chan[v], Removal(u)) ELSE chan[v]],
         UNCHANGED <<monster, viewList, field, client, deaths, late, unsure, struck>>,
         stray' \subseteq Users, untold' \subseteq Users
  PROVE  Kept
<1>1. TypeOK BY ServerTypes
<1>2. PICK t : t = [user[u] EXCEPT !.on = "out"] OBVIOUS
<1>3. t \in UserStates /\ t.on = "out"
  <2>1. user[u] \in UserStates BY <1>1 DEF TypeOK
  <2> QED BY <1>2, <2>1 DEF UserStates
<1>4. user' = [user EXCEPT ![u] = t] BY <1>1, <1>2 DEF TypeOK, UserStates
<1>5. /\ user' \in [Users -> UserStates] /\ user'[u] = t
      /\ \A v \in Users \ {u} : user'[v] = user[v]
  BY <1>1, <1>3, <1>4, UserChange
<1>6. chan' = [v \in Viewers |->
         IF v = u THEN <<>>
         ELSE IF v \in S THEN Append(chan[v], Removal(u)) ELSE chan[v]]
  OBVIOUS
<1>7. UNCHANGED <<monster, viewList, ground, fresh, client, deaths, late, unsure, struck>>
  BY DEF field
<1>8. ASSUME NEW v \in Viewers PROVE Concerns(v)
  <2>1. v \in Users /\ chan[v] \in Seq(Notices) BY ViewAssumption DEF ViewInv, TypeOK
  <2>2. CASE v = u
    <3>1. Leaves(v) BY <1>3, <1>5, <1>6, <2>2 DEF Leaves
    <3> QED BY <3>1 DEF Concerns
  <2>3. CASE v # u
    <3>1. user'[v] = user[v] BY <1>5, <2>1, <2>3
    <3>2. CASE v \in S
      <4>1. u \in Subjects BY DEF Subjects
      <4>2. <<Removal(u)>> \in Seq(News(v)) BY <1>1, <2>3, <4>1, NewsLemma
      <4>3. chan'[v] = Append(chan[v], Removal(u)) BY <1>6, <2>3, <3>2
      <4>4. Append(chan[v], Removal(u)) = chan[v] \o <<Removal(u)>> BY <2>1
      <4>5. user[v].on \in Present BY <1>1, <2>1, <3>2, SightLemma DEF Exists, Present
      <4>6. Hears(v) BY <3>1, <4>2, <4>3, <4>4, <4>5 DEF Hears
      <4> QED BY <4>6 DEF Concerns
    <3>3. CASE v \notin S
      <4>1. chan'[v] = chan[v] BY <1>6, <2>3, <3>3
      <4>2. CASE user[v].on \in Present
        <5>1. chan'[v] = chan[v] \o <<>> /\ <<>> \in Seq(News(v)) BY <2>1, <4>1
        <5>2. Hears(v) BY <3>1, <4>2, <5>1 DEF Hears
        <5> QED BY <5>2 DEF Concerns
      <4>3. CASE user[v].on \notin Present
        <5>1. Away(v) BY <3>1, <4>1, <4>3 DEF Away
        <5> QED BY <5>1 DEF Concerns
      <4> QED BY <4>2, <4>3
    <3> QED BY <3>2, <3>3
  <2> QED BY <2>2, <2>3
<1>9. chan' = [v \in Viewers |-> chan'[v]] BY <1>6
<1> QED BY <1>5, <1>7, <1>8, <1>9, ServerTypes, ServerStep

LEMMA DisconnectStep ==
  ASSUME ViewInv, NEW u \in Users, Disconnect(u) \/ StrayDisconnect(u)
  PROVE  Kept
<1>1. /\ Counted /\ user' = [user EXCEPT ![u].on = "out"]
      /\ UNCHANGED <<monster, viewList, field, client, deaths, late, unsure, struck>>
      /\ stray' \subseteq Users /\ untold' \subseteq Users
  BY ServerTypes DEF Disconnect, StrayDisconnect, observed
<1>2. CASE Disconnect(u)
  <2>1. chan' = [v \in Viewers |->
          IF v = u THEN <<>>
          ELSE IF v \in Visible(u) THEN Append(chan[v], Removal(u)) ELSE chan[v]]
    BY <1>2 DEF Disconnect
  <2> QED BY <1>1, <2>1, OutStep
<1>3. CASE StrayDisconnect(u)
  <2>1. PICK S : S = {} OBVIOUS
  <2>2. chan' = [v \in Viewers |->
          IF v = u THEN <<>>
          ELSE IF v \in S THEN Append(chan[v], Removal(u)) ELSE chan[v]]
    BY <1>3, <2>1 DEF StrayDisconnect
  <2>3. S \subseteq Visible(u) BY <2>1
  <2> QED BY <1>1, <2>2, <2>3, OutStep
<1> QED BY <1>2, <1>3

LEMMA KillUserStep ==
  ASSUME ViewInv, NEW u \in Users, KillUser(u)
  PROVE  Kept
<1>1. TypeOK BY ServerTypes
<1>2. PICK m \in Monsters, here \in BOOLEAN :
        /\ here = (InGrid(u) /\ ZoneOf[monster[m].cell] = ZoneOf[user[u].cell])
        /\ user' = [user EXCEPT ![u].alive = FALSE, ![u].on = IF here THEN "off" ELSE @]
        /\ IF here THEN Tell(user[u].cell, Notice("DIE", u, None)) ELSE UNCHANGED chan
        /\ struck' = IF here THEN struck ELSE struck \cup {u}
  BY DEF KillUser
<1>3. PICK t : t = [user[u] EXCEPT !.alive = FALSE, !.on = IF here THEN "off" ELSE @]
  OBVIOUS
<1>4. /\ user[u].on \in Present /\ Exists(u) BY DEF KillUser, Exists, Present
<1>5. /\ t \in UserStates /\ t.on \in Present /\ t.cell = user[u].cell /\ t.alive = FALSE
  <2>1. user[u] \in UserStates BY <1>1 DEF TypeOK
  <2> QED BY <1>3, <1>4, <2>1 DEF UserStates, Present
<1>6. user' = [user EXCEPT ![u] = t] BY <1>1, <1>2, <1>3 DEF TypeOK, UserStates
<1>7. /\ user' \in [Users -> UserStates] /\ user'[u] = t
      /\ \A v \in Users \ {u} : user'[v] = user[v]
  BY <1>1, <1>5, <1>6, UserChange
<1>8. /\ UNCHANGED <<monster, viewList, ground, fresh, client, steps, late, unsure,
                     stray, untold>>
      /\ Fatal
  BY DEF KillUser, field
<1>9. struck \subseteq struck' /\ struck' \subseteq Users BY <1>2, ServerTypes
<1>10. CASE here
  <2>1. Tell(user[u].cell, Notice("DIE", u, None)) /\ struck' = struck /\ InGrid(u)
    BY <1>2, <1>10
  <2>2. u \in CollectUsers(user[u].cell)
    <3>1. PICK e \in Int : e = user[u].cell
      BY <1>1, ViewAssumption DEF TypeOK, UserStates
    <3>2. Dist(e, e) = 0 BY DEF Dist
    <3>3. CanSee(e, e) BY <3>2, ViewAssumption DEF CanSee
    <3> QED BY <2>1, <3>1, <3>3 DEF CollectUsers
  <2>3. u \in Subjects BY DEF Subjects
  <2>4. ASSUME NEW v \in Viewers PROVE Concerns(v)
    <3>1. v \in Users BY ViewAssumption
    <3>2. CASE v = u
      <4>1. PICK n : n = Notice("DIE", u, None) OBVIOUS
      <4>2. n \in Fit(v) /\ n.id = v /\ n.type = "DIE"
        BY <1>1, <2>3, <3>2, <4>1, NoticeLemma DEF Types, Placing
      <4>3. chan'[v] = chan[v] \o <<n>>
        BY <1>4, <2>1, <2>2, <3>2, <4>1 DEF Tell, Post
      <4>4. /\ user[v].on \in Present /\ user'[v].on \in Present
            /\ user'[v].cell = user[v].cell /\ user'[v].alive = FALSE
        BY <1>4, <1>5, <1>7, <3>2
      <4>5. Dies(v) BY <2>1, <4>2, <4>3, <4>4 DEF Dies
      <4> QED BY <4>5 DEF Concerns
    <3>3. CASE v # u
      <4>1. <<Notice("DIE", u, None)>> \in Seq(News(v)) BY <1>1, <2>3, <3>3, NewsLemma
      <4>2. user'[v] = user[v] BY <1>7, <3>1, <3>3
      <4> QED BY <2>1, <4>1, <4>2, TellLemma
    <3> QED BY <3>2, <3>3
  <2>5. chan' = [v \in Viewers |-> chan'[v]] BY <2>1 DEF Tell, Post
  <2> QED BY <1>7, <1>8, <1>9, <2>4, <2>5, ServerTypes, ServerStep
<1>11. CASE ~here
  <2>1. chan' = chan /\ struck' = struck \cup {u} BY <1>2, <1>11
  <2>2. ASSUME NEW v \in Viewers PROVE Concerns(v)
    <3>1. v \in Users /\ chan[v] \in Seq(Notices) BY ViewAssumption DEF ViewInv, TypeOK
    <3>2. chan'[v] = chan[v] /\ chan[v] = chan[v] \o <<>> /\ <<>> \in Seq(News(v))
      BY <2>1, <3>1
    <3>3. CASE v = u
      <4>1. /\ user[v].on \in Present /\ user'[v].on \in Present
            /\ user'[v].cell = user[v].cell /\ v \in struck'
        BY <1>4, <1>5, <1>7, <2>1, <3>3
      <4>2. Hears(v) BY <3>2, <4>1 DEF Hears
      <4> QED BY <4>2 DEF Concerns
    <3>4. CASE v # u
      <4>1. user'[v] = user[v] BY <1>7, <3>1, <3>4
      <4>2. CASE user[v].on \in Present
        <5>1. Hears(v) BY <3>2, <4>1, <4>2 DEF Hears
        <5> QED BY <5>1 DEF Concerns
      <4>3. CASE user[v].on \notin Present
        <5>1. Away(v) BY <3>2, <4>1, <4>3 DEF Away
        <5> QED BY <5>1 DEF Concerns
      <4> QED BY <4>2, <4>3
    <3> QED BY <3>3, <3>4
  <2>3. chan' = [v \in Viewers |-> chan'[v]] BY <2>1, ServerTypes
  <2> QED BY <1>7, <1>8, <1>9, <2>2, <2>3, ServerTypes, ServerStep
<1> QED BY <1>10, <1>11

LEMMA RespawnStep ==
  ASSUME ViewInv, NEW u \in Users, HandleRespawn(u)
  PROVE  Kept
<1>0. PICK c \in Cells : \E out, o :
        /\ ZoneOf[c] = ZoneOf[user[u].cell] /\ out = Entered(u, c, "RESPAWN")
        /\ user' = [user EXCEPT ![u].on = "grid", ![u].cell = c, ![u].alive = TRUE]
        /\ o = [out EXCEPT ![u] = <<Notice("RESPAWN", u, c)>> \o @] /\ Post(o)
  BY DEF HandleRespawn
<1>1. TypeOK BY ServerTypes
<1>2. u \in Subjects BY DEF Subjects
<1>3. PICK out, o :
        /\ ZoneOf[c] = ZoneOf[user[u].cell] /\ out = Entered(u, c, "RESPAWN")
        /\ user' = [user EXCEPT ![u].on = "grid", ![u].cell = c, ![u].alive = TRUE]
        /\ o = [out EXCEPT ![u] = <<Notice("RESPAWN", u, c)>> \o @] /\ Post(o)
  BY <1>0
<1>4. PICK t : t = [user[u] EXCEPT !.on = "grid", !.cell = c, !.alive = TRUE] OBVIOUS
<1>5. t \in UserStates /\ t.on \in Present /\ t.cell = c /\ t.alive = TRUE
  <2>1. user[u] \in UserStates BY <1>1 DEF TypeOK
  <2> QED BY <1>4, <2>1 DEF UserStates, Present
<1>6. user' = [user EXCEPT ![u] = t] BY <1>1, <1>3, <1>4 DEF TypeOK, UserStates
<1>7. /\ user' \in [Users -> UserStates] /\ user'[u] = t
      /\ \A v \in Users \ {u} : user'[v] = user[v]
  BY <1>1, <1>5, <1>6, UserChange
<1>8. \A v \in Users : out[v] \in Seq(News(v)) BY <1>1, <1>3, EnteredType
<1>9. /\ o[u] = <<Notice("RESPAWN", u, c)>> \o out[u]
      /\ \A v \in Users \ {u} : o[v] = out[v]
  BY <1>3 DEF Entered
<1>10. UNCHANGED <<monster, viewList, ground, fresh, client, steps, deaths, late, unsure, struck,
                 stray, untold>>
  BY DEF HandleRespawn, field, bounds, observed
<1>11. ASSUME NEW v \in Viewers PROVE Concerns(v)
  <2>1. v \in Users BY ViewAssumption
  <2>2. CASE v = u
    <3>1. PICK n : n = Notice("RESPAWN", u, c) OBVIOUS
    <3>2. n \in Fit(v) /\ n.id = v /\ n.type = "RESPAWN" /\ n.cell = c
      BY <1>1, <1>2, <2>2, <3>1, NoticeLemma DEF Types
    <3>3. Exists(v) /\ user[v].on \in Present /\ Settled(v)
      BY <2>2 DEF HandleRespawn, Exists, Present
    <3>4. chan'[v] = chan[v] \o (<<n>> \o out[v])
      BY <1>3, <1>9, <2>2, <3>1, <3>3 DEF Post
    <3>5. /\ user'[v].on \in Present /\ user'[v].cell = c /\ user'[v].alive = TRUE
          /\ ZoneOf[c] = ZoneOf[user[v].cell]
      BY <1>3, <1>5, <1>7, <2>2
    <3>6. Moved(v) BY <1>8, <1>10, <2>1, <3>2, <3>3, <3>4, <3>5 DEF Moved
    <3> QED BY <3>6 DEF Concerns
  <2>3. CASE v # u
    <3>1. user'[v] = user[v] /\ o[v] \in Seq(News(v)) BY <1>7, <1>8, <1>9, <2>1, <2>3
    <3> QED BY <1>3, <3>1, PostLemma
  <2> QED BY <2>2, <2>3
<1>12. chan' = [v \in Viewers |-> chan'[v]] BY <1>3, PostDomain
<1> QED BY <1>7, <1>10, <1>11, <1>12, ServerTypes, ServerStep

\* Users stay as they are.
LEMMA QuietStep ==
  ASSUME ViewInv, UNCHANGED <<user, client, late, unsure, struck, stray, untold>>,
         monster' \in [Monsters -> MonsterStates], viewList' \in [Monsters -> SUBSET Users],
         ground' \in [Items -> Cells \cup {None}], fresh' \subseteq Items,
         steps' \in 0 .. MaxSteps, deaths' \in 0 .. MaxDeaths,
         NEW out, Post(out), \A v \in Viewers : out[v] \in Seq(News(v))
  PROVE  Kept
<1>1. \A v \in Viewers : Concerns(v) BY PostLemma
<1>2. chan' = [v \in Viewers |-> chan'[v]] BY PostDomain
<1> QED BY <1>1, <1>2, ServerTypes, ServerStep

\* The notice of Tell, as what is posted.
LEMMA TellIsPost ==
  ASSUME NEW c, NEW notice, Tell(c, notice), NEW S, Viewers \cap S = {},
         \A v : v \notin S => <<notice>> \in Seq(News(v))
  PROVE  \E out : Post(out) /\ \A v \in Viewers : out[v] \in Seq(News(v))
<1> DEFINE out == [v \in Viewers |-> IF v \in CollectUsers(c) THEN <<notice>> ELSE <<>>]
<1>1. Post(out) BY DEF Tell
<1>2. ASSUME NEW v \in Viewers PROVE out[v] \in Seq(News(v))
  <2>1. out[v] = <<notice>> \/ out[v] = <<>> OBVIOUS
  <2>2. <<>> \in Seq(News(v)) /\ <<notice>> \in Seq(News(v)) OBVIOUS
  <2> HIDE DEF out
  <2> QED BY <2>1, <2>2
<1> HIDE DEF out
<1> QED BY <1>1, <1>2

\* Monsters and items are no viewers.
LEMMA Things ==
  /\ Monsters \subseteq Subjects /\ Items \subseteq Subjects
  /\ \A v \in Viewers : v \notin Monsters /\ v \notin Items
BY ViewAssumption DEF Subjects

LEMMA DiscardStep ==
  ASSUME ViewInv, NEW u \in Users, Discard(u)
  PROVE  Kept
<1>1. TypeOK BY ServerTypes
<1>2. PICK c \in Cells : c = user[u].cell BY <1>1 DEF TypeOK, UserStates
<1>3. PICK i \in fresh : Lay(i, c) /\ Tell(c, Notice("ADD", i, c)) BY <1>2 DEF Discard
<1>4. i \in Items BY <1>3, ServerTypes
<1>5. ground' \in [Items -> Cells \cup {None}] /\ fresh' \subseteq Items
  BY <1>3, <1>4, ServerTypes DEF Lay
<1>6. /\ UNCHANGED <<user, monster, viewList, client, deaths, late, unsure, struck,
                 stray, untold>>
      /\ Counted
  BY DEF Discard, observed
<1>7. \A v : v \notin {i} => <<Notice("ADD", i, c)>> \in Seq(News(v))
  BY <1>1, <1>4, NewsLemma, Things
<1>8. Viewers \cap {i} = {} BY <1>4, Things
<1>9. \E out : Post(out) /\ \A v \in Viewers : out[v] \in Seq(News(v))
  BY <1>3, <1>7, <1>8, TellIsPost
<1> QED BY <1>5, <1>6, <1>9, ServerTypes, QuietStep

LEMMA RemoveItemStep ==
  ASSUME ViewInv, NEW i \in Items, RemoveFieldItem(i)
  PROVE  Kept
<1>1. TypeOK BY ServerTypes
<1>2. ground' \in [Items -> Cells \cup {None}] BY ServerTypes DEF RemoveFieldItem
<1>3. UNCHANGED <<user, monster, viewList, fresh, client, steps, deaths, late, unsure, struck,
                 stray, untold>>
  BY DEF RemoveFieldItem, bounds, observed
<1>4. \A v : v \notin {i} => <<Removal(i)>> \in Seq(News(v)) BY <1>1, NewsLemma, Things
<1>5. Viewers \cap {i} = {} BY Things
<1>6. Tell(ground[i], Removal(i)) BY DEF RemoveFieldItem
<1>7. \E out : Post(out) /\ \A v \in Viewers : out[v] \in Seq(News(v))
  BY <1>4, <1>5, <1>6, TellIsPost
<1> QED BY <1>2, <1>3, <1>7, ServerTypes, QuietStep

LEMMA MonsterMoveStep ==
  ASSUME ViewInv, NEW m \in Monsters, MonsterMove(m)
  PROVE  Kept
<1>1. TypeOK BY ServerTypes
<1>2. PICK c \in Cells :
        /\ monster' = [monster EXCEPT ![m].cell = c]
        /\ Replace(m, c, viewList[m], CollectUsers(c))
        /\ viewList' = [viewList EXCEPT ![m] = CollectUsers(c)]
  BY DEF MonsterMove
<1>3. CollectUsers(c) \subseteq Users BY DEF CollectUsers
<1>4. viewList' \in [Monsters -> SUBSET Users] BY <1>2, <1>3, ServerTypes
<1>5. monster' \in [Monsters -> MonsterStates] BY <1>2, ServerTypes DEF MonsterStates
<1>6. /\ UNCHANGED <<user, ground, fresh, client, deaths, late, unsure, struck,
                 stray, untold>>
      /\ Counted
  BY DEF MonsterMove, field, observed
<1> DEFINE out == [v \in Viewers |->
             IF v \in CollectUsers(c)
             THEN <<Notice(IF v \in viewList[m] THEN "MOVE" ELSE "ADD", m, c)>>
             ELSE IF v \in viewList[m] THEN <<Removal(m)>> ELSE <<>>]
<1>7. Post(out) BY <1>2 DEF Replace
<1>8. ASSUME NEW v \in Viewers PROVE out[v] \in Seq(News(v))
  <2>1. \/ out[v] = <<Notice("MOVE", m, c)>> \/ out[v] = <<Notice("ADD", m, c)>>
        \/ out[v] = <<Removal(m)>> \/ out[v] = <<>>
    OBVIOUS
  <2>2. v # m /\ m \in Subjects BY Things
  <2>3. /\ <<Notice("ADD", m, c)>> \in Seq(News(v)) /\ <<Removal(m)>> \in Seq(News(v))
        /\ <<Notice("MOVE", m, c)>> \in Seq(News(v)) /\ <<>> \in Seq(News(v))
    BY <1>1, <2>2, NewsLemma
  <2> HIDE DEF out
  <2> QED BY <2>1, <2>3
<1> HIDE DEF out
<1> QED BY <1>4, <1>5, <1>6, <1>7, <1>8, ServerTypes, QuietStep

LEMMA KillMonsterStep ==
  ASSUME ViewInv, NEW m \in Monsters, KillMonster(m)
  PROVE  Kept
<1>1. TypeOK BY ServerTypes
<1>2. PICK c \in Cells : c = monster[m].cell BY <1>1 DEF TypeOK, MonsterStates
<1>3. /\ monster' = [monster EXCEPT ![m].alive = FALSE]
      /\ viewList' = [viewList EXCEPT ![m] = {}] /\ Fatal
      /\ UNCHANGED <<user, client, steps, late, unsure, struck,
                 stray, untold>>
  BY DEF KillMonster, observed
<1>4. viewList' \in [Monsters -> SUBSET Users] BY <1>3, ServerTypes
<1>5. monster' \in [Monsters -> MonsterStates] BY <1>3, ServerTypes DEF MonsterStates
<1>6. m \in Subjects /\ Viewers \cap {m} = {} BY Things
<1>7. \A v : v \notin {m} => <<Notice("DIE", m, None)>> \in Seq(News(v))
  BY <1>1, <1>6, NewsLemma
<1>8. CASE Tell(c, Notice("DIE", m, None)) /\ UNCHANGED field
  <2>1. \E out : Post(out) /\ \A v \in Viewers : out[v] \in Seq(News(v))
    BY <1>6, <1>7, <1>8, TellIsPost
  <2>2. UNCHANGED <<ground, fresh>> BY <1>8 DEF field
  <2> QED BY <1>3, <1>4, <1>5, <2>1, <2>2, ServerTypes, QuietStep
<1>9. ASSUME NEW i \in fresh, Lay(i, c),
             Post([v \in Viewers |->
               IF v \in CollectUsers(c)
               THEN <<Notice("DIE", m, None), Notice("ADD", i, c)>> ELSE <<>>])
      PROVE  Kept
  <2>1. i \in Items /\ i \in Subjects /\ \A v \in Viewers : v # i
    BY <1>9, ServerTypes, Things
  <2>2. ground' \in [Items -> Cells \cup {None}] /\ fresh' \subseteq Items
    BY <1>9, <2>1, ServerTypes DEF Lay
  <2> DEFINE out == [v \in Viewers |->
               IF v \in CollectUsers(c)
               THEN <<Notice("DIE", m, None), Notice("ADD", i, c)>> ELSE <<>>]
  <2>3. ASSUME NEW v \in Viewers PROVE out[v] \in Seq(News(v))
    <3>1. Notice("DIE", m, None) \in News(v)
      BY <1>1, <1>6, NoticeLemma DEF Types, Placing
    <3>2. Notice("ADD", i, c) \in News(v) BY <1>1, <2>1, NoticeLemma DEF Types
    <3>3. <<Notice("DIE", m, None), Notice("ADD", i, c)>> \in Seq(News(v)) BY <3>1, <3>2
    <3>4. <<>> \in Seq(News(v)) OBVIOUS
    <3>5. \/ out[v] = <<Notice("DIE", m, None), Notice("ADD", i, c)>>
          \/ out[v] = <<>>
      OBVIOUS
    <3> HIDE DEF out
    <3> QED BY <3>3, <3>4, <3>5
  <2>4. Post(out) BY <1>9
  <2> HIDE DEF out
  <2> QED BY <1>3, <1>4, <1>5, <2>2, <2>3, <2>4, ServerTypes, QuietStep
<1> QED BY <1>2, <1>8, <1>9 DEF KillMonster

LEMMA MonsterRespawnStep ==
  ASSUME ViewInv, NEW m \in Monsters, MonsterRespawn(m)
  PROVE  Kept
<1>1. TypeOK BY ServerTypes
<1>2. PICK c \in Cells : /\ monster' = [monster EXCEPT ![m] = [cell |-> c, alive |-> TRUE]]
                         /\ Tell(c, Notice("RESPAWN", m, c))
  BY DEF MonsterRespawn
<1>3. monster' \in [Monsters -> MonsterStates] BY <1>2, ServerTypes DEF MonsterStates
<1>4. UNCHANGED <<user, viewList, ground, fresh, client, steps, deaths, late, unsure, struck,
                 stray, untold>>
  BY DEF MonsterRespawn, field, bounds, observed
<1>5. m \in Subjects /\ Viewers \cap {m} = {} BY Things
<1>6. \A v : v \notin {m} => <<Notice("RESPAWN", m, c)>> \in Seq(News(v))
  BY <1>1, <1>5, NewsLemma
<1>7. \E out : Post(out) /\ \A v \in Viewers : out[v] \in Seq(News(v))
  BY <1>2, <1>5, <1>6, TellIsPost
<1> QED BY <1>3, <1>4, <1>7, ServerTypes, QuietStep

\* USER_MOVE_REQ and USER_TELEPORT_REQ.
LEMMA WalkStep ==
  ASSUME ViewInv, NEW u \in Users, Walk(u) \/ Teleport(u)
  PROVE  Kept
<1>1. PICK c \in Cells : HandlePlayerMove(u, c)
  <2>1. CASE Walk(u)
    <3>1. PICK d \in {-1, 1} :
            LET c == IF user[u].cell + d \in Cells THEN user[u].cell + d ELSE user[u].cell
            IN HandlePlayerMove(u, c)
      BY <2>1 DEF Walk
    <3>2. user[u].cell \in Cells BY DEF ViewInv, TypeOK, UserStates
    <3> QED BY <3>1, <3>2
  <2>2. CASE Teleport(u) BY <2>2 DEF Teleport
  <2> QED BY <2>1, <2>2
<1>2. Moves(u) /\ UNCHANGED <<monster, viewList, field, client, deaths, observed>>
  BY DEF Walk, Teleport
<1> QED BY <1>1, <1>2, MoveStep

-----------------------------------------------------------------------------
(***************************************************************************)
(* The theorems                                                            *)
(***************************************************************************)

LEMMA ViewStart == Init => ViewInv /\ AvatarInv
<1> SUFFICES ASSUME Init PROVE ViewInv /\ AvatarInv OBVIOUS
<1>1. PICK c0 \in Cells : c0 = CHOOSE c \in Cells : TRUE BY ViewAssumption
<1>2. \A u \in Users : /\ user[u] \in UserStates /\ user[u].on = "new"
                       /\ user[u].alive = TRUE
  BY <1>1 DEF Init, UserStates
<1>3. user \in [Users -> UserStates] BY <1>2 DEF Init
<1>4. FreshClient \in Clients BY NoPicturesType DEF FreshClient, Clients, ZoneTransState
<1>5. /\ client \in [Viewers -> Clients]
      /\ \A u \in Viewers : chan[u] = <<>> /\ client[u] = FreshClient
  BY <1>4 DEF Init
<1>6. /\ chan \in [Viewers -> Seq(Notices)] /\ \A u \in Viewers : chan[u] \in Seq(Fit(u))
  BY DEF Init
<1>7. monster \in [Monsters -> MonsterStates] BY ViewAssumption DEF Init, MonsterStates
<1>8. TypeOK BY <1>3, <1>5, <1>6, <1>7, ViewAssumption DEF Init, TypeOK
<1>9. AvatarInv
  <2> SUFFICES ASSUME NEW u \in Viewers
               PROVE  AvatarOK(chan[u], client[u], u, user[u], struck)
    BY DEF AvatarInv
  <2>1. user[u].on = "new" /\ user[u].alive = TRUE BY <1>2, ViewAssumption
  <2> QED BY <1>5, <2>1 DEF AvatarOK, Present
<1> QED BY <1>6, <1>8, <1>9 DEF ViewInv

LEMMA ViewStep == ViewInv /\ [Next]_vars => Kept
<1> SUFFICES ASSUME ViewInv, [Next]_vars PROVE Kept OBVIOUS
<1>1. CASE UNCHANGED vars
  <2>1. ViewInv' BY <1>1 DEF vars, field, bounds, observed, ViewInv, TypeOK, Fit
  <2>2. AvatarInv => AvatarInv' BY <1>1 DEF vars, observed, AvatarInv
  <2> QED BY <2>1, <2>2 DEF Kept
<1>2. CASE Server
  <2>1. Viewers \subseteq Users BY ViewAssumption
  <2> QED BY <1>2, <2>1, WalkStep, LoginStep, EnterStep, StrayMoveStep, DisconnectStep,
             KillUserStep,
             RespawnStep, EquipStep, StrayEquipStep, DiscardStep, RemoveItemStep, MonsterMoveStep,
             KillMonsterStep, MonsterRespawnStep
          DEF Server
<1>3. ASSUME NEW u \in Viewers, ClientFrame(u) PROVE Kept
  BY <1>3, ReceiveStep, DeathDoneStep, FadeStep DEF ClientFrame
<1> QED BY <1>1, <1>2, <1>3 DEF Next

\* Whatever the server posts and in whatever state of a fade it arrives, a
\* client's pictures are of subjects in cells of the map, its queue has
\* notices that it can handle, and the counters keep their bounds
\* (ProcessPacket, the handlers of UserHelper, MonsterHelper and ItemHelper).
THEOREM ViewTypeCorrect == Spec => []TypeOK
<1>1. Init => ViewInv BY ViewStart
<1>2. ViewInv /\ [Next]_vars => ViewInv' BY ViewStep DEF Kept
<1>3. ViewInv => TypeOK BY DEF ViewInv
<1> QED BY <1>1, <1>2, <1>3, PTL DEF Spec

\* The avatar of a patient user's client is where the server has the user, in
\* its zone and dead or alive as there, once all notices are processed and
\* no fade runs (OnLoginAck, the own MOVE, RESPAWN and DIE, TriggerZoneTransition
\* and the flush after the fade).
THEOREM AvatarCorrect == ASSUME Patient PROVE Spec => []AvatarRight
<1>1. Init => ViewInv /\ AvatarInv BY ViewStart
<1>2. ViewInv /\ AvatarInv /\ [Next]_vars => (ViewInv /\ AvatarInv)'
  BY ViewStep DEF Kept
<1>3. AvatarInv => AvatarRight
  <2> SUFFICES ASSUME AvatarInv, NEW u \in Viewers, UpToDate(u)
               PROVE  /\ client[u].avatar = user[u].cell
                      /\ client[u].zone = ZoneOf[user[u].cell]
                      /\ u \notin struck => client[u].isDead = ~user[u].alive
    BY DEF AvatarRight
  <2>1. PICK c, s : c = client[u] /\ s = user[u] OBVIOUS
  <2>2. s.on \in Present /\ c.trans = "NONE" /\ chan[u] = <<>>
    BY <2>1 DEF UpToDate, Exists, Present
  <2>3. AvatarOK(<<>>, c, u, s, struck) BY <2>1, <2>2 DEF AvatarInv
  <2>4. \A T : Own(<<>>, u, T) = {} BY DEF Own
  <2>5. c.zone = ZoneOf[s.cell] /\ s.cell = c.avatar
    BY <2>2, <2>3, <2>4 DEF AvatarOK, AvatarPlaced, Fading
  <2>6. u \notin struck => c.isDead = ~s.alive
    BY <2>2, <2>3, <2>4 DEF AvatarOK, DeathKnown
  <2> QED BY <2>1, <2>5, <2>6
<1> QED BY <1>1, <1>2, <1>3, PTL DEF Spec
=============================================================================
