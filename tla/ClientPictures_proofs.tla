------------------------- MODULE ClientPictures_proofs -------------------------
(***************************************************************************)
(* What an up-to-date client draws is what its user sees, for every number *)
(* of users, monsters, items and cells and whatever is under way.          *)
(*                                                                         *)
(* While notices are queued the picture is wrong, so the invariant speaks  *)
(* of what the queue will make of it: a set of screens is carried through  *)
(* a queue into another one (Carries) when every notice and every step of  *)
(* the render loop in between leads there.  PictureInv says that the queue *)
(* carries the screen of a client into the screens that are right about    *)
(* each subject (Right).  A handler changes what is right and appends the  *)
(* notices that carry the old right screens into the new; a client only    *)
(* goes where its queue leads.                                             *)
(***************************************************************************)
EXTENDS ClientView_proofs

-----------------------------------------------------------------------------
(***************************************************************************)
(* What a client will make of its queue                                    *)
(***************************************************************************)

\* A client with what is recorded of its pictures.
Screen(c, l, w) == [client |-> c, late |-> l, unsure |-> w]

\* It processes notice n.
After(x, u, n) ==
  Screen(ProcessPacket(x.client, u, n), Late(x.client, u, n, x.late),
         Unsure(x.client, u, n, x.unsure))

\* The render loop makes d of client c.
Idles(c, d) ==
  \/ \E m \in DOMAIN c.players : /\ c.players[m].look = "dying"
                                 /\ d = [c EXCEPT !.players = Without(@, m)]
  \/ /\ c.trans # "NONE"
     /\ d = IF Fading(c) THEN FadedOut(c) ELSE [c EXCEPT !.trans = "NONE"]

\* The render loop does not lead out of G, and notice n leads from F into G.
Stable(G)         == \A x \in G : \A d : Idles(x.client, d) => Screen(d, x.late, x.unsure) \in G
Takes(F, u, n, G) == \A x \in F : After(x, u, n) \in G

\* Whenever the render loop runs, a client of user u that is in F is in G once
\* it has processed the notices q: there are sets that it is in between them.
Carries(F, u, q, G) ==
  \E S : /\ F \subseteq S[0] /\ S[Len(q)] \subseteq G
         /\ \A i \in 0 .. Len(q) : Stable(S[i])
         /\ \A i \in DOMAIN q : Takes(S[i - 1], u, q[i], S[i])

\* An empty queue.
LEMMA CarriesNothing ==
  ASSUME NEW u, NEW F, NEW G, F \subseteq G, Stable(G)
  PROVE  Carries(F, u, <<>>, G)
<1>1. PICK S : S = [i \in {0} |-> G] OBVIOUS
<1>2. Len(<<>>) = 0 /\ DOMAIN <<>> = {} /\ 0 .. 0 = {0} OBVIOUS
<1>3. /\ F \subseteq S[0] /\ S[0] \subseteq G /\ \A i \in {0} : Stable(S[i])
  BY <1>1
<1> QED BY <1>2, <1>3 DEF Carries

\* One after the other.
LEMMA CarriesOn ==
  ASSUME NEW X, NEW u, NEW q \in Seq(X), NEW r \in Seq(X), NEW F, NEW G, NEW H,
         Carries(F, u, q, G), Carries(G, u, r, H)
  PROVE  Carries(F, u, q \o r, H)
<1>1. PICK K \in Nat, L \in Nat : /\ K = Len(q) /\ DOMAIN q = 1..K
                                  /\ L = Len(r) /\ DOMAIN r = 1..L
  OBVIOUS
<1>2. PICK p : p = q \o r OBVIOUS
<1>3. /\ Len(p) = K + L /\ DOMAIN p = 1..(K + L)
      /\ \A i \in 1..K : p[i] = q[i]
      /\ \A i \in (K + 1)..(K + L) : p[i] = r[i - K]
  BY <1>1, <1>2
<1>4. PICK S : /\ F \subseteq S[0] /\ S[K] \subseteq G
               /\ \A i \in 0 .. K : Stable(S[i])
               /\ \A i \in 1 .. K : Takes(S[i - 1], u, q[i], S[i])
  BY <1>1 DEF Carries
<1>5. PICK T : /\ G \subseteq T[0] /\ T[L] \subseteq H
               /\ \A i \in 0 .. L : Stable(T[i])
               /\ \A i \in 1 .. L : Takes(T[i - 1], u, r[i], T[i])
  BY <1>1 DEF Carries
<1>6. PICK U : U = [i \in 0 .. (K + L) |-> IF i < K THEN S[i] ELSE T[i - K]] OBVIOUS
<1>7. /\ \A i \in 0 .. (K + L) : i < K => U[i] = S[i]
      /\ \A i \in 0 .. (K + L) : i >= K => U[i] = T[i - K] /\ i - K \in 0 .. L
  BY <1>6
<1>8. F \subseteq U[0]
  <2>1. CASE K = 0
    <3>1. U[0] = T[0] BY <1>7, <2>1
    <3> QED BY <1>4, <1>5, <2>1, <3>1
  <2>2. CASE K > 0
    <3>1. U[0] = S[0] BY <1>7, <2>2
    <3> QED BY <1>4, <3>1
  <2> QED BY <2>1, <2>2
<1>9. U[K + L] \subseteq H
  <2>1. U[K + L] = T[(K + L) - K] /\ (K + L) - K = L BY <1>7
  <2> QED BY <1>5, <2>1
<1>10. \A i \in 0 .. (K + L) : Stable(U[i])
  <2> SUFFICES ASSUME NEW i \in 0 .. (K + L) PROVE Stable(U[i]) OBVIOUS
  <2>1. CASE i < K
    <3>1. i \in 0 .. K /\ U[i] = S[i] BY <1>7, <2>1
    <3> QED BY <1>4, <3>1
  <2>2. CASE i >= K
    <3>1. i - K \in 0 .. L /\ U[i] = T[i - K] BY <1>7, <2>2
    <3> QED BY <1>5, <3>1
  <2> QED BY <2>1, <2>2
<1>11. \A i \in 1 .. (K + L) : Takes(U[i - 1], u, p[i], U[i])
  <2> SUFFICES ASSUME NEW i \in 1 .. (K + L) PROVE Takes(U[i - 1], u, p[i], U[i]) OBVIOUS
  <2>0. i - 1 \in 0 .. (K + L) /\ i \in 0 .. (K + L) OBVIOUS
  <2>1. CASE i < K
    <3>1. U[i] = S[i] /\ U[i - 1] = S[i - 1] /\ i \in 1 .. K /\ p[i] = q[i]
      BY <1>3, <1>7, <2>0, <2>1
    <3> QED BY <1>4, <3>1
  <2>2. CASE i = K
    <3>1. U[i] = T[0] /\ U[i - 1] = S[i - 1] /\ i \in 1 .. K /\ p[i] = q[i]
      <4>1. i - K = 0 /\ i >= K /\ i - 1 < K /\ i \in 1 .. K BY <2>2
      <4> QED BY <1>3, <1>7, <2>0, <4>1
    <3>2. S[i] \subseteq T[0] BY <1>4, <1>5, <2>2
    <3>3. Takes(S[i - 1], u, q[i], S[i]) BY <1>4, <3>1
    <3> QED BY <3>1, <3>2, <3>3 DEF Takes
  <2>3. CASE i > K
    <3>1. /\ i >= K /\ i - 1 >= K /\ (i - 1) - K = (i - K) - 1 /\ i - K \in 1 .. L
          /\ i \in (K + 1) .. (K + L)
      BY <2>3
    <3>2. U[i] = T[i - K] /\ U[i - 1] = T[(i - K) - 1] /\ p[i] = r[i - K]
      BY <1>3, <1>7, <2>0, <3>1
    <3>3. PICK j : j = i - K OBVIOUS
    <3>4. Takes(T[j - 1], u, r[j], T[j]) BY <1>5, <3>1, <3>3
    <3> QED BY <3>2, <3>3, <3>4
  <2> QED BY <2>1, <2>2, <2>3
<1> QED BY <1>2, <1>3, <1>8, <1>9, <1>10, <1>11 DEF Carries

\* A notice leads from F to G and the others leave either alone.
LEMMA CarriesOnce ==
  ASSUME NEW X, NEW u, NEW q \in Seq(X), NEW k \in DOMAIN q, NEW F, NEW G,
         Stable(F), Stable(G), Takes(F, u, q[k], G),
         \A i \in DOMAIN q : i # k => Takes(F, u, q[i], F) /\ Takes(G, u, q[i], G)
  PROVE  Carries(F, u, q, G)
<1>1. PICK K \in Nat : K = Len(q) /\ DOMAIN q = 1..K OBVIOUS
<1>2. PICK S : S = [i \in 0 .. K |-> IF i < k THEN F ELSE G] OBVIOUS
<1>3. k \in 1 .. K BY <1>1
<1>4. \A i \in 0 .. K : S[i] = IF i < k THEN F ELSE G BY <1>2
<1>5. S[0] = F /\ S[K] = G BY <1>3, <1>4
<1>6. \A i \in 0 .. K : Stable(S[i]) BY <1>4
<1>7. ASSUME NEW i \in 1 .. K PROVE Takes(S[i - 1], u, q[i], S[i])
  <2>1. i - 1 \in 0 .. K /\ i \in 0 .. K OBVIOUS
  <2>2. CASE i < k
    <3>1. S[i - 1] = F /\ S[i] = F /\ i # k BY <1>3, <1>4, <2>1, <2>2
    <3> QED BY <1>1, <3>1
  <2>3. CASE i = k
    <3>1. S[i - 1] = F /\ S[i] = G BY <1>3, <1>4, <2>1, <2>3
    <3> QED BY <2>3, <3>1
  <2>4. CASE i > k
    <3>1. S[i - 1] = G /\ S[i] = G /\ i # k BY <1>3, <1>4, <2>1, <2>4
    <3> QED BY <1>1, <3>1
  <2> QED BY <1>3, <2>2, <2>3, <2>4
<1> QED BY <1>1, <1>5, <1>6, <1>7 DEF Carries

\* All notices leave G alone.
LEMMA CarriesQuiet ==
  ASSUME NEW X, NEW u, NEW q \in Seq(X), NEW G, Stable(G),
         \A i \in DOMAIN q : Takes(G, u, q[i], G)
  PROVE  Carries(G, u, q, G)
<1>1. PICK K \in Nat : K = Len(q) /\ DOMAIN q = 1..K OBVIOUS
<1>2. PICK S : S = [i \in 0 .. K |-> G] OBVIOUS
<1>3. \A i \in 0 .. K : S[i] = G BY <1>2
<1>4. \A i \in 1 .. K : i - 1 \in 0 .. K /\ i \in 0 .. K OBVIOUS
<1>5. S[0] = G /\ S[K] = G BY <1>3
<1> QED BY <1>1, <1>3, <1>4, <1>5 DEF Carries

\* One notice.
LEMMA CarriesNotice ==
  ASSUME NEW u, NEW n, NEW F, NEW G, Stable(F), Stable(G), Takes(F, u, n, G)
  PROVE  Carries(F, u, <<n>>, G)
<1>1. <<n>> \in Seq({n}) /\ DOMAIN <<n>> = {1} /\ <<n>>[1] = n OBVIOUS
<1> QED BY <1>1, CarriesOnce

\* From fewer screens into more.
LEMMA CarriesLess ==
  ASSUME NEW u, NEW q, NEW E, NEW F, NEW G, NEW H, Carries(F, u, q, G), E \subseteq F, G \subseteq H
  PROVE  Carries(E, u, q, H)
BY DEF Carries

\* Two facts about a screen that both last.
LEMMA StableBoth ==
  ASSUME NEW F, NEW G, Stable(F), Stable(G)
  PROVE  Stable(F \cap G)
BY DEF Stable

\* Where a queue leads to two sets, it leads to both at once.
LEMMA CarriesBoth ==
  ASSUME NEW X, NEW u, NEW q \in Seq(X), NEW F, NEW G, NEW H,
         Carries(F, u, q, G), Carries(F, u, q, H)
  PROVE  Carries(F, u, q, G \cap H)
<1>1. PICK K \in Nat : K = Len(q) /\ DOMAIN q = 1..K OBVIOUS
<1>2. PICK S : /\ F \subseteq S[0] /\ S[K] \subseteq G
               /\ \A i \in 0 .. K : Stable(S[i])
               /\ \A i \in 1 .. K : Takes(S[i - 1], u, q[i], S[i])
  BY <1>1 DEF Carries
<1>3. PICK T : /\ F \subseteq T[0] /\ T[K] \subseteq H
               /\ \A i \in 0 .. K : Stable(T[i])
               /\ \A i \in 1 .. K : Takes(T[i - 1], u, q[i], T[i])
  BY <1>1 DEF Carries
<1>4. PICK U : U = [i \in 0 .. K |-> S[i] \cap T[i]] OBVIOUS
<1>5. \A i \in 0 .. K : U[i] = S[i] \cap T[i] BY <1>4
<1>6. F \subseteq U[0] /\ U[K] \subseteq G \cap H BY <1>2, <1>3, <1>5
<1>7. \A i \in 0 .. K : Stable(U[i]) BY <1>2, <1>3, <1>5, StableBoth
<1>8. ASSUME NEW i \in 1 .. K PROVE Takes(U[i - 1], u, q[i], U[i])
  <2>1. i - 1 \in 0 .. K /\ i \in 0 .. K OBVIOUS
  <2>2. U[i - 1] = S[i - 1] \cap T[i - 1] /\ U[i] = S[i] \cap T[i] BY <1>5, <2>1
  <2>3. Takes(S[i - 1], u, q[i], S[i]) /\ Takes(T[i - 1], u, q[i], T[i]) BY <1>2, <1>3
  <2> QED BY <2>2, <2>3 DEF Takes
<1> QED BY <1>1, <1>6, <1>7, <1>8 DEF Carries

\* The first notice is processed.
LEMMA CarriesTail ==
  ASSUME NEW X, NEW u, NEW q \in Seq(X), q # <<>>, NEW x, NEW G, Carries({x}, u, q, G)
  PROVE  Carries({After(x, u, Head(q))}, u, Tail(q), G)
<1>1. PICK K \in Nat : K = Len(q) /\ DOMAIN q = 1..K /\ K > 0 BY EmptySeq
<1>2. PICK r : r = Tail(q) OBVIOUS
<1>3. /\ Len(r) = K - 1 /\ DOMAIN r = 1 .. (K - 1) /\ K - 1 \in Nat
      /\ \A i \in 1 .. (K - 1) : r[i] = q[i + 1]
      /\ Head(q) = q[1]
  BY <1>1, <1>2
<1>4. PICK S : /\ {x} \subseteq S[0] /\ S[K] \subseteq G
               /\ \A i \in 0 .. K : Stable(S[i])
               /\ \A i \in 1 .. K : Takes(S[i - 1], u, q[i], S[i])
  BY <1>1 DEF Carries
<1>5. PICK T : T = [i \in 0 .. (K - 1) |-> S[i + 1]] OBVIOUS
<1>6. \A i \in 0 .. (K - 1) : T[i] = S[i + 1] /\ i + 1 \in 0 .. K BY <1>1, <1>5
<1>7. T[0] = S[1] /\ T[K - 1] = S[K]
  <2>1. 0 \in 0 .. (K - 1) /\ K - 1 \in 0 .. (K - 1) /\ 0 + 1 = 1 /\ (K - 1) + 1 = K
    BY <1>1
  <2> QED BY <1>6, <2>1
<1>8. After(x, u, q[1]) \in T[0]
  <2>1. Takes(S[1 - 1], u, q[1], S[1]) /\ 1 - 1 = 0 BY <1>1, <1>4
  <2>2. Takes(S[0], u, q[1], S[1]) BY <2>1
  <2> QED BY <1>4, <1>7, <2>2 DEF Takes
<1>9. \A i \in 0 .. (K - 1) : Stable(T[i]) BY <1>4, <1>6
<1>10. ASSUME NEW i \in 1 .. (K - 1) PROVE Takes(T[i - 1], u, r[i], T[i])
  <2>1. /\ i - 1 \in 0 .. (K - 1) /\ i \in 0 .. (K - 1) /\ (i - 1) + 1 = i
        /\ i + 1 \in 1 .. K /\ (i + 1) - 1 = i
    BY <1>1
  <2>2. T[i - 1] = S[i] /\ T[i] = S[i + 1] /\ r[i] = q[i + 1] BY <1>3, <1>6, <2>1
  <2>3. PICK j : j = i + 1 OBVIOUS
  <2>4. Takes(S[j - 1], u, q[j], S[j]) /\ j - 1 = i BY <1>4, <2>1, <2>3
  <2> QED BY <2>2, <2>3, <2>4
<1>11. /\ {After(x, u, q[1])} \subseteq T[0] /\ T[Len(r)] \subseteq G
       /\ \A i \in 0 .. Len(r) : Stable(T[i])
       /\ \A i \in DOMAIN r : Takes(T[i - 1], u, r[i], T[i])
  BY <1>3, <1>4, <1>7, <1>8, <1>9, <1>10
<1>12. Carries({After(x, u, q[1])}, u, r, G) BY <1>11 DEF Carries
<1> QED BY <1>2, <1>3, <1>12

\* The render loop runs.
LEMMA CarriesIdle ==
  ASSUME NEW X, NEW u, NEW q \in Seq(X), NEW x, NEW G, Carries({x}, u, q, G),
         NEW d, Idles(x.client, d)
  PROVE  Carries({Screen(d, x.late, x.unsure)}, u, q, G)
<1>1. 0 \in 0 .. Len(q) OBVIOUS
<1>2. PICK S : /\ {x} \subseteq S[0] /\ S[Len(q)] \subseteq G
               /\ \A i \in 0 .. Len(q) : Stable(S[i])
               /\ \A i \in DOMAIN q : Takes(S[i - 1], u, q[i], S[i])
  BY DEF Carries
<1>3. Screen(d, x.late, x.unsure) \in S[0] BY <1>1, <1>2 DEF Stable
<1> QED BY <1>2, <1>3 DEF Carries

\* A client that has processed everything is where the queue leads.
LEMMA CarriesEnd ==
  ASSUME NEW u, NEW x, NEW G, Carries({x}, u, <<>>, G)
  PROVE  x \in G
BY DEF Carries

-----------------------------------------------------------------------------
(***************************************************************************)
(* What a notice does to the picture of a subject                          *)
(***************************************************************************)

\* The pictures p and q of subject t are the same.
SamePicture(p, q, t) ==
  (t \in DOMAIN q <=> t \in DOMAIN p) /\ (t \in DOMAIN p => q[t] = p[t])

\* Client d is client c after news n: of the subject it is about, by its type.
HeardOf(c, n, d) ==
  LET t == n.id IN
  /\ n.type # "ADD" \/ ~Fading(c) => SamePicture(c.pendingObjects, d.pendingObjects, t)
  /\ n.type = "ADD" /\ Fading(c) =>
       /\ SamePicture(c.players, d.players, t) /\ t \in DOMAIN d.pendingObjects
       /\ d.pendingObjects[t] = [cell |-> n.cell, look |-> "shown", armed |-> n.armed]
  /\ n.type = "ADD" /\ ~Fading(c) =>
       /\ t \in DOMAIN d.players
       /\ d.players[t] = [cell |-> n.cell, look |-> "shown", armed |-> n.armed]
  /\ n.type = "RESPAWN" =>
       t \in DOMAIN d.players /\ d.players[t].cell = n.cell /\ d.players[t].look = "shown"
  /\ n.type = "REMOVE" => t \notin DOMAIN d.players
  /\ n.type \in {"MOVE", "DIE", "EQUIP"} => (t \in DOMAIN d.players <=> t \in DOMAIN c.players)
  /\ n.type = "MOVE" /\ t \in DOMAIN c.players =>
       /\ d.players[t].cell = n.cell /\ d.players[t].armed = c.players[t].armed
       /\ d.players[t].look = IF c.players[t].look = "dying" THEN "shown" ELSE c.players[t].look
  /\ n.type = "DIE" /\ t \in DOMAIN c.players =>
       d.players[t].look = IF t \in Monsters THEN "dying" ELSE "hidden"
  /\ n.type = "EQUIP" /\ t \in DOMAIN c.players =>
       /\ d.players[t].armed = n.armed /\ d.players[t].cell = c.players[t].cell
       /\ d.players[t].look = c.players[t].look

Heard(c, n, d) ==
  /\ Redrawn(c, d)
  /\ \A t : t # n.id => /\ SamePicture(c.players, d.players, t)
                        /\ SamePicture(c.pendingObjects, d.pendingObjects, t)
  /\ HeardOf(c, n, d)

\* A picture is drawn or changed, the others stay.
LEMMA DrawLemma ==
  ASSUME NEW p, NEW n, NEW armed
  PROVE  LET q == Draw(p, n, armed) IN
         /\ n.id \in DOMAIN q
         /\ q[n.id] = [cell |-> n.cell, look |-> "shown", armed |-> armed]
         /\ \A t : t # n.id => SamePicture(p, q, t)
BY DEF Draw, SamePicture

\* A picture is dropped (OnRemove, and a death that has been played).
LEMMA WithoutLemma ==
  ASSUME NEW p, NEW s
  PROVE  /\ s \notin DOMAIN Without(p, s)
         /\ \A t : t # s => SamePicture(p, Without(p, s), t)
BY DEF Without, Restrict, SamePicture

\* A picture is replaced (OnMove, OnDie, OnEquipChange).
LEMMA RedrawLemma ==
  ASSUME NEW p \in Pictures, NEW s \in DOMAIN p, NEW o
  PROVE  LET q == [p EXCEPT ![s] = o] IN
         /\ DOMAIN q = DOMAIN p /\ q[s] = o
         /\ \A t : t # s => SamePicture(p, q, t)
BY DEF SamePicture

\* ProcessPacket, of news: one picture changes as the type says.
LEMMA HeardLemma ==
  ASSUME NEW u, NEW c \in Clients, NEW n \in News(u)
  PROVE  Heard(c, n, ProcessPacket(c, u, n))
<1>1. /\ n \in Notices /\ n.id # u /\ n.type # "LOGIN_ACK" /\ n.type \in Types
  BY DEF News, Fit, Notices
<1>2. c.players \in Pictures /\ c.pendingObjects \in Pictures BY DEF Clients
<1>3. PICK d : d = ProcessPacket(c, u, n) OBVIOUS
<1>4. Redrawn(c, d) BY <1>3, ClientHearsNews
<1>5. ASSUME n.id \in DOMAIN c.players
      PROVE  c.players[n.id] \in Objects
  BY <1>2, <1>5, PictureLemma
<1>6. \A p : \A t : SamePicture(p, p, t) BY DEF SamePicture
<1>7. CASE n.type = "ADD"
  <2>1. d = OnAdd(c, n) BY <1>3, <1>7 DEF ProcessPacket
  <2>2. CASE Fading(c)
    <3>1. /\ d.players = c.players
          /\ d.pendingObjects = Draw(c.pendingObjects, n, n.armed)
      BY <2>1, <2>2 DEF OnAdd, Clients
    <3> QED BY <1>3, <1>4, <1>6, <1>7, <2>2, <3>1, DrawLemma DEF Heard, HeardOf
  <2>3. CASE ~Fading(c)
    <3>1. /\ d.pendingObjects = c.pendingObjects
          /\ d.players = Draw(c.players, n, n.armed)
      BY <2>1, <2>3 DEF OnAdd, Clients
    <3> QED BY <1>3, <1>4, <1>6, <1>7, <2>3, <3>1, DrawLemma DEF Heard, HeardOf
  <2> QED BY <2>2, <2>3
<1>8. CASE n.type = "RESPAWN"
  <2>1. PICK armed : armed = (n.id \in DOMAIN c.players /\ c.players[n.id].armed) OBVIOUS
  <2>2. d.players = Draw(c.players, n, armed) /\ d.pendingObjects = c.pendingObjects
    BY <1>1, <1>3, <1>8, <2>1 DEF ProcessPacket, OnRespawn, Clients
  <2>3. PICK q : q = Draw(c.players, n, armed) OBVIOUS
  <2>4. /\ n.id \in DOMAIN q /\ q[n.id].cell = n.cell /\ q[n.id].look = "shown"
        /\ \A t : t # n.id => SamePicture(c.players, q, t)
    <3>1. /\ n.id \in DOMAIN q
          /\ q[n.id] = [cell |-> n.cell, look |-> "shown", armed |-> armed]
          /\ \A t : t # n.id => SamePicture(c.players, q, t)
      BY <2>3, DrawLemma
    <3>2. PICK o : o = [cell |-> n.cell, look |-> "shown", armed |-> armed] OBVIOUS
    <3>3. o.cell = n.cell /\ o.look = "shown" BY <3>2
    <3> QED BY <3>1, <3>2, <3>3
  <2> QED BY <1>3, <1>4, <1>6, <1>8, <2>2, <2>3, <2>4 DEF Heard, HeardOf
<1>9. CASE n.type = "REMOVE"
  <2>1. d.players = Without(c.players, n.id) /\ d.pendingObjects = c.pendingObjects
    BY <1>3, <1>9 DEF ProcessPacket, OnRemove, Clients
  <2> QED BY <1>3, <1>4, <1>6, <1>9, <2>1, WithoutLemma DEF Heard, HeardOf
<1>10. CASE n.type \in {"MOVE", "DIE", "EQUIP"}
  <2>1. \/ n.type = "MOVE" /\ d = OnMove(c, n)
        \/ n.type = "DIE" /\ d = OnDie(c, n)
        \/ n.type = "EQUIP" /\ d = OnEquipChange(c, n)
    BY <1>1, <1>3, <1>10 DEF ProcessPacket
  <2>2. CASE n.id \notin DOMAIN c.players
    <3>1. d = c BY <2>1, <2>2 DEF OnMove, OnDie, OnEquipChange
    <3> QED BY <1>3, <1>4, <1>6, <1>10, <2>2, <3>1 DEF Heard, HeardOf
  <2>3. CASE n.id \in DOMAIN c.players
    <3>1. PICK o :
            o = CASE n.type = "MOVE" -> [c.players[n.id] EXCEPT
                          !.cell = n.cell, !.look = IF @ = "dying" THEN "shown" ELSE @]
                  [] n.type = "DIE" -> [c.players[n.id] EXCEPT
                          !.look = IF n.id \in Monsters THEN "dying" ELSE "hidden"]
                  [] n.type = "EQUIP" -> [c.players[n.id] EXCEPT !.armed = n.armed]
      OBVIOUS
    <3>2. d.players = [c.players EXCEPT ![n.id] = o] /\ d.pendingObjects = c.pendingObjects
      <4>1. CASE n.type = "MOVE"
        <5>1. PICK b : b = [c.players[n.id] EXCEPT !.cell = n.cell] OBVIOUS
        <5>2. b.look = c.players[n.id].look BY <1>5, <2>3, <5>1 DEF Objects
        <5>3. o = [b EXCEPT !.look = IF @ = "dying" THEN "shown" ELSE @]
          BY <3>1, <4>1, <5>1
        <5>4. d = [c EXCEPT !.players[n.id].cell = n.cell,
                            !.players[n.id].look = IF @ = "dying" THEN "shown" ELSE @]
          BY <2>1, <2>3, <4>1 DEF OnMove
        <5> QED BY <1>2, <1>5, <2>3, <5>1, <5>3, <5>4 DEF Clients, Objects
      <4>2. CASE n.type = "DIE"
        BY <1>2, <1>5, <2>1, <2>3, <3>1, <4>2 DEF OnDie, Clients, Objects
      <4>3. CASE n.type = "EQUIP"
        BY <1>2, <1>5, <2>1, <2>3, <3>1, <4>3 DEF OnEquipChange, Clients, Objects
      <4> QED BY <1>10, <4>1, <4>2, <4>3
    <3>3. /\ n.type = "MOVE" =>
               /\ o.cell = n.cell /\ o.armed = c.players[n.id].armed
               /\ o.look = IF c.players[n.id].look = "dying" THEN "shown"
                           ELSE c.players[n.id].look
          /\ n.type = "DIE" => o.look = IF n.id \in Monsters THEN "dying" ELSE "hidden"
          /\ n.type = "EQUIP" => /\ o.armed = n.armed /\ o.cell = c.players[n.id].cell
                                 /\ o.look = c.players[n.id].look
      BY <1>5, <2>3, <3>1 DEF Objects
    <3>4. PICK q : q = [c.players EXCEPT ![n.id] = o] OBVIOUS
    <3>5. /\ DOMAIN q = DOMAIN c.players /\ q[n.id] = o
          /\ \A t : t # n.id => SamePicture(c.players, q, t)
      BY <1>2, <2>3, <3>4, RedrawLemma
    <3> QED BY <1>3, <1>4, <1>6, <1>10, <2>3, <3>2, <3>3, <3>4, <3>5 DEF Heard, HeardOf
  <2> QED BY <2>2, <2>3
<1> QED BY <1>1, <1>7, <1>8, <1>9, <1>10 DEF Types

\* Any notice to the user leads from client to client.
LEMMA ClientHears ==
  ASSUME NEW u, NEW c \in Clients, NEW n \in Fit(u)
  PROVE  ProcessPacket(c, u, n) \in Clients
<1>1. n.type \in Types BY DEF Fit, Notices
<1>2. CASE n.id # u
  <2>1. n \in News(u) BY <1>2 DEF News
  <2> QED BY <2>1, ClientHearsNews DEF Redrawn
<1>3. CASE n.id = u /\ n.type = "DIE" BY <1>3, ClientHearsDeath DEF Deceased
<1>4. CASE n.id = u /\ n.type \in Placing BY <1>4, ClientHearsPlace DEF Placed
<1>5. CASE n.id = u /\ n.type \in {"ADD", "REMOVE", "EQUIP"} BY <1>5, ClientHearsOdd
<1> QED BY <1>1, <1>2, <1>3, <1>4, <1>5 DEF Types, Placing

-----------------------------------------------------------------------------
(***************************************************************************)
(* The picture of a subject                                                *)
(***************************************************************************)

Screens == [client: Clients, late: SUBSET Subjects, unsure: SUBSET Users]

\* What holds of subject s on every screen of zone z: what is buffered is
\* to be drawn after the fade, and only monsters play their death.
Sound(s, z) ==
  {x \in Screens :
     /\ x.client.zone = z
     /\ s \in DOMAIN x.client.pendingObjects =>
          Fading(x.client) /\ x.client.pendingObjects[s].look = "shown"
     /\ s \in DOMAIN x.client.players /\ x.client.players[s].look = "dying" => s \in Monsters}

\* The picture of s that counts, the buffered one before the one drawn.
PlacedAt(x, s, c) ==
  /\ s \in DOMAIN x.client.pendingObjects => x.client.pendingObjects[s].cell = c
  /\ s \in DOMAIN x.client.players /\ s \notin DOMAIN x.client.pendingObjects =>
       x.client.players[s].cell = c
Holds(x, s, arms) ==
  /\ s \in DOMAIN x.client.pendingObjects => x.client.pendingObjects[s].armed \in arms
  /\ s \in DOMAIN x.client.players /\ s \notin DOMAIN x.client.pendingObjects =>
       x.client.players[s].armed \in arms
Drawn(x, s) ==
  \/ s \in DOMAIN x.client.pendingObjects
  \/ s \in DOMAIN x.client.players /\ x.client.players[s].look = "shown"

\* The screens on which s is as one that is seen at cell c, armed as in arms,
\* and as one that is not seen; the set hit is not empty if another zone's
\* thread killed, moved or disconnected one of the two.
Seen(s, z, c, arms) ==
  {x \in Sound(s, z) : /\ s \in Monsters \/ Drawn(x, s)
                       /\ s \in x.late \/ PlacedAt(x, s, c)
                       /\ s \in x.unsure \/ s \notin Users \/ Holds(x, s, arms)}
Unseen(s, z, hit) ==
  {x \in Sound(s, z) : s \in Monsters \/ s \in x.late \/ hit # {} \/ ~Drawn(x, s)}

\* The screens of a client that is not in a fade, or has not logged in.
Still == {x \in Screens : x.client.trans = "NONE"}
Blank == {x \in Screens : x.client = FreshClient}

\* The render loop: deaths are played and fades go on.
LEMMA IdleType ==
  ASSUME NEW x \in Screens, NEW d, Idles(x.client, d)
  PROVE  /\ Screen(d, x.late, x.unsure) \in Screens
         /\ d.zone = x.client.zone
         /\ x.client.trans = "NONE" => d.trans = "NONE"
<1>1. /\ x.client \in Clients /\ x.late \in SUBSET Subjects /\ x.unsure \in SUBSET Users
  BY DEF Screens
<1>2. CASE x.client.trans # "NONE" /\ d = IF Fading(x.client) THEN FadedOut(x.client)
                                          ELSE [x.client EXCEPT !.trans = "NONE"]
  <2>1. d \in Clients /\ d.zone = x.client.zone BY <1>1, <1>2, ClientFades
  <2> QED BY <1>1, <1>2, <2>1 DEF Screen, Screens
<1>3. ASSUME NEW m \in DOMAIN x.client.players,
             d = [x.client EXCEPT !.players = Without(@, m)]
      PROVE  /\ Screen(d, x.late, x.unsure) \in Screens
             /\ d.zone = x.client.zone /\ d.trans = x.client.trans
  <2>1. PICK p : p = Without(x.client.players, m) OBVIOUS
  <2>2. x.client.players \in Pictures BY <1>1 DEF Clients
  <2>3. p \in Pictures BY <2>1, <2>2, WithoutType
  <2>4. d = [x.client EXCEPT !.players = p] BY <1>3, <2>1
  <2>5. Redrawn(x.client, d) BY <1>1, <2>3, <2>4, RedrawnLemma
  <2> QED BY <1>1, <2>5 DEF Redrawn, Screen, Screens
<1> QED BY <1>2, <1>3 DEF Idles

\* What becomes of the picture of s.
Aged(c, d, s) ==
  \/ /\ SamePicture(c.players, d.players, s)
     /\ SamePicture(c.pendingObjects, d.pendingObjects, s)
     /\ Fading(c) <=> Fading(d)
  \/ /\ s \in DOMAIN c.players /\ c.players[s].look = "dying" /\ s \notin DOMAIN d.players
     /\ SamePicture(c.pendingObjects, d.pendingObjects, s)
     /\ Fading(c) <=> Fading(d)
  \/ /\ s \notin DOMAIN d.pendingObjects
     /\ s \in DOMAIN c.pendingObjects =>
          s \in DOMAIN d.players /\ d.players[s] = c.pendingObjects[s]
     /\ s \notin DOMAIN c.pendingObjects => SamePicture(c.players, d.players, s)

\* The render loop leaves s as it is, drops its death or flushes it.
LEMMA IdleAged ==
  ASSUME NEW c \in Clients, NEW d, Idles(c, d), NEW s,
         s \in DOMAIN c.pendingObjects => Fading(c)
  PROVE  Aged(c, d, s)
<1>0. SamePicture(c.players, c.players, s) /\ SamePicture(c.pendingObjects, c.pendingObjects, s)
  BY DEF SamePicture
<1>1. CASE Fading(c) /\ d = FadedOut(c)
  <2>1. d.players = Flushed(c) /\ d.pendingObjects = NoPictures
    BY <1>1 DEF FadedOut, Clients
  <2>2. s \notin DOMAIN d.pendingObjects BY <2>1 DEF NoPictures
  <2>3. /\ s \in DOMAIN c.pendingObjects =>
             s \in DOMAIN d.players /\ d.players[s] = c.pendingObjects[s]
        /\ s \notin DOMAIN c.pendingObjects => SamePicture(c.players, d.players, s)
    BY <2>1 DEF Flushed, SamePicture
  <2> QED BY <2>2, <2>3 DEF Aged
<1>2. CASE ~Fading(c) /\ d = [c EXCEPT !.trans = "NONE"]
  <2>1. d.players = c.players /\ d.pendingObjects = c.pendingObjects /\ d.trans = "NONE"
    BY <1>2 DEF Clients
  <2>2. ~Fading(d) BY <2>1 DEF Fading
  <2> QED BY <1>0, <1>2, <2>1, <2>2 DEF Aged
<1>3. ASSUME NEW m \in DOMAIN c.players, c.players[m].look = "dying",
             d = [c EXCEPT !.players = Without(@, m)]
      PROVE  Aged(c, d, s)
  <2>1. /\ d.players = Without(c.players, m) /\ d.pendingObjects = c.pendingObjects
        /\ d.trans = c.trans
    BY <1>3 DEF Clients
  <2>2. Fading(c) <=> Fading(d) BY <2>1 DEF Fading
  <2>3. CASE s = m
    <3>1. s \notin DOMAIN d.players BY <2>1, <2>3, WithoutLemma
    <3> QED BY <1>0, <1>3, <2>1, <2>2, <2>3, <3>1 DEF Aged
  <2>4. CASE s # m
    <3>1. SamePicture(c.players, d.players, s) BY <2>1, <2>4, WithoutLemma
    <3> QED BY <1>0, <2>1, <2>2, <3>1 DEF Aged
  <2> QED BY <2>3, <2>4
<1> QED BY <1>1, <1>2, <1>3 DEF Idles

\* What Sound, Seen and Unseen say of s stays.
LEMMA SameKind ==
  ASSUME NEW s, NEW z, NEW x \in Sound(s, z), NEW y \in Screens,
         Aged(x.client, y.client, s), y.client.zone = z,
         s \in y.late <=> s \in x.late, s \in y.unsure <=> s \in x.unsure
  PROVE  /\ y \in Sound(s, z)
         /\ \A c, arms : x \in Seen(s, z, c, arms) => y \in Seen(s, z, c, arms)
         /\ \A hit : x \in Unseen(s, z, hit) => y \in Unseen(s, z, hit)
<1>1. PICK d : d = y.client OBVIOUS
<1>2. /\ s \in DOMAIN x.client.pendingObjects =>
           Fading(x.client) /\ x.client.pendingObjects[s].look = "shown"
      /\ s \in DOMAIN x.client.players /\ x.client.players[s].look = "dying" => s \in Monsters
  BY DEF Sound
<1>3. /\ s \in DOMAIN d.pendingObjects => Fading(d) /\ d.pendingObjects[s].look = "shown"
      /\ s \in DOMAIN d.players /\ d.players[s].look = "dying" => s \in Monsters
  BY <1>1, <1>2 DEF Aged, SamePicture
<1>4. y \in Sound(s, z) BY <1>1, <1>3 DEF Sound
<1>5. s \in Monsters \/ (Drawn(y, s) <=> Drawn(x, s))
  BY <1>1, <1>2 DEF Aged, SamePicture, Drawn
<1>6. \A c : PlacedAt(x, s, c) => PlacedAt(y, s, c)
  BY <1>1, <1>2 DEF Aged, SamePicture, PlacedAt
<1>7. \A arms : Holds(x, s, arms) => Holds(y, s, arms)
  BY <1>1, <1>2 DEF Aged, SamePicture, Holds
<1>8. \A c, arms : x \in Seen(s, z, c, arms) => y \in Seen(s, z, c, arms)
  BY <1>4, <1>5, <1>6, <1>7 DEF Seen
<1>9. \A hit : x \in Unseen(s, z, hit) => y \in Unseen(s, z, hit)
  BY <1>4, <1>5 DEF Unseen
<1> QED BY <1>4, <1>8, <1>9

\* The render loop leads from none of these sets.
LEMMA StableKinds ==
  ASSUME NEW s, NEW z
  PROVE  /\ Stable(Sound(s, z))
         /\ \A c, arms : Stable(Seen(s, z, c, arms))
         /\ \A hit : Stable(Unseen(s, z, hit))
<1>1. ASSUME NEW x \in Sound(s, z), NEW d, Idles(x.client, d)
      PROVE  LET y == Screen(d, x.late, x.unsure) IN
             /\ y \in Sound(s, z)
             /\ \A c, arms : x \in Seen(s, z, c, arms) => y \in Seen(s, z, c, arms)
             /\ \A hit : x \in Unseen(s, z, hit) => y \in Unseen(s, z, hit)
  <2>1. x \in Screens /\ x.client \in Clients /\ x.client.zone = z BY DEF Sound, Screens
  <2>2. s \in DOMAIN x.client.pendingObjects => Fading(x.client) BY DEF Sound
  <2>3. Aged(x.client, d, s) BY <1>1, <2>1, <2>2, IdleAged
  <2>4. Screen(d, x.late, x.unsure) \in Screens /\ d.zone = z BY <1>1, <2>1, IdleType
  <2>5. PICK y : y = Screen(d, x.late, x.unsure) OBVIOUS
  <2>6. y.client = d /\ y.late = x.late /\ y.unsure = x.unsure BY <2>5 DEF Screen
  <2> QED BY <2>3, <2>4, <2>5, <2>6, SameKind
<1>2. \A c, arms : Seen(s, z, c, arms) \subseteq Sound(s, z) BY DEF Seen
<1>3. \A hit : Unseen(s, z, hit) \subseteq Sound(s, z) BY DEF Unseen
<1> QED BY <1>1, <1>2, <1>3 DEF Stable

\* Nor from these two.
LEMMA StableStates == Stable(Still) /\ Stable(Blank)
<1>1. Stable(Still)
  <2> SUFFICES ASSUME NEW x \in Still, NEW d, Idles(x.client, d)
               PROVE  Screen(d, x.late, x.unsure) \in Still
    BY DEF Stable
  <2>1. x \in Screens /\ x.client.trans = "NONE" BY DEF Still
  <2>2. Screen(d, x.late, x.unsure) \in Screens /\ d.trans = "NONE" BY <2>1, IdleType
  <2> QED BY <2>2 DEF Still, Screen
<1>2. Stable(Blank)
  <2>1. \A d : ~Idles(FreshClient, d) BY DEF Idles, FreshClient, NoPictures
  <2> QED BY <2>1 DEF Stable, Blank
<1> QED BY <1>1, <1>2

\* A notice of the kinds that are posted leads from screen to screen.
LEMMA AfterType ==
  ASSUME NEW u, NEW x \in Screens, NEW n \in Fit(u)
  PROVE  /\ After(x, u, n) \in Screens
         /\ After(x, u, n).client = ProcessPacket(x.client, u, n)
         /\ After(x, u, n).late = Late(x.client, u, n, x.late)
         /\ After(x, u, n).unsure = Unsure(x.client, u, n, x.unsure)
<1>1. x.client \in Clients /\ x.late \in SUBSET Subjects /\ x.unsure \in SUBSET Users
  BY DEF Screens
<1>2. ProcessPacket(x.client, u, n) \in Clients BY <1>1, ClientHears
<1>3. /\ Late(x.client, u, n, x.late) \in SUBSET Subjects
      /\ Unsure(x.client, u, n, x.unsure) \in SUBSET Users
  BY <1>1, LateType
<1> QED BY <1>2, <1>3 DEF After, Screen, Screens

\* What is known of s, on any screen of F, only notices about s change.
Only(u, s, F) == Stable(F) /\ \A n \in News(u) : n.id # s => Takes(F, u, n, F)

\* News about another subject.
LEMMA OtherNews ==
  ASSUME NEW u, NEW s, NEW n \in News(u), n.id # s, NEW x \in Screens,
         s \in DOMAIN x.client.pendingObjects => Fading(x.client)
  PROVE  LET y == After(x, u, n) IN
         /\ y \in Screens /\ Aged(x.client, y.client, s) /\ y.client.zone = x.client.zone
         /\ y.client.trans = x.client.trans
         /\ s \in y.late <=> s \in x.late
         /\ s \in y.unsure <=> s \in x.unsure
<1>1. n \in Fit(u) /\ n.id # u BY DEF News
<1>2. PICK y : y = After(x, u, n) OBVIOUS
<1>3. PICK c, d, l, w : /\ c = x.client /\ d = ProcessPacket(c, u, n)
                        /\ l = x.late /\ w = x.unsure
  OBVIOUS
<1>4. y \in Screens /\ y.client = d /\ y.late = Late(c, u, n, l) /\ y.unsure = Unsure(c, u, n, w)
  BY <1>1, <1>2, <1>3, AfterType
<1>5. c \in Clients BY <1>3 DEF Screens
<1>6. Heard(c, n, d) BY <1>3, <1>5, HeardLemma
<1>7. SamePicture(c.players, d.players, s) /\ SamePicture(c.pendingObjects, d.pendingObjects, s)
  BY <1>6 DEF Heard
<1>8. d.zone = c.zone /\ d.trans = c.trans BY <1>6 DEF Heard, Redrawn
<1>9. Aged(c, d, s) BY <1>7, <1>8 DEF Aged, Fading
<1>10. s \in Late(c, u, n, l) <=> s \in l BY <1>1 DEF Late
<1>11. s \in Unsure(c, u, n, w) <=> s \in w BY <1>1 DEF Unsure
<1> QED BY <1>2, <1>3, <1>4, <1>8, <1>9, <1>10, <1>11

\* News about others leads from none of them either.
LEMMA OnlyKinds ==
  ASSUME NEW u, NEW s, NEW z
  PROVE  /\ Only(u, s, Sound(s, z))
         /\ \A c, arms : Only(u, s, Seen(s, z, c, arms))
         /\ \A hit : Only(u, s, Unseen(s, z, hit))
<1>1. ASSUME NEW n \in News(u), n.id # s, NEW x \in Sound(s, z)
      PROVE  LET y == After(x, u, n) IN
             /\ y \in Sound(s, z)
             /\ \A c, arms : x \in Seen(s, z, c, arms) => y \in Seen(s, z, c, arms)
             /\ \A hit : x \in Unseen(s, z, hit) => y \in Unseen(s, z, hit)
  <2>1. /\ x \in Screens /\ x.client.zone = z
        /\ s \in DOMAIN x.client.pendingObjects => Fading(x.client)
    BY DEF Sound
  <2>2. LET y == After(x, u, n) IN
        /\ y \in Screens /\ Aged(x.client, y.client, s) /\ y.client.zone = x.client.zone
        /\ s \in y.late <=> s \in x.late
        /\ s \in y.unsure <=> s \in x.unsure
    <3>1. n.id # s BY <1>1
    <3>2. x \in Screens BY <2>1
    <3>3. s \in DOMAIN x.client.pendingObjects => Fading(x.client) BY <2>1
    <3> QED BY <3>1, <3>2, <3>3, OtherNews
  <2> QED BY <2>1, <2>2, SameKind
<1>2. \A c, arms : Seen(s, z, c, arms) \subseteq Sound(s, z) BY DEF Seen
<1>3. \A hit : Unseen(s, z, hit) \subseteq Sound(s, z) BY DEF Unseen
<1>4. Only(u, s, Sound(s, z)) BY <1>1, StableKinds DEF Only, Takes
<1>5. ASSUME NEW c, NEW arms PROVE Only(u, s, Seen(s, z, c, arms))
  BY <1>1, <1>2, StableKinds DEF Only, Takes
<1>6. ASSUME NEW hit PROVE Only(u, s, Unseen(s, z, hit))
  BY <1>1, <1>3, StableKinds DEF Only, Takes
<1> QED BY <1>4, <1>5, <1>6

\* No news starts a fade.
LEMMA StillNews ==
  ASSUME NEW u, NEW n \in Fit(u), n.id # u
  PROVE  Takes(Still, u, n, Still)
<1> SUFFICES ASSUME NEW x \in Still PROVE After(x, u, n) \in Still BY DEF Takes
<1>1. x \in Screens /\ x.client \in Clients /\ x.client.trans = "NONE" BY DEF Still, Screens
<1>2. n \in News(u) BY DEF News
<1>3. Redrawn(x.client, ProcessPacket(x.client, u, n)) BY <1>1, <1>2, ClientHearsNews
<1> QED BY <1>1, <1>3, AfterType DEF Still, Redrawn

\* What the news makes of what is recorded of its subject.
Noted(c, n, l, w, k, v) ==
  LET s == n.id
      P == s \in DOMAIN c.pendingObjects
  IN
  /\ n.type = "EQUIP" => (s \in k <=> s \in l)
  /\ n.type \notin {"ADD", "EQUIP"} => (s \in k <=> P)
  /\ n.type = "ADD" => s \notin k /\ s \notin v
  /\ n.type = "RESPAWN" /\ s \in Users => s \in v
  /\ n.type = "EQUIP" => (s \in v <=> P)
  /\ n.type \in {"MOVE", "REMOVE", "DIE"} => (s \in v <=> s \in w)

\* Late and Unsure, of news about the subject.
LEMMA NotedLemma ==
  ASSUME NEW u, NEW c, NEW n \in News(u), NEW l, NEW w
  PROVE  Noted(c, n, l, w, Late(c, u, n, l), Unsure(c, u, n, w))
<1>1. n.id # u /\ n.type \in Types BY DEF News, Fit, Notices
<1>2. Late(c, u, n, l) = IF n.type = "EQUIP" THEN l
                         ELSE IF n.type # "ADD" /\ n.id \in DOMAIN c.pendingObjects
                              THEN l \cup {n.id} ELSE l \ {n.id}
  BY <1>1 DEF Late
<1>3. CASE n.type = "EQUIP" BY <1>1, <1>2, <1>3 DEF Noted, Unsure
<1>4. CASE n.type = "ADD" BY <1>1, <1>2, <1>4 DEF Noted, Unsure
<1>5. CASE n.type \notin {"ADD", "EQUIP"} BY <1>1, <1>2, <1>5 DEF Noted, Unsure
<1> QED BY <1>3, <1>4, <1>5

\* News about s.
LEMMA AboutNews ==
  ASSUME NEW u, NEW n \in News(u), NEW s, n.id = s, NEW z, NEW x \in Sound(s, z)
  PROVE  LET y == After(x, u, n) IN
         /\ y \in Screens /\ y.client.zone = z
         /\ HeardOf(x.client, n, y.client)
         /\ Fading(y.client) <=> Fading(x.client)
         /\ Noted(x.client, n, x.late, x.unsure, y.late, y.unsure)
         /\ y \in Sound(s, z)
<1>1. n \in Fit(u) /\ n.id # u /\ n.type \in Types /\ n.type # "LOGIN_ACK"
  BY DEF News, Fit, Notices
<1>2. x \in Screens /\ x.client.zone = z /\ x.client \in Clients BY DEF Sound, Screens
<1>3. PICK y : y = After(x, u, n) OBVIOUS
<1>4. PICK c, d : c = x.client /\ d = ProcessPacket(c, u, n) OBVIOUS
<1>5. /\ y \in Screens /\ y.client = d /\ y.late = Late(c, u, n, x.late)
      /\ y.unsure = Unsure(c, u, n, x.unsure)
  BY <1>1, <1>2, <1>3, <1>4, AfterType
<1>6. Heard(c, n, d) BY <1>2, <1>4, HeardLemma
<1>7. HeardOf(c, n, d) BY <1>6 DEF Heard
<1>8. d.zone = c.zone /\ d.trans = c.trans BY <1>6 DEF Heard, Redrawn
<1>9. Fading(d) <=> Fading(c) BY <1>8 DEF Fading
<1>10. Noted(c, n, x.late, x.unsure, y.late, y.unsure) BY <1>5, NotedLemma
<1>11. /\ s \in DOMAIN c.pendingObjects => Fading(c) /\ c.pendingObjects[s].look = "shown"
       /\ s \in DOMAIN c.players /\ c.players[s].look = "dying" => s \in Monsters
  BY <1>4 DEF Sound
<1>12. s \in DOMAIN d.pendingObjects => Fading(d) /\ d.pendingObjects[s].look = "shown"
  <2>1. CASE n.type = "ADD" /\ Fading(c)
    <3>1. d.pendingObjects[s] = [cell |-> n.cell, look |-> "shown", armed |-> n.armed]
      BY <1>7, <2>1 DEF HeardOf
    <3> QED BY <1>9, <2>1, <3>1
  <2>2. CASE ~(n.type = "ADD" /\ Fading(c))
    BY <1>7, <1>9, <1>11, <2>2 DEF HeardOf, SamePicture
  <2> QED BY <2>1, <2>2
<1>13. s \in DOMAIN d.players /\ d.players[s].look = "dying" => s \in Monsters
  <2> SUFFICES ASSUME s \in DOMAIN d.players, d.players[s].look = "dying", s \notin Monsters
               PROVE  FALSE
    OBVIOUS
  <2>1. CASE n.type = "ADD"
    <3>1. CASE Fading(c) BY <1>7, <1>11, <2>1, <3>1 DEF HeardOf, SamePicture
    <3>2. CASE ~Fading(c)
      <4>1. d.players[s] = [cell |-> n.cell, look |-> "shown", armed |-> n.armed]
        BY <1>7, <2>1, <3>2 DEF HeardOf
      <4> QED BY <4>1
    <3> QED BY <3>1, <3>2
  <2>2. CASE n.type \in {"RESPAWN", "REMOVE"} BY <1>7, <2>2 DEF HeardOf
  <2>3. CASE n.type \in {"MOVE", "DIE", "EQUIP"} BY <1>7, <1>11, <2>3 DEF HeardOf
  <2> QED BY <1>1, <2>1, <2>2, <2>3 DEF Types
<1>14. y \in Sound(s, z) BY <1>2, <1>4, <1>5, <1>8, <1>12, <1>13 DEF Sound
<1> QED BY <1>2, <1>3, <1>4, <1>5, <1>7, <1>8, <1>9, <1>10, <1>14

\* It tells where s is, and then s is seen.
LEMMA TellsPlace ==
  ASSUME NEW u, NEW n \in News(u), NEW s, n.id = s, NEW z
  PROVE  /\ n.type = "ADD" =>
              \A arms : n.armed \in arms => Takes(Sound(s, z), u, n, Seen(s, z, n.cell, arms))
         /\ n.type = "RESPAWN" =>
              \A arms : Takes(Sound(s, z), u, n, Seen(s, z, n.cell, arms))
         /\ n.type = "MOVE" =>
              \A c, arms : Takes(Seen(s, z, c, arms), u, n, Seen(s, z, n.cell, arms))
         /\ n.type = "MOVE" /\ s \in Monsters =>
              \A arms : Takes(Sound(s, z), u, n, Seen(s, z, n.cell, arms))
<1>1. ASSUME NEW x \in Sound(s, z)
      PROVE  LET y == After(x, u, n) IN
             /\ HeardOf(x.client, n, y.client)
             /\ Fading(y.client) <=> Fading(x.client)
             /\ Noted(x.client, n, x.late, x.unsure, y.late, y.unsure)
             /\ y \in Sound(s, z)
             /\ s \in DOMAIN x.client.pendingObjects => Fading(x.client)
  <2>1. s \in DOMAIN x.client.pendingObjects => Fading(x.client) BY DEF Sound
  <2> QED BY <2>1, AboutNews
<1>2. ASSUME n.type = "ADD", NEW x \in Sound(s, z), NEW arms, n.armed \in arms
      PROVE  After(x, u, n) \in Seen(s, z, n.cell, arms)
  <2>1. PICK y : y = After(x, u, n) OBVIOUS
  <2>2. PICK c, d : c = x.client /\ d = y.client OBVIOUS
  <2>3. HeardOf(c, n, d) BY <1>1, <2>1, <2>2
  <2>4. Noted(c, n, x.late, x.unsure, y.late, y.unsure) /\ y \in Sound(s, z)
    BY <1>1, <2>1, <2>2
  <2>5. s \in DOMAIN c.pendingObjects => Fading(c) BY <1>1, <2>2
  <2>6. PICK o : o = [cell |-> n.cell, look |-> "shown", armed |-> n.armed] OBVIOUS
  <2>7. o.cell = n.cell /\ o.look = "shown" /\ o.armed \in arms BY <1>2, <2>6
  <2>8. Drawn(y, s) /\ PlacedAt(y, s, n.cell) /\ Holds(y, s, arms)
    <3>1. CASE Fading(c)
      <4>1. s \in DOMAIN d.pendingObjects /\ d.pendingObjects[s] = o
        BY <1>2, <2>3, <2>6, <3>1 DEF HeardOf
      <4> QED BY <2>2, <2>7, <4>1 DEF Drawn, PlacedAt, Holds
    <3>2. CASE ~Fading(c)
      <4>1. s \in DOMAIN d.players /\ d.players[s] = o
        BY <1>2, <2>3, <2>6, <3>2 DEF HeardOf
      <4>2. s \notin DOMAIN d.pendingObjects
        BY <1>2, <2>3, <2>5, <3>2 DEF HeardOf, SamePicture
      <4> QED BY <2>2, <2>7, <4>1, <4>2 DEF Drawn, PlacedAt, Holds
    <3> QED BY <3>1, <3>2
  <2> QED BY <2>1, <2>4, <2>8 DEF Seen
<1>3. ASSUME n.type = "RESPAWN", NEW x \in Sound(s, z), NEW arms
      PROVE  After(x, u, n) \in Seen(s, z, n.cell, arms)
  <2>1. PICK y : y = After(x, u, n) OBVIOUS
  <2>2. PICK c, d : c = x.client /\ d = y.client OBVIOUS
  <2>3. HeardOf(c, n, d) BY <1>1, <2>1, <2>2
  <2>4. Noted(c, n, x.late, x.unsure, y.late, y.unsure) /\ y \in Sound(s, z)
    BY <1>1, <2>1, <2>2
  <2>5. /\ s \in DOMAIN d.players /\ d.players[s].cell = n.cell /\ d.players[s].look = "shown"
        /\ s \in DOMAIN d.pendingObjects <=> s \in DOMAIN c.pendingObjects
    BY <1>3, <2>3 DEF HeardOf, SamePicture
  <2>6. s \in y.unsure \/ s \notin Users BY <1>3, <2>4 DEF Noted
  <2>7. s \in y.late \/ PlacedAt(y, s, n.cell) BY <1>3, <2>2, <2>4, <2>5 DEF Noted, PlacedAt
  <2>8. Drawn(y, s) BY <2>2, <2>5 DEF Drawn
  <2> QED BY <2>1, <2>4, <2>6, <2>7, <2>8 DEF Seen
<1>4. ASSUME n.type = "MOVE", NEW x \in Sound(s, z)
      PROVE  LET y == After(x, u, n) IN
             /\ y \in Sound(s, z)
             /\ s \in y.late \/ PlacedAt(y, s, n.cell)
             /\ Drawn(x, s) => Drawn(y, s)
             /\ \A arms : Holds(x, s, arms) => Holds(y, s, arms)
             /\ s \in y.unsure <=> s \in x.unsure
  <2>1. PICK y : y = After(x, u, n) OBVIOUS
  <2>2. PICK c, d : c = x.client /\ d = y.client OBVIOUS
  <2>3. HeardOf(c, n, d) BY <1>1, <2>1, <2>2
  <2>4. Noted(c, n, x.late, x.unsure, y.late, y.unsure) /\ y \in Sound(s, z)
    BY <1>1, <2>1, <2>2
  <2>5. /\ s \in DOMAIN d.players <=> s \in DOMAIN c.players
        /\ s \in DOMAIN c.players =>
             /\ d.players[s].cell = n.cell /\ d.players[s].armed = c.players[s].armed
             /\ c.players[s].look = "shown" => d.players[s].look = "shown"
        /\ s \in DOMAIN d.pendingObjects <=> s \in DOMAIN c.pendingObjects
        /\ s \in DOMAIN c.pendingObjects => d.pendingObjects[s] = c.pendingObjects[s]
    BY <1>4, <2>3 DEF HeardOf, SamePicture
  <2>6. s \in y.late \/ PlacedAt(y, s, n.cell) BY <1>4, <2>2, <2>4, <2>5 DEF Noted, PlacedAt
  <2>7. Drawn(x, s) => Drawn(y, s) BY <2>2, <2>5 DEF Drawn
  <2>8. \A arms : Holds(x, s, arms) => Holds(y, s, arms) BY <2>2, <2>5 DEF Holds
  <2>9. s \in y.unsure <=> s \in x.unsure BY <1>4, <2>4 DEF Noted
  <2> QED BY <2>1, <2>4, <2>6, <2>7, <2>8, <2>9
<1>5. ASSUME n.type = "MOVE", NEW c, NEW arms, NEW x \in Seen(s, z, c, arms)
      PROVE  After(x, u, n) \in Seen(s, z, n.cell, arms)
  <2>1. PICK y : y = After(x, u, n) OBVIOUS
  <2>2. x \in Sound(s, z) BY DEF Seen
  <2>3. /\ y \in Sound(s, z) /\ (s \in y.late \/ PlacedAt(y, s, n.cell))
        /\ Drawn(x, s) => Drawn(y, s)
        /\ Holds(x, s, arms) => Holds(y, s, arms)
        /\ s \in y.unsure <=> s \in x.unsure
    BY <1>4, <1>5, <2>1, <2>2
  <2> QED BY <2>1, <2>3 DEF Seen
<1>6. ASSUME n.type = "MOVE", s \in Monsters, NEW x \in Sound(s, z), NEW arms
      PROVE  After(x, u, n) \in Seen(s, z, n.cell, arms)
  <2>1. PICK y : y = After(x, u, n) OBVIOUS
  <2>2. y \in Sound(s, z) /\ (s \in y.late \/ PlacedAt(y, s, n.cell))
    BY <1>4, <1>6, <2>1
  <2>3. s \notin Users BY <1>6, ViewAssumption
  <2> QED BY <1>6, <2>1, <2>2, <2>3 DEF Seen
<1> QED BY <1>2, <1>3, <1>5, <1>6 DEF Takes

\* It tells that s is gone.
LEMMA TellsGone ==
  ASSUME NEW u, NEW n \in News(u), NEW s, n.id = s, NEW z, NEW hit,
         n.type \in {"REMOVE", "DIE"}
  PROVE  Takes(Sound(s, z), u, n, Unseen(s, z, hit))
<1> SUFFICES ASSUME NEW x \in Sound(s, z) PROVE After(x, u, n) \in Unseen(s, z, hit)
  BY DEF Takes
<1>1. PICK y : y = After(x, u, n) OBVIOUS
<1>2. PICK c, d : c = x.client /\ d = y.client OBVIOUS
<1>3. /\ HeardOf(c, n, d) /\ Noted(c, n, x.late, x.unsure, y.late, y.unsure)
      /\ y \in Sound(s, z)
  BY <1>1, <1>2, AboutNews
<1>4. s \in y.late <=> s \in DOMAIN c.pendingObjects BY <1>3 DEF Noted
<1>5. s \in DOMAIN d.pendingObjects <=> s \in DOMAIN c.pendingObjects
  BY <1>3 DEF HeardOf, SamePicture
<1>6. CASE n.type = "REMOVE"
  <2>1. s \notin DOMAIN d.players BY <1>3, <1>6 DEF HeardOf
  <2>2. s \in y.late \/ ~Drawn(y, s) BY <1>2, <1>4, <1>5, <2>1 DEF Drawn
  <2> QED BY <1>1, <1>3, <2>2 DEF Unseen
<1>7. CASE n.type = "DIE" /\ s \notin Monsters
  <2>1. s \in DOMAIN d.players => d.players[s].look = "hidden" BY <1>3, <1>7 DEF HeardOf
  <2>2. s \in y.late \/ ~Drawn(y, s) BY <1>2, <1>4, <1>5, <2>1 DEF Drawn
  <2> QED BY <1>1, <1>3, <2>2 DEF Unseen
<1>8. CASE s \in Monsters BY <1>1, <1>3, <1>8 DEF Unseen
<1> QED BY <1>6, <1>7, <1>8

\* It tells which weapon s has in hand.
LEMMA TellsWeapon ==
  ASSUME NEW u, NEW n \in News(u), NEW s, n.id = s, NEW z, NEW c, NEW arms,
         n.type = "EQUIP", NEW now, n.armed \in now
  PROVE  Takes(Seen(s, z, c, arms), u, n, Seen(s, z, c, now))
<1> SUFFICES ASSUME NEW x \in Seen(s, z, c, arms)
             PROVE  After(x, u, n) \in Seen(s, z, c, now)
  BY DEF Takes
<1>0. x \in Sound(s, z) BY DEF Seen
<1>1. PICK y : y = After(x, u, n) OBVIOUS
<1>2. PICK b, d : b = x.client /\ d = y.client OBVIOUS
<1>3. /\ HeardOf(b, n, d) /\ Noted(b, n, x.late, x.unsure, y.late, y.unsure)
      /\ y \in Sound(s, z)
  BY <1>0, <1>1, <1>2, AboutNews
<1>4. /\ s \in DOMAIN d.players <=> s \in DOMAIN b.players
      /\ s \in DOMAIN b.players =>
           /\ d.players[s].armed = n.armed /\ d.players[s].cell = b.players[s].cell
           /\ d.players[s].look = b.players[s].look
      /\ s \in DOMAIN d.pendingObjects <=> s \in DOMAIN b.pendingObjects
      /\ s \in DOMAIN b.pendingObjects => d.pendingObjects[s] = b.pendingObjects[s]
  BY <1>3 DEF HeardOf, SamePicture
<1>5. (s \in y.late <=> s \in x.late) /\ (s \in y.unsure <=> s \in DOMAIN b.pendingObjects)
  BY <1>3 DEF Noted
<1>6. Drawn(x, s) => Drawn(y, s) BY <1>2, <1>4 DEF Drawn
<1>7. PlacedAt(x, s, c) => PlacedAt(y, s, c) BY <1>2, <1>4 DEF PlacedAt
<1>8. s \in y.unsure \/ Holds(y, s, now) BY <1>2, <1>4, <1>5 DEF Holds
<1> QED BY <1>1, <1>3, <1>5, <1>6, <1>7, <1>8 DEF Seen

\* The own place, in the zone the client is in: pictures stay.
LEMMA OwnPlaceKeeps ==
  ASSUME NEW u, NEW n \in Fit(u), n.id = u, NEW s, NEW z, z # None,
         NEW x \in Sound(s, z),
         \/ n.type = "RESPAWN"
         \/ n.type = "MOVE" /\ x.client.trans = "NONE" /\ ZoneOf[n.cell] = z
  PROVE  LET y == After(x, u, n) IN
         /\ y \in Sound(s, z)
         /\ \A c, arms : x \in Seen(s, z, c, arms) => y \in Seen(s, z, c, arms)
         /\ \A hit : x \in Unseen(s, z, hit) => y \in Unseen(s, z, hit)
<1>1. PICK y : y = After(x, u, n) OBVIOUS
<1>2. PICK c, d : c = x.client /\ d = y.client OBVIOUS
<1>3. x \in Screens /\ c \in Clients /\ c.zone = z BY <1>2 DEF Sound, Screens
<1>4. /\ y \in Screens /\ d = ProcessPacket(c, u, n)
      /\ y.late = Late(c, u, n, x.late) /\ y.unsure = Unsure(c, u, n, x.unsure)
  BY <1>1, <1>2, <1>3, AfterType
<1>5. /\ d.players = c.players /\ d.pendingObjects = c.pendingObjects
      /\ d.trans = c.trans /\ d.zone = c.zone
      /\ n.type = "MOVE" => OnOwnMove(c, n) = d
  <2>1. CASE n.type = "RESPAWN" BY <1>3, <1>4, <2>1 DEF ProcessPacket, Clients
  <2>2. CASE n.type = "MOVE" /\ c.trans = "NONE" /\ ZoneOf[n.cell] = z
    <3>1. d = OnOwnMove(c, n) BY <1>4, <2>2 DEF ProcessPacket
    <3>2. d = [c EXCEPT !.avatar = n.cell] BY <1>3, <2>2, <3>1 DEF OnOwnMove
    <3> QED BY <1>3, <3>1, <3>2 DEF Clients
  <2> QED BY <1>2, <2>1, <2>2
<1>6. Aged(c, d, s) BY <1>5 DEF Aged, SamePicture, Fading
<1>7. y.late = x.late /\ y.unsure = x.unsure
  <2>1. Unsure(c, u, n, x.unsure) = x.unsure BY DEF Unsure
  <2>2. Late(c, u, n, x.late) = x.late
    <3>1. CASE n.type = "RESPAWN" BY <3>1 DEF Late
    <3>2. CASE n.type = "MOVE" /\ OnOwnMove(c, n) = d BY <1>5, <3>2 DEF Late
    <3> QED BY <1>5, <3>1, <3>2
  <2> QED BY <1>4, <2>1, <2>2
<1>8. y.client.zone = z /\ Aged(x.client, y.client, s) BY <1>2, <1>3, <1>5, <1>6
<1>9. (s \in y.late <=> s \in x.late) /\ (s \in y.unsure <=> s \in x.unsure) BY <1>7
<1>10. y \in Screens BY <1>4
<1>11. /\ y \in Sound(s, z)
       /\ \A b, arms : x \in Seen(s, z, b, arms) => y \in Seen(s, z, b, arms)
       /\ \A hit : x \in Unseen(s, z, hit) => y \in Unseen(s, z, hit)
  BY <1>8, <1>9, <1>10, SameKind
<1> QED BY <1>1, <1>11

\* The own respawn puts the avatar back and leaves the pictures.
LEMMA OwnRespawn ==
  ASSUME NEW u, NEW n \in Fit(u), n.id = u, NEW s, NEW z, z # None, n.type = "RESPAWN"
  PROVE  /\ \A c, arms : Takes(Seen(s, z, c, arms), u, n, Seen(s, z, c, arms))
         /\ \A hit : Takes(Unseen(s, z, hit), u, n, Unseen(s, z, hit))
<1>1. ASSUME NEW x \in Sound(s, z)
      PROVE  LET y == After(x, u, n) IN
             /\ \A c, arms : x \in Seen(s, z, c, arms) => y \in Seen(s, z, c, arms)
             /\ \A hit : x \in Unseen(s, z, hit) => y \in Unseen(s, z, hit)
  BY OwnPlaceKeeps
<1>2. \A c, arms : Seen(s, z, c, arms) \subseteq Sound(s, z) BY DEF Seen
<1>3. \A hit : Unseen(s, z, hit) \subseteq Sound(s, z) BY DEF Unseen
<1> QED BY <1>1, <1>2, <1>3 DEF Takes

\* So does the own move inside a zone.
LEMMA OwnMove ==
  ASSUME NEW u, NEW n \in Fit(u), n.id = u, NEW s, NEW z, z # None, n.type = "MOVE",
         ZoneOf[n.cell] = z
  PROVE  /\ \A c, arms : Takes(Seen(s, z, c, arms) \cap Still, u, n, Seen(s, z, c, arms))
         /\ \A hit : Takes(Unseen(s, z, hit) \cap Still, u, n, Unseen(s, z, hit))
<1>1. ASSUME NEW x \in Sound(s, z), x \in Still
      PROVE  LET y == After(x, u, n) IN
             /\ \A c, arms : x \in Seen(s, z, c, arms) => y \in Seen(s, z, c, arms)
             /\ \A hit : x \in Unseen(s, z, hit) => y \in Unseen(s, z, hit)
  <2>1. x.client.trans = "NONE" BY <1>1 DEF Still
  <2> QED BY <2>1, OwnPlaceKeeps
<1>2. \A c, arms : Seen(s, z, c, arms) \subseteq Sound(s, z) BY DEF Seen
<1>3. \A hit : Unseen(s, z, hit) \subseteq Sound(s, z) BY DEF Unseen
<1> QED BY <1>1, <1>2, <1>3 DEF Takes

\* A screen without pictures.
LEMMA Empty ==
  ASSUME NEW x \in Screens, NEW s, NEW hit,
         x.client.players = NoPictures, x.client.pendingObjects = NoPictures
  PROVE  x \in Unseen(s, x.client.zone, hit)
<1>1. s \notin DOMAIN x.client.players /\ s \notin DOMAIN x.client.pendingObjects
  BY DEF NoPictures
<1> QED BY <1>1 DEF Unseen, Sound, Drawn

\* Out of the zone: all pictures are forgotten.
LEMMA OwnCrossing ==
  ASSUME NEW u, NEW n \in Fit(u), n.id = u, NEW s, NEW z, z # None, n.type = "MOVE",
         ZoneOf[n.cell] # z, NEW hit
  PROVE  Takes(Sound(s, z) \cap Still, u, n, Unseen(s, ZoneOf[n.cell], hit))
<1> SUFFICES ASSUME NEW x \in Sound(s, z), x \in Still
             PROVE  After(x, u, n) \in Unseen(s, ZoneOf[n.cell], hit)
  BY DEF Takes
<1>1. PICK y : y = After(x, u, n) OBVIOUS
<1>2. PICK c, d : c = x.client /\ d = y.client OBVIOUS
<1>3. x \in Screens /\ c \in Clients /\ c.zone = z /\ c.trans = "NONE"
  BY <1>2 DEF Still, Sound, Screens
<1>4. y \in Screens /\ d = ProcessPacket(c, u, n) BY <1>1, <1>2, <1>3, AfterType
<1>5. d = OnOwnMove(c, n) BY <1>4 DEF ProcessPacket
<1>6. d = TriggerZoneTransition(c, n) BY <1>3, <1>5 DEF OnOwnMove
<1>7. d.players = NoPictures /\ d.pendingObjects = NoPictures /\ d.zone = ZoneOf[n.cell]
  BY <1>3, <1>6 DEF TriggerZoneTransition, Clients
<1> QED BY <1>1, <1>2, <1>4, <1>7, Empty

\* The answer to a login.
LEMMA OwnLogin ==
  ASSUME NEW u, NEW n \in Fit(u), n.id = u, NEW s, n.type = "LOGIN_ACK", NEW hit
  PROVE  Takes(Blank, u, n, Unseen(s, ZoneOf[n.cell], hit))
<1> SUFFICES ASSUME NEW x \in Blank
             PROVE  After(x, u, n) \in Unseen(s, ZoneOf[n.cell], hit)
  BY DEF Takes
<1>1. PICK y : y = After(x, u, n) OBVIOUS
<1>2. PICK c, d : c = x.client /\ d = y.client OBVIOUS
<1>3. x \in Screens BY DEF Blank
<1>4. y \in Screens /\ d = ProcessPacket(c, u, n) BY <1>1, <1>2, <1>3, AfterType
<1>5. d = OnLoginAck(c, n) /\ c = FreshClient BY <1>2, <1>4 DEF ProcessPacket, Blank
<1>6. d.players = NoPictures /\ d.pendingObjects = NoPictures /\ d.zone = ZoneOf[n.cell]
  BY <1>5 DEF OnLoginAck, FreshClient
<1> QED BY <1>1, <1>2, <1>4, <1>6, Empty

\* The own death: all pictures are out of date.
LEMMA OwnDeath ==
  ASSUME NEW u, NEW n \in Fit(u), n.id = u, NEW s, NEW z, n.type = "DIE", NEW hit
  PROVE  Takes(Sound(s, z), u, n, Unseen(s, z, hit))
<1> SUFFICES ASSUME NEW x \in Sound(s, z)
             PROVE  After(x, u, n) \in Unseen(s, z, hit)
  BY DEF Takes
<1>1. PICK y : y = After(x, u, n) OBVIOUS
<1>2. PICK c, d : c = x.client /\ d = y.client OBVIOUS
<1>3. x \in Screens /\ c \in Clients /\ c.zone = z BY <1>2 DEF Sound, Screens
<1>4. y \in Screens /\ d = ProcessPacket(c, u, n) /\ y.late = Late(c, u, n, x.late)
  BY <1>1, <1>2, <1>3, AfterType
<1>5. d = [c EXCEPT !.isDead = TRUE] BY <1>4 DEF ProcessPacket
<1>6. /\ d.players = c.players /\ d.pendingObjects = c.pendingObjects
      /\ d.trans = c.trans /\ d.zone = c.zone
  BY <1>3, <1>5 DEF Clients
<1>7. y.late = x.late \cup DOMAIN c.players \cup DOMAIN c.pendingObjects
  BY <1>4 DEF Late
<1>8. y \in Sound(s, z) BY <1>2, <1>3, <1>4, <1>6 DEF Sound, Fading
<1>9. s \in y.late \/ ~Drawn(y, s) BY <1>2, <1>6, <1>7 DEF Drawn
<1> QED BY <1>1, <1>8, <1>9 DEF Unseen

-----------------------------------------------------------------------------
(***************************************************************************)
(* What is seen                                                            *)
(***************************************************************************)

\* CanSee is symmetric, and a subject sees its own cell.
LEMMA Symmetry ==
  ASSUME NEW a \in Cells, NEW b \in Cells
  PROVE  (CanSee(a, b) <=> CanSee(b, a)) /\ CanSee(a, a)
BY ViewAssumption DEF CanSee, Dist

\* Two users see each other or neither does.
LEMMA SightOfUsers ==
  ASSUME TypeOK, NEW u \in Users, NEW a \in Users, u # a
  PROVE  /\ a \in Visible(u) <=> InGrid(a) /\ u \in CollectUsers(user[a].cell)
         /\ u \in Visible(a) <=> InGrid(a) /\ u \in CollectUsers(user[a].cell)
<1>1. a \notin Monsters /\ a \notin Items /\ u \notin Monsters /\ u \notin Items
  BY ViewAssumption
<1>2. user[a] \in UserStates /\ user[u] \in UserStates BY DEF TypeOK
<1>3. CanSee(user[a].cell, user[u].cell) <=> CanSee(user[u].cell, user[a].cell)
  BY <1>2, Symmetry DEF UserStates
<1> QED BY <1>1, <1>3 DEF Visible, CollectSubjects, CollectUsers

\* A user sees a monster or item when it is one of those its cell is told of.
LEMMA SightOfThings ==
  ASSUME TypeOK, NEW u \in Users
  PROVE  /\ \A m \in Monsters : m \in Visible(u) <=>
              monster[m].alive /\ u \in CollectUsers(monster[m].cell)
         /\ \A i \in Items : i \in Visible(u) <=>
              ground[i] # None /\ u \in CollectUsers(ground[i])
<1>1. user[u].cell \in Cells
  <2>1. user[u] \in UserStates BY DEF TypeOK
  <2> QED BY <2>1 DEF UserStates
<1>2. ASSUME NEW m \in Monsters
      PROVE  m \in Visible(u) <=> monster[m].alive /\ u \in CollectUsers(monster[m].cell)
  <2>1. m \notin Users /\ m \notin Items BY ViewAssumption
  <2>2. monster[m] \in MonsterStates BY DEF TypeOK
  <2>3. CanSee(monster[m].cell, user[u].cell) <=> CanSee(user[u].cell, monster[m].cell)
    BY <1>1, <2>2, Symmetry DEF MonsterStates
  <2> QED BY <2>1, <2>3 DEF Visible, CollectSubjects, CollectUsers
<1>3. ASSUME NEW i \in Items
      PROVE  i \in Visible(u) <=> ground[i] # None /\ u \in CollectUsers(ground[i])
  <2>1. i \notin Users /\ i \notin Monsters BY ViewAssumption
  <2>2. CASE ground[i] = None BY <2>1, <2>2 DEF Visible, CollectSubjects, CollectUsers
  <2>3. CASE ground[i] # None
    <3>1. ground[i] \in Cells BY <2>3 DEF TypeOK
    <3>2. CanSee(ground[i], user[u].cell) <=> CanSee(user[u].cell, ground[i])
      BY <1>1, <3>1, Symmetry
    <3> QED BY <2>1, <2>3, <3>2 DEF Visible, CollectSubjects, CollectUsers
  <2> QED BY <2>2, <2>3
<1> QED BY <1>2, <1>3

\* User a changes: what it sees, who sees it, and what the others see.
LEMMA SightAfter ==
  ASSUME TypeOK, NEW a \in Users, NEW t \in UserStates, user' = [user EXCEPT ![a] = t],
         UNCHANGED <<monster, ground>>
  PROVE  /\ user'[a] = t /\ \A u \in Users \ {a} : user'[u] = user[u]
         /\ \A u \in Users \ {a} : a \in Visible(u)' <=> t.on = "grid" /\ u \in CollectUsers(t.cell)
         /\ \A u \in Users \ {a} : \A s \in Subjects \ {a} : s \in Visible(u)' <=> s \in Visible(u)
         /\ Visible(a)' = IF t.on = "grid" THEN CollectSubjects(a, t.cell) ELSE {}
         /\ CellOf(a)' = t.cell /\ Armed(a)' = t.armed
         /\ \A s \in Subjects \ {a} : CellOf(s)' = CellOf(s) /\ Armed(s)' = Armed(s)
<1>1. user'[a] = t /\ \A u \in Users \ {a} : user'[u] = user[u] BY DEF TypeOK
<1>2. a \notin Monsters /\ a \notin Items BY ViewAssumption
<1>3. \A u \in Users \ {a} : \A c : u \in CollectUsers(c)' <=> u \in CollectUsers(c)
  BY <1>1 DEF CollectUsers, InGrid
<1>4. \A c : CollectSubjects(a, c)' = CollectSubjects(a, c)
  BY <1>3 DEF CollectSubjects, CollectUsers
<1>5. Visible(a)' = IF t.on = "grid" THEN CollectSubjects(a, t.cell) ELSE {}
  BY <1>1, <1>4 DEF Visible, InGrid
<1>6. ASSUME NEW u \in Users \ {a}
      PROVE  /\ a \in Visible(u)' <=> t.on = "grid" /\ u \in CollectUsers(t.cell)
             /\ \A s \in Subjects \ {a} : s \in Visible(u)' <=> s \in Visible(u)
  <2>1. user[u] \in UserStates BY DEF TypeOK
  <2>2. CanSee(t.cell, user[u].cell) <=> CanSee(user[u].cell, t.cell)
    BY <2>1, Symmetry DEF UserStates
  <2>3. a \in Visible(u)' <=> t.on = "grid" /\ u \in CollectUsers(t.cell)
    BY <1>1, <1>2, <2>2 DEF Visible, CollectSubjects, CollectUsers, InGrid
  <2>4. \A s \in Subjects \ {a} : \A c : s \in CollectUsers(c)' <=> s \in CollectUsers(c)
    BY <1>1 DEF CollectUsers, InGrid
  <2>5. \A s \in Subjects \ {a} : \A c :
          s \in CollectSubjects(u, c)' <=> s \in CollectSubjects(u, c)
    BY <2>4 DEF CollectSubjects
  <2>6. \A s \in Subjects \ {a} : s \in Visible(u)' <=> s \in Visible(u)
    BY <1>1, <2>5 DEF Visible, InGrid
  <2> QED BY <2>3, <2>6
<1>7. CellOf(a)' = t.cell /\ Armed(a)' = t.armed
  <2>1. t.armed \in BOOLEAN BY DEF UserStates
  <2> QED BY <1>1, <2>1 DEF CellOf, Armed
<1>8. ASSUME NEW s \in Subjects \ {a} PROVE CellOf(s)' = CellOf(s) /\ Armed(s)' = Armed(s)
  BY <1>1 DEF CellOf, Armed
<1> QED BY <1>1, <1>5, <1>6, <1>7, <1>8

\* Users stay: what changes is what happens to monsters and items.
LEMMA SightStays ==
  ASSUME TypeOK, user' = user, NEW s \in Subjects,
         s \in Monsters => monster'[s] = monster[s], s \in Items => ground'[s] = ground[s]
  PROVE  /\ \A u \in Users : s \in Visible(u)' <=> s \in Visible(u)
         /\ CellOf(s)' = CellOf(s) /\ Armed(s)' = Armed(s)
<1>1. \A c : CollectUsers(c)' = CollectUsers(c) BY DEF CollectUsers, InGrid
<1>2. \A u \in Users : s \in Visible(u)' <=> s \in Visible(u)
  BY <1>1 DEF Visible, CollectSubjects, InGrid
<1>3. s \in Users \/ s \in Monsters \/ s \in Items BY DEF Subjects
<1>4. CellOf(s)' = CellOf(s) /\ Armed(s)' = Armed(s) BY <1>3 DEF CellOf, Armed
<1> QED BY <1>2, <1>4

-----------------------------------------------------------------------------
(***************************************************************************)
(* Pictures and the queue                                                  *)
(***************************************************************************)

\* The weapons that s may be drawn with: the one in hand, or any after a
\* change that nobody was told of.
Arms(s) == {Armed(s)} \cup (IF s \in untold THEN BOOLEAN ELSE {})

\* The screens that are right about s for user u, as the server has both.
Right(u, s) ==
  IF s \in Visible(u) THEN Seen(s, ZoneOf[user[u].cell], CellOf(s), Arms(s))
                      ELSE Unseen(s, ZoneOf[user[u].cell], {u, s} \cap (struck \cup stray))

ScreenOf(u) == Screen(client[u], late[u], unsure[u])

\* Once client u has processed its queue, with whatever idle steps in
\* between, its screen is right about every subject.
Depicted(u) ==
  Exists(u) => \A s \in Subjects \ {u} : Carries({ScreenOf(u)}, u, chan[u], Right(u, s))

PictureInv == \A u \in Viewers : Depicted(u)

\* The dead are out of the grid, unless another zone's monster struck; an id
\* not used yet is nowhere.
ServerInv ==
  /\ \A u \in Users : user[u].on = "off" => ~user[u].alive
  /\ \A u \in Users : ~user[u].alive => user[u].on \in {"off", "out"} \/ u \in struck
  /\ \A i \in fresh : ground[i] = None

\* What is right about s only changes with notices about s.
LEMMA RightOnly ==
  ASSUME NEW u, NEW s
  PROVE  /\ Only(u, s, Right(u, s)) /\ Only(u, s, Right(u, s)')
         /\ Stable(Right(u, s)) /\ Stable(Right(u, s)')
         /\ Right(u, s) \subseteq Sound(s, ZoneOf[user[u].cell])
<1>1. Only(u, s, Right(u, s)) BY OnlyKinds DEF Right
<1>2. Only(u, s, Right(u, s)') BY OnlyKinds DEF Right
<1>3. Right(u, s) \subseteq Sound(s, ZoneOf[user[u].cell]) BY DEF Right, Seen, Unseen
<1> QED BY <1>1, <1>2, <1>3 DEF Only

\* News r to a user: none about s.
LEMMA NewsQuiet ==
  ASSUME NEW u, NEW s, NEW F, Only(u, s, F), NEW r \in Seq(News(u)),
         \A i \in DOMAIN r : r[i].id # s
  PROVE  Carries(F, u, r, F)
<1>1. \A i \in DOMAIN r : r[i] \in News(u) OBVIOUS
<1>2. \A i \in DOMAIN r : Takes(F, u, r[i], F) BY <1>1 DEF Only
<1> QED BY <1>2, CarriesQuiet DEF Only

\* One about s.
LEMMA NewsOnce ==
  ASSUME NEW u, NEW s, NEW F, NEW G, Only(u, s, F), Only(u, s, G), NEW r \in Seq(News(u)),
         NEW k \in DOMAIN r, Takes(F, u, r[k], G),
         \A i \in DOMAIN r : r[i].id = s => i = k
  PROVE  Carries(F, u, r, G)
<1>1. \A i \in DOMAIN r : r[i] \in News(u) OBVIOUS
<1>2. \A i \in DOMAIN r : i # k => Takes(F, u, r[i], F) /\ Takes(G, u, r[i], G)
  BY <1>1 DEF Only
<1> QED BY <1>2, CarriesOnce DEF Only

\* Notices r are posted to user u, which is in E when it has processed those
\* before.
LEMMA Posted ==
  ASSUME ViewInv, NEW u \in Viewers, NEW s, NEW E, NEW r \in Seq(Fit(u)),
         Carries({ScreenOf(u)}, u, chan[u], Right(u, s)),
         Carries({ScreenOf(u)}, u, chan[u], E),
         chan'[u] = chan[u] \o r, UNCHANGED <<client, late, unsure>>,
         Carries(Right(u, s) \cap E, u, r, Right(u, s)')
  PROVE  Carries({ScreenOf(u)'}, u, chan'[u], Right(u, s)')
<1>1. chan[u] \in Seq(Fit(u)) BY DEF ViewInv
<1>2. Carries({ScreenOf(u)}, u, chan[u], Right(u, s) \cap E) BY <1>1, CarriesBoth
<1>3. Carries({ScreenOf(u)}, u, chan[u] \o r, Right(u, s)') BY <1>1, <1>2, CarriesOn
<1>4. ScreenOf(u)' = ScreenOf(u) BY DEF ScreenOf
<1> QED BY <1>3, <1>4

\* User u is told something of subject w, or nothing; of the others it is
\* right already.
LEMMA Told ==
  ASSUME ViewInv, NEW u \in Viewers, Exists(u), Depicted(u), UNCHANGED <<client, late, unsure>>,
         NEW w, NEW r \in Seq(News(u)), chan'[u] = chan[u] \o r,
         \A i \in DOMAIN r : r[i].id = w,
         \A s \in Subjects \ {u, w} : Right(u, s) \subseteq Right(u, s)',
         w \in Subjects \ {u} => Carries(Right(u, w), u, r, Right(u, w)')
  PROVE  Depicted(u)'
<1> SUFFICES ASSUME NEW s \in Subjects \ {u}
             PROVE  Carries({ScreenOf(u)'}, u, chan'[u], Right(u, s)')
  BY DEF Depicted
<1>1. r \in Seq(Fit(u)) BY FitTypes
<1>2. Carries({ScreenOf(u)}, u, chan[u], Right(u, s)) BY DEF Depicted
<1>3. Carries(Right(u, s), u, r, Right(u, s)')
  <2>1. CASE s = w BY <2>1
  <2>2. CASE s # w
    <3>1. Carries(Right(u, s), u, r, Right(u, s)) BY <2>2, RightOnly, NewsQuiet
    <3>2. Right(u, s) \subseteq Right(u, s)' BY <2>2
    <3> QED BY <3>1, <3>2, CarriesLess
  <2> QED BY <2>1, <2>2
<1>4. Right(u, s) \cap Right(u, s) = Right(u, s) OBVIOUS
<1> QED BY <1>1, <1>2, <1>3, <1>4, Posted

-----------------------------------------------------------------------------
(***************************************************************************)
(* From one right picture to the next                                      *)
(***************************************************************************)

\* Nothing about s changes for user u, or no more is known of it.
LEMMA RightStays ==
  ASSUME NEW u, NEW s, ZoneOf[user'[u].cell] = ZoneOf[user[u].cell],
         struck \subseteq struck', stray \subseteq stray',
         s \in Visible(u)' <=> s \in Visible(u),
         s \in Visible(u) => CellOf(s)' = CellOf(s) /\ Arms(s) \subseteq Arms(s)'
  PROVE  Right(u, s) \subseteq Right(u, s)'
<1>1. CASE s \in Visible(u)
  <2>1. PICK z, c, arms, now :
          z = ZoneOf[user[u].cell] /\ c = CellOf(s) /\ arms = Arms(s) /\ now = Arms(s)'
    OBVIOUS
  <2>2. Right(u, s) = Seen(s, z, c, arms) /\ Right(u, s)' = Seen(s, z, c, now)
    BY <1>1, <2>1 DEF Right
  <2>3. arms \subseteq now BY <1>1, <2>1
  <2> QED BY <2>2, <2>3 DEF Seen, Holds
<1>2. CASE s \notin Visible(u)
  <2>1. Right(u, s) = Unseen(s, ZoneOf[user[u].cell], {u, s} \cap (struck \cup stray))
    BY <1>2 DEF Right
  <2>2. Right(u, s)' = Unseen(s, ZoneOf[user[u].cell], {u, s} \cap (struck' \cup stray'))
    BY <1>2 DEF Right
  <2> QED BY <2>1, <2>2 DEF Unseen
<1> QED BY <1>1, <1>2

\* Out of sight without a notice: a monster, or by another zone's thread.
LEMMA RightFades ==
  ASSUME NEW u, NEW s, ZoneOf[user'[u].cell] = ZoneOf[user[u].cell], s \notin Visible(u)',
         s \in Monsters \/ {u, s} \cap (struck' \cup stray') # {}
  PROVE  Right(u, s) \subseteq Right(u, s)'
<1>1. Right(u, s) \subseteq Sound(s, ZoneOf[user[u].cell]) BY RightOnly
<1>2. Right(u, s)' = Unseen(s, ZoneOf[user[u].cell], {u, s} \cap (struck' \cup stray'))
  BY DEF Right
<1> QED BY <1>1, <1>2 DEF Unseen

\* The notices that tell a user of s what the server has.
Tells(u, n, s) ==
  /\ n.type \in {"ADD", "RESPAWN", "MOVE", "REMOVE", "DIE", "EQUIP"}
  /\ n.type \in {"ADD", "RESPAWN", "MOVE"} => s \in Visible(u)' /\ n.cell = CellOf(s)'
  /\ n.type = "ADD" => n.armed = Armed(s)'
  /\ n.type = "MOVE" => s \in Monsters \/ (s \in Visible(u) /\ Arms(s)' = Arms(s))
  /\ n.type \in {"REMOVE", "DIE"} => s \notin Visible(u)'
  /\ n.type = "EQUIP" => /\ s \in Visible(u) /\ s \in Visible(u)'
                         /\ CellOf(s)' = CellOf(s) /\ n.armed = Armed(s)'

\* A notice that tells what the server has makes the picture right.
LEMMA RightTold ==
  ASSUME NEW u, NEW s, NEW n \in News(u), n.id = s, Tells(u, n, s),
         ZoneOf[user'[u].cell] = ZoneOf[user[u].cell]
  PROVE  Takes(Right(u, s), u, n, Right(u, s)')
<1>1. PICK z, c, arms, k, now, h :
        /\ z = ZoneOf[user[u].cell] /\ c = CellOf(s) /\ arms = Arms(s)
        /\ k = CellOf(s)' /\ now = Arms(s)' /\ h = {u, s} \cap (struck' \cup stray')
  OBVIOUS
<1>2. Right(u, s) \subseteq Sound(s, z) BY <1>1, RightOnly
<1>3. s \in Visible(u) => Right(u, s) = Seen(s, z, c, arms) BY <1>1 DEF Right
<1>4. s \in Visible(u)' => Right(u, s)' = Seen(s, z, k, now) BY <1>1 DEF Right
<1>5. s \notin Visible(u)' => Right(u, s)' = Unseen(s, z, h) BY <1>1 DEF Right
<1>6. CASE n.type = "ADD"
  <2>0. n.armed \in now /\ n.cell = k BY <1>1, <1>6 DEF Tells, Arms
  <2>1. Takes(Sound(s, z), u, n, Seen(s, z, k, now)) BY <1>6, <2>0, TellsPlace
  <2> QED BY <1>2, <1>4, <1>6, <2>1 DEF Takes, Tells
<1>7. CASE n.type = "RESPAWN"
  <2>1. Takes(Sound(s, z), u, n, Seen(s, z, k, now)) BY <1>1, <1>7, TellsPlace DEF Tells
  <2> QED BY <1>2, <1>4, <1>7, <2>1 DEF Takes, Tells
<1>8. CASE n.type = "MOVE" /\ s \in Monsters
  <2>1. Takes(Sound(s, z), u, n, Seen(s, z, k, now)) BY <1>1, <1>8, TellsPlace DEF Tells
  <2> QED BY <1>2, <1>4, <1>8, <2>1 DEF Takes, Tells
<1>9. CASE n.type = "MOVE" /\ s \notin Monsters
  <2>1. s \in Visible(u) /\ s \in Visible(u)' /\ now = arms /\ n.cell = k
    BY <1>1, <1>9 DEF Tells
  <2>2. Takes(Seen(s, z, c, arms), u, n, Seen(s, z, k, arms)) BY <1>9, <2>1, TellsPlace
  <2> QED BY <1>3, <1>4, <2>1, <2>2
<1>10. CASE n.type \in {"REMOVE", "DIE"}
  <2>1. Takes(Sound(s, z), u, n, Unseen(s, z, h)) BY <1>10, TellsGone
  <2> QED BY <1>2, <1>5, <1>10, <2>1 DEF Takes, Tells
<1>11. CASE n.type = "EQUIP"
  <2>1. s \in Visible(u) /\ s \in Visible(u)' /\ k = c /\ n.armed \in now
    BY <1>1, <1>11 DEF Tells, Arms
  <2>2. Takes(Seen(s, z, c, arms), u, n, Seen(s, z, c, now)) BY <1>11, <2>1, TellsWeapon
  <2> QED BY <1>3, <1>4, <2>1, <2>2
<1> QED BY <1>6, <1>7, <1>8, <1>9, <1>10, <1>11 DEF Tells

\* User u is told of w what there is to tell, if anything, and nothing else
\* changes for it.
LEMMA ToldOf ==
  ASSUME ViewInv, NEW u \in Viewers, Exists(u), Depicted(u), UNCHANGED <<client, late, unsure>>,
         NEW w, user'[u].cell = user[u].cell, struck \subseteq struck', stray \subseteq stray',
         \A s \in Subjects \ {u, w} : /\ s \in Visible(u)' <=> s \in Visible(u)
                                      /\ CellOf(s)' = CellOf(s) /\ Arms(s)' = Arms(s),
         \/ chan'[u] = chan[u] \o <<>> /\ Right(u, w) \subseteq Right(u, w)'
         \/ \E n \in News(u) : n.id = w /\ Tells(u, n, w) /\ chan'[u] = chan[u] \o <<n>>
  PROVE  Depicted(u)'
<1>1. \A s \in Subjects \ {u, w} : Right(u, s) \subseteq Right(u, s)'
  BY RightStays
<1>2. CASE chan'[u] = chan[u] \o <<>> /\ Right(u, w) \subseteq Right(u, w)'
  <2>1. <<>> \in Seq(News(u)) /\ DOMAIN <<>> = {} OBVIOUS
  <2>2. Stable(Right(u, w)') BY RightOnly
  <2>3. Carries(Right(u, w), u, <<>>, Right(u, w)') BY <1>2, <2>2, CarriesNothing
  <2> QED BY <1>1, <1>2, <2>1, <2>3, Told
<1>3. ASSUME NEW n \in News(u), n.id = w, Tells(u, n, w), chan'[u] = chan[u] \o <<n>>
      PROVE  Depicted(u)'
  <2>1. <<n>> \in Seq(News(u)) /\ \A i \in DOMAIN <<n>> : <<n>>[i].id = w BY <1>3
  <2>2. Takes(Right(u, w), u, n, Right(u, w)') BY <1>3, RightTold
  <2>3. Carries(Right(u, w), u, <<n>>, Right(u, w)') BY <2>2, RightOnly, CarriesNotice
  <2> QED BY <1>1, <1>3, <2>1, <2>3, Told
<1> QED BY <1>2, <1>3

\* User a changes, and viewer u is told of it or need not be.
LEMMA ToldOfUser ==
  ASSUME ViewInv, NEW a \in Users, NEW t \in UserStates, user' = [user EXCEPT ![a] = t],
         UNCHANGED <<monster, ground, client, late, unsure>>,
         struck \subseteq struck', stray \subseteq stray', untold' \ {a} = untold \ {a},
         NEW u \in Viewers, u # a, Depicted(u),
         Exists(u) =>
           \/ chan'[u] = chan[u] \o <<>> /\ Right(u, a) \subseteq Right(u, a)'
           \/ \E n \in News(u) : n.id = a /\ Tells(u, n, a) /\ chan'[u] = chan[u] \o <<n>>
  PROVE  Depicted(u)'
<1>1. TypeOK /\ u \in Users \ {a} BY ViewAssumption DEF ViewInv
<1>2. /\ user'[u] = user[u]
      /\ \A s \in Subjects \ {a} : s \in Visible(u)' <=> s \in Visible(u)
      /\ \A s \in Subjects \ {a} : CellOf(s)' = CellOf(s) /\ Armed(s)' = Armed(s)
  BY <1>1, SightAfter
<1>3. Exists(u)' <=> Exists(u) BY <1>2 DEF Exists
<1>4. CASE ~Exists(u) BY <1>3, <1>4 DEF Depicted
<1>5. CASE Exists(u)
  <2>1. \A s \in Subjects \ {u, a} : /\ s \in Visible(u)' <=> s \in Visible(u)
                                     /\ CellOf(s)' = CellOf(s) /\ Arms(s)' = Arms(s)
    <3> SUFFICES ASSUME NEW s \in Subjects \ {u, a}
                 PROVE  /\ s \in Visible(u)' <=> s \in Visible(u)
                        /\ CellOf(s)' = CellOf(s) /\ Arms(s)' = Arms(s)
      OBVIOUS
    <3>1. s \in untold' <=> s \in untold OBVIOUS
    <3> QED BY <1>2, <3>1 DEF Arms
  <2> QED BY <1>2, <1>5, <2>1, ToldOf
<1> QED BY <1>4, <1>5

\* What happens to a monster or an item w.
LEMMA ToldOfThing ==
  ASSUME ViewInv, NEW w \in Monsters \cup Items,
         UNCHANGED <<user, client, late, unsure, struck, stray, untold>>,
         \A m \in Monsters : m # w => monster'[m] = monster[m],
         \A i \in Items : i # w => ground'[i] = ground[i],
         NEW u \in Viewers, Depicted(u),
         Exists(u) =>
           \/ chan'[u] = chan[u] \o <<>> /\ Right(u, w) \subseteq Right(u, w)'
           \/ \E n \in News(u) : n.id = w /\ Tells(u, n, w) /\ chan'[u] = chan[u] \o <<n>>
  PROVE  Depicted(u)'
<1>1. TypeOK /\ u \in Users BY ViewAssumption DEF ViewInv
<1>2. \A s \in Subjects \ {w} : /\ s \in Visible(u)' <=> s \in Visible(u)
                                /\ CellOf(s)' = CellOf(s) /\ Arms(s)' = Arms(s)
  BY <1>1, SightStays DEF Arms
<1>3. Exists(u)' <=> Exists(u) BY DEF Exists
<1>4. CASE ~Exists(u) BY <1>3, <1>4 DEF Depicted
<1>5. CASE Exists(u) BY <1>2, <1>5, ToldOf
<1> QED BY <1>4, <1>5

\* A sequence of one notice about each of the subjects of S.
LEMMA OneEach ==
  ASSUME NEW S, IsFiniteSet(S), NEW f, DOMAIN f = S, \A s \in S : f[s].id = s,
         NEW T, \A x : x \in T <=> \E s \in S : x = f[s], NEW q, q = SetToSeq(T)
  PROVE  /\ \A i \in DOMAIN q : q[i].id \in S
         /\ \A s \in S : \E k \in DOMAIN q :
              q[k] = f[s] /\ \A i \in DOMAIN q : q[i].id = s => i = k
<1>1. \A x \in T : x.id \in S /\ x = f[x.id] OBVIOUS
<1>2. \A s \in S : f[s] \in T OBVIOUS
<1>3. IsFiniteSet(T)
  <2>1. T = {f[s] : s \in S} OBVIOUS
  <2> QED BY <2>1, FiniteValues
<1>4. q = SetToSeq(T) OBVIOUS
<1>5. /\ q \in Seq(T) /\ \A x \in T : \E k \in DOMAIN q : q[k] = x
      /\ \A j, k \in DOMAIN q : q[j] = q[k] => j = k
  <2>1. /\ SetToSeq(T) \in Seq(T)
        /\ \A x \in T : \E k \in DOMAIN SetToSeq(T) : SetToSeq(T)[k] = x
        /\ \A j, k \in DOMAIN SetToSeq(T) : SetToSeq(T)[j] = SetToSeq(T)[k] => j = k
    BY <1>3, SetToSeqLemma
  <2> QED BY <1>4, <2>1
<1>6. \A i \in DOMAIN q : q[i] \in T BY <1>5
<1>7. \A i \in DOMAIN q : q[i].id \in S BY <1>1, <1>6
<1>8. ASSUME NEW s \in S
      PROVE  \E k \in DOMAIN q : q[k] = f[s] /\ \A i \in DOMAIN q : q[i].id = s => i = k
  <2>1. PICK k \in DOMAIN q : q[k] = f[s] BY <1>2, <1>5
  <2>2. \A i \in DOMAIN q : q[i].id = s => q[i] = q[k] BY <1>1, <1>6, <2>1
  <2>3. \A i \in DOMAIN q : q[i].id = s => i = k BY <1>5, <2>2
  <2> QED BY <2>1, <2>3
<1> QED BY <1>7, <1>8

\* The notices of Adds and Removals.
LEMMA AddsLemma ==
  ASSUME NEW S \in SUBSET Subjects
  PROVE  /\ \A i \in DOMAIN Adds(S) : Adds(S)[i].id \in S
         /\ \A s \in S : \E k \in DOMAIN Adds(S) :
              /\ Adds(S)[k] = Notice("ADD", s, CellOf(s))
              /\ \A i \in DOMAIN Adds(S) : Adds(S)[i].id = s => i = k
<1>1. PICK f : f = [s \in S |-> Notice("ADD", s, CellOf(s))] OBVIOUS
<1>2. /\ DOMAIN f = S /\ \A s \in S : f[s] = Notice("ADD", s, CellOf(s))
  BY <1>1
<1>3. \A s \in S : f[s].id = s BY <1>2 DEF Notice
<1>4. PICK T : T = {Notice("ADD", s, CellOf(s)) : s \in S} OBVIOUS
<1>5. IsFiniteSet(S) BY FiniteSubjects
<1>6. PICK q : q = Adds(S) OBVIOUS
<1>7. /\ \A i \in DOMAIN q : q[i].id \in S
      /\ \A s \in S : \E k \in DOMAIN q :
           q[k] = f[s] /\ \A i \in DOMAIN q : q[i].id = s => i = k
  <2>1. q = SetToSeq(T) BY <1>4, <1>6 DEF Adds
  <2>2. \A x : x \in T <=> \E s \in S : x = f[s] BY <1>2, <1>4
  <2>3. DOMAIN f = S BY <1>2
  <2> QED BY <1>3, <1>5, <2>1, <2>2, <2>3, OneEach
<1> QED BY <1>2, <1>6, <1>7

\* Removals has one notice for each subject of S, and no other.
LEMMA RemovalsLemma ==
  ASSUME NEW S \in SUBSET Subjects
  PROVE  /\ \A i \in DOMAIN Removals(S) : Removals(S)[i].id \in S
         /\ \A s \in S : \E k \in DOMAIN Removals(S) :
              /\ Removals(S)[k] = Removal(s)
              /\ \A i \in DOMAIN Removals(S) : Removals(S)[i].id = s => i = k
<1>1. PICK f : f = [s \in S |-> Removal(s)] OBVIOUS
<1>2. /\ DOMAIN f = S /\ \A s \in S : f[s] = Removal(s)
  BY <1>1
<1>3. \A s \in S : f[s].id = s BY <1>2 DEF Removal, Notice
<1>4. PICK T : T = {Removal(s) : s \in S} OBVIOUS
<1>5. IsFiniteSet(S) BY FiniteSubjects
<1>6. PICK q : q = Removals(S) OBVIOUS
<1>7. /\ \A i \in DOMAIN q : q[i].id \in S
      /\ \A s \in S : \E k \in DOMAIN q :
           q[k] = f[s] /\ \A i \in DOMAIN q : q[i].id = s => i = k
  <2>1. q = SetToSeq(T) BY <1>4, <1>6 DEF Removals
  <2>2. \A x : x \in T <=> \E s \in S : x = f[s] BY <1>2, <1>4
  <2>3. DOMAIN f = S BY <1>2
  <2> QED BY <1>3, <1>5, <2>1, <2>2, <2>3, OneEach
<1> QED BY <1>2, <1>6, <1>7

\* Adds and Removals to user u, and the picture of s.
LEMMA AddsCarry ==
  ASSUME TypeOK, NEW u \in Users, NEW S \in SUBSET (Subjects \ {u}),
         \A t \in S : CellOf(t) \in Cells,
         NEW s, NEW z, NEW F, NEW G, Only(u, s, F), Only(u, s, G), F \subseteq Sound(s, z),
         NEW arms, Armed(s) \in arms,
         s \in S => Seen(s, z, CellOf(s), arms) \subseteq G, s \notin S => F \subseteq G
  PROVE  Carries(F, u, Adds(S), G)
<1>1. Adds(S) \in Seq(News(u)) BY AddsType
<1>2. PICK q : q = Adds(S) OBVIOUS
<1>3. CASE s \in S
  <2>1. PICK k \in DOMAIN q : /\ q[k] = Notice("ADD", s, CellOf(s))
                              /\ \A i \in DOMAIN q : q[i].id = s => i = k
    BY <1>2, <1>3, AddsLemma
  <2>2. q[k] \in News(u) BY <1>1, <1>2
  <2>3. PICK n : n = q[k] OBVIOUS
  <2>4. /\ n \in News(u) /\ n.id = s /\ n.type = "ADD" /\ n.cell = CellOf(s)
        /\ n.armed = Armed(s)
    BY <2>1, <2>2, <2>3 DEF Notice
  <2>5. Takes(Sound(s, z), u, n, Seen(s, z, CellOf(s), arms)) BY <2>4, TellsPlace
  <2>6. Takes(F, u, q[k], G) BY <1>3, <2>3, <2>5 DEF Takes
  <2> QED BY <1>1, <1>2, <2>1, <2>6, NewsOnce
<1>4. CASE s \notin S
  <2>1. \A i \in DOMAIN q : q[i].id # s BY <1>2, <1>4, AddsLemma
  <2>2. Carries(F, u, q, F) BY <1>1, <1>2, <2>1, NewsQuiet
  <2> QED BY <1>2, <1>4, <2>2, CarriesLess
<1> QED BY <1>3, <1>4

\* Removals to user u, and the picture of s.
LEMMA RemovalsCarry ==
  ASSUME TypeOK, NEW u \in Users, NEW S \in SUBSET (Subjects \ {u}),
         NEW s, NEW z, NEW F, NEW G, Only(u, s, F), Only(u, s, G), F \subseteq Sound(s, z),
         NEW hit, s \in S => Unseen(s, z, hit) \subseteq G, s \notin S => F \subseteq G
  PROVE  Carries(F, u, Removals(S), G)
<1>1. Removals(S) \in Seq(News(u)) BY RemovalsType
<1>2. PICK q : q = Removals(S) OBVIOUS
<1>3. CASE s \in S
  <2>1. PICK k \in DOMAIN q : /\ q[k] = Removal(s)
                              /\ \A i \in DOMAIN q : q[i].id = s => i = k
    BY <1>2, <1>3, RemovalsLemma
  <2>2. q[k] \in News(u) BY <1>1, <1>2
  <2>3. PICK n : n = q[k] OBVIOUS
  <2>4. n \in News(u) /\ n.id = s /\ n.type = "REMOVE"
    BY <2>1, <2>2, <2>3 DEF Removal, Notice
  <2>5. Takes(Sound(s, z), u, n, Unseen(s, z, hit)) BY <2>4, TellsGone
  <2>6. Takes(F, u, q[k], G) BY <1>3, <2>3, <2>5 DEF Takes
  <2> QED BY <1>1, <1>2, <2>1, <2>6, NewsOnce
<1>4. CASE s \notin S
  <2>1. \A i \in DOMAIN q : q[i].id # s BY <1>2, <1>4, RemovalsLemma
  <2>2. Carries(F, u, q, F) BY <1>1, <1>2, <2>1, NewsQuiet
  <2> QED BY <1>2, <1>4, <2>2, CarriesLess
<1> QED BY <1>3, <1>4

\* The screen of a viewer is a screen.
LEMMA ScreenType ==
  ASSUME ViewInv, NEW u \in Viewers
  PROVE  ScreenOf(u) \in Screens /\ ScreenOf(u).client = client[u]
BY DEF ViewInv, TypeOK, ScreenOf, Screen, Screens

\* A settled client stays out of fades while it processes its queue.
LEMMA SettledStill ==
  ASSUME ViewInv, NEW u \in Viewers, Patient, Settled(u)
  PROVE  Carries({ScreenOf(u)}, u, chan[u], Still)
<1>1. chan[u] \in Seq(Fit(u)) BY DEF ViewInv
<1>2. PICK q : q = chan[u] OBVIOUS
<1>3. \A i \in DOMAIN q : q[i] \in Fit(u) /\ q[i].id # u BY <1>1, <1>2 DEF Settled
<1>4. \A i \in DOMAIN q : Takes(Still, u, q[i], Still) BY <1>3, StillNews
<1>5. Carries(Still, u, q, Still) BY <1>1, <1>2, <1>4, StableStates, CarriesQuiet
<1>6. ScreenOf(u) \in Still BY ScreenType DEF Settled, Still
<1> QED BY <1>2, <1>5, <1>6, CarriesLess

\* What a user that appears at a cell is told of what is there.
LEMMA ArrivalCarries ==
  ASSUME TypeOK, NEW a \in Users, NEW t \in UserStates, user' = [user EXCEPT ![a] = t],
         UNCHANGED <<monster, ground>>, t.on = "grid",
         NEW s \in Subjects \ {a}, NEW F, Only(a, s, F), F \subseteq Sound(s, ZoneOf[t.cell]),
         s \notin CollectSubjects(a, t.cell) => F \subseteq Right(a, s)'
  PROVE  Carries(F, a, Adds(CollectSubjects(a, t.cell)), Right(a, s)')
<1>1. PICK S : S = CollectSubjects(a, t.cell) OBVIOUS
<1>2. S \in SUBSET (Subjects \ {a}) /\ \A x \in S : CellOf(x) \in Cells
  BY <1>1, SightLemma
<1>3. /\ user'[a] = t /\ Visible(a)' = S
      /\ CellOf(s)' = CellOf(s) /\ Armed(s)' = Armed(s)
  BY <1>1, SightAfter
<1>4. PICK arms : arms = Arms(s)' OBVIOUS
<1>5. s \in S => Right(a, s)' = Seen(s, ZoneOf[t.cell], CellOf(s), arms)
  BY <1>3, <1>4 DEF Right
<1>6. Armed(s) \in arms BY <1>3, <1>4 DEF Arms
<1>7. Only(a, s, Right(a, s)') BY RightOnly
<1> QED BY <1>1, <1>2, <1>5, <1>6, <1>7, AddsCarry

-----------------------------------------------------------------------------
(***************************************************************************)
(* The handlers and the pictures                                           *)
(***************************************************************************)

Good        == Patient /\ ViewInv /\ AvatarInv /\ ServerInv /\ PictureInv
Illustrated == ServerInv' /\ PictureInv'

\* A notice about a user, to another.
LEMMA UserNotice ==
  ASSUME TypeOK, NEW a \in Users, NEW type \in Types, type \notin {"LOGIN_ACK", "EQUIP"},
         NEW c \in Cells \cup {None}, type \in {"ADD", "MOVE", "RESPAWN"} => c \in Cells,
         NEW v, v # a
  PROVE  LET n == Notice(type, a, c) IN
         /\ n \in News(v) /\ n.id = a /\ n.type = type /\ n.cell = c
         /\ n.armed = user[a].armed
<1>1. a \in Subjects BY DEF Subjects
<1>2. PICK n : n = Notice(type, a, c) OBVIOUS
<1>3. n \in News(v) /\ n.id = a /\ n.type = type /\ n.cell = c
  BY <1>1, <1>2, NoticeLemma DEF Placing
<1>4. user[a] \in UserStates BY DEF TypeOK
<1>5. user[a].armed \in BOOLEAN BY <1>4 DEF UserStates
<1>6. Armed(a) = user[a].armed BY <1>5 DEF Armed
<1>7. n.armed = user[a].armed BY <1>2, <1>6 DEF Notice
<1> QED BY <1>2, <1>3, <1>7

\* Only what is due of the server's own state.
LEMMA ServerChange ==
  ASSUME Good, NEW a \in Users, NEW t \in UserStates, user' = [user EXCEPT ![a] = t],
         UNCHANGED <<ground, fresh>>, struck \subseteq struck',
         t.on = "off" => ~t.alive, ~t.alive => t.on \in {"off", "out"} \/ a \in struck'
  PROVE  ServerInv'
<1>1. TypeOK /\ ServerInv BY DEF Good, ViewInv
<1>2. user'[a] = t /\ \A u \in Users \ {a} : user'[u] = user[u] BY <1>1 DEF TypeOK
<1> QED BY <1>1, <1>2 DEF ServerInv

\* A notice about a monster or an item.
LEMMA ThingNotice ==
  ASSUME TypeOK, NEW w, w \in Monsters \cup Items, NEW type \in Types,
         type \notin {"LOGIN_ACK", "EQUIP"},
         NEW c, c \in Cells \cup {None}, type \in {"ADD", "MOVE", "RESPAWN"} => c \in Cells
  PROVE  LET n == Notice(type, w, c) IN
         /\ \A u \in Viewers : n \in News(u)
         /\ n.id = w /\ n.type = type /\ n.cell = c /\ n.armed = Armed(w)'
<1>1. w \in Subjects /\ w \notin Users BY ViewAssumption DEF Subjects
<1>2. PICK n : n = Notice(type, w, c) OBVIOUS
<1>3. Armed(w)' = Armed(w) BY <1>1 DEF Armed
<1>4. n.id = w /\ n.type = type /\ n.cell = c /\ n.armed = Armed(w) BY <1>2 DEF Notice
<1>5. ASSUME NEW u \in Viewers PROVE n \in News(u)
  <2>1. u # w BY ViewAssumption, <1>1
  <2>2. type \in Placing \cup {"ADD"} => c \in Cells BY DEF Placing
  <2>3. \A v : v # w /\ type # "LOGIN_ACK" => Notice(type, w, c) \in News(v)
    BY <1>1, <2>2, NoticeLemma
  <2> QED BY <1>2, <2>1, <2>3
<1> QED BY <1>2, <1>3, <1>4, <1>5

\* Who sees a monster or an item after its step.
LEMMA SightOfMonster ==
  ASSUME TypeOK, user' = user, NEW m \in Monsters, NEW t \in MonsterStates, monster'[m] = t,
         NEW u \in Users
  PROVE  /\ m \in Visible(u)' <=> t.alive /\ u \in CollectUsers(t.cell)
         /\ CellOf(m)' = t.cell
<1>1. m \notin Users /\ m \notin Items BY ViewAssumption
<1>2. t.cell \in Cells BY DEF MonsterStates
<1>3. user[u].cell \in Cells
  <2>1. user[u] \in UserStates BY DEF TypeOK
  <2> QED BY <2>1 DEF UserStates
<1>4. CanSee(t.cell, user[u].cell) <=> CanSee(user[u].cell, t.cell) BY <1>2, <1>3, Symmetry
<1>5. m \in Visible(u)' <=> t.alive /\ u \in CollectUsers(t.cell)
  BY <1>1, <1>4 DEF Visible, CollectSubjects, CollectUsers, InGrid
<1> QED BY <1>1, <1>5 DEF CellOf

\* Who sees an item after its step.
LEMMA SightOfItem ==
  ASSUME TypeOK, user' = user, NEW i \in Items, NEW c, c \in Cells \cup {None}, ground'[i] = c,
         NEW u \in Users
  PROVE  /\ i \in Visible(u)' <=> c # None /\ u \in CollectUsers(c)
         /\ CellOf(i)' = c
<1>1. i \notin Users /\ i \notin Monsters BY ViewAssumption
<1>2. user[u].cell \in Cells
  <2>1. user[u] \in UserStates BY DEF TypeOK
  <2> QED BY <2>1 DEF UserStates
<1>3. CASE c = None BY <1>1, <1>3 DEF Visible, CollectSubjects, CollectUsers, CellOf
<1>4. CASE c # None
  <2>1. CanSee(c, user[u].cell) <=> CanSee(user[u].cell, c) BY <1>2, <1>4, Symmetry
  <2>2. i \in Visible(u)' <=> u \in CollectUsers(c)
    BY <1>1, <1>4, <2>1 DEF Visible, CollectSubjects, CollectUsers, InGrid
  <2> QED BY <1>1, <1>4, <2>2 DEF CellOf
<1> QED BY <1>3, <1>4

\* The users that see cell c, all that see thing w before or after, are told.
LEMMA ThingTold ==
  ASSUME Good, NEW w \in Monsters \cup Items,
         UNCHANGED <<user, client, late, unsure, struck, stray, untold>>,
         \A m \in Monsters : m # w => monster'[m] = monster[m],
         \A i \in Items : i # w => ground'[i] = ground[i],
         NEW c, NEW n, Tell(c, n), n.id = w,
         \A u \in Viewers : n \in News(u),
         \A u \in Viewers : Exists(u) /\ u \in CollectUsers(c) => Tells(u, n, w),
         \A u \in Viewers : u \notin CollectUsers(c) =>
                              w \notin Visible(u) /\ w \notin Visible(u)'
  PROVE  PictureInv'
<1> SUFFICES ASSUME NEW u \in Viewers PROVE Depicted(u)' BY DEF PictureInv
<1>1. ViewInv /\ Depicted(u) BY DEF Good, PictureInv
<1>2. ASSUME Exists(u)
      PROVE  \/ chan'[u] = chan[u] \o <<>> /\ Right(u, w) \subseteq Right(u, w)'
             \/ \E k \in News(u) : k.id = w /\ Tells(u, k, w) /\ chan'[u] = chan[u] \o <<k>>
  <2>1. CASE u \in CollectUsers(c)
    <3>1. chan'[u] = chan[u] \o <<n>> BY <1>2, <2>1 DEF Tell, Post
    <3>2. n \in News(u) /\ Tells(u, n, w) BY <1>2, <2>1
    <3> QED BY <3>1, <3>2
  <2>2. CASE u \notin CollectUsers(c)
    <3>1. chan'[u] = chan[u] \o <<>> BY <1>2, <2>2 DEF Tell, Post
    <3>2. w \notin Visible(u) /\ w \notin Visible(u)' BY <2>2
    <3>3. Right(u, w) \subseteq Right(u, w)' BY <3>2, RightStays
    <3> QED BY <3>1, <3>3
  <2> QED BY <2>1, <2>2
<1> QED BY <1>1, <1>2, ToldOfThing

\* SpawnFieldItem, where a user throws something away.
LEMMA PicturesOfDiscard ==
  ASSUME Good, NEW a \in Users, Discard(a)
  PROVE  Illustrated
<1>1. TypeOK /\ ServerInv /\ Viewers \subseteq Users
  BY ViewAssumption DEF Good, ViewInv
<1>2. PICK c \in Cells : c = user[a].cell BY <1>1 DEF TypeOK, UserStates
<1>3. PICK i \in fresh : Lay(i, c) /\ Tell(c, Notice("ADD", i, c)) BY <1>2 DEF Discard
<1>4. i \in Items BY <1>1, <1>3 DEF TypeOK
<1>5. /\ ground'[i] = c /\ \A j \in Items : j # i => ground'[j] = ground[j]
      /\ fresh' = fresh \ {i} /\ ground[i] = None
  BY <1>1, <1>3, <1>4 DEF Lay, TypeOK, ServerInv
<1>6. UNCHANGED <<user, monster, client, late, unsure, struck, stray, untold>>
  BY DEF Discard, observed
<1>7. PICK n : n = Notice("ADD", i, c) OBVIOUS
<1>8. /\ \A u \in Viewers : n \in News(u)
      /\ n.id = i /\ n.type = "ADD" /\ n.cell = c /\ n.armed = Armed(i)'
  BY <1>1, <1>4, <1>7, ThingNotice DEF Types
<1>9. \A u \in Users : /\ i \in Visible(u)' <=> u \in CollectUsers(c)
                       /\ CellOf(i)' = c /\ i \notin Visible(u)
  <2> SUFFICES ASSUME NEW u \in Users
               PROVE  /\ i \in Visible(u)' <=> u \in CollectUsers(c)
                      /\ CellOf(i)' = c /\ i \notin Visible(u)
    OBVIOUS
  <2>1. c # None BY ViewAssumption
  <2>2. i \notin Visible(u) BY <1>1, <1>4, <1>5, SightOfThings
  <2>3. /\ i \in Visible(u)' <=> c # None /\ u \in CollectUsers(c)
        /\ CellOf(i)' = c
    BY <1>1, <1>4, <1>5, <1>6, SightOfItem
  <2> QED BY <2>1, <2>2, <2>3
<1>10. \A u \in Viewers : u \in CollectUsers(c) => Tells(u, n, i)
  BY <1>1, <1>8, <1>9 DEF Tells
<1>11. \A u \in Viewers : u \notin CollectUsers(c) => i \notin Visible(u) /\ i \notin Visible(u)'
  BY <1>1, <1>9
<1>12. Tell(c, n) BY <1>3, <1>7
<1>13. \A m \in Monsters : m # i => monster'[m] = monster[m] BY <1>6
<1>14. PictureInv'
  BY <1>4, <1>5, <1>6, <1>8, <1>10, <1>11, <1>12, <1>13, ThingTold
<1>15. ServerInv' BY <1>1, <1>5, <1>6 DEF ServerInv, TypeOK
<1> QED BY <1>14, <1>15 DEF Illustrated

\* An item is picked up or its time is over.
LEMMA PicturesOfRemoval ==
  ASSUME Good, NEW i \in Items, RemoveFieldItem(i)
  PROVE  Illustrated
<1>1. TypeOK /\ ServerInv /\ Viewers \subseteq Users
  BY ViewAssumption DEF Good, ViewInv
<1>2. PICK c \in Cells : c = ground[i] BY <1>1 DEF RemoveFieldItem, TypeOK
<1>3. /\ ground' = [ground EXCEPT ![i] = None] /\ Tell(c, Removal(i))
      /\ UNCHANGED <<user, monster, fresh, client, late, unsure, struck, stray, untold>>
  BY <1>2 DEF RemoveFieldItem, observed
<1>4. ground'[i] = None /\ \A j \in Items : j # i => ground'[j] = ground[j]
  BY <1>1, <1>3 DEF TypeOK
<1>5. PICK n : n = Removal(i) OBVIOUS
<1>6. /\ \A u \in Viewers : n \in News(u)
      /\ n.id = i /\ n.type = "REMOVE"
  BY <1>1, <1>5, ThingNotice DEF Types, Removal
<1>7. \A u \in Users : /\ i \in Visible(u) <=> u \in CollectUsers(c)
                       /\ i \notin Visible(u)'
  <2>1. c # None BY <1>2 DEF RemoveFieldItem
  <2> QED BY <1>1, <1>2, <1>3, <1>4, <2>1, SightOfItem, SightOfThings
<1>8. \A u \in Viewers : u \in CollectUsers(c) => Tells(u, n, i)
  BY <1>1, <1>6, <1>7 DEF Tells
<1>9. \A u \in Viewers : u \notin CollectUsers(c) => i \notin Visible(u) /\ i \notin Visible(u)'
  BY <1>1, <1>7
<1>10. Tell(c, n) BY <1>3, <1>5
<1>11. \A m \in Monsters : m # i => monster'[m] = monster[m] BY <1>3
<1>12. PictureInv'
  BY <1>3, <1>4, <1>6, <1>8, <1>9, <1>10, <1>11, ThingTold
<1>13. ServerInv'
  <2>1. \A j \in fresh' : ground'[j] = None BY <1>1, <1>3, <1>4 DEF ServerInv, TypeOK
  <2> QED BY <1>1, <1>3, <2>1 DEF ServerInv
<1> QED BY <1>12, <1>13 DEF Illustrated

\* A monster's step, whatever its list was.
LEMMA PicturesOfMonsterMove ==
  ASSUME Good, NEW m \in Monsters, MonsterMove(m)
  PROVE  Illustrated
<1>1. TypeOK /\ ServerInv /\ Viewers \subseteq Users /\ ViewInv
  BY ViewAssumption DEF Good, ViewInv
<1>2. PICK c \in Cells :
        /\ monster' = [monster EXCEPT ![m].cell = c]
        /\ Replace(m, c, viewList[m], CollectUsers(c))
  BY DEF MonsterMove
<1>3. monster[m].alive = TRUE /\ UNCHANGED <<user, ground, fresh, client, late, unsure,
                                             struck, stray, untold>>
  <2>1. monster[m] \in MonsterStates BY <1>1 DEF TypeOK
  <2> QED BY <2>1 DEF MonsterMove, field, observed, MonsterStates
<1>4. PICK t : t = [monster[m] EXCEPT !.cell = c] OBVIOUS
<1>5. t \in MonsterStates /\ t.cell = c /\ t.alive = TRUE
  <2>1. monster[m] \in MonsterStates BY <1>1 DEF TypeOK
  <2> QED BY <1>3, <1>4, <2>1 DEF MonsterStates
<1>6. monster'[m] = t /\ \A k \in Monsters : k # m => monster'[k] = monster[k]
  BY <1>1, <1>2, <1>4 DEF TypeOK
<1>7. \A u \in Users : (m \in Visible(u)' <=> u \in CollectUsers(c)) /\ CellOf(m)' = c
  BY <1>1, <1>3, <1>5, <1>6, SightOfMonster
<1>8. ASSUME NEW u \in Viewers PROVE Depicted(u)'
  <2>1. Depicted(u) /\ u \in Users BY <1>1 DEF Good, PictureInv
  <2>2. ASSUME Exists(u)
        PROVE  \/ chan'[u] = chan[u] \o <<>> /\ Right(u, m) \subseteq Right(u, m)'
               \/ \E k \in News(u) : k.id = m /\ Tells(u, k, m) /\ chan'[u] = chan[u] \o <<k>>
    <3>1. CASE u \in CollectUsers(c)
      <4>1. PICK type \in {"MOVE", "ADD"} :
              chan'[u] = chan[u] \o <<Notice(type, m, c)>>
        BY <1>2, <2>2, <3>1 DEF Replace, Post
      <4>2. PICK n : n = Notice(type, m, c) OBVIOUS
      <4>3. /\ n \in News(u) /\ n.id = m /\ n.type = type /\ n.cell = c
            /\ n.armed = Armed(m)'
        BY <1>1, <4>2, ThingNotice DEF Types
      <4>4. Tells(u, n, m) BY <1>7, <2>1, <3>1, <4>1, <4>3 DEF Tells
      <4> QED BY <4>1, <4>2, <4>3, <4>4
    <3>2. CASE u \notin CollectUsers(c) /\ u \in viewList[m]
      <4>1. PICK n : n = Removal(m) OBVIOUS
      <4>2. n \in News(u) /\ n.id = m /\ n.type = "REMOVE"
        BY <1>1, <4>1, ThingNotice DEF Types, Removal
      <4>3. chan'[u] = chan[u] \o <<n>> BY <1>2, <2>2, <3>2, <4>1 DEF Replace, Post
      <4>4. Tells(u, n, m) BY <1>7, <2>1, <3>2, <4>2 DEF Tells
      <4> QED BY <4>2, <4>3, <4>4
    <3>3. CASE u \notin CollectUsers(c) /\ u \notin viewList[m]
      <4>1. chan'[u] = chan[u] \o <<>> BY <1>2, <2>2, <3>3 DEF Replace, Post
      <4>2. m \notin Visible(u)' BY <1>7, <2>1, <3>3
      <4>3. Right(u, m) \subseteq Right(u, m)' BY <1>3, <4>2, RightFades
      <4> QED BY <4>1, <4>3
    <3> QED BY <3>1, <3>2, <3>3
  <2> QED BY <1>1, <1>3, <1>6, <2>1, <2>2, ToldOfThing
<1>9. ServerInv' BY <1>1, <1>3 DEF ServerInv
<1> QED BY <1>8, <1>9 DEF Illustrated, PictureInv

\* HandleRespawn of a monster.
LEMMA PicturesOfMonsterRespawn ==
  ASSUME Good, NEW m \in Monsters, MonsterRespawn(m)
  PROVE  Illustrated
<1>1. TypeOK /\ ServerInv /\ Viewers \subseteq Users
  BY ViewAssumption DEF Good, ViewInv
<1>2. PICK c \in Cells : /\ monster' = [monster EXCEPT ![m] = [cell |-> c, alive |-> TRUE]]
                         /\ Tell(c, Notice("RESPAWN", m, c))
  BY DEF MonsterRespawn
<1>3. ~monster[m].alive /\ UNCHANGED <<user, ground, fresh, client, late, unsure,
                                       struck, stray, untold>>
  BY DEF MonsterRespawn, field, observed
<1>4. PICK t : t = [cell |-> c, alive |-> TRUE] OBVIOUS
<1>5. t \in MonsterStates /\ t.cell = c /\ t.alive BY <1>4 DEF MonsterStates
<1>6. monster'[m] = t /\ \A k \in Monsters : k # m => monster'[k] = monster[k]
  BY <1>1, <1>2, <1>4 DEF TypeOK
<1>7. ASSUME NEW u \in Users
      PROVE  /\ m \in Visible(u)' <=> u \in CollectUsers(c)
             /\ CellOf(m)' = c /\ m \notin Visible(u)
  <2>1. m \notin Visible(u) BY <1>1, <1>3, SightOfThings
  <2>2. /\ m \in Visible(u)' <=> t.alive /\ u \in CollectUsers(t.cell)
        /\ CellOf(m)' = t.cell
    BY <1>1, <1>3, <1>5, <1>6, SightOfMonster
  <2> QED BY <1>5, <2>1, <2>2
<1>8. PICK n : n = Notice("RESPAWN", m, c) OBVIOUS
<1>9. /\ \A u \in Viewers : n \in News(u)
      /\ n.id = m /\ n.type = "RESPAWN" /\ n.cell = c
  BY <1>1, <1>8, ThingNotice DEF Types
<1>10. \A u \in Viewers : u \in CollectUsers(c) => Tells(u, n, m)
  BY <1>1, <1>7, <1>9 DEF Tells
<1>11. \A u \in Viewers : u \notin CollectUsers(c) => m \notin Visible(u) /\ m \notin Visible(u)'
  BY <1>1, <1>7
<1>12. Tell(c, n) BY <1>2, <1>8
<1>13. PictureInv' BY <1>3, <1>6, <1>9, <1>10, <1>11, <1>12, ThingTold
<1>14. ServerInv' BY <1>1, <1>3 DEF ServerInv
<1> QED BY <1>13, <1>14 DEF Illustrated

\* AttackMonster, with or without an item that drops.
LEMMA PicturesOfMonsterDeath ==
  ASSUME Good, NEW m \in Monsters, KillMonster(m)
  PROVE  Illustrated
<1>1. TypeOK /\ ServerInv /\ Viewers \subseteq Users /\ ViewInv
  BY ViewAssumption DEF Good, ViewInv
<1>2. monster[m] \in MonsterStates BY <1>1 DEF TypeOK
<1>3. PICK c \in Cells : c = monster[m].cell BY <1>2 DEF MonsterStates
<1>4. /\ monster' = [monster EXCEPT ![m].alive = FALSE] /\ monster[m].alive
      /\ UNCHANGED <<user, client, late, unsure, struck, stray, untold>>
  BY DEF KillMonster, observed
<1>5. PICK t : t = [monster[m] EXCEPT !.alive = FALSE] OBVIOUS
<1>6. t \in MonsterStates /\ ~t.alive BY <1>2, <1>5 DEF MonsterStates
<1>7. monster'[m] = t /\ \A k \in Monsters : k # m => monster'[k] = monster[k]
  BY <1>1, <1>4, <1>5 DEF TypeOK
<1>8. \A u \in Users : (m \in Visible(u) <=> u \in CollectUsers(c)) /\ m \notin Visible(u)'
  BY <1>1, <1>3, <1>4, <1>6, <1>7, SightOfThings, SightOfMonster
<1>9. PICK d : d = Notice("DIE", m, None) OBVIOUS
<1>10. /\ \A u \in Viewers : d \in News(u)
       /\ d.id = m /\ d.type = "DIE"
  BY <1>1, <1>9, ThingNotice DEF Types
<1>11. \A u \in Viewers : u \in CollectUsers(c) => Tells(u, d, m)
  BY <1>1, <1>8, <1>10 DEF Tells
<1>12. ASSUME Tell(c, Notice("DIE", m, None)), UNCHANGED field PROVE Illustrated
  <2>1. UNCHANGED <<ground, fresh>> BY <1>12 DEF field
  <2>2. Tell(c, d) BY <1>9, <1>12
  <2>3. \A u \in Viewers : u \notin CollectUsers(c) => m \notin Visible(u) /\ m \notin Visible(u)'
    BY <1>1, <1>8
  <2>4. PictureInv' BY <1>4, <1>7, <1>10, <1>11, <2>1, <2>2, <2>3, ThingTold
  <2>5. ServerInv' BY <1>1, <1>4, <2>1 DEF ServerInv
  <2> QED BY <2>4, <2>5 DEF Illustrated
<1>13. ASSUME NEW i \in fresh, Lay(i, c),
              Post([v \in Viewers |->
                IF v \in CollectUsers(c)
                THEN <<Notice("DIE", m, None), Notice("ADD", i, c)>> ELSE <<>>])
       PROVE  Illustrated
  <2>1. i \in Items BY <1>1, <1>13 DEF TypeOK
  <2>2. /\ ground'[i] = c /\ \A j \in Items : j # i => ground'[j] = ground[j]
        /\ fresh' = fresh \ {i} /\ ground[i] = None
    BY <1>1, <1>13, <2>1 DEF Lay, TypeOK, ServerInv
  <2>3. PICK n : n = Notice("ADD", i, c) OBVIOUS
  <2>4. /\ \A u \in Viewers : n \in News(u)
        /\ n.id = i /\ n.type = "ADD" /\ n.cell = c /\ n.armed = Armed(i)'
    BY <1>1, <2>1, <2>3, ThingNotice DEF Types
  <2>5. ASSUME NEW u \in Users
        PROVE  /\ i \in Visible(u)' <=> u \in CollectUsers(c)
               /\ CellOf(i)' = c /\ i \notin Visible(u)
    <3>1. c # None BY ViewAssumption
    <3>2. i \notin Visible(u) BY <1>1, <2>1, <2>2, SightOfThings
    <3>3. /\ i \in Visible(u)' <=> c # None /\ u \in CollectUsers(c)
          /\ CellOf(i)' = c
      BY <1>1, <1>4, <2>1, <2>2, SightOfItem
    <3> QED BY <3>1, <3>2, <3>3
  <2>6. m # i BY <2>1, ViewAssumption
  <2>7. ASSUME NEW u \in Viewers, Exists(u), NEW s \in Subjects \ {u}
        PROVE  Carries({ScreenOf(u)'}, u, chan'[u], Right(u, s)')
    <3>1. /\ u \in Users /\ Carries({ScreenOf(u)}, u, chan[u], Right(u, s))
          /\ ZoneOf[user'[u].cell] = ZoneOf[user[u].cell]
          /\ struck \subseteq struck' /\ stray \subseteq stray'
      BY <1>1, <1>4, <2>7 DEF Good, PictureInv, Depicted
    <3>2. Only(u, s, Right(u, s)) /\ Only(u, s, Right(u, s)') BY RightOnly
    <3>3. s \notin {m, i} => Right(u, s) \subseteq Right(u, s)'
      <4> SUFFICES ASSUME s \notin {m, i} PROVE Right(u, s) \subseteq Right(u, s)' OBVIOUS
      <4>1. /\ s \in Visible(u)' <=> s \in Visible(u)
            /\ CellOf(s)' = CellOf(s) /\ Arms(s)' = Arms(s)
        BY <1>1, <1>4, <1>7, <2>2, <3>1, SightStays DEF Arms
      <4> QED BY <3>1, <4>1, RightStays
    <3>4. PICK r : r = IF u \in CollectUsers(c) THEN <<d, n>> ELSE <<>> OBVIOUS
    <3>5. chan'[u] = chan[u] \o r BY <1>9, <1>13, <2>3, <2>7, <3>4 DEF Post
    <3>6. r \in Seq(News(u)) /\ r \in Seq(Fit(u))
      <4>1. d \in News(u) /\ n \in News(u) BY <1>10, <2>4
      <4>2. r \in Seq(News(u)) BY <3>4, <4>1
      <4> QED BY <4>2, FitTypes
    <3>7. Carries(Right(u, s), u, r, Right(u, s)')
      <4>1. CASE u \notin CollectUsers(c)
        <5>1. r = <<>> BY <3>4, <4>1
        <5>2. Right(u, s) \subseteq Right(u, s)'
          <6>1. s \in {m, i} => s \notin Visible(u) /\ s \notin Visible(u)'
            BY <1>8, <2>5, <3>1, <4>1
          <6> QED BY <3>1, <3>3, <6>1, RightStays
        <5> QED BY <3>2, <5>1, <5>2, CarriesNothing DEF Only
      <4>2. CASE u \in CollectUsers(c)
        <5>1. r = <<d, n>> BY <3>4, <4>2
        <5>2. DOMAIN r = {1, 2} /\ r[1] = d /\ r[2] = n BY <5>1
        <5>3. CASE s = m
          <6>1. Takes(Right(u, s), u, d, Right(u, s)')
            BY <1>10, <1>11, <2>7, <3>1, <4>2, <5>3, RightTold
          <6>2. 1 \in DOMAIN r /\ Takes(Right(u, s), u, r[1], Right(u, s)') BY <5>2, <6>1
          <6>3. \A j \in DOMAIN r : r[j].id = s => j = 1 BY <2>4, <2>6, <5>2, <5>3
          <6> QED BY <3>2, <3>6, <6>2, <6>3, NewsOnce
        <5>4. CASE s = i
          <6>1. Tells(u, n, i) BY <2>4, <2>5, <3>1, <4>2 DEF Tells
          <6>2. Takes(Right(u, s), u, n, Right(u, s)')
            BY <2>4, <2>7, <3>1, <5>4, <6>1, RightTold
          <6>3. 2 \in DOMAIN r /\ Takes(Right(u, s), u, r[2], Right(u, s)') BY <5>2, <6>2
          <6>4. \A j \in DOMAIN r : r[j].id = s => j = 2 BY <1>10, <2>6, <5>2, <5>4
          <6> QED BY <3>2, <3>6, <6>3, <6>4, NewsOnce
        <5>5. CASE s \notin {m, i}
          <6>1. \A j \in DOMAIN r : r[j].id # s BY <1>10, <2>4, <5>2, <5>5
          <6>2. Carries(Right(u, s), u, r, Right(u, s)) BY <3>2, <3>6, <6>1, NewsQuiet
          <6> QED BY <3>3, <5>5, <6>2, CarriesLess
        <5> QED BY <5>3, <5>4, <5>5
      <4> QED BY <4>1, <4>2
    <3>8. Right(u, s) \cap Right(u, s) = Right(u, s) OBVIOUS
    <3>9. UNCHANGED <<client, late, unsure>> BY <1>4
    <3> QED BY <1>1, <2>7, <3>1, <3>5, <3>6, <3>7, <3>8, <3>9, Posted
  <2>8. \A u \in Viewers : Exists(u)' <=> Exists(u) BY <1>4 DEF Exists
  <2>9. PictureInv' BY <2>7, <2>8 DEF PictureInv, Depicted
  <2>10. ServerInv' BY <1>1, <1>4, <2>2 DEF ServerInv, TypeOK
  <2> QED BY <2>9, <2>10 DEF Illustrated
<1> QED BY <1>3, <1>12, <1>13 DEF KillMonster

\* User a appears on the server's map, at most where it lay dead.
LEMMA ArrivalSeen ==
  ASSUME Good, NEW a \in Users, NEW t \in UserStates, user' = [user EXCEPT ![a] = t],
         t.on = "grid", t.armed = user[a].armed,
         UNCHANGED <<monster, ground, client, late, unsure, struck, stray, untold>>,
         InGrid(a) => a \in struck,
         NEW c \in Cells, t.cell = c, NEW type \in {"ADD", "RESPAWN"}, NEW v \in Viewers, v # a,
         Exists(v) => chan'[v] = chan[v] \o Entered(a, c, type)[v]
  PROVE  Depicted(v)'
<1>1. TypeOK /\ ViewInv /\ Depicted(v) /\ v \in Users \ {a}
  BY ViewAssumption DEF Good, ViewInv, PictureInv
<1>2. /\ a \in Visible(v)' <=> v \in CollectUsers(c)
      /\ CellOf(a)' = c /\ Armed(a)' = user[a].armed /\ user'[v] = user[v]
  <2>1. UNCHANGED <<monster, ground>> OBVIOUS
  <2>2. /\ a \in Visible(v)' <=> t.on = "grid" /\ v \in CollectUsers(t.cell)
        /\ CellOf(a)' = t.cell /\ Armed(a)' = t.armed /\ user'[v] = user[v]
    BY <1>1, <2>1, SightAfter
  <2> QED BY <2>2
<1>3. ASSUME Exists(v), v \in CollectUsers(c)
      PROVE  \E n \in News(v) : n.id = a /\ Tells(v, n, a) /\ chan'[v] = chan[v] \o <<n>>
  <2>1. PICK n : n = Notice(type, a, c) OBVIOUS
  <2>2. /\ n \in News(v) /\ n.id = a /\ n.type = type /\ n.cell = c
        /\ n.armed = user[a].armed
    <3>1. type \in Types /\ type \notin {"LOGIN_ACK", "EQUIP"} BY DEF Types
    <3> QED BY <1>1, <2>1, <3>1, UserNotice
  <2>3. Tells(v, n, a) BY <1>2, <1>3, <2>2 DEF Tells
  <2>4. chan'[v] = chan[v] \o <<n>> BY <1>1, <1>3, <2>1 DEF Entered
  <2> QED BY <2>2, <2>3, <2>4
<1>4. ASSUME Exists(v), v \notin CollectUsers(c)
      PROVE  chan'[v] = chan[v] \o <<>> /\ Right(v, a) \subseteq Right(v, a)'
  <2>1. chan'[v] = chan[v] \o <<>> BY <1>1, <1>4 DEF Entered
  <2>2. a \in Visible(v) => a \in struck' BY <1>1, SightOfUsers
  <2>3. a \notin Visible(v)' BY <1>2, <1>4
  <2>4. /\ ZoneOf[user'[v].cell] = ZoneOf[user[v].cell]
        /\ struck \subseteq struck' /\ stray \subseteq stray'
    BY <1>2
  <2>5. CASE a \in Visible(v)
    <3>1. {v, a} \cap (struck' \cup stray') # {} BY <2>2, <2>5
    <3> QED BY <2>1, <2>3, <2>4, <3>1, RightFades
  <2>6. CASE a \notin Visible(v) BY <2>1, <2>3, <2>4, <2>6, RightStays
  <2> QED BY <2>5, <2>6
<1>5. struck \subseteq struck' /\ stray \subseteq stray' /\ untold' \ {a} = untold \ {a} OBVIOUS
<1>6. Exists(v) =>
        \/ chan'[v] = chan[v] \o <<>> /\ Right(v, a) \subseteq Right(v, a)'
        \/ \E n \in News(v) : n.id = a /\ Tells(v, n, a) /\ chan'[v] = chan[v] \o <<n>>
  BY <1>3, <1>4
<1> QED BY <1>1, <1>5, <1>6, ToldOfUser

\* It is told of what it sees there.
LEMMA ArrivalSees ==
  ASSUME Good, NEW a \in Users, NEW t \in UserStates, user' = [user EXCEPT ![a] = t],
         t.on = "grid", UNCHANGED <<monster, ground, struck, stray, untold>>,
         InGrid(a) => a \in struck,
         ZoneOf[t.cell] = ZoneOf[user[a].cell], NEW s \in Subjects \ {a}
  PROVE  Carries(Right(a, s), a, Adds(CollectSubjects(a, t.cell)), Right(a, s)')
<1>1. TypeOK BY DEF Good, ViewInv
<1>2. /\ user'[a] = t /\ Visible(a)' = CollectSubjects(a, t.cell)
      /\ ZoneOf[user'[a].cell] = ZoneOf[user[a].cell]
      /\ struck \subseteq struck' /\ stray \subseteq stray'
  BY <1>1, SightAfter
<1>3. Only(a, s, Right(a, s)) /\ Right(a, s) \subseteq Sound(s, ZoneOf[t.cell])
  BY RightOnly
<1>4. ASSUME s \notin CollectSubjects(a, t.cell) PROVE Right(a, s) \subseteq Right(a, s)'
  <2>1. s \notin Visible(a)' BY <1>2, <1>4
  <2>2. CASE s \in Visible(a)
    <3>1. {a, s} \cap (struck' \cup stray') # {} BY <2>2 DEF Visible
    <3> QED BY <1>2, <2>1, <3>1, RightFades
  <2>3. CASE s \notin Visible(a) BY <1>2, <2>1, <2>3, RightStays
  <2> QED BY <2>2, <2>3
<1> QED BY <1>1, <1>3, <1>4, ArrivalCarries

\* HandleGetUserInfo and HandleAddUserInfo.
LEMMA PicturesOfLogin ==
  ASSUME Good, NEW a \in Users, Login(a)
  PROVE  Illustrated
<1>0. PICK c \in Cells : \E out :
        /\ out = Entered(a, c, "ADD")
        /\ user' = [user EXCEPT ![a].on = "grid", ![a].cell = c]
        /\ chan' = [v \in Viewers |->
                     IF v = a THEN <<Notice("LOGIN_ACK", a, c)>> \o out[a]
                     ELSE IF Exists(v) THEN chan[v] \o out[v] ELSE <<>>]
  BY DEF Login
<1>1. /\ TypeOK /\ ViewInv /\ ServerInv /\ Viewers \subseteq Users
      /\ \A v \in Viewers : Depicted(v) /\ AvatarOK(chan[v], client[v], v, user[v], struck)
  BY ViewAssumption DEF Good, ViewInv, PictureInv, AvatarInv
<1>2. PICK out :
        /\ out = Entered(a, c, "ADD")
        /\ user' = [user EXCEPT ![a].on = "grid", ![a].cell = c]
        /\ chan' = [v \in Viewers |->
                     IF v = a THEN <<Notice("LOGIN_ACK", a, c)>> \o out[a]
                     ELSE IF Exists(v) THEN chan[v] \o out[v] ELSE <<>>]
  BY <1>0
<1>3. PICK t : t = [user[a] EXCEPT !.on = "grid", !.cell = c] OBVIOUS
<1>4. /\ t \in UserStates /\ t.on = "grid" /\ t.cell = c /\ t.alive = user[a].alive
      /\ t.armed = user[a].armed
  <2>1. user[a] \in UserStates BY <1>1 DEF TypeOK
  <2> QED BY <1>3, <2>1 DEF UserStates
<1>5. user' = [user EXCEPT ![a] = t] BY <1>1, <1>2, <1>3 DEF TypeOK, UserStates
<1>6. /\ user[a].on = "new"
      /\ UNCHANGED <<monster, viewList, ground, fresh, client, steps, deaths, late, unsure,
                     struck, stray, untold>>
  BY DEF Login, field, bounds, observed
<1>7. ASSUME NEW v \in Viewers, v # a PROVE Depicted(v)'
  <2>1. Exists(v) => chan'[v] = chan[v] \o Entered(a, c, "ADD")[v] BY <1>2, <1>7
  <2>2. ~InGrid(a) BY <1>6 DEF InGrid
  <2>3. "ADD" \in {"ADD", "RESPAWN"} OBVIOUS
  <2> QED BY <1>4, <1>5, <1>6, <1>7, <2>1, <2>2, <2>3, ArrivalSeen
<1>8. ASSUME a \in Viewers PROVE Depicted(a)'
  <2> SUFFICES ASSUME NEW s \in Subjects \ {a}
               PROVE  Carries({ScreenOf(a)'}, a, chan'[a], Right(a, s)')
    BY DEF Depicted
  <2>1. PICK n : n = Notice("LOGIN_ACK", a, c) OBVIOUS
  <2>2. a \in Subjects BY DEF Subjects
  <2>3. n \in Fit(a) /\ n.id = a /\ n.type = "LOGIN_ACK" /\ n.cell = c
    BY <1>1, <2>1, <2>2, NoticeLemma DEF Types
  <2>4. PICK r : r = Adds(CollectSubjects(a, c)) OBVIOUS
  <2>5. chan'[a] = <<n>> \o r BY <1>2, <1>8, <2>1, <2>4 DEF Entered
  <2>6. r \in Seq(Fit(a))
    <3>1. Entered(a, c, "ADD")[a] \in Seq(News(a)) BY <1>1, EnteredType
    <3>2. Entered(a, c, "ADD")[a] = r BY <2>4 DEF Entered
    <3> QED BY <3>1, <3>2, FitTypes
  <2>7. ScreenOf(a)' \in Blank
    <3>1. client[a] = FreshClient BY <1>1, <1>6, <1>8 DEF AvatarOK
    <3>2. ScreenOf(a)' = ScreenOf(a) BY <1>6 DEF ScreenOf
    <3> QED BY <1>1, <1>8, <3>1, <3>2, ScreenType DEF Blank
  <2>8. PICK F : F = Unseen(s, ZoneOf[c], {a, s} \cap (struck \cup stray)) OBVIOUS
  <2>9. Only(a, s, F) /\ Stable(F) BY <2>8, OnlyKinds, StableKinds
  <2>10. Takes(Blank, a, n, F) BY <2>3, <2>8, OwnLogin
  <2>11. Carries(Blank, a, <<n>>, F) BY <2>9, <2>10, StableStates, CarriesNotice
  <2>12. F \subseteq Sound(s, ZoneOf[t.cell]) BY <1>4, <2>8 DEF Unseen
  <2>13. s \notin CollectSubjects(a, t.cell) => F \subseteq Right(a, s)'
    <3>1. user'[a] = t /\ Visible(a)' = CollectSubjects(a, t.cell)
      BY <1>1, <1>4, <1>5, <1>6, SightAfter
    <3> QED BY <1>4, <1>6, <2>8, <3>1 DEF Right
  <2>14. Carries(F, a, r, Right(a, s)')
    BY <1>1, <1>4, <1>5, <1>6, <2>4, <2>9, <2>12, <2>13, ArrivalCarries
  <2>15. <<n>> \in Seq(Fit(a)) BY <2>3
  <2>16. Carries(Blank, a, <<n>> \o r, Right(a, s)') BY <2>6, <2>11, <2>14, <2>15, CarriesOn
  <2> QED BY <2>5, <2>7, <2>16, CarriesLess
<1>9. ServerInv'
  <2>1. t.on = "off" => ~t.alive BY <1>4
  <2>2. ~t.alive => t.on \in {"off", "out"} \/ a \in struck' BY <1>1, <1>4, <1>6 DEF ServerInv
  <2>3. struck \subseteq struck' /\ UNCHANGED <<ground, fresh>> BY <1>6
  <2> QED BY <1>4, <1>5, <2>1, <2>2, <2>3, ServerChange
<1> QED BY <1>7, <1>8, <1>9 DEF Illustrated, PictureInv

\* HandleEnterZone.
LEMMA PicturesOfEntry ==
  ASSUME Good, NEW a \in Users, HandleEnterZone(a)
  PROVE  Illustrated
<1>1. /\ TypeOK /\ ViewInv /\ ServerInv /\ Viewers \subseteq Users
      /\ \A v \in Viewers : Depicted(v)
  BY ViewAssumption DEF Good, ViewInv, PictureInv
<1>2. user[a] \in UserStates BY <1>1 DEF TypeOK
<1>3. PICK c \in Cells : c = user[a].cell BY <1>2 DEF UserStates
<1>4. PICK t : t = [user[a] EXCEPT !.on = "grid"] OBVIOUS
<1>5. /\ t \in UserStates /\ t.on = "grid" /\ t.cell = c /\ t.alive = user[a].alive
      /\ t.armed = user[a].armed
  BY <1>2, <1>3, <1>4 DEF UserStates
<1>6. user' = [user EXCEPT ![a] = t]
  BY <1>1, <1>4 DEF HandleEnterZone, TypeOK, UserStates
<1>7. /\ user[a].on = "between" /\ Post(Entered(a, c, "ADD"))
      /\ UNCHANGED <<monster, viewList, ground, fresh, client, late, unsure,
                     struck, stray, untold>>
  BY <1>3 DEF HandleEnterZone, field, observed
<1>8. ~InGrid(a) /\ Exists(a) BY <1>7 DEF InGrid, Exists
<1>9. ASSUME NEW v \in Viewers, v # a PROVE Depicted(v)'
  <2>1. Exists(v) => chan'[v] = chan[v] \o Entered(a, c, "ADD")[v] BY <1>7 DEF Post
  <2>2. "ADD" \in {"ADD", "RESPAWN"} OBVIOUS
  <2> QED BY <1>5, <1>6, <1>7, <1>8, <1>9, <2>1, <2>2, ArrivalSeen
<1>10. ASSUME a \in Viewers PROVE Depicted(a)'
  <2> SUFFICES ASSUME NEW s \in Subjects \ {a}
               PROVE  Carries({ScreenOf(a)'}, a, chan'[a], Right(a, s)')
    BY DEF Depicted
  <2>1. PICK r : r = Adds(CollectSubjects(a, t.cell)) OBVIOUS
  <2>2. chan'[a] = chan[a] \o r BY <1>5, <1>7, <1>8, <1>10, <2>1 DEF Post, Entered
  <2>3. r \in Seq(Fit(a))
    <3>1. Entered(a, c, "ADD")[a] \in Seq(News(a)) BY <1>1, EnteredType
    <3>2. Entered(a, c, "ADD")[a] = r BY <1>5, <2>1 DEF Entered
    <3> QED BY <3>1, <3>2, FitTypes
  <2>4. Carries({ScreenOf(a)}, a, chan[a], Right(a, s)) BY <1>1, <1>8, <1>10 DEF Depicted
  <2>5. ZoneOf[t.cell] = ZoneOf[user[a].cell] BY <1>3, <1>5
  <2>6. Carries(Right(a, s), a, r, Right(a, s)')
    BY <1>5, <1>6, <1>7, <1>8, <2>1, <2>5, ArrivalSees
  <2>7. Right(a, s) \cap Right(a, s) = Right(a, s) OBVIOUS
  <2>8. UNCHANGED <<client, late, unsure>> BY <1>7
  <2> QED BY <1>1, <1>10, <2>2, <2>3, <2>4, <2>6, <2>7, <2>8, Posted
<1>11. ServerInv'
  <2>1. t.on = "off" => ~t.alive BY <1>5
  <2>2. ~t.alive => t.on \in {"off", "out"} \/ a \in struck' BY <1>1, <1>5, <1>7 DEF ServerInv
  <2>3. struck \subseteq struck' /\ UNCHANGED <<ground, fresh>> BY <1>7
  <2> QED BY <1>5, <1>6, <2>1, <2>2, <2>3, ServerChange
<1> QED BY <1>9, <1>10, <1>11 DEF Illustrated, PictureInv

\* UserHelper::HandleRespawn.
LEMMA PicturesOfRespawn ==
  ASSUME Good, NEW a \in Users, HandleRespawn(a)
  PROVE  Illustrated
<1>1. /\ TypeOK /\ ViewInv /\ ServerInv /\ Viewers \subseteq Users
      /\ \A v \in Viewers : Depicted(v)
  BY ViewAssumption DEF Good, ViewInv, PictureInv
<1>2. user[a] \in UserStates BY <1>1 DEF TypeOK
<1>3. PICK c \in Cells : \E out, o :
        /\ ZoneOf[c] = ZoneOf[user[a].cell] /\ out = Entered(a, c, "RESPAWN")
        /\ user' = [user EXCEPT ![a].on = "grid", ![a].cell = c, ![a].alive = TRUE]
        /\ o = [out EXCEPT ![a] = <<Notice("RESPAWN", a, c)>> \o @] /\ Post(o)
  BY DEF HandleRespawn
<1>4. PICK out, o :
        /\ ZoneOf[c] = ZoneOf[user[a].cell] /\ out = Entered(a, c, "RESPAWN")
        /\ user' = [user EXCEPT ![a].on = "grid", ![a].cell = c, ![a].alive = TRUE]
        /\ o = [out EXCEPT ![a] = <<Notice("RESPAWN", a, c)>> \o @] /\ Post(o)
  BY <1>3
<1>5. PICK t : t = [user[a] EXCEPT !.on = "grid", !.cell = c, !.alive = TRUE] OBVIOUS
<1>6. /\ t \in UserStates /\ t.on = "grid" /\ t.cell = c /\ t.alive
      /\ t.armed = user[a].armed
  BY <1>2, <1>5 DEF UserStates
<1>7. user' = [user EXCEPT ![a] = t] BY <1>1, <1>4, <1>5 DEF TypeOK, UserStates
<1>8. /\ o[a] = <<Notice("RESPAWN", a, c)>> \o out[a]
      /\ \A v \in Users \ {a} : o[v] = out[v]
  BY <1>4 DEF Entered
<1>9. /\ Exists(a) /\ ~user[a].alive
      /\ UNCHANGED <<monster, viewList, ground, fresh, client, late, unsure,
                     struck, stray, untold>>
  BY DEF HandleRespawn, field, observed
<1>10. InGrid(a) => a \in struck BY <1>1, <1>9 DEF ServerInv, InGrid
<1>11. ASSUME NEW v \in Viewers, v # a PROVE Depicted(v)'
  <2>1. Exists(v) => chan'[v] = chan[v] \o Entered(a, c, "RESPAWN")[v]
    BY <1>1, <1>4, <1>8, <1>11 DEF Post
  <2>2. "RESPAWN" \in {"ADD", "RESPAWN"} OBVIOUS
  <2> QED BY <1>6, <1>7, <1>9, <1>10, <1>11, <2>1, <2>2, ArrivalSeen
<1>12. ASSUME a \in Viewers PROVE Depicted(a)'
  <2> SUFFICES ASSUME NEW s \in Subjects \ {a}
               PROVE  Carries({ScreenOf(a)'}, a, chan'[a], Right(a, s)')
    BY DEF Depicted
  <2>1. PICK n : n = Notice("RESPAWN", a, c) OBVIOUS
  <2>2. a \in Subjects BY DEF Subjects
  <2>3. n \in Fit(a) /\ n.id = a /\ n.type = "RESPAWN" /\ n.cell = c
    BY <1>1, <2>1, <2>2, NoticeLemma DEF Types
  <2>4. PICK r : r = Adds(CollectSubjects(a, t.cell)) OBVIOUS
  <2>5. chan'[a] = chan[a] \o (<<n>> \o r)
    BY <1>4, <1>6, <1>8, <1>9, <1>12, <2>1, <2>4 DEF Post, Entered
  <2>6. r \in Seq(Fit(a))
    <3>1. Entered(a, c, "RESPAWN")[a] \in Seq(News(a)) BY <1>1, EnteredType
    <3>2. Entered(a, c, "RESPAWN")[a] = r BY <1>6, <2>4 DEF Entered
    <3> QED BY <3>1, <3>2, FitTypes
  <2>7. Carries({ScreenOf(a)}, a, chan[a], Right(a, s)) BY <1>1, <1>9, <1>12 DEF Depicted
  <2>8. ZoneOf[t.cell] = ZoneOf[user[a].cell] /\ ZoneOf[user[a].cell] # None
    BY <1>4, <1>6, ViewAssumption
  <2>9. Takes(Right(a, s), a, n, Right(a, s)) BY <2>3, <2>8, OwnRespawn DEF Right
  <2>10. Carries(Right(a, s), a, <<n>>, Right(a, s)) BY <2>9, RightOnly, CarriesNotice
  <2>11. Carries(Right(a, s), a, r, Right(a, s)')
    BY <1>6, <1>7, <1>9, <1>10, <2>4, <2>8, ArrivalSees
  <2>12. <<n>> \in Seq(Fit(a)) /\ <<n>> \o r \in Seq(Fit(a)) BY <2>3, <2>6
  <2>13. Carries(Right(a, s), a, <<n>> \o r, Right(a, s)') BY <2>6, <2>10, <2>11, <2>12, CarriesOn
  <2>14. Right(a, s) \cap Right(a, s) = Right(a, s) OBVIOUS
  <2>15. UNCHANGED <<client, late, unsure>> BY <1>9
  <2> QED BY <1>1, <1>12, <2>5, <2>7, <2>12, <2>13, <2>14, <2>15, Posted
<1>13. ServerInv'
  <2>1. t.on = "off" => ~t.alive BY <1>6
  <2>2. ~t.alive => t.on \in {"off", "out"} \/ a \in struck' BY <1>6
  <2>3. struck \subseteq struck' /\ UNCHANGED <<ground, fresh>> BY <1>9
  <2> QED BY <1>6, <1>7, <2>1, <2>2, <2>3, ServerChange
<1> QED BY <1>11, <1>12, <1>13 DEF Illustrated, PictureInv

\* A user is where it was: what it sees is the same.
LEMMA SelfStays ==
  ASSUME Good, NEW a \in Users, NEW t \in UserStates, user' = [user EXCEPT ![a] = t],
         t.on = user[a].on, t.cell = user[a].cell,
         UNCHANGED <<monster, ground, client, late, unsure>>,
         struck \subseteq struck', stray \subseteq stray', untold' \ {a} = untold \ {a},
         a \in Viewers, Exists(a), chan'[a] = chan[a] \o <<>>
  PROVE  Depicted(a)'
<1>1. TypeOK /\ ViewInv /\ Depicted(a) BY DEF Good, ViewInv, PictureInv
<1>2. /\ user'[a] = t /\ Visible(a)' = IF t.on = "grid" THEN CollectSubjects(a, t.cell) ELSE {}
      /\ \A s \in Subjects \ {a} : CellOf(s)' = CellOf(s) /\ Armed(s)' = Armed(s)
  BY <1>1, SightAfter
<1>3. Visible(a)' = Visible(a) BY <1>2 DEF Visible, InGrid
<1>4. ZoneOf[user'[a].cell] = ZoneOf[user[a].cell] BY <1>2
<1>5. ASSUME NEW s \in Subjects \ {a, a} PROVE Right(a, s) \subseteq Right(a, s)'
  <2>1. s \in untold' <=> s \in untold BY <1>5
  <2>2. CellOf(s)' = CellOf(s) /\ Arms(s)' = Arms(s) BY <1>2, <1>5, <2>1 DEF Arms
  <2> QED BY <1>3, <1>4, <2>2, RightStays
<1>6. <<>> \in Seq(News(a)) /\ \A i \in DOMAIN <<>> : <<>>[i].id = a OBVIOUS
<1>7. a \in Subjects \ {a} => Carries(Right(a, a), a, <<>>, Right(a, a)') OBVIOUS
<1> QED BY <1>1, <1>5, <1>6, <1>7, Told

\* A disconnect, which a finished transfer precedes, also on the thread of a
\* zone left.
LEMMA PicturesOfDisconnect ==
  ASSUME Good, NEW a \in Users, Disconnect(a) \/ StrayDisconnect(a)
  PROVE  Illustrated
<1>1. /\ TypeOK /\ ViewInv /\ ServerInv /\ Viewers \subseteq Users
      /\ \A v \in Viewers : Depicted(v)
  BY ViewAssumption DEF Good, ViewInv, PictureInv
<1>2. user[a] \in UserStates BY <1>1 DEF TypeOK
<1>3. PICK t : t = [user[a] EXCEPT !.on = "out"] OBVIOUS
<1>4. t \in UserStates /\ t.on = "out" BY <1>2, <1>3 DEF UserStates
<1>5. user' = [user EXCEPT ![a] = t]
  BY <1>1, <1>3 DEF Disconnect, StrayDisconnect, TypeOK, UserStates
<1>6. /\ UNCHANGED <<monster, viewList, ground, fresh, client, late, unsure, struck, untold>>
      /\ stray \subseteq stray'
  BY DEF Disconnect, StrayDisconnect, field, observed
<1>7. ASSUME NEW v \in Viewers, v # a PROVE Depicted(v)'
  <2>1. v \in Users \ {a} /\ chan[v] \in Seq(Notices) BY <1>1, <1>7 DEF TypeOK
  <2>2. a \notin Visible(v)' /\ user'[v] = user[v] BY <1>1, <1>4, <1>5, <1>6, <2>1, SightAfter
  <2>3. v \in Visible(a) <=> a \in Visible(v) BY <1>1, <2>1, SightOfUsers
  <2>4. /\ ZoneOf[user'[v].cell] = ZoneOf[user[v].cell]
        /\ struck \subseteq struck' /\ untold' \ {a} = untold \ {a}
    BY <1>6, <2>2
  <2>5. CASE StrayDisconnect(a)
    <3>1. chan'[v] = chan[v] \o <<>> /\ a \in stray' BY <1>7, <2>1, <2>5 DEF StrayDisconnect
    <3>2. {v, a} \cap (struck' \cup stray') # {} BY <3>1
    <3>3. Right(v, a) \subseteq Right(v, a)' BY <2>2, <2>4, <3>2, RightFades
    <3> QED BY <1>1, <1>4, <1>5, <1>6, <1>7, <2>4, <3>1, <3>3, ToldOfUser
  <2>6. CASE Disconnect(a) /\ v \in Visible(a)
    <3>1. PICK n : n = Removal(a) OBVIOUS
    <3>2. n \in News(v) /\ n.id = a /\ n.type = "REMOVE"
      BY <1>1, <1>7, <3>1, UserNotice DEF Types, Removal
    <3>3. chan'[v] = Append(chan[v], n) BY <1>7, <2>6, <3>1 DEF Disconnect
    <3>4. n \in Notices BY <3>2, FitTypes
    <3>5. chan'[v] = chan[v] \o <<n>> BY <2>1, <3>3, <3>4
    <3>6. Tells(v, n, a) BY <2>2, <3>2 DEF Tells
    <3>7. \E k \in News(v) : k.id = a /\ Tells(v, k, a) /\ chan'[v] = chan[v] \o <<k>>
      BY <3>2, <3>5, <3>6
    <3> QED BY <1>1, <1>4, <1>5, <1>6, <1>7, <2>4, <3>7, ToldOfUser
  <2>7. CASE Disconnect(a) /\ v \notin Visible(a)
    <3>1. chan'[v] = chan[v] \o <<>> BY <1>7, <2>1, <2>7 DEF Disconnect
    <3>2. Right(v, a) \subseteq Right(v, a)' BY <1>6, <2>2, <2>3, <2>4, <2>7, RightStays
    <3> QED BY <1>1, <1>4, <1>5, <1>6, <1>7, <2>4, <3>1, <3>2, ToldOfUser
  <2> QED BY <2>5, <2>6, <2>7
<1>8. ASSUME a \in Viewers PROVE Depicted(a)'
  <2>1. user'[a] = t BY <1>1, <1>5 DEF TypeOK
  <2> QED BY <1>4, <2>1 DEF Depicted, Exists
<1>9. ServerInv'
  <2>1. t.on = "off" => ~t.alive BY <1>4
  <2>2. ~t.alive => t.on \in {"off", "out"} \/ a \in struck' BY <1>4
  <2>3. struck \subseteq struck' /\ UNCHANGED <<ground, fresh>> BY <1>6
  <2> QED BY <1>4, <1>5, <2>1, <2>2, <2>3, ServerChange
<1> QED BY <1>7, <1>8, <1>9 DEF Illustrated, PictureInv

\* HandleAttackToPlayer: seen from its zone or from another.
LEMMA PicturesOfDeath ==
  ASSUME Good, NEW a \in Users, KillUser(a)
  PROVE  Illustrated
<1>1. /\ TypeOK /\ ViewInv /\ ServerInv /\ Viewers \subseteq Users
      /\ \A v \in Viewers : Depicted(v)
  BY ViewAssumption DEF Good, ViewInv, PictureInv
<1>2. user[a] \in UserStates BY <1>1 DEF TypeOK
<1>3. PICK m \in Monsters, here \in BOOLEAN :
        /\ here = (InGrid(a) /\ ZoneOf[monster[m].cell] = ZoneOf[user[a].cell])
        /\ user' = [user EXCEPT ![a].alive = FALSE, ![a].on = IF here THEN "off" ELSE @]
        /\ IF here THEN Tell(user[a].cell, Notice("DIE", a, None)) ELSE UNCHANGED chan
        /\ struck' = IF here THEN struck ELSE struck \cup {a}
  BY DEF KillUser
<1>4. PICK c \in Cells : c = user[a].cell BY <1>2 DEF UserStates
<1>5. PICK t : t = [user[a] EXCEPT !.alive = FALSE, !.on = IF here THEN "off" ELSE @]
  OBVIOUS
<1>6. /\ t \in UserStates /\ t.cell = c /\ ~t.alive /\ t.armed = user[a].armed
      /\ t.on = IF here THEN "off" ELSE user[a].on
  BY <1>2, <1>4, <1>5 DEF UserStates
<1>7. user' = [user EXCEPT ![a] = t] BY <1>1, <1>3, <1>5 DEF TypeOK, UserStates
<1>8. /\ Exists(a) /\ struck \subseteq struck' /\ stray \subseteq stray'
      /\ untold' \ {a} = untold \ {a} /\ untold' = untold
      /\ UNCHANGED <<monster, viewList, ground, fresh, client, late, unsure>>
  BY <1>3 DEF KillUser, field
<1>9. user'[a] = t /\ \A v \in Users \ {a} : user'[v] = user[v] BY <1>1, <1>7 DEF TypeOK
<1>10. ASSUME here, NEW v \in Viewers, v # a PROVE Depicted(v)'
  <2>1. v \in Users \ {a} BY <1>1, <1>10
  <2>2. Tell(c, Notice("DIE", a, None)) /\ InGrid(a) BY <1>3, <1>4, <1>10
  <2>3. a \notin Visible(v)' /\ ZoneOf[user'[v].cell] = ZoneOf[user[v].cell]
    BY <1>1, <1>6, <1>7, <1>8, <1>9, <1>10, <2>1, SightAfter
  <2>4. a \in Visible(v) <=> v \in CollectUsers(c) BY <1>1, <1>4, <2>1, <2>2, SightOfUsers
  <2>5. ASSUME Exists(v), v \in CollectUsers(c)
        PROVE  \E n \in News(v) : n.id = a /\ Tells(v, n, a) /\ chan'[v] = chan[v] \o <<n>>
    <3>1. PICK n : n = Notice("DIE", a, None) OBVIOUS
    <3>2. n \in News(v) /\ n.id = a /\ n.type = "DIE"
      BY <1>1, <1>10, <3>1, UserNotice DEF Types
    <3>3. chan'[v] = chan[v] \o <<n>> BY <2>2, <2>5, <3>1 DEF Tell, Post
    <3>4. Tells(v, n, a) BY <2>3, <3>2 DEF Tells
    <3> QED BY <3>2, <3>3, <3>4
  <2>6. ASSUME Exists(v), v \notin CollectUsers(c)
        PROVE  chan'[v] = chan[v] \o <<>> /\ Right(v, a) \subseteq Right(v, a)'
    <3>1. chan'[v] = chan[v] \o <<>> BY <2>2, <2>6 DEF Tell, Post
    <3>2. a \notin Visible(v) /\ a \notin Visible(v)' BY <2>3, <2>4, <2>6
    <3>3. Right(v, a) \subseteq Right(v, a)' BY <1>8, <2>3, <3>2, RightStays
    <3> QED BY <3>1, <3>3
  <2>7. Exists(v) =>
          \/ chan'[v] = chan[v] \o <<>> /\ Right(v, a) \subseteq Right(v, a)'
          \/ \E n \in News(v) : n.id = a /\ Tells(v, n, a) /\ chan'[v] = chan[v] \o <<n>>
    BY <2>5, <2>6
  <2> QED BY <1>1, <1>6, <1>7, <1>8, <1>10, <2>7, ToldOfUser
<1>11. ASSUME here, a \in Viewers PROVE Depicted(a)'
  <2> SUFFICES ASSUME NEW s \in Subjects \ {a}
               PROVE  Carries({ScreenOf(a)'}, a, chan'[a], Right(a, s)')
    BY DEF Depicted
  <2>1. PICK n : n = Notice("DIE", a, None) OBVIOUS
  <2>2. a \in Subjects BY DEF Subjects
  <2>3. n \in Fit(a) /\ n.id = a /\ n.type = "DIE"
    BY <1>1, <2>1, <2>2, NoticeLemma DEF Types, Placing
  <2>4. InGrid(a) /\ Tell(c, n) BY <1>3, <1>4, <1>11, <2>1
  <2>5. a \in CollectUsers(c) BY <1>4, <2>4, Symmetry DEF CollectUsers
  <2>6. chan'[a] = chan[a] \o <<n>> BY <1>8, <1>11, <2>4, <2>5 DEF Tell, Post
  <2>7. Visible(a)' = {} BY <1>6, <1>9, <1>11 DEF Visible, InGrid
  <2>8. PICK z : z = ZoneOf[user[a].cell] OBVIOUS
  <2>9. Right(a, s)' = Unseen(s, z, {a, s} \cap (struck' \cup stray'))
    BY <1>4, <1>6, <1>9, <2>7, <2>8 DEF Right
  <2>10. Right(a, s) \subseteq Sound(s, z) BY <2>8, RightOnly
  <2>11. Takes(Sound(s, z), a, n, Unseen(s, z, {a, s} \cap (struck' \cup stray')))
    BY <2>3, OwnDeath
  <2>12. Takes(Right(a, s), a, n, Right(a, s)') BY <2>9, <2>10, <2>11 DEF Takes
  <2>13. Carries(Right(a, s), a, <<n>>, Right(a, s)') BY <2>12, RightOnly, CarriesNotice
  <2>14. Carries({ScreenOf(a)}, a, chan[a], Right(a, s)) BY <1>1, <1>8, <1>11 DEF Depicted
  <2>15. Right(a, s) \cap Right(a, s) = Right(a, s) /\ <<n>> \in Seq(Fit(a)) BY <2>3
  <2>16. UNCHANGED <<client, late, unsure>> BY <1>8
  <2> QED BY <1>1, <1>11, <2>6, <2>13, <2>14, <2>15, <2>16, Posted
<1>12. ASSUME ~here, NEW v \in Viewers PROVE Depicted(v)'
  <2>1. v \in Users /\ chan[v] \in Seq(Notices) BY <1>1 DEF TypeOK
  <2>2. chan'[v] = chan[v] \o <<>> BY <1>3, <1>12, <2>1
  <2>3. CASE v = a
    <3>1. a \in Viewers /\ chan'[a] = chan[a] \o <<>> BY <2>2, <2>3
    <3>2. t.on = user[a].on /\ t.cell = user[a].cell BY <1>4, <1>6, <1>12
    <3>3. Depicted(a)' BY <1>6, <1>7, <1>8, <3>1, <3>2, SelfStays
    <3> QED BY <2>3, <3>3
  <2>4. CASE v # a
    <3>1. /\ a \in Visible(v)' <=> t.on = "grid" /\ v \in CollectUsers(c)
          /\ CellOf(a)' = c /\ Armed(a)' = t.armed /\ user'[v] = user[v]
      BY <1>1, <1>6, <1>7, <1>8, <2>1, <2>4, SightAfter
    <3>2. a \in Visible(v) <=> user[a].on = "grid" /\ v \in CollectUsers(c)
      BY <1>1, <1>4, <2>1, <2>4, SightOfUsers DEF InGrid
    <3>3. CellOf(a) = c /\ Armed(a) = t.armed
      BY <1>2, <1>4, <1>6 DEF CellOf, Armed, UserStates
    <3>4. ZoneOf[user'[v].cell] = ZoneOf[user[v].cell] BY <3>1
    <3>5. a \in Visible(v)' <=> a \in Visible(v) BY <1>6, <1>12, <3>1, <3>2
    <3>6. CellOf(a)' = CellOf(a) /\ Arms(a)' = Arms(a) BY <1>8, <3>1, <3>3 DEF Arms
    <3>7. Right(v, a) \subseteq Right(v, a)' BY <1>8, <3>4, <3>5, <3>6, RightStays
    <3> QED BY <1>1, <1>6, <1>7, <1>8, <2>2, <2>4, <3>7, ToldOfUser
  <2> QED BY <2>3, <2>4
<1>13. ServerInv'
  <2>1. t.on = "off" => ~t.alive BY <1>6
  <2>2. ~t.alive => t.on \in {"off", "out"} \/ a \in struck' BY <1>3, <1>6
  <2>3. UNCHANGED <<ground, fresh>> BY <1>8
  <2> QED BY <1>6, <1>7, <1>8, <2>1, <2>2, <2>3, ServerChange
<1> QED BY <1>10, <1>11, <1>12, <1>13 DEF Illustrated, PictureInv

\* BroadcastEquipChange.
LEMMA PicturesOfEquip ==
  ASSUME Good, NEW a \in Users, EquipChange(a)
  PROVE  Illustrated
<1>1. /\ TypeOK /\ ViewInv /\ ServerInv /\ Viewers \subseteq Users
      /\ \A v \in Viewers : Depicted(v)
  BY ViewAssumption DEF Good, ViewInv, PictureInv
<1>2. user[a] \in UserStates BY <1>1 DEF TypeOK
<1>3. PICK c \in Cells : c = user[a].cell BY <1>2 DEF UserStates
<1>4. PICK t : t = [user[a] EXCEPT !.armed = ~user[a].armed] OBVIOUS
<1>5. /\ t \in UserStates /\ t.on = user[a].on /\ t.cell = c /\ t.alive = user[a].alive
      /\ t.armed = ~user[a].armed
  BY <1>2, <1>3, <1>4 DEF UserStates
<1>6. user' = [user EXCEPT ![a] = t] BY <1>1, <1>4 DEF EquipChange, TypeOK, UserStates
<1>7. PICK n : n = [Notice("EQUIP", a, None) EXCEPT !.armed = ~user[a].armed] OBVIOUS
<1>8. /\ Exists(a) /\ struck' = struck /\ stray' = stray /\ untold' = untold \ {a}
      /\ Post([v \in Viewers |-> IF v \in Visible(a) THEN <<n>> ELSE <<>>])
      /\ UNCHANGED <<monster, viewList, ground, fresh, client, late, unsure>>
  BY <1>7 DEF EquipChange, field, observed
<1>9. n \in Notices /\ n.id = a /\ n.type = "EQUIP" /\ n.armed = t.armed
  <2>1. t.armed \in BOOLEAN BY <1>5 DEF UserStates
  <2>2. n = [type |-> "EQUIP", id |-> a, cell |-> None, armed |-> t.armed]
    BY <1>5, <1>7 DEF Notice
  <2> QED BY <2>1, <2>2 DEF Notices, Types, Subjects
<1>10. ASSUME NEW v \in Viewers, v # a PROVE Depicted(v)'
  <2>1. v \in Users \ {a} BY <1>1, <1>10
  <2>2. /\ a \in Visible(v)' <=> t.on = "grid" /\ v \in CollectUsers(c)
        /\ CellOf(a)' = c /\ Armed(a)' = t.armed /\ user'[v] = user[v]
    <3>1. TypeOK /\ t \in UserStates BY <1>1, <1>5
    <3>2. UNCHANGED <<monster, ground>> BY <1>8
    <3>3. /\ a \in Visible(v)' <=> t.on = "grid" /\ v \in CollectUsers(t.cell)
          /\ CellOf(a)' = t.cell /\ Armed(a)' = t.armed /\ user'[v] = user[v]
      BY <1>6, <2>1, <3>1, <3>2, SightAfter
    <3> QED BY <1>5, <3>3
  <2>3. /\ a \in Visible(v) <=> user[a].on = "grid" /\ v \in CollectUsers(c)
        /\ v \in Visible(a) <=> a \in Visible(v)
    BY <1>1, <1>3, <2>1, SightOfUsers DEF InGrid
  <2>4. CellOf(a) = c BY <1>3 DEF CellOf
  <2>5. a \in Visible(v)' <=> a \in Visible(v) BY <1>5, <2>2, <2>3
  <2>6. /\ ZoneOf[user'[v].cell] = ZoneOf[user[v].cell]
        /\ struck \subseteq struck' /\ stray \subseteq stray' /\ untold' \ {a} = untold \ {a}
    BY <1>8, <2>2
  <2>7. ASSUME Exists(v), v \in Visible(a)
        PROVE  \E k \in News(v) : k.id = a /\ Tells(v, k, a) /\ chan'[v] = chan[v] \o <<k>>
    <3>1. n \in News(v) BY <1>9, <1>10 DEF News, Fit, Placing
    <3>2. Tells(v, n, a) BY <1>9, <2>2, <2>3, <2>4, <2>5, <2>7 DEF Tells
    <3>3. chan'[v] = chan[v] \o <<n>> BY <1>8, <2>7 DEF Post
    <3> QED BY <1>9, <3>1, <3>2, <3>3
  <2>8. ASSUME Exists(v), v \notin Visible(a)
        PROVE  chan'[v] = chan[v] \o <<>> /\ Right(v, a) \subseteq Right(v, a)'
    <3>1. chan'[v] = chan[v] \o <<>> BY <1>8, <2>8 DEF Post
    <3>2. Right(v, a) \subseteq Right(v, a)' BY <2>3, <2>5, <2>6, <2>8, RightStays
    <3> QED BY <3>1, <3>2
  <2>9. Exists(v) =>
          \/ chan'[v] = chan[v] \o <<>> /\ Right(v, a) \subseteq Right(v, a)'
          \/ \E k \in News(v) : k.id = a /\ Tells(v, k, a) /\ chan'[v] = chan[v] \o <<k>>
    BY <2>7, <2>8
  <2> QED BY <1>1, <1>5, <1>6, <1>8, <1>10, <2>6, <2>9, ToldOfUser
<1>11. ASSUME a \in Viewers PROVE Depicted(a)'
  <2>1. a \notin Visible(a) BY <1>1, SightLemma
  <2>2. chan'[a] = chan[a] \o <<>> BY <1>8, <1>11, <2>1 DEF Post
  <2>3. /\ struck \subseteq struck' /\ stray \subseteq stray' /\ untold' \ {a} = untold \ {a}
        /\ t.cell = user[a].cell
    BY <1>3, <1>5, <1>8
  <2> QED BY <1>5, <1>6, <1>8, <1>11, <2>2, <2>3, SelfStays
<1>12. ServerInv'
  <2>1. t.on = "off" => ~t.alive BY <1>1, <1>5 DEF ServerInv
  <2>2. ~t.alive => t.on \in {"off", "out"} \/ a \in struck' BY <1>1, <1>5, <1>8 DEF ServerInv
  <2>3. struck \subseteq struck' /\ UNCHANGED <<ground, fresh>> BY <1>8
  <2> QED BY <1>5, <1>6, <2>1, <2>2, <2>3, ServerChange
<1> QED BY <1>10, <1>11, <1>12 DEF Illustrated, PictureInv

\* BroadcastEquipChange on the thread of a zone left.
LEMMA PicturesOfStrayEquip ==
  ASSUME Good, NEW a \in Users, StrayEquip(a)
  PROVE  Illustrated
<1>1. /\ TypeOK /\ ViewInv /\ ServerInv /\ Viewers \subseteq Users
      /\ \A v \in Viewers : Depicted(v)
  BY ViewAssumption DEF Good, ViewInv, PictureInv
<1>2. user[a] \in UserStates BY <1>1 DEF TypeOK
<1>3. PICK c \in Cells : c = user[a].cell BY <1>2 DEF UserStates
<1>4. PICK t : t = [user[a] EXCEPT !.armed = ~user[a].armed] OBVIOUS
<1>5. /\ t \in UserStates /\ t.on = user[a].on /\ t.cell = c /\ t.alive = user[a].alive
      /\ t.armed = ~user[a].armed
  BY <1>2, <1>3, <1>4 DEF UserStates
<1>6. user' = [user EXCEPT ![a] = t] BY <1>1, <1>4 DEF StrayEquip, TypeOK, UserStates
<1>7. /\ Exists(a) /\ struck' = struck /\ stray' = stray
      /\ untold' = untold \cup {a} /\ untold' \ {a} = untold \ {a}
      /\ UNCHANGED <<monster, viewList, ground, fresh, client, late, unsure, chan>>
  BY DEF StrayEquip, Misrouted, InGrid, Exists, field
<1>8. ASSUME NEW v \in Viewers PROVE chan'[v] = chan[v] \o <<>>
  <2>1. PICK q : q = chan[v] OBVIOUS
  <2>2. q \in Seq(Notices) BY <1>1, <2>1 DEF TypeOK
  <2>3. q \o <<>> = q BY <2>2
  <2> QED BY <1>7, <2>1, <2>3
<1>9. ASSUME NEW v \in Viewers, v # a PROVE Depicted(v)'
  <2>1. v \in Users \ {a} BY <1>1, <1>9
  <2>2. /\ a \in Visible(v)' <=> t.on = "grid" /\ v \in CollectUsers(t.cell)
        /\ CellOf(a)' = t.cell /\ user'[v] = user[v]
    <3>1. TypeOK /\ t \in UserStates BY <1>1, <1>5
    <3>2. UNCHANGED <<monster, ground>> BY <1>7
    <3> QED BY <1>6, <2>1, <3>1, <3>2, SightAfter
  <2>3. a \in Visible(v) <=> user[a].on = "grid" /\ v \in CollectUsers(c)
    BY <1>1, <1>3, <2>1, SightOfUsers DEF InGrid
  <2>4. CellOf(a)' = CellOf(a) /\ (a \in Visible(v)' <=> a \in Visible(v))
    BY <1>3, <1>5, <2>2, <2>3 DEF CellOf
  <2>5. Arms(a) \subseteq Arms(a)'
    <3>1. user[a].armed \in BOOLEAN BY <1>2 DEF UserStates
    <3>2. Armed(a) \in BOOLEAN BY <3>1 DEF Armed
    <3> QED BY <1>7, <3>2 DEF Arms
  <2>6. ZoneOf[user'[v].cell] = ZoneOf[user[v].cell] BY <2>2
  <2>7. Right(v, a) \subseteq Right(v, a)' BY <1>7, <2>4, <2>5, <2>6, RightStays
  <2> QED BY <1>1, <1>5, <1>6, <1>7, <1>8, <1>9, <2>7, ToldOfUser
<1>10. ASSUME a \in Viewers PROVE Depicted(a)'
  BY <1>3, <1>5, <1>6, <1>7, <1>8, <1>10, SelfStays
<1>11. ServerInv'
  <2>1. t.on = "off" => ~t.alive BY <1>1, <1>5 DEF ServerInv
  <2>2. ~t.alive => t.on \in {"off", "out"} \/ a \in struck' BY <1>1, <1>5, <1>7 DEF ServerInv
  <2> QED BY <1>5, <1>6, <1>7, <2>1, <2>2, ServerChange
<1> QED BY <1>9, <1>10, <1>11 DEF Illustrated, PictureInv

\* What a settled user's own move, of either kind, does to its own queue.
LEMMA MoverHears ==
  ASSUME Good, NEW a \in Viewers, Exists(a), Settled(a), NEW c \in Cells,
         NEW r \in Seq(News(a)), chan'[a] = chan[a] \o (<<Notice("MOVE", a, c)>> \o r),
         UNCHANGED <<client, late, unsure>>,
         NEW s \in Subjects \ {a}, NEW G, Stable(G),
         Takes(Right(a, s) \cap Still, a, Notice("MOVE", a, c), G),
         Carries(G, a, r, Right(a, s)')
  PROVE  Carries({ScreenOf(a)'}, a, chan'[a], Right(a, s)')
<1>1. ViewInv /\ TypeOK /\ Patient /\ Depicted(a) /\ a \in Subjects
  BY ViewAssumption DEF Good, ViewInv, PictureInv, Subjects
<1>2. PICK n : n = Notice("MOVE", a, c) OBVIOUS
<1>3. n \in Fit(a) BY <1>1, <1>2, NoticeLemma DEF Types
<1>4. r \in Seq(Fit(a)) /\ <<n>> \in Seq(Fit(a)) /\ <<n>> \o r \in Seq(Fit(a))
  <2>1. r \in Seq(Fit(a)) BY FitTypes
  <2> QED BY <1>3, <2>1
<1>5. Carries({ScreenOf(a)}, a, chan[a], Still) BY <1>1, SettledStill
<1>6. Carries({ScreenOf(a)}, a, chan[a], Right(a, s)) BY <1>1 DEF Depicted
<1>7. Stable(Right(a, s) \cap Still) BY RightOnly, StableStates, StableBoth
<1>8. Carries(Right(a, s) \cap Still, a, <<n>>, G) BY <1>2, <1>7, CarriesNotice
<1>9. Carries(Right(a, s) \cap Still, a, <<n>> \o r, Right(a, s)')
  BY <1>4, <1>8, CarriesOn
<1>10. chan'[a] = chan[a] \o (<<n>> \o r) BY <1>2
<1> QED BY <1>1, <1>4, <1>5, <1>6, <1>9, <1>10, Posted

\* The user that moves is alive in the grid.
LEMMA Mover ==
  ASSUME Good, NEW a \in Users, Moves(a)
  PROVE  Exists(a) /\ InGrid(a) /\ user[a].alive /\ Settled(a)
<1>1. user[a].on = "off" => ~user[a].alive BY DEF Good, ServerInv
<1> QED BY <1>1 DEF Moves, Exists, InGrid

\* HandlePlayerMove inside a zone.
LEMMA PicturesOfWalk ==
  ASSUME Good, NEW a \in Users, Moves(a), NEW c \in Cells, MoveInZone(a, c),
         ZoneOf[c] = ZoneOf[user[a].cell],
         UNCHANGED <<monster, ground, fresh, client, late, unsure, struck, stray, untold>>
  PROVE  Illustrated
<1>1. /\ TypeOK /\ ViewInv /\ ServerInv /\ Viewers \subseteq Users
      /\ \A v \in Viewers : Depicted(v)
  BY ViewAssumption DEF Good, ViewInv, PictureInv
<1>2. user[a] \in UserStates BY <1>1 DEF TypeOK
<1>3. Exists(a) /\ InGrid(a) /\ user[a].alive /\ Settled(a) BY Mover
<1>4. PICK old, new, moved, tail :
        /\ old = Visible(a) /\ new = CollectSubjects(a, c) /\ moved = (c # user[a].cell)
        /\ tail = IF moved THEN Adds(new \ old) \o Removals(old \ new) ELSE <<>>
  OBVIOUS
<1>5. /\ user' = [user EXCEPT ![a].cell = c]
      /\ Post([v \in Viewers |->
           IF v = a THEN <<Notice("MOVE", a, c)>> \o tail
           ELSE IF ~moved \/ v \notin old \cup new THEN <<>>
           ELSE IF v \notin old THEN <<Notice("ADD", a, c)>>
           ELSE IF v \in new THEN <<Notice("MOVE", a, c)>>
           ELSE <<Removal(a)>>])
  BY <1>4 DEF MoveInZone
<1>6. PICK t : t = [user[a] EXCEPT !.cell = c] OBVIOUS
<1>7. /\ t \in UserStates /\ t.on = "grid" /\ t.cell = c /\ t.alive = user[a].alive
      /\ t.armed = user[a].armed
  BY <1>2, <1>3, <1>6 DEF UserStates, InGrid
<1>8. user' = [user EXCEPT ![a] = t] BY <1>1, <1>5, <1>6 DEF TypeOK, UserStates
<1>9. struck \subseteq struck' /\ stray \subseteq stray' /\ untold' \ {a} = untold \ {a} OBVIOUS
<1>10. ASSUME NEW v \in Viewers, v # a PROVE Depicted(v)'
  <2>1. v \in Users \ {a} BY <1>1, <1>10
  <2>2. /\ a \in Visible(v)' <=> v \in CollectUsers(c)
        /\ CellOf(a)' = c /\ Armed(a)' = user[a].armed /\ user'[v] = user[v]
    <3>1. TypeOK /\ t \in UserStates BY <1>1, <1>7
    <3>2. /\ a \in Visible(v)' <=> t.on = "grid" /\ v \in CollectUsers(t.cell)
          /\ CellOf(a)' = t.cell /\ Armed(a)' = t.armed /\ user'[v] = user[v]
      BY <1>8, <2>1, <3>1, SightAfter
    <3> QED BY <1>7, <3>2
  <2>3. v \in old <=> a \in Visible(v) BY <1>1, <1>4, <2>1, SightOfUsers
  <2>4. v \in new <=> v \in CollectUsers(c)
    <3>1. v \notin Monsters /\ v \notin Items BY <2>1, ViewAssumption
    <3> QED BY <1>4, <2>1, <3>1 DEF CollectSubjects
  <2>5. CellOf(a) = user[a].cell /\ Arms(a)' = Arms(a)
    <3>1. CellOf(a) = user[a].cell /\ Armed(a) = user[a].armed
      BY <1>2 DEF CellOf, Armed, UserStates
    <3> QED BY <2>2, <3>1 DEF Arms
  <2>6. ZoneOf[user'[v].cell] = ZoneOf[user[v].cell] BY <2>2
  <2>7. ASSUME Exists(v), NEW type \in {"ADD", "MOVE"}, v \in new, type = "MOVE" => v \in old,
               chan'[v] = chan[v] \o <<Notice(type, a, c)>>
        PROVE  \E n \in News(v) : n.id = a /\ Tells(v, n, a) /\ chan'[v] = chan[v] \o <<n>>
    <3>1. PICK n : n = Notice(type, a, c) OBVIOUS
    <3>2. type \in Types /\ type \notin {"LOGIN_ACK", "EQUIP"} BY DEF Types
    <3>3. /\ n \in News(v) /\ n.id = a /\ n.type = type /\ n.cell = c
          /\ n.armed = user[a].armed
      BY <1>1, <1>10, <3>1, <3>2, UserNotice
    <3>4. Tells(v, n, a) BY <2>2, <2>3, <2>4, <2>5, <2>7, <3>3 DEF Tells
    <3> QED BY <2>7, <3>1, <3>3, <3>4
  <2>8. ASSUME Exists(v), v \notin new, chan'[v] = chan[v] \o <<Removal(a)>>
        PROVE  \E n \in News(v) : n.id = a /\ Tells(v, n, a) /\ chan'[v] = chan[v] \o <<n>>
    <3>1. PICK n : n = Removal(a) OBVIOUS
    <3>2. n \in News(v) /\ n.id = a /\ n.type = "REMOVE"
      BY <1>1, <1>10, <3>1, UserNotice DEF Types, Removal
    <3>3. Tells(v, n, a) BY <2>2, <2>4, <2>8, <3>2 DEF Tells
    <3> QED BY <2>8, <3>1, <3>2, <3>3
  <2>9. ASSUME Exists(v), ~moved \/ v \notin old \cup new
        PROVE  chan'[v] = chan[v] \o <<>> /\ Right(v, a) \subseteq Right(v, a)'
    <3>1. chan'[v] = chan[v] \o <<>> BY <1>5, <1>10, <2>9 DEF Post
    <3>2. a \in Visible(v) <=> v \in CollectUsers(user[a].cell)
      BY <1>1, <1>3, <2>1, SightOfUsers
    <3>3. a \in Visible(v)' <=> a \in Visible(v) BY <1>4, <2>2, <2>3, <2>4, <2>9, <3>2
    <3>4. a \in Visible(v) => CellOf(a)' = CellOf(a) /\ Arms(a)' = Arms(a)
      BY <1>4, <2>2, <2>3, <2>5, <2>9
    <3>5. Right(v, a) \subseteq Right(v, a)' BY <1>9, <2>6, <3>3, <3>4, RightStays
    <3> QED BY <3>1, <3>5
  <2>10. ASSUME Exists(v)
         PROVE  \/ chan'[v] = chan[v] \o <<>> /\ Right(v, a) \subseteq Right(v, a)'
                \/ \E n \in News(v) : n.id = a /\ Tells(v, n, a) /\ chan'[v] = chan[v] \o <<n>>
    <3>1. CASE ~moved \/ v \notin old \cup new BY <2>9, <2>10, <3>1
    <3>2. CASE moved /\ v \notin old /\ v \in new
      <4>1. chan'[v] = chan[v] \o <<Notice("ADD", a, c)>>
        BY <1>5, <1>10, <2>10, <3>2 DEF Post
      <4> QED BY <2>7, <2>10, <3>2, <4>1
    <3>3. CASE moved /\ v \in old /\ v \in new
      <4>1. chan'[v] = chan[v] \o <<Notice("MOVE", a, c)>>
        BY <1>5, <1>10, <2>10, <3>3 DEF Post
      <4> QED BY <2>7, <2>10, <3>3, <4>1
    <3>4. CASE moved /\ v \in old /\ v \notin new
      <4>1. chan'[v] = chan[v] \o <<Removal(a)>> BY <1>5, <1>10, <2>10, <3>4 DEF Post
      <4> QED BY <2>8, <2>10, <3>4, <4>1
    <3> QED BY <3>1, <3>2, <3>3, <3>4
  <2> QED BY <1>1, <1>7, <1>8, <1>9, <1>10, <2>10, ToldOfUser
<1>11. ASSUME a \in Viewers, NEW s \in Subjects \ {a}
       PROVE  Carries({ScreenOf(a)'}, a, chan'[a], Right(a, s)')
  <2>1. PICK z : z = ZoneOf[c] OBVIOUS
  <2>2. z # None /\ z = ZoneOf[user[a].cell] BY <2>1, ViewAssumption
  <2>3. /\ user'[a] = t /\ Visible(a)' = new
        /\ CellOf(s)' = CellOf(s) /\ Arms(s)' = Arms(s)
    <3>1. /\ user'[a] = t /\ Visible(a)' = new
          /\ CellOf(s)' = CellOf(s) /\ Armed(s)' = Armed(s)
      BY <1>1, <1>4, <1>7, <1>8, SightAfter
    <3> QED BY <3>1 DEF Arms
  <2>4. ZoneOf[user'[a].cell] = ZoneOf[user[a].cell] BY <1>7, <2>3
  <2>5. PICK n : n = Notice("MOVE", a, c) OBVIOUS
  <2>6. n \in Fit(a) /\ n.id = a /\ n.type = "MOVE" /\ n.cell = c
    <3>1. a \in Subjects BY DEF Subjects
    <3> QED BY <1>1, <2>5, <3>1, NoticeLemma DEF Types
  <2>7. Takes(Right(a, s) \cap Still, a, n, Right(a, s))
    BY <2>1, <2>2, <2>6, OwnMove DEF Right
  <2>8. (s \in new <=> s \in old) => Right(a, s) \subseteq Right(a, s)'
    BY <1>4, <1>9, <2>3, <2>4, RightStays
  <2>9. /\ old \subseteq Subjects \ {a} /\ new \subseteq Subjects \ {a}
        /\ \A x \in new : CellOf(x) \in Cells
    BY <1>1, <1>4, SightLemma
  <2>10. /\ Only(a, s, Right(a, s)) /\ Only(a, s, Right(a, s)') /\ Stable(Right(a, s))
         /\ Right(a, s) \subseteq Sound(s, z)
    BY <2>2, RightOnly
  <2>11. Right(a, s)' \subseteq Sound(s, z)
    BY <1>7, <2>1, <2>3 DEF Right, Seen, Unseen
  <2>12. tail \in Seq(News(a)) /\ Carries(Right(a, s), a, tail, Right(a, s)')
    <3>1. CASE ~moved
      <4>1. tail = <<>> /\ new = old BY <1>3, <1>4, <3>1 DEF Visible
      <4>2. <<>> \in Seq(News(a)) OBVIOUS
      <4> QED BY <2>8, <2>10, <4>1, <4>2, CarriesNothing DEF Only
    <3>2. CASE moved
      <4>1. PICK add, gone : add = Adds(new \ old) /\ gone = Removals(old \ new) OBVIOUS
      <4>2. tail = add \o gone BY <1>4, <3>2, <4>1
      <4>3. add \in Seq(News(a)) BY <1>1, <2>9, <4>1, AddsType
      <4>4. gone \in Seq(News(a)) BY <1>1, <2>9, <4>1, RemovalsType
      <4>5. PICK M : M = IF s \in new THEN Right(a, s)' ELSE Right(a, s) OBVIOUS
      <4>6. Only(a, s, M) /\ M \subseteq Sound(s, z) BY <2>10, <2>11, <4>5
      <4>7. Carries(Right(a, s), a, add, M)
        <5>1. new \ old \in SUBSET (Subjects \ {a}) /\ \A x \in new \ old : CellOf(x) \in Cells
          BY <2>9
        <5>2. Armed(s) \in Arms(s) /\
                (s \in new \ old => Seen(s, z, CellOf(s), Arms(s)) \subseteq M)
          BY <1>7, <2>1, <2>3, <4>5 DEF Right, Arms
        <5>3. s \notin new \ old => Right(a, s) \subseteq M BY <2>8, <4>5
        <5> QED BY <1>1, <2>10, <4>1, <4>6, <5>1, <5>2, <5>3, AddsCarry
      <4>8. Carries(M, a, gone, Right(a, s)')
        <5>1. old \ new \in SUBSET (Subjects \ {a}) BY <2>9
        <5>2. PICK hit : hit = {a, s} \cap (struck' \cup stray') OBVIOUS
        <5>3. s \in old \ new => Unseen(s, z, hit) \subseteq Right(a, s)'
          BY <1>7, <2>1, <2>3, <5>2 DEF Right
        <5>4. s \notin old \ new => M \subseteq Right(a, s)' BY <2>8, <4>5
        <5> QED BY <1>1, <2>10, <4>1, <4>6, <5>1, <5>3, <5>4, RemovalsCarry
      <4> QED BY <4>2, <4>3, <4>4, <4>7, <4>8, CarriesOn
    <3> QED BY <3>1, <3>2
  <2>13. chan'[a] = chan[a] \o (<<Notice("MOVE", a, c)>> \o tail)
    BY <1>3, <1>5, <1>11 DEF Post
  <2>14. Takes(Right(a, s) \cap Still, a, Notice("MOVE", a, c), Right(a, s)) BY <2>5, <2>7
  <2> QED BY <1>3, <1>11, <2>10, <2>12, <2>13, <2>14, MoverHears
<1>12. ServerInv'
  <2>1. t.on = "off" => ~t.alive BY <1>7
  <2>2. ~t.alive => t.on \in {"off", "out"} \/ a \in struck' BY <1>3, <1>7
  <2> QED BY <1>7, <1>8, <1>9, <2>1, <2>2, ServerChange
<1> QED BY <1>10, <1>11, <1>12 DEF Illustrated, PictureInv, Depicted

\* A user that leaves its zone sees nothing from there on, whatever it is told
\* to remove.
LEMMA Crossing ==
  ASSUME Good, NEW a \in Viewers, Exists(a), Settled(a), NEW c \in Cells,
         ZoneOf[c] # ZoneOf[user[a].cell],
         NEW t \in UserStates, user' = [user EXCEPT ![a] = t], t.on = "between", t.cell = c,
         UNCHANGED <<monster, ground, client, late, unsure>>,
         NEW r \in Seq(News(a)), chan'[a] = chan[a] \o (<<Notice("MOVE", a, c)>> \o r),
         NEW s \in Subjects \ {a}, NEW F,
         F = Unseen(s, ZoneOf[c], {a, s} \cap (struck' \cup stray')), Carries(F, a, r, F)
  PROVE  Carries({ScreenOf(a)'}, a, chan'[a], Right(a, s)')
<1>1. TypeOK /\ a \in Users /\ a \in Subjects
  BY ViewAssumption DEF Good, ViewInv, Subjects
<1>2. PICK z : z = ZoneOf[user[a].cell] OBVIOUS
<1>3. z # None
  <2>1. user[a] \in UserStates BY <1>1 DEF TypeOK
  <2> QED BY <1>2, <2>1, ViewAssumption DEF UserStates
<1>4. user'[a] = t /\ Visible(a)' = {} BY <1>1, SightAfter
<1>5. PICK n, hit : n = Notice("MOVE", a, c) /\ hit = {a, s} \cap (struck' \cup stray')
  OBVIOUS
<1>6. n \in Fit(a) /\ n.id = a /\ n.type = "MOVE" /\ n.cell = c
  BY <1>1, <1>5, NoticeLemma DEF Types
<1>7. F = Unseen(s, ZoneOf[c], hit) /\ Right(a, s)' = F BY <1>4, <1>5 DEF Right
<1>8. Right(a, s) \subseteq Sound(s, z) BY <1>2, RightOnly
<1>9. Takes(Sound(s, z) \cap Still, a, n, F)
  <2>1. ZoneOf[n.cell] = ZoneOf[c] /\ ZoneOf[n.cell] # z BY <1>2, <1>6
  <2>2. Takes(Sound(s, z) \cap Still, a, n, Unseen(s, ZoneOf[n.cell], hit))
    BY <1>3, <1>6, <2>1, OwnCrossing
  <2> QED BY <1>7, <2>1, <2>2
<1>10. Takes(Right(a, s) \cap Still, a, Notice("MOVE", a, c), F)
  BY <1>5, <1>8, <1>9 DEF Takes
<1>11. Stable(F) BY <1>7, StableKinds
<1>12. Carries(F, a, r, Right(a, s)') BY <1>7
<1> QED BY <1>10, <1>11, <1>12, MoverHears

\* HandleZoneTransfer.
LEMMA PicturesOfTransfer ==
  ASSUME Good, NEW a \in Users, Moves(a), NEW c \in Cells, HandleZoneTransfer(a, c),
         ZoneOf[c] # ZoneOf[user[a].cell],
         UNCHANGED <<monster, ground, fresh, client, late, unsure, struck, stray, untold>>
  PROVE  Illustrated
<1>1. /\ TypeOK /\ ViewInv /\ ServerInv /\ Viewers \subseteq Users
      /\ \A v \in Viewers : Depicted(v)
  BY ViewAssumption DEF Good, ViewInv, PictureInv
<1>2. user[a] \in UserStates BY <1>1 DEF TypeOK
<1>3. Exists(a) /\ InGrid(a) /\ user[a].alive /\ Settled(a) BY Mover
<1>4. PICK old : old = Visible(a) OBVIOUS
<1>5. /\ user' = [user EXCEPT ![a].cell = c, ![a].on = "between", ![a].crossed = TRUE]
      /\ Post([v \in Viewers |->
           IF v = a THEN <<Notice("MOVE", a, c)>> \o Removals(old)
           ELSE IF v \in old THEN <<Removal(a)>> ELSE <<>>])
  BY <1>4 DEF HandleZoneTransfer
<1>6. PICK t : t = [user[a] EXCEPT !.cell = c, !.on = "between", !.crossed = TRUE] OBVIOUS
<1>7. t \in UserStates /\ t.on = "between" /\ t.cell = c /\ t.alive = user[a].alive
  BY <1>2, <1>6 DEF UserStates
<1>8. user' = [user EXCEPT ![a] = t] BY <1>1, <1>5, <1>6 DEF TypeOK, UserStates
<1>9. struck \subseteq struck' /\ stray \subseteq stray' /\ untold' \ {a} = untold \ {a} OBVIOUS
<1>10. ASSUME NEW v \in Viewers, v # a PROVE Depicted(v)'
  <2>1. v \in Users \ {a} BY <1>1, <1>10
  <2>2. a \notin Visible(v)' /\ user'[v] = user[v] BY <1>1, <1>7, <1>8, <2>1, SightAfter
  <2>3. v \in old <=> a \in Visible(v) BY <1>1, <1>4, <2>1, SightOfUsers
  <2>4. ASSUME Exists(v), v \in old
        PROVE  \E n \in News(v) : n.id = a /\ Tells(v, n, a) /\ chan'[v] = chan[v] \o <<n>>
    <3>1. PICK n : n = Removal(a) OBVIOUS
    <3>2. n \in News(v) /\ n.id = a /\ n.type = "REMOVE"
      BY <1>1, <1>10, <3>1, UserNotice DEF Types, Removal
    <3>3. Tells(v, n, a) BY <2>2, <3>2 DEF Tells
    <3>4. chan'[v] = chan[v] \o <<n>> BY <1>5, <1>10, <2>4, <3>1 DEF Post
    <3> QED BY <3>2, <3>3, <3>4
  <2>5. ASSUME Exists(v), v \notin old
        PROVE  chan'[v] = chan[v] \o <<>> /\ Right(v, a) \subseteq Right(v, a)'
    <3>1. chan'[v] = chan[v] \o <<>> BY <1>5, <1>10, <2>5 DEF Post
    <3>2. ZoneOf[user'[v].cell] = ZoneOf[user[v].cell] BY <2>2
    <3>3. Right(v, a) \subseteq Right(v, a)' BY <1>9, <2>2, <2>3, <2>5, <3>2, RightStays
    <3> QED BY <3>1, <3>3
  <2>6. Exists(v) =>
          \/ chan'[v] = chan[v] \o <<>> /\ Right(v, a) \subseteq Right(v, a)'
          \/ \E n \in News(v) : n.id = a /\ Tells(v, n, a) /\ chan'[v] = chan[v] \o <<n>>
    BY <2>4, <2>5
  <2> QED BY <1>1, <1>7, <1>8, <1>9, <1>10, <2>6, ToldOfUser
<1>11. ASSUME a \in Viewers, NEW s \in Subjects \ {a}
       PROVE  Carries({ScreenOf(a)'}, a, chan'[a], Right(a, s)')
  <2>1. PICK r : r = Removals(old) OBVIOUS
  <2>2. old \in SUBSET (Subjects \ {a}) BY <1>1, <1>4, SightLemma
  <2>3. r \in Seq(News(a)) BY <1>1, <2>1, <2>2, RemovalsType
  <2>4. PICK hit, F : hit = {a, s} \cap (struck' \cup stray') /\ F = Unseen(s, ZoneOf[c], hit)
    OBVIOUS
  <2>5. Only(a, s, F) /\ F \subseteq Sound(s, ZoneOf[c])
    <3>1. Only(a, s, F) BY <2>4, OnlyKinds
    <3> QED BY <2>4, <3>1 DEF Unseen
  <2>6. Unseen(s, ZoneOf[c], hit) \subseteq F BY <2>4
  <2>7. Carries(F, a, r, F) BY <1>1, <2>1, <2>2, <2>5, <2>6, RemovalsCarry
  <2>8. chan'[a] = chan[a] \o (<<Notice("MOVE", a, c)>> \o r) BY <1>3, <1>5, <1>11, <2>1 DEF Post
  <2>9. UNCHANGED <<monster, ground, client, late, unsure>> OBVIOUS
  <2> QED BY <1>3, <1>7, <1>8, <1>11, <2>3, <2>4, <2>7, <2>8, <2>9, Crossing
<1>12. ServerInv'
  <2>1. t.on = "off" => ~t.alive BY <1>7
  <2>2. ~t.alive => t.on \in {"off", "out"} \/ a \in struck' BY <1>3, <1>7
  <2> QED BY <1>7, <1>8, <1>9, <2>1, <2>2, ServerChange
<1> QED BY <1>10, <1>11, <1>12 DEF Illustrated, PictureInv, Depicted

\* HandleZoneTransfer on the thread of a zone left.
LEMMA PicturesOfStrayMove ==
  ASSUME Good, NEW a \in Users, StrayMove(a)
  PROVE  Illustrated
<1>1. /\ TypeOK /\ ViewInv /\ ServerInv /\ Viewers \subseteq Users
      /\ \A v \in Viewers : Depicted(v)
  BY ViewAssumption DEF Good, ViewInv, PictureInv
<1>2. user[a] \in UserStates BY <1>1 DEF TypeOK
<1>3. Exists(a) /\ user[a].alive /\ Settled(a)
  <2>1. Moves(a) BY DEF StrayMove
  <2> QED BY <2>1, Mover
<1>4. PICK c \in Cells :
        /\ ZoneOf[c] # ZoneOf[user[a].cell]
        /\ user' = [user EXCEPT ![a].cell = c, ![a].on = "between"]
        /\ Post([v \in Viewers |-> IF v = a THEN <<Notice("MOVE", a, c)>> ELSE <<>>])
  BY DEF StrayMove
<1>5. PICK t : t = [user[a] EXCEPT !.cell = c, !.on = "between"] OBVIOUS
<1>6. t \in UserStates /\ t.on = "between" /\ t.cell = c /\ t.alive = user[a].alive
  BY <1>2, <1>5 DEF UserStates
<1>7. user' = [user EXCEPT ![a] = t] BY <1>1, <1>4, <1>5 DEF TypeOK, UserStates
<1>8. /\ struck \subseteq struck' /\ a \in stray' /\ stray \subseteq stray'
      /\ untold' \ {a} = untold \ {a}
      /\ UNCHANGED <<monster, ground, fresh, client, late, unsure>>
  BY DEF StrayMove, field
<1>9. ASSUME NEW v \in Viewers, v # a PROVE Depicted(v)'
  <2>1. v \in Users \ {a} BY <1>1, <1>9
  <2>2. a \notin Visible(v)' /\ user'[v] = user[v] BY <1>1, <1>6, <1>7, <1>8, <2>1, SightAfter
  <2>3. Exists(v) => chan'[v] = chan[v] \o <<>> BY <1>4, <1>9 DEF Post
  <2>4. ZoneOf[user'[v].cell] = ZoneOf[user[v].cell] /\ {v, a} \cap (struck' \cup stray') # {}
    BY <1>8, <2>2
  <2>5. Right(v, a) \subseteq Right(v, a)' BY <2>2, <2>4, RightFades
  <2> QED BY <1>1, <1>6, <1>7, <1>8, <1>9, <2>3, <2>5, ToldOfUser
<1>10. ASSUME a \in Viewers, NEW s \in Subjects \ {a}
       PROVE  Carries({ScreenOf(a)'}, a, chan'[a], Right(a, s)')
  <2>1. PICK F : F = Unseen(s, ZoneOf[c], {a, s} \cap (struck' \cup stray')) OBVIOUS
  <2>2. Carries(F, a, <<>>, F) BY <2>1, StableKinds, CarriesNothing
  <2>3. <<>> \in Seq(News(a)) OBVIOUS
  <2>4. chan'[a] = chan[a] \o (<<Notice("MOVE", a, c)>> \o <<>>)
    <3>1. chan'[a] = chan[a] \o <<Notice("MOVE", a, c)>> BY <1>3, <1>4, <1>10 DEF Post
    <3>2. <<Notice("MOVE", a, c)>> \o <<>> = <<Notice("MOVE", a, c)>> OBVIOUS
    <3> QED BY <3>1, <3>2
  <2> QED BY <1>3, <1>4, <1>6, <1>7, <1>8, <1>10, <2>1, <2>2, <2>3, <2>4, Crossing
<1>11. ServerInv'
  <2>1. t.on = "off" => ~t.alive BY <1>6
  <2>2. ~t.alive => t.on \in {"off", "out"} \/ a \in struck' BY <1>3, <1>6
  <2> QED BY <1>6, <1>7, <1>8, <2>1, <2>2, ServerChange
<1> QED BY <1>9, <1>10, <1>11 DEF Illustrated, PictureInv, Depicted

\* USER_MOVE_REQ and USER_TELEPORT_REQ.
LEMMA PicturesOfMove ==
  ASSUME Good, NEW a \in Users, Walk(a) \/ Teleport(a)
  PROVE  Illustrated
<1>1. PICK c \in Cells : HandlePlayerMove(a, c)
  <2>1. CASE Walk(a)
    <3>1. PICK d \in {-1, 1} :
            LET c == IF user[a].cell + d \in Cells THEN user[a].cell + d ELSE user[a].cell
            IN HandlePlayerMove(a, c)
      BY <2>1 DEF Walk
    <3>2. user[a].cell \in Cells BY DEF Good, ViewInv, TypeOK, UserStates
    <3> QED BY <3>1, <3>2
  <2>2. CASE Teleport(a) BY <2>2 DEF Teleport
  <2> QED BY <2>1, <2>2
<1>2. Moves(a) /\ UNCHANGED <<monster, ground, fresh, client, late, unsure,
                              struck, stray, untold>>
  BY DEF Walk, Teleport, field, observed
<1>3. CASE ZoneOf[c] = ZoneOf[user[a].cell]
  BY <1>1, <1>2, <1>3, PicturesOfWalk DEF HandlePlayerMove
<1>4. CASE ZoneOf[c] # ZoneOf[user[a].cell]
  BY <1>1, <1>2, <1>4, PicturesOfTransfer DEF HandlePlayerMove
<1> QED BY <1>3, <1>4

\* Only client u and its queue change, and it goes where its queue led.
LEMMA FramePictures ==
  ASSUME Good, NEW u \in Viewers,
         UNCHANGED <<user, monster, ground, fresh, struck, stray, untold>>,
         \A v \in Viewers \ {u} : chan'[v] = chan[v] /\ ScreenOf(v)' = ScreenOf(v),
         \A G : Carries({ScreenOf(u)}, u, chan[u], G) => Carries({ScreenOf(u)'}, u, chan'[u], G)
  PROVE  Illustrated
<1>1. \A c : CollectUsers(c)' = CollectUsers(c) BY DEF CollectUsers, InGrid
<1>2. \A v, c : CollectSubjects(v, c)' = CollectSubjects(v, c) BY <1>1 DEF CollectSubjects
<1>3. \A v : Visible(v)' = Visible(v) BY <1>2 DEF Visible, InGrid
<1>4. \A s : CellOf(s)' = CellOf(s) /\ Arms(s)' = Arms(s) BY DEF CellOf, Armed, Arms
<1>5. \A v, s : Right(v, s)' = Right(v, s) BY <1>3, <1>4 DEF Right
<1>6. \A v : Exists(v)' <=> Exists(v) BY DEF Exists
<1>7. PictureInv'
  <2> SUFFICES ASSUME NEW v \in Viewers, Exists(v)', NEW s \in Subjects \ {v}
               PROVE  Carries({ScreenOf(v)'}, v, chan'[v], Right(v, s)')
    BY DEF PictureInv, Depicted
  <2>1. Carries({ScreenOf(v)}, v, chan[v], Right(v, s)')
    BY <1>5, <1>6 DEF Good, PictureInv, Depicted
  <2>2. CASE v = u BY <2>1, <2>2
  <2>3. CASE v # u
    <3>1. chan'[v] = chan[v] /\ ScreenOf(v)' = ScreenOf(v) BY <2>3
    <3> QED BY <2>1, <3>1
  <2> QED BY <2>2, <2>3
<1>8. ServerInv' BY DEF Good, ServerInv
<1> QED BY <1>7, <1>8 DEF Illustrated

\* process_data: what is left of the queue leads on from there.
LEMMA PicturesOfReceive ==
  ASSUME Good, NEW u \in Viewers, Receive(u)
  PROVE  Illustrated
<1>1. TypeOK /\ chan[u] \in Seq(Fit(u)) /\ chan[u] # <<>> BY DEF Good, ViewInv, Receive
<1>2. /\ client' = [client EXCEPT ![u] = ProcessPacket(client[u], u, Head(chan[u]))]
      /\ late' = [late EXCEPT ![u] = Late(client[u], u, Head(chan[u]), late[u])]
      /\ unsure' = [unsure EXCEPT ![u] = Unsure(client[u], u, Head(chan[u]), unsure[u])]
      /\ chan' = [chan EXCEPT ![u] = Tail(chan[u])]
      /\ UNCHANGED <<user, monster, ground, fresh, struck, stray, untold>>
  BY DEF Receive, field
<1>3. \A v \in Viewers \ {u} : chan'[v] = chan[v] /\ ScreenOf(v)' = ScreenOf(v)
  BY <1>1, <1>2 DEF TypeOK, ScreenOf
<1>4. ScreenOf(u)' = After(ScreenOf(u), u, Head(chan[u])) /\ chan'[u] = Tail(chan[u])
  BY <1>1, <1>2 DEF TypeOK, ScreenOf, After, Screen
<1>5. ASSUME NEW G, Carries({ScreenOf(u)}, u, chan[u], G)
      PROVE  Carries({ScreenOf(u)'}, u, chan'[u], G)
  <2>1. Carries({After(ScreenOf(u), u, Head(chan[u]))}, u, Tail(chan[u]), G)
    BY <1>1, <1>5, CarriesTail
  <2> QED BY <1>4, <2>1
<1> QED BY <1>2, <1>3, <1>5, FramePictures

\* The render loop, which the queue allows for.
LEMMA PicturesOfIdle ==
  ASSUME Good, NEW u \in Viewers, DeathDone(u) \/ Fade(u)
  PROVE  Illustrated
<1>1. TypeOK /\ chan[u] \in Seq(Fit(u)) BY DEF Good, ViewInv
<1>2. PICK d : Idles(client[u], d) /\ client' = [client EXCEPT ![u] = d]
  <2>1. CASE DeathDone(u)
    <3>1. PICK m \in DOMAIN client[u].players :
            /\ client[u].players[m].look = "dying"
            /\ client' = [client EXCEPT ![u].players = Without(@, m)]
      BY <2>1 DEF DeathDone
    <3>2. PICK d : d = [client[u] EXCEPT !.players = Without(@, m)] OBVIOUS
    <3>3. client' = [client EXCEPT ![u] = d] BY <1>1, <3>1, <3>2 DEF TypeOK
    <3>4. Idles(client[u], d) BY <3>1, <3>2 DEF Idles
    <3> QED BY <3>3, <3>4
  <2>2. CASE Fade(u)
    <3>1. PICK d : d = IF Fading(client[u]) THEN FadedOut(client[u])
                       ELSE [client[u] EXCEPT !.trans = "NONE"]
      OBVIOUS
    <3>2. client[u].trans # "NONE" /\ client' = [client EXCEPT ![u] = d]
      BY <1>1, <2>2, <3>1 DEF Fade, TypeOK
    <3>3. Idles(client[u], d) BY <3>1, <3>2 DEF Idles
    <3> QED BY <3>2, <3>3
  <2> QED BY <2>1, <2>2
<1>3. UNCHANGED <<user, monster, ground, fresh, chan, late, unsure, struck, stray, untold>>
  BY DEF DeathDone, Fade, field, observed
<1>4. \A v \in Viewers \ {u} : chan'[v] = chan[v] /\ ScreenOf(v)' = ScreenOf(v)
  BY <1>1, <1>2, <1>3 DEF TypeOK, ScreenOf
<1>5. PICK x : x = ScreenOf(u) OBVIOUS
<1>6. x.client = client[u] /\ x.late = late[u] /\ x.unsure = unsure[u]
  BY <1>5 DEF ScreenOf, Screen
<1>7. ScreenOf(u)' = Screen(d, x.late, x.unsure)
  BY <1>1, <1>2, <1>3, <1>6 DEF TypeOK, ScreenOf
<1>8. Idles(x.client, d) BY <1>2, <1>6
<1>9. ASSUME NEW G, Carries({ScreenOf(u)}, u, chan[u], G)
      PROVE  Carries({ScreenOf(u)'}, u, chan'[u], G)
  <2>1. Carries({x}, u, chan[u], G) BY <1>5, <1>9
  <2>2. Carries({Screen(d, x.late, x.unsure)}, u, chan[u], G)
    BY <1>1, <1>8, <2>1, CarriesIdle
  <2> QED BY <1>3, <1>7, <2>2
<1> QED BY <1>3, <1>4, <1>9, FramePictures

-----------------------------------------------------------------------------
\* A client never draws its own user as one of the others.
SelfInv ==
  \A u \in Viewers : Exists(u) =>
    u \notin DOMAIN client[u].players \cup DOMAIN client[u].pendingObjects

\* Its own notices neither draw nor buffer anything.
LEMMA OwnNoticeDraws ==
  ASSUME NEW u, NEW c \in Clients, NEW n, n.id = u, n.type \in Placing \cup {"DIE"}, NEW s
  PROVE  LET d == ProcessPacket(c, u, n) IN
         /\ s \in DOMAIN d.players => s \in DOMAIN c.players
         /\ s \in DOMAIN d.pendingObjects => s \in DOMAIN c.pendingObjects
<1>1. PICK d : d = ProcessPacket(c, u, n) OBVIOUS
<1>2. CASE n.type = "LOGIN_ACK"
  <2>1. d.players = c.players /\ d.pendingObjects = c.pendingObjects
    BY <1>1, <1>2 DEF ProcessPacket, OnLoginAck, Clients
  <2> QED BY <1>1, <2>1
<1>3. CASE n.type = "RESPAWN"
  <2>1. d.players = c.players /\ d.pendingObjects = c.pendingObjects
    BY <1>1, <1>3 DEF ProcessPacket, Clients
  <2> QED BY <1>1, <2>1
<1>4. CASE n.type = "DIE"
  <2>1. d.players = c.players /\ d.pendingObjects = c.pendingObjects
    BY <1>1, <1>4 DEF ProcessPacket, Clients
  <2> QED BY <1>1, <2>1
<1>5. CASE n.type = "MOVE"
  <2>1. d = OnOwnMove(c, n) BY <1>1, <1>5 DEF ProcessPacket
  <2>2. CASE d = TriggerZoneTransition(c, n)
    <3>1. d.players = NoPictures /\ d.pendingObjects = NoPictures
      BY <2>2 DEF TriggerZoneTransition, Clients
    <3>2. DOMAIN NoPictures = {} BY DEF NoPictures
    <3> QED BY <1>1, <3>1, <3>2
  <2>3. CASE d # TriggerZoneTransition(c, n)
    <3>1. d.players = c.players /\ d.pendingObjects = c.pendingObjects
      BY <2>1, <2>3 DEF OnOwnMove, Clients
    <3> QED BY <1>1, <3>1
  <2> QED BY <2>2, <2>3
<1> QED BY <1>2, <1>3, <1>4, <1>5 DEF Placing

\* A notice or the render loop changes client u.
LEMMA SelfFrame ==
  ASSUME Good, SelfInv, NEW u \in Viewers, ClientFrame(u)
  PROVE  SelfInv'
<1>1. /\ TypeOK /\ client[u] \in Clients /\ chan[u] \in Seq(Fit(u))
      /\ AvatarOK(chan[u], client[u], u, user[u], struck)
  BY DEF Good, ViewInv, TypeOK, AvatarInv
<1>2. user' = user /\ \A v \in Viewers \ {u} : client'[v] = client[v]
  BY <1>1 DEF ClientFrame, Receive, DeathDone, Fade, TypeOK
<1>3. ASSUME Exists(u)
      PROVE  u \notin DOMAIN client'[u].players \cup DOMAIN client'[u].pendingObjects
  <2>1. PICK c, d : c = client[u] /\ d = client'[u] OBVIOUS
  <2>2. c \in Clients /\ u \notin DOMAIN c.players \cup DOMAIN c.pendingObjects
    BY <1>1, <1>3, <2>1 DEF SelfInv
  <2>3. CASE Receive(u)
    <3>1. PICK q, n : q = chan[u] /\ n = Head(q) OBVIOUS
    <3>2. q # <<>> /\ d = ProcessPacket(c, u, n)
      BY <1>1, <2>1, <2>3, <3>1 DEF Receive, TypeOK
    <3>3. n \in Fit(u) /\ n = q[1] /\ 1 \in DOMAIN q BY <1>1, <3>1, <3>2
    <3>4. CASE n.id # u
      <4>1. n \in News(u) BY <3>3, <3>4 DEF News
      <4>2. Heard(c, n, d) BY <2>2, <3>2, <4>1, HeardLemma
      <4> QED BY <2>1, <2>2, <3>4, <4>2 DEF Heard, SamePicture
    <3>5. CASE n.id = u
      <4>1. user[u].on \in Present BY <1>3 DEF Exists, Present
      <4>2. AvatarPlaced(q, c, u, user[u]) BY <1>1, <2>1, <3>1, <4>1 DEF AvatarOK
      <4>3. n.type \in Placing \cup {"DIE"} BY <3>3, <3>5, <4>2 DEF AvatarPlaced
      <4> QED BY <2>1, <2>2, <3>2, <3>5, <4>3, OwnNoticeDraws
    <3> QED BY <3>4, <3>5
  <2>4. CASE DeathDone(u)
    <3>1. PICK m \in DOMAIN c.players : client' = [client EXCEPT ![u].players = Without(@, m)]
      BY <2>1, <2>4 DEF DeathDone
    <3>2. d.players = Without(c.players, m) /\ d.pendingObjects = c.pendingObjects
      BY <1>1, <2>1, <2>2, <3>1 DEF TypeOK, Clients
    <3> QED BY <2>1, <2>2, <3>2 DEF Without, Restrict
  <2>5. CASE Fade(u)
    <3>1. d = IF Fading(c) THEN FadedOut(c) ELSE [c EXCEPT !.trans = "NONE"]
      BY <1>1, <2>1, <2>5 DEF Fade, TypeOK
    <3>2. CASE Fading(c)
      <4>1. d.players = Flushed(c) /\ d.pendingObjects = NoPictures
        BY <2>2, <3>1, <3>2 DEF FadedOut, Clients
      <4> QED BY <2>1, <2>2, <4>1 DEF Flushed, NoPictures
    <3>3. CASE ~Fading(c)
      <4>1. d.players = c.players /\ d.pendingObjects = c.pendingObjects
        BY <2>2, <3>1, <3>3 DEF Clients
      <4> QED BY <2>1, <2>2, <4>1
    <3> QED BY <3>2, <3>3
  <2> QED BY <2>3, <2>4, <2>5 DEF ClientFrame
<1> QED BY <1>2, <1>3 DEF SelfInv, Exists

\* The server changes no client, and only a login brings a user.
LEMMA SelfServer ==
  ASSUME Good, SelfInv, Server
  PROVE  SelfInv'
<1>1. client' = client
  BY DEF Server, Login, Walk, Teleport, HandleEnterZone, Disconnect, KillUser, HandleRespawn,
         EquipChange, Discard, RemoveFieldItem, MonsterMove, KillMonster, MonsterRespawn,
         StrayMove, StrayDisconnect, StrayEquip
<1> SUFFICES ASSUME NEW u \in Viewers, Exists(u)'
             PROVE  u \notin DOMAIN client[u].players \cup DOMAIN client[u].pendingObjects
  BY <1>1 DEF SelfInv
<1>2. CASE Exists(u) BY <1>2 DEF SelfInv
<1>3. CASE user[u].on = "new"
  <2>1. client[u] = FreshClient BY <1>3 DEF Good, AvatarInv, AvatarOK
  <2> QED BY <2>1 DEF FreshClient, NoPictures
<1>4. Exists(u) \/ user[u].on = "new"
  <2> SUFFICES ASSUME user[u].on \notin {"new", "grid", "between", "off"} PROVE FALSE
    BY DEF Exists
  <2>1. user \in [Users -> UserStates] /\ u \in Users
    BY ViewAssumption DEF Good, ViewInv, TypeOK
  <2>2. user'[u].on # user[u].on BY DEF Exists
  <2>3. user'[u] # user[u] BY <2>2
  <2>4. PICK a \in Users : Walk(a) \/ Login(a) \/ Teleport(a) \/ HandleEnterZone(a)
                           \/ Disconnect(a) \/ KillUser(a) \/ HandleRespawn(a) \/ EquipChange(a)
                           \/ StrayMove(a) \/ StrayDisconnect(a) \/ StrayEquip(a)
    BY <2>3, ViewAssumption
    DEF Server, Discard, RemoveFieldItem, MonsterMove, KillMonster, MonsterRespawn
  <2>5. \E t : user' = [user EXCEPT ![a] = t] /\ user[a].on \in {"new", "grid", "between", "off"}
    BY <2>1, <2>4
    DEF Walk, Login, Teleport, HandleEnterZone, Disconnect, KillUser, HandleRespawn, EquipChange,
        Moves, Exists, HandlePlayerMove, MoveInZone, HandleZoneTransfer,
        StrayMove, StrayDisconnect, StrayEquip, Misrouted, InGrid
  <2> QED BY <2>1, <2>3, <2>5
<1> QED BY <1>2, <1>3, <1>4

-----------------------------------------------------------------------------
(***************************************************************************)
(* Up-to-date clients                                                      *)
(***************************************************************************)

SightInv == ViewInv /\ AvatarInv /\ ServerInv /\ PictureInv /\ SelfInv

\* At the start nobody is logged in.
LEMMA SightStart == Init => SightInv
<1> SUFFICES ASSUME Init PROVE SightInv OBVIOUS
<1>1. ViewInv /\ AvatarInv BY ViewStart
<1>2. \A u \in Users : user[u].on = "new" /\ user[u].alive = TRUE BY DEF Init
<1>3. ServerInv BY <1>2 DEF Init, ServerInv
<1>4. \A u \in Viewers : ~Exists(u) BY <1>2, ViewAssumption DEF Exists
<1> QED BY <1>1, <1>3, <1>4 DEF SightInv, PictureInv, Depicted, SelfInv

\* Every step keeps the invariant.
LEMMA SightStep == Patient /\ SightInv /\ [Next]_vars => SightInv'
<1> SUFFICES ASSUME Patient, SightInv, [Next]_vars PROVE SightInv' OBVIOUS
<1>1. Good /\ SelfInv BY DEF Good, SightInv
<1>2. ViewInv' /\ AvatarInv' BY ViewStep DEF SightInv, Kept
<1>3. CASE UNCHANGED vars
  <2>1. UNCHANGED <<user, monster, ground, fresh, struck, stray, untold, chan, client, late,
                    unsure>>
    BY <1>3 DEF vars, field, observed
  <2>2. SelfInv' BY <1>1, <2>1 DEF SelfInv, Exists
  <2>3. ServerInv' BY <1>1, <2>1 DEF Good, ServerInv
  <2>4. PictureInv'
    <3>1. CASE Viewers = {} BY <3>1 DEF PictureInv
    <3>2. CASE Viewers # {}
      <4>1. PICK u \in Viewers : TRUE BY <3>2
      <4>2. \A v \in Viewers : chan'[v] = chan[v] /\ ScreenOf(v)' = ScreenOf(v)
        BY <2>1 DEF ScreenOf
      <4> QED BY <1>1, <2>1, <4>2, FramePictures DEF Illustrated
    <3> QED BY <3>1, <3>2
  <2> QED BY <1>2, <2>2, <2>3, <2>4 DEF SightInv
<1>4. CASE Server
  <2>1. SelfInv' BY <1>1, <1>4, SelfServer
  <2>2. Viewers \subseteq Users BY ViewAssumption
  <2>3. Illustrated
    BY <1>1, <1>4, <2>2, PicturesOfMove, PicturesOfLogin, PicturesOfEntry, PicturesOfDisconnect,
       PicturesOfDeath, PicturesOfRespawn, PicturesOfEquip, PicturesOfDiscard,
       PicturesOfRemoval, PicturesOfMonsterMove, PicturesOfMonsterDeath,
       PicturesOfMonsterRespawn, PicturesOfStrayMove, PicturesOfStrayEquip
    DEF Server
  <2> QED BY <1>2, <2>1, <2>3 DEF SightInv, Illustrated
<1>5. ASSUME NEW u \in Viewers, ClientFrame(u) PROVE SightInv'
  <2>1. SelfInv' BY <1>1, <1>5, SelfFrame
  <2>2. Illustrated BY <1>1, <1>5, PicturesOfReceive, PicturesOfIdle DEF ClientFrame
  <2> QED BY <1>2, <2>1, <2>2 DEF SightInv, Illustrated
<1> QED BY <1>3, <1>4, <1>5 DEF Next

\* Client u, up to date, has s as the server has it.
LEMMA UpToDateRight ==
  ASSUME SightInv, NEW u \in Viewers, UpToDate(u)
  PROVE  /\ u \in Users /\ u \notin DOMAIN client[u].players
         /\ \A s \in Subjects \ {u} : /\ ScreenOf(u) \in Right(u, s)
                                      /\ s \notin DOMAIN client[u].pendingObjects
         /\ Visible(u) \subseteq Subjects \ {u}
<1>1. TypeOK /\ u \in Users BY ViewAssumption DEF SightInv, ViewInv
<1>2. Exists(u) /\ chan[u] = <<>> /\ client[u].trans = "NONE" BY DEF UpToDate
<1>3. u \notin DOMAIN client[u].players BY <1>2 DEF SightInv, SelfInv
<1>4. ASSUME NEW s \in Subjects \ {u}
      PROVE  ScreenOf(u) \in Right(u, s) /\ s \notin DOMAIN client[u].pendingObjects
  <2>1. Carries({ScreenOf(u)}, u, <<>>, Right(u, s))
    BY <1>2 DEF SightInv, PictureInv, Depicted
  <2>2. ScreenOf(u) \in Right(u, s) BY <2>1, CarriesEnd
  <2>3. ScreenOf(u) \in Sound(s, ZoneOf[user[u].cell]) BY <2>2, RightOnly
  <2>4. ScreenOf(u).client = client[u] BY DEF ScreenOf, Screen
  <2> QED BY <1>2, <2>2, <2>3, <2>4 DEF Sound, Fading
<1>5. Visible(u) \subseteq Subjects \ {u} BY <1>1, SightLemma
<1> QED BY <1>1, <1>3, <1>4, <1>5

\* Whatever walks, teleports, deaths and zone changes came before, a patient
\* user's client that has processed all it was sent draws every user and item
\* in sight (HandlePlayerMove, NotifyPlayerEnteredWorld, the flush after a fade).
THEOREM NothingMissingCorrect == ASSUME Patient PROVE Spec => []NothingMissing
<1>1. SightInv => NothingMissing
  <2> SUFFICES ASSUME SightInv, NEW u \in Viewers, UpToDate(u),
                      NEW s \in Visible(u) \ Monsters
               PROVE  Shown(u, s)
    BY DEF NothingMissing
  <2>1. /\ ScreenOf(u) \in Right(u, s) /\ s \notin DOMAIN client[u].pendingObjects
    BY UpToDateRight
  <2>2. ScreenOf(u).client = client[u] BY DEF ScreenOf, Screen
  <2>3. Drawn(ScreenOf(u), s) BY <2>1 DEF Right, Seen
  <2> QED BY <2>1, <2>2, <2>3 DEF Drawn, Shown
<1> QED BY <1>1, SightStart, SightStep, PTL DEF Spec

\* It draws no user and no item that is out of sight: every way out of it is
\* announced by the thread that owns the user (REMOVE and DIE of
\* HandlePlayerMove, HandleZoneTransfer, Disconnect, HandleAttackToPlayer and
\* RemoveFieldItem).  Its own death, news that overtakes the buffer of a fade,
\* and what concerns a user that another zone's thread has killed, moved or
\* disconnected are excepted, as in the code they leave pictures behind.
THEOREM NoGhostsCorrect == ASSUME Patient PROVE Spec => []NoGhosts
<1>1. SightInv => NoGhosts
  <2> SUFFICES ASSUME SightInv, NEW u \in Viewers, UpToDate(u), NEW s \in Subjects \ Monsters,
                      Shown(u, s), s \notin late[u],
                      {u, s} \cap (struck \cup stray) = {}
               PROVE  s \in Visible(u)
    BY DEF NoGhosts
  <2>1. s # u BY UpToDateRight DEF Shown
  <2>2. ScreenOf(u) \in Right(u, s) BY <2>1, UpToDateRight
  <2>3. ScreenOf(u).client = client[u] /\ ScreenOf(u).late = late[u] BY DEF ScreenOf, Screen
  <2>4. Drawn(ScreenOf(u), s) BY <2>3 DEF Drawn, Shown
  <2> QED BY <2>2, <2>3, <2>4 DEF Right, Unseen
<1> QED BY <1>1, SightStart, SightStep, PTL DEF Spec

\* What it draws of what is in sight, monsters too, is in the cell where the
\* server has it (MOVE, ADD and RESPAWN, and Replace for a monster's steps).
THEOREM PlacesRightCorrect == ASSUME Patient PROVE Spec => []PlacesRight
<1>1. SightInv => PlacesRight
  <2> SUFFICES ASSUME SightInv, NEW u \in Viewers, UpToDate(u),
                      NEW s \in Visible(u) \cap DOMAIN client[u].players, s \notin late[u]
               PROVE  client[u].players[s].cell = CellOf(s)
    BY DEF PlacesRight
  <2>1. ScreenOf(u) \in Right(u, s) /\ s \notin DOMAIN client[u].pendingObjects
    BY UpToDateRight
  <2>2. ScreenOf(u).client = client[u] /\ ScreenOf(u).late = late[u] BY DEF ScreenOf, Screen
  <2>3. PlacedAt(ScreenOf(u), s, CellOf(s)) BY <2>1, <2>2 DEF Right, Seen
  <2> QED BY <2>1, <2>2, <2>3 DEF PlacedAt
<1> QED BY <1>1, SightStart, SightStep, PTL DEF Spec

\* The weapon it draws in the hand of a user in sight is the one equipped
\* there (BroadcastEquipChange, SUBJECT_ADD_NFY), unless the last news of that
\* user told none (a respawn names no item, a buffered picture hears of no
\* change) or its last change ran on the thread of a zone it had left, which
\* finds nobody to tell.
THEOREM WeaponsRightCorrect == ASSUME Patient PROVE Spec => []WeaponsRight
<1>1. SightInv => WeaponsRight
  <2> SUFFICES ASSUME SightInv, NEW u \in Viewers, UpToDate(u),
                      NEW v \in (Users \cap Visible(u)) \ (untold \cup unsure[u]),
                      v \in DOMAIN client[u].players
               PROVE  client[u].players[v].armed = user[v].armed
    BY DEF WeaponsRight
  <2>1. ScreenOf(u) \in Right(u, v) /\ v \notin DOMAIN client[u].pendingObjects
    BY UpToDateRight
  <2>2. ScreenOf(u).client = client[u] /\ ScreenOf(u).unsure = unsure[u]
    BY DEF ScreenOf, Screen
  <2>3. Holds(ScreenOf(u), v, Arms(v)) BY <2>1, <2>2 DEF Right, Seen
  <2>4. client[u].players[v].armed = Armed(v) BY <2>1, <2>2, <2>3 DEF Holds, Arms
  <2>5. user[v] \in UserStates BY DEF SightInv, ViewInv, TypeOK
  <2>6. user[v].armed \in BOOLEAN BY <2>5 DEF UserStates
  <2>7. Armed(v) = user[v].armed BY <2>6 DEF Armed
  <2> QED BY <2>4, <2>7
<1> QED BY <1>1, SightStart, SightStep, PTL DEF Spec
=============================================================================
