--------------------------- MODULE FieldItem_proofs ---------------------------
(***************************************************************************)
(* Proofs about FieldItem, for every number of users, cells, slots, items  *)
(* and requests.                                                           *)
(***************************************************************************)
EXTENDS FieldItem, FiniteSums_proofs

\* The packets that update slots.
Updates == UNION {[S -> Item \cup {NoItem}] : S \in SUBSET Slots}

\* The types without the one that needs the books to balance.
FieldOK ==
  /\ user \in [Users -> [on: {"grid", "dead"}, cell: Cells]]
  /\ bag \in [Users -> Bags]
  /\ nextId \in 1 .. MaxItems + 1
  /\ DOMAIN ground \subseteq 1 .. nextId - 1
  /\ \A i \in DOMAIN ground : ground[i] \in FieldItems
  /\ timers \subseteq Events \X Ids
  /\ chan \in [Viewers -> Seq(Updates)]
  /\ mirror \in [Viewers -> Bags]
  /\ ops \in 0 .. MaxOps
  /\ killer \in [Ids -> Users \cup {None}]
  /\ units \in [ItemIds -> Int]

\* Updates that tell a client of every slot that differs between the bag of
\* u and b, each with what is in b.
Covers(u, b, updates) ==
  /\ updates \in Seq(Updates)
  /\ \A s \in Slots :
       (\A k \in DOMAIN updates : s \notin DOMAIN updates[k]) => b[s] = bag[u][s]
  /\ \A k \in DOMAIN updates : \A s \in DOMAIN updates[k] : updates[k][s] = b[s]

-----------------------------------------------------------------------------
\* Lemmas about the operators.

\* The types of the parts: an item changed by an operation is an item.
LEMMA ItemTypes ==
  /\ \A b \in Bags, s \in Slots : b[s] \in Item \cup {NoItem}
  /\ \A item \in Item : item.count \in Nat \ {0} /\ item.id \in ItemIds
  /\ \A item \in Item : \A n \in Nat :
       [item EXCEPT !.count = item.count + n] \in Item
  /\ \A item \in Item, e \in BOOLEAN : [item EXCEPT !.equipped = e] \in Item
  /\ NoItem \notin Item
BY FieldAssumption DEF Bags, Item

\* What is left when units are taken from an item.
LEMMA WithCountType ==
  ASSUME NEW u, NEW item \in Item, NEW n \in Nat, n <= item.count
  PROVE  Bag(u)!WithCount(item, item.count - n) \in Item \cup {NoItem}
BY FieldAssumption DEF Item, Bag!WithCount

\* The packet of a set of slots.
LEMMA FillItemLemma ==
  ASSUME NEW b \in Bags, NEW S \in SUBSET Slots
  PROVE  /\ FillItemSlotData(b, S) \in Updates
         /\ DOMAIN FillItemSlotData(b, S) = S
         /\ \A s \in S : FillItemSlotData(b, S)[s] = b[s]
<1>1. FillItemSlotData(b, S) = [s \in S |-> b[s]]
  BY DEF FillItemSlotData, Restrict
<1>2. [s \in S |-> b[s]] \in [S -> Item \cup {NoItem}] BY DEF Bags
<1> QED BY <1>1, <1>2 DEF Updates

-----------------------------------------------------------------------------
\* The picture of the bag.

\* One changed slot and its packet.
LEMMA OneSlotCovers ==
  ASSUME NEW u \in Users, NEW b \in Bags, NEW s \in Slots,
         \A r \in Slots \ {s} : b[r] = bag[u][r]
  PROVE  Covers(u, b, <<FillItemSlotData(b, {s})>>)
<1>1. PICK p : p = FillItemSlotData(b, {s}) OBVIOUS
<1>2. p \in Updates /\ DOMAIN p = {s} /\ p[s] = b[s] BY <1>1, FillItemLemma
<1>3. <<p>> \in Seq(Updates) /\ DOMAIN <<p>> = {1} /\ <<p>>[1] = p BY <1>2
<1> QED BY <1>1, <1>2, <1>3 DEF Covers

\* An answer keeps the last update of every slot right.
LEMMA AnswerMirror ==
  ASSUME FieldOK, MirrorInv, NEW u \in Users, NEW b \in Bags, NEW updates,
         Covers(u, b, updates), Answer(u, b, updates), mirror' = mirror
  PROVE  MirrorInv' /\ chan' \in [Viewers -> Seq(Updates)]
<1>1. /\ bag' = [bag EXCEPT ![u] = b] /\ updates \in Seq(Updates)
      /\ chan \in [Viewers -> Seq(Updates)] /\ bag \in [Users -> Bags]
      /\ chan' = [v \in Viewers |-> IF v = u THEN chan[v] \o updates ELSE chan[v]]
      /\ Viewers \subseteq Users
  BY FieldAssumption DEF Answer, FieldOK, Covers
<1>2. chan' \in [Viewers -> Seq(Updates)] BY <1>1
<1>3. ASSUME NEW v \in Viewers, NEW s \in Slots
      PROVE  /\ \A k \in DOMAIN chan'[v] :
                  /\ s \in DOMAIN chan'[v][k]
                  /\ \A j \in DOMAIN chan'[v] : j > k => s \notin DOMAIN chan'[v][j]
                  => chan'[v][k][s] = bag'[v][s]
             /\ (\A k \in DOMAIN chan'[v] : s \notin DOMAIN chan'[v][k])
                  => mirror'[v][s] = bag'[v][s]
  <2>1. CASE v # u
    <3>1. chan'[v] = chan[v] /\ bag'[v] = bag[v] /\ mirror'[v] = mirror[v]
      BY <1>1, <2>1
    <3> QED BY <3>1 DEF MirrorInv
  <2>2. CASE v = u
    <3>1. PICK c \in Seq(Updates) : c = chan[u] BY <1>1, <2>2
    <3>2. PICK d \in Seq(Updates) : d = c \o updates
      <4>1. c \o updates \in Seq(Updates) BY <1>1
      <4> QED BY <4>1
    <3>3. /\ DOMAIN c = 1..Len(c) /\ DOMAIN updates = 1..Len(updates)
          /\ DOMAIN d = 1..(Len(c) + Len(updates))
          /\ Len(c) \in Nat /\ Len(updates) \in Nat
          /\ \A k \in DOMAIN c : k \in DOMAIN d /\ d[k] = c[k]
          /\ \A k \in DOMAIN updates :
               Len(c) + k \in DOMAIN d /\ d[Len(c) + k] = updates[k]
      BY <1>1, <3>2
    <3>4. chan'[v] = d /\ bag'[v] = b /\ mirror'[v] = mirror[u]
      BY <1>1, <2>2, <3>1, <3>2
    <3>5. ASSUME NEW k \in DOMAIN d, s \in DOMAIN d[k],
                 \A j \in DOMAIN d : j > k => s \notin DOMAIN d[j]
          PROVE  d[k][s] = b[s]
      <4>1. CASE k > Len(c)
        <5>1. PICK i \in DOMAIN updates : k = Len(c) + i
          <6>1. k - Len(c) \in DOMAIN updates BY <3>3, <3>5, <4>1
          <6>2. k = Len(c) + (k - Len(c)) BY <3>3, <3>5
          <6> QED BY <6>1, <6>2
        <5> QED BY <3>3, <3>5, <5>1 DEF Covers
      <4>2. CASE ~(k > Len(c))
        <5>1. k \in DOMAIN c BY <3>3, <3>5, <4>2
        <5>2. \A i \in DOMAIN updates : s \notin DOMAIN updates[i]
          <6> SUFFICES ASSUME NEW i \in DOMAIN updates PROVE s \notin DOMAIN updates[i]
            OBVIOUS
          <6>1. Len(c) + i > k /\ Len(c) + i \in DOMAIN d BY <3>3, <5>1
          <6>2. s \notin DOMAIN d[Len(c) + i] BY <3>5, <6>1
          <6> QED BY <3>3, <6>2
        <5>3. b[s] = bag[u][s] BY <5>2 DEF Covers
        <5>4. \A j \in DOMAIN c : j > k => s \notin DOMAIN c[j] BY <3>3, <3>5
        <5>5. c[k][s] = bag[u][s]
          <6>1. u \in Viewers BY <2>2
          <6>2. d[k] = c[k] BY <3>3, <5>1
          <6>3. k \in DOMAIN chan[u] /\ s \in DOMAIN chan[u][k]
            BY <3>1, <3>5, <5>1, <6>2
          <6>4. \A j \in DOMAIN chan[u] : j > k => s \notin DOMAIN chan[u][j]
            BY <3>1, <5>4
          <6>5. chan[u][k][s] = bag[u][s]
            BY <6>1, <6>3, <6>4 DEF MirrorInv
          <6> QED BY <3>1, <6>5
        <5> QED BY <3>3, <5>1, <5>3, <5>5
      <4> QED BY <4>1, <4>2
    <3>6. ASSUME \A k \in DOMAIN d : s \notin DOMAIN d[k]
          PROVE  mirror[u][s] = b[s]
      <4>1. \A i \in DOMAIN updates : s \notin DOMAIN updates[i] BY <3>3, <3>6
      <4>2. \A i \in DOMAIN c : s \notin DOMAIN c[i] BY <3>3, <3>6
      <4>3. mirror[u][s] = bag[u][s] BY <2>2, <3>1, <4>2 DEF MirrorInv
      <4> QED BY <4>1, <4>3 DEF Covers
    <3> QED BY <3>4, <3>5, <3>6
  <2> QED BY <2>1, <2>2
<1> QED BY <1>2, <1>3 DEF MirrorInv

\* A client that takes a packet knows what it says.
LEMMA ApplyMirror ==
  ASSUME FieldOK, MirrorInv, NEW u \in Viewers, ApplyInventorySlot(u)
  PROVE  MirrorInv' /\ chan' \in [Viewers -> Seq(Updates)]
         /\ mirror' \in [Viewers -> Bags]
<1>1. /\ chan \in [Viewers -> Seq(Updates)] /\ mirror \in [Viewers -> Bags]
      /\ chan[u] # <<>> /\ bag' = bag
      /\ chan' = [chan EXCEPT ![u] = Tail(chan[u])]
  BY DEF FieldOK, ApplyInventorySlot
<1>2. PICK c \in Seq(Updates) : c = chan[u] BY <1>1
<1>3. PICK d \in Seq(Updates) : d = Tail(c)
  <2>1. Tail(c) \in Seq(Updates) BY <1>1, <1>2
  <2> QED BY <2>1
<1>4. /\ c[1] \in Updates /\ Head(c) = c[1] /\ 1 \in DOMAIN c
      /\ DOMAIN c = 1..Len(c) /\ Len(c) \in Nat
      /\ DOMAIN d = 1..(Len(c) - 1)
      /\ \A k \in DOMAIN d : k + 1 \in DOMAIN c /\ d[k] = c[k + 1]
  BY <1>1, <1>2, <1>3
<1>5. PICK m : m = [s \in Slots |-> IF s \in DOMAIN c[1] THEN c[1][s] ELSE mirror[u][s]]
  OBVIOUS
<1>6. mirror' = [mirror EXCEPT ![u] = m]
  BY <1>2, <1>4, <1>5 DEF ApplyInventorySlot
<1>7. m \in Bags
  <2>1. \A s \in DOMAIN c[1] : c[1][s] \in Item \cup {NoItem} BY <1>4 DEF Updates
  <2>2. mirror[u] \in Bags BY <1>1
  <2> QED BY <1>5, <2>1, <2>2 DEF Bags
<1>8. chan' \in [Viewers -> Seq(Updates)] /\ mirror' \in [Viewers -> Bags]
  BY <1>1, <1>2, <1>3, <1>6, <1>7
<1>9. ASSUME NEW v \in Viewers, NEW s \in Slots
      PROVE  /\ \A k \in DOMAIN chan'[v] :
                  /\ s \in DOMAIN chan'[v][k]
                  /\ \A j \in DOMAIN chan'[v] : j > k => s \notin DOMAIN chan'[v][j]
                  => chan'[v][k][s] = bag'[v][s]
             /\ (\A k \in DOMAIN chan'[v] : s \notin DOMAIN chan'[v][k])
                  => mirror'[v][s] = bag'[v][s]
  <2>1. CASE v # u
    <3>1. chan'[v] = chan[v] /\ bag'[v] = bag[v] /\ mirror'[v] = mirror[v]
      BY <1>1, <1>6, <2>1
    <3> QED BY <3>1 DEF MirrorInv
  <2>2. CASE v = u
    <3>1. chan'[v] = d /\ bag'[v] = bag[u] /\ mirror'[v] = m
      BY <1>1, <1>2, <1>3, <1>6, <2>2
    <3>2. ASSUME NEW k \in DOMAIN d, s \in DOMAIN d[k],
                 \A j \in DOMAIN d : j > k => s \notin DOMAIN d[j]
          PROVE  d[k][s] = bag[u][s]
      <4>1. k + 1 \in DOMAIN c /\ d[k] = c[k + 1] BY <1>4, <3>2
      <4>2. ASSUME NEW j \in DOMAIN c, j > k + 1 PROVE s \notin DOMAIN c[j]
        <5>1. j - 1 \in DOMAIN d /\ j - 1 > k /\ (j - 1) + 1 = j
          BY <1>4, <3>2, <4>2
        <5> QED BY <1>4, <3>2, <5>1
      <4>3. c[k + 1][s] = bag[u][s]
        BY <1>2, <3>2, <4>1, <4>2 DEF MirrorInv
      <4> QED BY <4>1, <4>3
    <3>3. ASSUME \A k \in DOMAIN d : s \notin DOMAIN d[k]
          PROVE  m[s] = bag[u][s]
      <4>1. ASSUME NEW j \in DOMAIN c, j > 1 PROVE s \notin DOMAIN c[j]
        <5>1. j - 1 \in DOMAIN d /\ (j - 1) + 1 = j BY <1>4, <4>1
        <5> QED BY <1>4, <3>3, <5>1
      <4>2. CASE s \in DOMAIN c[1]
        <5>1. c[1][s] = bag[u][s] BY <1>2, <1>4, <4>1, <4>2 DEF MirrorInv
        <5> QED BY <1>5, <4>2, <5>1
      <4>3. CASE s \notin DOMAIN c[1]
        <5>1. \A j \in DOMAIN c : s \notin DOMAIN c[j]
          <6> SUFFICES ASSUME NEW j \in DOMAIN c PROVE s \notin DOMAIN c[j] OBVIOUS
          <6>1. j = 1 \/ j > 1 BY <1>4
          <6> QED BY <4>1, <4>3, <6>1
        <5>2. mirror[u][s] = bag[u][s] BY <1>2, <5>1 DEF MirrorInv
        <5> QED BY <1>5, <4>3, <5>2
      <4> QED BY <4>2, <4>3
    <3> QED BY <3>1, <3>2, <3>3
  <2> QED BY <2>1, <2>2
<1> QED BY <1>8, <1>9 DEF MirrorInv

-----------------------------------------------------------------------------
\* Units in one bag.

UnitsIn(b, id) ==
  [s \in Slots |-> IF b[s] # NoItem /\ b[s].id = id THEN b[s].count ELSE 0]

BagUnits(b, id) == SumFunction(UnitsIn(b, id))

\* Total adds up the units of the slots, and is a natural.
LEMMA BagUnitsType ==
  ASSUME NEW b \in Bags, NEW id \in ItemIds
  PROVE  /\ UnitsIn(b, id) \in [Slots -> Nat] /\ UnitsIn(b, id) \in [Slots -> Int]
         /\ BagUnits(b, id) \in Nat
         /\ \A u : Bag(u)!Total(b, id) = BagUnits(b, id)
<1>1. IsFiniteSet(Slots) BY FieldAssumption
<1>2. /\ UnitsIn(b, id) \in [Slots -> Nat] /\ UnitsIn(b, id) \in [Slots -> Int]
  BY FieldAssumption DEF UnitsIn, Bags, Item
<1>3. SumFunction(UnitsIn(b, id)) \in Nat BY <1>1, <1>2, SumNat
<1>4. ASSUME NEW u PROVE Bag(u)!Total(b, id) = BagUnits(b, id)
  <2>1. Bag(u)!UnitsIn(b, id) = UnitsIn(b, id) BY DEF UnitsIn, Bag!UnitsIn
  <2>2. Bag(u)!Total(b, id) = Bag(u)!SumFunction(UnitsIn(b, id))
    BY <2>1 DEF Bag!Total
  <2>3. PICK f : f = UnitsIn(b, id) OBVIOUS
  <2>4. Bag(u)!SumFunction(f) = SumFunction(f)
    BY DEF Bag!SumFunction, Bag!SumFunctionOnSet, Bag!FoldFunctionOnSet,
           Bag!MapThenFoldSet, SumFunction, SumFunctionOnSet, FoldFunctionOnSet,
           MapThenFoldSet
  <2> QED BY <2>2, <2>3, <2>4 DEF BagUnits
<1> QED BY <1>2, <1>3, <1>4 DEF BagUnits

\* One slot loses units of one item.
LEMMA BagUnitsTake ==
  ASSUME NEW b \in Bags, NEW new \in Bags, NEW s \in Slots,
         \A r \in Slots \ {s} : new[r] = b[r],
         NEW id \in ItemIds, NEW n \in Nat,
         UnitsIn(new, id)[s] = UnitsIn(b, id)[s] - n,
         \A k \in ItemIds \ {id} : UnitsIn(new, k)[s] = UnitsIn(b, k)[s]
  PROVE  /\ BagUnits(new, id) = BagUnits(b, id) - n
         /\ \A k \in ItemIds \ {id} : BagUnits(new, k) = BagUnits(b, k)
<1>1. ASSUME NEW k \in ItemIds
      PROVE  BagUnits(new, k) = BagUnits(b, k) - UnitsIn(b, k)[s] + UnitsIn(new, k)[s]
  <2> DEFINE f == UnitsIn(b, k)
             e == UnitsIn(new, k)
  <2>1. /\ f \in [Slots -> Int] /\ e \in [Slots -> Int] /\ IsFiniteSet(Slots)
    BY BagUnitsType, FieldAssumption
  <2>2. \A r \in Slots \ {s} : e[r] = f[r] BY DEF UnitsIn
  <2> HIDE DEF e, f
  <2>3. SumFunction(e) = SumFunction(f) - f[s] + e[s]
    BY <2>1, <2>2, SumChange
  <2> QED BY <2>3 DEF e, f, BagUnits
<1>2. ASSUME NEW k \in ItemIds
      PROVE  /\ UnitsIn(b, k)[s] \in Int /\ UnitsIn(new, k)[s] \in Int
             /\ BagUnits(b, k) \in Nat
  BY BagUnitsType
<1>3. BagUnits(new, id) = BagUnits(b, id) - n BY <1>1, <1>2
<1>4. ASSUME NEW k \in ItemIds \ {id} PROVE BagUnits(new, k) = BagUnits(b, k)
  BY <1>1, <1>2
<1> QED BY <1>3, <1>4

\* Bags whose slots hold the same units.
LEMMA BagUnitsSame ==
  ASSUME NEW b \in Bags, NEW new \in Bags,
         \A s \in Slots : /\ (b[s] = NoItem) <=> (new[s] = NoItem)
                          /\ new[s].id = b[s].id /\ new[s].count = b[s].count
  PROVE  \A k \in ItemIds : BagUnits(new, k) = BagUnits(b, k)
<1>1. ASSUME NEW k \in ItemIds PROVE UnitsIn(new, k) = UnitsIn(b, k)
  BY DEF UnitsIn
<1> QED BY <1>1 DEF BagUnits

\* Two slots exchanged.
LEMMA BagUnitsSwap ==
  ASSUME NEW b \in Bags, NEW new \in Bags,
         NEW s \in Slots, NEW r \in Slots, s # r,
         new[s] = b[r], new[r] = b[s],
         \A q \in Slots \ {s, r} : new[q] = b[q]
  PROVE  \A k \in ItemIds : BagUnits(new, k) = BagUnits(b, k)
<1>1. PICK mid : mid = [b EXCEPT ![s] = b[r]] OBVIOUS
<1>2. /\ mid \in Bags /\ mid[s] = b[r] /\ mid[r] = b[r]
      /\ \A q \in Slots \ {s} : mid[q] = b[q]
      /\ \A q \in Slots \ {r} : new[q] = mid[q]
  BY <1>1 DEF Bags
<1>3. ASSUME NEW k \in ItemIds PROVE BagUnits(new, k) = BagUnits(b, k)
  <2> DEFINE f == UnitsIn(b, k)
             m == UnitsIn(mid, k)
             e == UnitsIn(new, k)
  <2>1. /\ f \in [Slots -> Int] /\ e \in [Slots -> Int] /\ m \in [Slots -> Int]
        /\ IsFiniteSet(Slots)
    BY <1>2, BagUnitsType, FieldAssumption
  <2>2. /\ \A q \in Slots \ {s} : m[q] = f[q]
        /\ \A q \in Slots \ {r} : e[q] = m[q]
        /\ m[s] = f[r] /\ m[r] = f[r] /\ e[r] = f[s]
    BY <1>2 DEF UnitsIn
  <2> HIDE DEF e, f, m
  <2>3. SumFunction(m) = SumFunction(f) - f[s] + m[s] BY <2>1, <2>2, SumChange
  <2>4. SumFunction(e) = SumFunction(m) - m[r] + e[r] BY <2>1, <2>2, SumChange
  <2>5. f[s] \in Int /\ f[r] \in Int /\ SumFunction(f) \in Int BY <2>1, SumInt
  <2>6. SumFunction(e) = SumFunction(f) BY <2>2, <2>3, <2>4, <2>5
  <2> QED BY <2>6 DEF e, f, BagUnits
<1> QED BY <1>3

-----------------------------------------------------------------------------
\* Units in all bags and on the ground.

\* InBags adds up the bags, and is a natural.
LEMMA InBagsType ==
  ASSUME FieldOK, NEW id \in ItemIds
  PROVE  /\ InBags(id) = SumFunction([v \in Users |-> BagUnits(bag[v], id)])
         /\ [v \in Users |-> BagUnits(bag[v], id)] \in [Users -> Int]
         /\ InBags(id) \in Nat
<1>1. bag \in [Users -> Bags] BY DEF FieldOK
<1> DEFINE f == [v \in Users |-> BagUnits(bag[v], id)]
<1>2. f \in [Users -> Nat] /\ f \in [Users -> Int] BY <1>1, BagUnitsType
<1>3. InBags(id) = SumFunction(f)
  <2>1. [v \in Users |-> Bag(v)!Total(bag[v], id)] = f BY <1>1, BagUnitsType
  <2> QED BY <2>1 DEF InBags
<1>4. IsFiniteSet(Users) BY FieldAssumption
<1> HIDE DEF f
<1>5. SumFunction(f) \in Nat BY <1>2, <1>4, SumNat
<1> QED BY <1>2, <1>3, <1>5 DEF f

\* One bag changes.
LEMMA InBagsChange ==
  ASSUME FieldOK, NEW u \in Users, NEW b \in Bags, bag' = [bag EXCEPT ![u] = b],
         NEW id \in ItemIds
  PROVE  /\ InBags(id) \in Nat
         /\ InBags(id)' = InBags(id) - BagUnits(bag[u], id) + BagUnits(b, id)
<1>1. bag \in [Users -> Bags] /\ bag' \in [Users -> Bags] BY DEF FieldOK
<1> DEFINE f == [v \in Users |-> BagUnits(bag[v], id)]
           e == [v \in Users |-> BagUnits(bag'[v], id)]
<1>2. e \in [Users -> Int] BY <1>1, BagUnitsType
<1>3. InBags(id) = SumFunction(f) /\ f \in [Users -> Int] /\ InBags(id) \in Nat
  BY InBagsType
<1>4. InBags(id)' = SumFunction(e)
  <2>1. [v \in Users |-> Bag(v)!Total(bag'[v], id)] = e BY <1>1, BagUnitsType
  <2>2. InBags(id)' = SumFunction([v \in Users |-> Bag(v)!Total(bag'[v], id)])
    BY DEF InBags, Bag!Total, Bag!UnitsIn
  <2> QED BY <2>1, <2>2
<1>5. /\ \A v \in Users \ {u} : e[v] = f[v]
      /\ f[u] = BagUnits(bag[u], id) /\ e[u] = BagUnits(b, id)
  BY <1>1
<1> HIDE DEF e, f
<1>6. IsFiniteSet(Users) BY FieldAssumption
<1>7. SumFunction(e) = SumFunction(f) - f[u] + e[u]
  BY <1>2, <1>3, <1>5, <1>6, SumChange
<1> QED BY <1>3, <1>4, <1>5, <1>7

\* The bags are left alone.
LEMMA InBagsSame ==
  ASSUME bag' = bag, NEW id \in ItemIds
  PROVE  InBags(id)' = InBags(id)
BY DEF InBags, Bag!Total, Bag!UnitsIn

\* The units of an item in each field item of a ground g.
GroundUnits(g, id) ==
  [i \in DOMAIN g |-> IF g[i].id = id THEN g[i].count ELSE 0]

\* The ground is finite and its units are naturals.
LEMMA GroundType ==
  ASSUME FieldOK, NEW id \in ItemIds
  PROVE  /\ IsFiniteSet(DOMAIN ground) /\ nextId \notin DOMAIN ground
         /\ GroundUnits(ground, id) \in [DOMAIN ground -> Nat]
         /\ GroundUnits(ground, id) \in [DOMAIN ground -> Int]
         /\ OnGround(id) = SumFunction(GroundUnits(ground, id))
         /\ OnGround(id) \in Nat
<1>1. nextId \in Int /\ DOMAIN ground \subseteq 1 .. nextId - 1
  BY FieldAssumption DEF FieldOK
<1>2. IsFiniteSet(DOMAIN ground)
  <2>1. IsFiniteSet(1 .. nextId - 1) BY <1>1, FS_Interval
  <2> QED BY <1>1, <2>1, FS_Subset
<1>3. nextId \notin DOMAIN ground BY <1>1
<1>4. /\ GroundUnits(ground, id) \in [DOMAIN ground -> Nat]
      /\ GroundUnits(ground, id) \in [DOMAIN ground -> Int]
  BY DEF FieldOK, FieldItems, GroundUnits
<1>5. OnGround(id) = SumFunction(GroundUnits(ground, id))
  BY DEF OnGround, GroundUnits
<1>6. SumFunction(GroundUnits(ground, id)) \in Nat BY <1>2, <1>4, SumNat
<1> QED BY <1>2, <1>3, <1>4, <1>5, <1>6

\* An item is laid down.
LEMMA GroundLaid ==
  ASSUME FieldOK, NEW item \in FieldItems, ground' = Laid(item), NEW id \in ItemIds
  PROVE  OnGround(id)' = OnGround(id) + (IF item.id = id THEN item.count ELSE 0)
<1> DEFINE f == GroundUnits(ground, id)
           e == GroundUnits(ground', id)
<1>1. /\ DOMAIN ground' = DOMAIN ground \cup {nextId}
      /\ nextId \notin DOMAIN ground /\ IsFiniteSet(DOMAIN ground)
      /\ ground'[nextId] = item
      /\ \A i \in DOMAIN ground : ground'[i] = ground[i]
  BY GroundType DEF Laid
<1>2. PICK D : D = DOMAIN ground' OBVIOUS
<1>3. IsFiniteSet(D) BY <1>1, <1>2, FS_AddElement
<1>4. D \ {nextId} = DOMAIN ground /\ nextId \in D BY <1>1, <1>2
<1>5. f \in [D \ {nextId} -> Int] BY <1>4, GroundType
<1>6. item.count \in Int BY DEF FieldItems
<1>7. e \in [D -> Int]
  <2>1. ASSUME NEW i \in D PROVE e[i] \in Int
    <3>1. CASE i = nextId BY <1>1, <1>2, <1>6, <3>1 DEF GroundUnits
    <3>2. CASE i \in DOMAIN ground
      <4>1. e[i] = f[i] BY <1>1, <1>2, <3>2 DEF GroundUnits
      <4> QED BY <1>4, <1>5, <3>2, <4>1
    <3> QED BY <1>4, <3>1, <3>2
  <2> QED BY <1>2, <2>1 DEF GroundUnits
<1>8. /\ e[nextId] = IF item.id = id THEN item.count ELSE 0
      /\ \A i \in D \ {nextId} : f[i] = e[i]
  BY <1>1, <1>2, <1>4 DEF GroundUnits
<1>9. OnGround(id) = SumFunction(f) /\ OnGround(id) \in Nat BY GroundType
<1>10. OnGround(id)' = SumFunction(e) BY DEF OnGround, GroundUnits
<1> HIDE DEF e, f
<1>11. SumFunction(e) = e[nextId] + SumFunction(f)
  BY <1>3, <1>4, <1>5, <1>7, <1>8, SumSplit
<1> QED BY <1>6, <1>8, <1>9, <1>10, <1>11

\* An item is taken away.
LEMMA GroundRemoved ==
  ASSUME FieldOK, NEW i \in DOMAIN ground, RemoveFieldItem(i), NEW id \in ItemIds
  PROVE  OnGround(id)' = OnGround(id) - (IF ground[i].id = id THEN ground[i].count ELSE 0)
<1> DEFINE f == GroundUnits(ground, id)
           e == GroundUnits(ground', id)
<1>1. /\ DOMAIN ground' = DOMAIN ground \ {i}
      /\ \A j \in DOMAIN ground' : ground'[j] = ground[j]
  BY DEF RemoveFieldItem, Restrict
<1>2. PICK D : D = DOMAIN ground OBVIOUS
<1>3. IsFiniteSet(D) /\ f \in [D -> Int] BY <1>2, GroundType
<1>4. e \in [D \ {i} -> Int]
  <2>1. \A j \in D \ {i} : e[j] = f[j] BY <1>1, <1>2 DEF GroundUnits
  <2>2. \A j \in D \ {i} : e[j] \in Int BY <1>3, <2>1
  <2>3. e = [j \in D \ {i} |-> e[j]] BY <1>1, <1>2 DEF GroundUnits
  <2> HIDE DEF e, f
  <2> QED BY <2>2, <2>3
<1>5. /\ f[i] = IF ground[i].id = id THEN ground[i].count ELSE 0
      /\ \A j \in D \ {i} : e[j] = f[j]
      /\ i \in D
  BY <1>1, <1>2 DEF GroundUnits
<1>6. OnGround(id) = SumFunction(f) /\ OnGround(id) \in Nat BY GroundType
<1>7. OnGround(id)' = SumFunction(e) BY DEF OnGround, GroundUnits
<1> HIDE DEF e, f
<1>8. SumFunction(f) = f[i] + SumFunction(e)
  <2>1. PICK x \in D : x = i BY <1>5
  <2>2. e \in [D \ {x} -> Int] /\ \A j \in D \ {x} : e[j] = f[j] BY <1>4, <1>5, <2>1
  <2>3. SumFunction(f) = f[x] + SumFunction(e) BY <1>3, <2>2, SumSplit
  <2> QED BY <2>1, <2>3
<1>9. SumFunction(e) \in Int /\ f[i] \in Int
  BY <1>3, <1>4, <1>5, FS_RemoveElement, SumInt
<1> QED BY <1>5, <1>6, <1>7, <1>8, <1>9

\* Ids and counts on the ground are left alone.
LEMMA GroundSame ==
  ASSUME DOMAIN ground' = DOMAIN ground, NEW id \in ItemIds,
         \A i \in DOMAIN ground : /\ ground'[i].id = ground[i].id
                                  /\ ground'[i].count = ground[i].count
  PROVE  OnGround(id)' = OnGround(id)
<1>1. GroundUnits(ground', id) = GroundUnits(ground, id) BY DEF GroundUnits
<1>2. OnGround(id)' = SumFunction(GroundUnits(ground', id))
  BY DEF OnGround, GroundUnits
<1>3. OnGround(id) = SumFunction(GroundUnits(ground, id))
  BY DEF OnGround, GroundUnits
<1> QED BY <1>1, <1>2, <1>3

-----------------------------------------------------------------------------
\* What the requests do to a bag, and what they send.

\* TryUseItem and Discard take units from one slot.
LEMMA TakeEffect ==
  ASSUME FieldOK, NEW u \in Users, NEW s \in Slots, NEW n \in Nat, NEW b,
         bag[u][s] # NoItem, n <= bag[u][s].count,
         b = [bag[u] EXCEPT ![s] = Bag(u)!WithCount(bag[u][s], bag[u][s].count - n)]
  PROVE  /\ b \in Bags /\ bag[u][s] \in Item
         /\ Covers(u, b, <<FillItemSlotData(b, {s})>>)
         /\ BagUnits(b, bag[u][s].id) = BagUnits(bag[u], bag[u][s].id) - n
         /\ \A k \in ItemIds \ {bag[u][s].id} : BagUnits(b, k) = BagUnits(bag[u], k)
<1>1. PICK old : old = bag[u] OBVIOUS
<1>2. old \in Bags BY <1>1 DEF FieldOK
<1>3. PICK item : item = old[s] OBVIOUS
<1>4. /\ item \in Item /\ item # NoItem /\ item.count \in Nat \ {0}
      /\ item.id \in ItemIds /\ n <= item.count
  BY <1>1, <1>2, <1>3, ItemTypes
<1>5. Bag(u)!WithCount(item, item.count - n) \in Item \cup {NoItem}
  BY <1>4, WithCountType
<1>6. /\ b \in Bags /\ b[s] = Bag(u)!WithCount(item, item.count - n)
      /\ \A r \in Slots \ {s} : b[r] = old[r]
  BY <1>1, <1>2, <1>3, <1>5 DEF Bags
<1>7. Covers(u, b, <<FillItemSlotData(b, {s})>>) BY <1>1, <1>6, OneSlotCovers
<1>8. /\ UnitsIn(b, item.id)[s] = UnitsIn(old, item.id)[s] - n
      /\ \A k \in ItemIds \ {item.id} : UnitsIn(b, k)[s] = UnitsIn(old, k)[s]
  <2>1. CASE item.count = n
    <3>1. b[s] = NoItem BY <1>4, <1>6, <2>1 DEF Bag!WithCount
    <3> QED BY <1>3, <1>4, <2>1, <3>1 DEF UnitsIn
  <2>2. CASE item.count # n
    <3>1. b[s] = [item EXCEPT !.count = item.count - n]
      BY <1>4, <1>6, <2>2 DEF Bag!WithCount
    <3>2. b[s].id = item.id /\ b[s].count = item.count - n
      BY <1>4, <3>1 DEF Item
    <3>3. b[s] # NoItem
      <4>1. [item EXCEPT !.count = item.count - n] \in Item
        BY <1>4, <2>2 DEF Item
      <4> QED BY <3>1, <4>1, ItemTypes
    <3> QED BY <1>3, <1>4, <2>2, <3>2, <3>3 DEF UnitsIn
  <2> QED BY <2>1, <2>2
<1>9. PICK id \in ItemIds : id = item.id BY <1>4
<1>10. /\ BagUnits(b, id) = BagUnits(old, id) - n
       /\ \A k \in ItemIds \ {id} : BagUnits(b, k) = BagUnits(old, k)
  <2>1. /\ UnitsIn(b, id)[s] = UnitsIn(old, id)[s] - n
        /\ \A k \in ItemIds \ {id} : UnitsIn(b, k)[s] = UnitsIn(old, k)[s]
    BY <1>8, <1>9
  <2>2. b \in Bags /\ \A r \in Slots \ {s} : b[r] = old[r] BY <1>6
  <2>3. n \in Nat /\ s \in Slots /\ id \in ItemIds OBVIOUS
  <2> QED BY ONLY <1>2, <2>1, <2>2, <2>3, BagUnitsTake
<1> QED BY <1>1, <1>3, <1>4, <1>6, <1>7, <1>9, <1>10

\* A sequence of packets of one slot each.
LEMMA TouchedCovers ==
  ASSUME NEW u \in Users, NEW b \in Bags, NEW S \in SUBSET Slots,
         \A s \in Slots \ S : b[s] = bag[u][s]
  PROVE  Covers(u, b, [k \in DOMAIN SetToSeq(S) |->
                         FillItemSlotData(b, {SetToSeq(S)[k]})])
<1>1. PICK q : q = SetToSeq(S) OBVIOUS
<1>2. IsFiniteSet(S) BY FieldAssumption, FS_Subset
<1>3. q \in Seq(S) /\ \A s \in S : \E k \in DOMAIN q : q[k] = s
  BY <1>1, <1>2, SetToSeqLemma
<1>4. PICK p : p = [k \in DOMAIN q |-> FillItemSlotData(b, {q[k]})] OBVIOUS
<1>5. ASSUME NEW k \in DOMAIN q
      PROVE  p[k] \in Updates /\ DOMAIN p[k] = {q[k]} /\ p[k][q[k]] = b[q[k]]
  <2>1. PICK x \in S : x = q[k] BY <1>3
  <2>2. p[k] = FillItemSlotData(b, {x}) BY <1>4, <2>1
  <2>3. /\ FillItemSlotData(b, {x}) \in Updates
        /\ DOMAIN FillItemSlotData(b, {x}) = {x}
        /\ FillItemSlotData(b, {x})[x] = b[x]
    BY FillItemLemma
  <2> QED BY <2>1, <2>2, <2>3
<1>6. p \in Seq(Updates) /\ DOMAIN p = DOMAIN q
  <2>1. DOMAIN q = 1..Len(q) /\ Len(q) \in Nat BY <1>3
  <2>2. DOMAIN p = DOMAIN q BY <1>4
  <2>3. p \in [1..Len(q) -> Updates] BY <1>4, <1>5, <2>1
  <2> QED BY <2>1, <2>2, <2>3
<1>7. ASSUME NEW s \in Slots, \A k \in DOMAIN p : s \notin DOMAIN p[k]
      PROVE  b[s] = bag[u][s]
  BY <1>3, <1>5, <1>6, <1>7
<1>8. ASSUME NEW k \in DOMAIN p, NEW s \in DOMAIN p[k] PROVE p[k][s] = b[s]
  BY <1>5, <1>6
<1>9. Covers(u, b, p) BY <1>6, <1>7, <1>8 DEF Covers
<1> QED BY <1>1, <1>4, <1>9

\* A pickup puts all units of the item into the bag.
LEMMA PickupEffect ==
  ASSUME FieldOK, NEW u \in Users, NEW id \in ItemIds, NEW n \in Nat \ {0},
         NEW fill \in Bag(u)!Placements(id, n), NEW b, b = Bag(u)!Filled(id, fill)
  PROVE  /\ b \in Bags /\ b # bag[u]
         /\ \A s \in Slots \ {r \in Slots : fill[r] > 0} : b[s] = bag[u][s]
         /\ BagUnits(b, id) = BagUnits(bag[u], id) + n
         /\ \A k \in ItemIds \ {id} : BagUnits(b, k) = BagUnits(bag[u], k)
<1>1. PICK old : old = bag[u] OBVIOUS
<1>2. old \in Bags BY <1>1 DEF FieldOK
<1>3. /\ fill \in [Slots -> 0..n]
      /\ \A s \in Slots : fill[s] <= Bag(u)!Room(s, id)
      /\ Bag(u)!SumFunction(fill) = n
  BY DEF Bag!Placements
<1>4. SumFunction(fill) = n
  BY <1>3 DEF Bag!SumFunction, Bag!SumFunctionOnSet, Bag!FoldFunctionOnSet,
              Bag!MapThenFoldSet, SumFunction, SumFunctionOnSet,
              FoldFunctionOnSet, MapThenFoldSet
<1>5. fill \in [Slots -> Int] /\ \A s \in Slots : fill[s] \in Nat BY <1>3
<1>6. ASSUME NEW s \in Slots
      PROVE  /\ b[s] \in Item \cup {NoItem}
             /\ fill[s] = 0 => b[s] = old[s]
             /\ fill[s] # 0 => b[s] # old[s]
             /\ UnitsIn(b, id)[s] = UnitsIn(old, id)[s] + fill[s]
             /\ \A k \in ItemIds \ {id} : UnitsIn(b, k)[s] = UnitsIn(old, k)[s]
  <2>1. fill[s] \in Nat /\ fill[s] <= Bag(u)!Room(s, id) BY <1>3, <1>5
  <2>2. old[s] \in Item \cup {NoItem} BY <1>2, ItemTypes
  <2>3. CASE fill[s] = 0
    <3>1. b[s] = old[s] BY <1>1, <2>3 DEF Bag!Filled
    <3>2. UnitsIn(old, id)[s] \in Nat BY <1>2, BagUnitsType
    <3>3. \A k \in ItemIds : UnitsIn(b, k)[s] = UnitsIn(old, k)[s]
      BY <3>1 DEF UnitsIn
    <3> QED BY <2>2, <2>3, <3>1, <3>2, <3>3
  <2>4. CASE fill[s] # 0 /\ old[s] = NoItem
    <3>1. b[s] = [id |-> id, count |-> fill[s], equipped |-> FALSE]
      BY <1>1, <2>4 DEF Bag!Filled, Bag!MakeNewItem
    <3>2. b[s] \in Item BY <2>1, <2>4, <3>1 DEF Item
    <3>3. b[s] # NoItem BY <3>2, ItemTypes
    <3>4. b[s].id = id /\ b[s].count = fill[s] BY <3>1
    <3> QED BY <2>1, <2>4, <3>2, <3>3, <3>4 DEF UnitsIn
  <2>5. CASE fill[s] # 0 /\ old[s] # NoItem
    <3>1. b[s] = [old[s] EXCEPT !.count = old[s].count + fill[s]]
      BY <1>1, <2>5 DEF Bag!Filled
    <3>2. old[s] \in Item /\ old[s].count \in Nat BY <2>2, <2>5, ItemTypes
    <3>3. b[s] \in Item /\ b[s] # NoItem BY <2>1, <3>1, <3>2, ItemTypes
    <3>4. b[s].id = old[s].id /\ b[s].count = old[s].count + fill[s]
      BY <3>1, <3>2 DEF Item
    <3>5. old[s].id = id BY <1>1, <2>1, <2>5 DEF Bag!Room
    <3>6. b[s].count # old[s].count BY <2>1, <2>5, <3>2, <3>4
    <3> QED BY <2>1, <2>5, <3>2, <3>3, <3>4, <3>5, <3>6 DEF UnitsIn
  <2> QED BY <2>3, <2>4, <2>5
<1>7. b \in Bags
  <2>1. b = [s \in Slots |-> b[s]] BY DEF Bag!Filled
  <2> QED BY <1>6, <2>1 DEF Bags
<1>8. IsFiniteSet(Slots) BY FieldAssumption
<1>9. b # old
  <2> SUFFICES ASSUME b = old PROVE FALSE OBVIOUS
  <2>1. \A s \in Slots : fill[s] = 0 BY <1>6
  <2>2. SumFunction(fill) = 0 BY <1>5, <1>8, <2>1, SumZero
  <2> QED BY <1>4, <2>2
<1>10. BagUnits(b, id) = BagUnits(old, id) + n
  <2> DEFINE f == UnitsIn(old, id)
             e == UnitsIn(b, id)
  <2>1. f \in [Slots -> Int] /\ e \in [Slots -> Int] BY <1>2, <1>7, BagUnitsType
  <2>2. \A s \in Slots : e[s] = f[s] + fill[s] BY <1>6
  <2> HIDE DEF e, f
  <2>3. SumFunction(e) = SumFunction(f) + SumFunction(fill)
    BY <1>5, <1>8, <2>1, <2>2, SumAdd
  <2> QED BY <1>4, <2>3 DEF e, f, BagUnits
<1>11. ASSUME NEW k \in ItemIds \ {id} PROVE BagUnits(b, k) = BagUnits(old, k)
  <2>1. UnitsIn(b, k) = UnitsIn(old, k)
    <3>1. \A s \in Slots : UnitsIn(b, k)[s] = UnitsIn(old, k)[s] BY <1>6
    <3>2. UnitsIn(b, k) \in [Slots -> Int] /\ UnitsIn(old, k) \in [Slots -> Int]
      BY <1>2, <1>7, BagUnitsType
    <3> QED BY <3>1, <3>2
  <2> QED BY <2>1 DEF BagUnits
<1>12. ASSUME NEW s \in Slots \ {r \in Slots : fill[r] > 0} PROVE b[s] = old[s]
  <2>1. fill[s] = 0 BY <1>5
  <2> QED BY <1>6, <2>1
<1> QED BY <1>1, <1>7, <1>9, <1>10, <1>11, <1>12

\* Equipping changes flags and sends every slot whose flag it has changed.
LEMMA EquipEffect ==
  ASSUME FieldOK, NEW u \in Users, NEW s \in Slots, TryEquip(u, s)
  PROVE  \E b \in Bags :
           /\ Covers(u, b, EquipUpdates(u, s, b)) /\ Answer(u, b, EquipUpdates(u, s, b))
           /\ \A k \in ItemIds : BagUnits(b, k) = BagUnits(bag[u], k)
<1>1. PICK old : old = bag[u] OBVIOUS
<1>2. old \in Bags BY <1>1 DEF FieldOK
<1>3. old[s] # NoItem /\ InHand(u) \subseteq Slots
      /\ \A r \in InHand(u) : old[r] # NoItem
  BY <1>1 DEF TryEquip, InHand, Bag!IsEquipped
<1>4. PICK b : b = [r \in Slots |-> IF r \in InHand(u) \cup {s}
                                    THEN [old[r] EXCEPT !.equipped = (r = s)]
                                    ELSE old[r]]
  OBVIOUS
<1>5. Answer(u, b, EquipUpdates(u, s, b)) BY <1>1, <1>4 DEF TryEquip
<1>6. ASSUME NEW r \in Slots
      PROVE  /\ b[r] \in Item \cup {NoItem}
             /\ (old[r] = NoItem) <=> (b[r] = NoItem)
             /\ b[r].id = old[r].id /\ b[r].count = old[r].count
             /\ r \notin InHand(u) \cup {s} => b[r] = old[r]
  <2>1. old[r] \in Item \cup {NoItem} BY <1>2, ItemTypes
  <2>2. CASE r \notin InHand(u) \cup {s} BY <1>4, <2>1, <2>2
  <2>3. CASE r \in InHand(u) \cup {s}
    <3>1. PICK e \in BOOLEAN : e = (r = s) OBVIOUS
    <3>2. b[r] = [old[r] EXCEPT !.equipped = e] BY <1>4, <2>3, <3>1
    <3>3. old[r] \in Item BY <1>3, <2>1, <2>3
    <3>4. b[r] \in Item BY <3>2, <3>3, ItemTypes
    <3>5. b[r].id = old[r].id /\ b[r].count = old[r].count BY <3>2, <3>3 DEF Item
    <3> QED BY <2>3, <3>3, <3>4, <3>5, ItemTypes
  <2> QED BY <2>2, <2>3
<1>7. b \in Bags BY <1>4, <1>6 DEF Bags
<1>8. \A k \in ItemIds : BagUnits(b, k) = BagUnits(old, k)
  BY <1>2, <1>6, <1>7, BagUnitsSame
<1>9. Covers(u, b, EquipUpdates(u, s, b))
  <2>1. PICK P : P = {FillItemSlotData(b, {r}) : r \in InHand(u) \ {s}} OBVIOUS
  <2>2. IsFiniteSet(P)
    <3>1. PICK S : S = InHand(u) \ {s} OBVIOUS
    <3>2. IsFiniteSet(S) BY <1>3, <3>1, FieldAssumption, FS_Subset
    <3>3. PICK f : f = [r \in S |-> FillItemSlotData(b, {r})] OBVIOUS
    <3>4. f \in Surjection(S, P) BY <2>1, <3>1, <3>3 DEF Surjection
    <3> QED BY <3>2, <3>4, FS_Surjection
  <2>3. PICK q : q = SetToSeq(P) OBVIOUS
  <2>4. q \in Seq(P) /\ \A x \in P : \E k \in DOMAIN q : q[k] = x
    BY <2>2, <2>3, SetToSeqLemma
  <2>5. ASSUME NEW r \in Slots
        PROVE  /\ FillItemSlotData(b, {r}) \in Updates
               /\ DOMAIN FillItemSlotData(b, {r}) = {r}
               /\ FillItemSlotData(b, {r})[r] = b[r]
    BY <1>7, FillItemLemma
  <2>6. ASSUME NEW x \in P
        PROVE  x \in Updates /\ \A r \in DOMAIN x : x[r] = b[r]
    <3>1. PICK r \in Slots : x = FillItemSlotData(b, {r}) BY <1>3, <2>1, <2>6
    <3> QED BY <2>5, <3>1
  <2>7. q \in Seq(Updates) BY <2>4, <2>6
  <2>8. PICK p : p = FillItemSlotData(b, {s}) OBVIOUS
  <2>9. PICK d : d = EquipUpdates(u, s, b) OBVIOUS
  <2>10. d = <<p>> \o q BY <2>1, <2>3, <2>8, <2>9 DEF EquipUpdates
  <2>11. p \in Updates /\ DOMAIN p = {s} /\ p[s] = b[s] BY <2>5, <2>8
  <2>12. <<p>> \in Seq(Updates) /\ Len(<<p>>) = 1 BY <2>11
  <2>13. d \in Seq(Updates) BY <2>7, <2>10, <2>12
  <2>14. /\ DOMAIN d = 1..(1 + Len(q)) /\ Len(q) \in Nat /\ DOMAIN q = 1..Len(q)
         /\ d[1] = p
         /\ \A k \in 1..Len(q) : d[1 + k] = q[k]
    BY <2>7, <2>10, <2>12
  <2>15. ASSUME NEW k \in DOMAIN d, NEW r \in DOMAIN d[k] PROVE d[k][r] = b[r]
    <3>1. CASE k = 1 BY <2>11, <2>14, <2>15, <3>1
    <3>2. CASE k # 1
      <4>1. PICK j : j = k - 1 OBVIOUS
      <4>2. j \in 1..Len(q) /\ k = 1 + j BY <2>14, <2>15, <3>2, <4>1
      <4>3. d[k] = q[j] /\ q[j] \in P BY <2>4, <2>14, <4>2
      <4> QED BY <2>6, <2>15, <4>3
    <3> QED BY <3>1, <3>2
  <2>16. ASSUME NEW r \in Slots, \A k \in DOMAIN d : r \notin DOMAIN d[k]
         PROVE  b[r] = old[r]
    <3>1. r # s
      <4>1. 1 \in DOMAIN d BY <2>14
      <4> QED BY <2>11, <2>14, <2>16, <4>1
    <3>2. r \notin InHand(u)
      <4> SUFFICES ASSUME r \in InHand(u) PROVE FALSE OBVIOUS
      <4>1. FillItemSlotData(b, {r}) \in P BY <2>1, <3>1
      <4>2. PICK k \in DOMAIN q : q[k] = FillItemSlotData(b, {r}) BY <2>4, <4>1
      <4>3. 1 + k \in DOMAIN d /\ d[1 + k] = q[k] BY <2>14
      <4> QED BY <2>5, <2>16, <4>2, <4>3
    <3> QED BY <1>6, <3>1, <3>2
  <2> QED BY <1>1, <2>9, <2>13, <2>15, <2>16 DEF Covers
<1> QED BY <1>1, <1>5, <1>7, <1>8, <1>9

\* Taking off changes one flag.
LEMMA UnequipEffect ==
  ASSUME FieldOK, NEW u \in Users, NEW s \in Slots, TryUnequip(u, s)
  PROVE  \E b \in Bags :
           /\ Covers(u, b, <<FillItemSlotData(b, {s})>>)
           /\ Answer(u, b, <<FillItemSlotData(b, {s})>>)
           /\ \A k \in ItemIds : BagUnits(b, k) = BagUnits(bag[u], k)
<1>1. PICK old : old = bag[u] OBVIOUS
<1>2. old \in Bags BY <1>1 DEF FieldOK
<1>3. old[s] \in Item
  BY <1>1, <1>2, ItemTypes DEF TryUnequip, InHand, Bag!IsEquipped
<1>4. PICK b : b = [old EXCEPT ![s].equipped = FALSE] OBVIOUS
<1>5. Answer(u, b, <<FillItemSlotData(b, {s})>>) BY <1>1, <1>4 DEF TryUnequip
<1>6. /\ b \in Bags /\ b[s] = [old[s] EXCEPT !.equipped = FALSE]
      /\ \A r \in Slots \ {s} : b[r] = old[r]
  <2>1. [old[s] EXCEPT !.equipped = FALSE] \in Item BY <1>3, ItemTypes
  <2> QED BY <1>2, <1>4, <2>1 DEF Bags
<1>7. Covers(u, b, <<FillItemSlotData(b, {s})>>) BY <1>1, <1>6, OneSlotCovers
<1>8. \A r \in Slots : /\ (old[r] = NoItem) <=> (b[r] = NoItem)
                       /\ b[r].id = old[r].id /\ b[r].count = old[r].count
  <2>1. b[s] \in Item BY <1>3, <1>6, ItemTypes
  <2>2. b[s].id = old[s].id /\ b[s].count = old[s].count BY <1>3, <1>6 DEF Item
  <2> QED BY <1>3, <1>6, <2>1, <2>2, ItemTypes
<1>9. \A k \in ItemIds : BagUnits(b, k) = BagUnits(old, k)
  BY <1>2, <1>6, <1>8, BagUnitsSame
<1> QED BY <1>1, <1>5, <1>6, <1>7, <1>9

\* Swapping sends both slots in one packet.
LEMMA SwapEffect ==
  ASSUME FieldOK, NEW u \in Users, NEW s \in Slots, NEW r \in Slots,
         TrySwapSlots(u, s, r)
  PROVE  \E b \in Bags :
           /\ Covers(u, b, <<FillItemSlotData(b, {s, r})>>)
           /\ Answer(u, b, <<FillItemSlotData(b, {s, r})>>)
           /\ \A k \in ItemIds : BagUnits(b, k) = BagUnits(bag[u], k)
<1>1. PICK old : old = bag[u] OBVIOUS
<1>2. old \in Bags BY <1>1 DEF FieldOK
<1>3. s # r BY FieldAssumption DEF TrySwapSlots
<1>4. PICK b : b = [old EXCEPT ![s] = old[r], ![r] = old[s]] OBVIOUS
<1>5. Answer(u, b, <<FillItemSlotData(b, {s, r})>>) BY <1>1, <1>4 DEF TrySwapSlots
<1>6. /\ b \in Bags /\ b[s] = old[r] /\ b[r] = old[s]
      /\ \A q \in Slots \ {s, r} : b[q] = old[q]
  BY <1>2, <1>3, <1>4 DEF Bags
<1>7. \A k \in ItemIds : BagUnits(b, k) = BagUnits(old, k)
  BY <1>2, <1>3, <1>6, BagUnitsSwap
<1>8. PICK p : p = FillItemSlotData(b, {s, r}) OBVIOUS
<1>9. p \in Updates /\ DOMAIN p = {s, r} /\ \A q \in {s, r} : p[q] = b[q]
  BY <1>6, <1>8, FillItemLemma
<1>10. <<p>> \in Seq(Updates) /\ DOMAIN <<p>> = {1} /\ <<p>>[1] = p BY <1>9
<1>11. Covers(u, b, <<p>>) BY <1>1, <1>6, <1>9, <1>10 DEF Covers
<1> QED BY <1>1, <1>5, <1>6, <1>7, <1>8, <1>11

-----------------------------------------------------------------------------
\* One lemma per action: it preserves the invariant.

FieldInv == FieldOK /\ MirrorInv /\ LootInv /\ NothingDuplicated

\* The ground with its timers and its priorities.
GroundOK ==
  /\ nextId \in 1 .. MaxItems + 1
  /\ DOMAIN ground \subseteq 1 .. nextId - 1
  /\ \A i \in DOMAIN ground : ground[i] \in FieldItems
  /\ timers \subseteq Events \X Ids
  /\ killer \in [Ids -> Users \cup {None}]
  /\ LootInv

\* An item is laid down, its timers start.
LEMMA SpawnLemma ==
  ASSUME FieldOK, LootInv, NEW id \in ItemIds, NEW n \in Nat \ {0}, NEW c \in Cells,
         NEW owner \in Users \cup {None}, SpawnFieldItem(id, n, c, owner),
         \/ killer' = [killer EXCEPT ![nextId] = owner]
         \/ owner = None /\ killer' = killer
  PROVE  /\ GroundOK'
         /\ \A k \in ItemIds : OnGround(k)' = OnGround(k) + (IF k = id THEN n ELSE 0)
<1>1. PICK item : item = [id |-> id, count |-> n, cell |-> c, owner |-> owner] OBVIOUS
<1>2. item \in FieldItems /\ item.id = id /\ item.count = n /\ item.owner = owner
  BY <1>1 DEF FieldItems
<1>3. /\ nextId \in Ids /\ nextId' = nextId + 1 /\ ground' = Laid(item)
      /\ timers' = timers \cup {<<"EV_ITEM_DESPAWN", nextId>>} \cup
           (IF owner = None THEN {} ELSE {<<"EV_ITEM_LOOT_PRIORITY_EXPIRE", nextId>>})
  BY <1>1 DEF SpawnFieldItem
<1>4. /\ MaxItems \in Nat /\ nextId \in 1 .. MaxItems
      /\ DOMAIN ground \subseteq 1 .. nextId - 1
  BY <1>3, FieldAssumption DEF Ids, FieldOK
<1>5. /\ DOMAIN ground' = DOMAIN ground \cup {nextId}
      /\ ground'[nextId] = item
      /\ \A i \in DOMAIN ground : i # nextId /\ ground'[i] = ground[i]
  BY <1>3, <1>4 DEF Laid
<1>6. nextId' \in 1 .. MaxItems + 1 /\ DOMAIN ground' \subseteq 1 .. nextId' - 1
  BY <1>3, <1>4, <1>5
<1>7. \A i \in DOMAIN ground' : ground'[i] \in FieldItems
  BY <1>2, <1>5 DEF FieldOK
<1>8. timers' \subseteq Events \X Ids BY <1>3 DEF FieldOK, Events
<1>9. /\ killer' \in [Ids -> Users \cup {None}] /\ killer'[nextId] = owner
      /\ \A i \in Ids \ {nextId} : killer'[i] = killer[i]
  <2>1. killer \in [Ids -> Users \cup {None}] BY DEF FieldOK
  <2>2. killer[nextId] = None BY <1>3, <1>4 DEF LootInv
  <2> QED BY <1>3, <2>1, <2>2
<1>10. LootInv'
  <2>1. ASSUME NEW i \in DOMAIN ground'
        PROVE  /\ ground'[i].owner = killer'[i]
               /\ killer'[i] # None => <<"EV_ITEM_LOOT_PRIORITY_EXPIRE", i>> \in timers'
    <3>1. CASE i = nextId BY <1>2, <1>3, <1>5, <1>9, <3>1
    <3>2. CASE i # nextId
      <4>1. i \in DOMAIN ground /\ ground'[i] = ground[i] BY <1>5, <2>1, <3>2
      <4>2. i \in Ids BY <1>4, <4>1 DEF Ids
      <4>3. killer'[i] = killer[i] BY <1>9, <3>2, <4>2
      <4> QED BY <1>3, <4>1, <4>3 DEF LootInv
    <3> QED BY <3>1, <3>2
  <2>2. ASSUME NEW i \in Ids, i >= nextId' PROVE killer'[i] = None
    <3>1. i # nextId /\ i >= nextId BY <1>3, <1>4, <2>2 DEF Ids
    <3> QED BY <1>9, <3>1 DEF LootInv
  <2> QED BY <2>1, <2>2 DEF LootInv
<1>11. \A k \in ItemIds : OnGround(k)' = OnGround(k) + (IF k = id THEN n ELSE 0)
  BY <1>2, <1>3, GroundLaid
<1> QED BY <1>6, <1>7, <1>8, <1>9, <1>10, <1>11 DEF GroundOK

\* An item is taken away, with the despawn timer or without it.
LEMMA RemoveLemma ==
  ASSUME FieldOK, LootInv, NEW i \in DOMAIN ground, RemoveFieldItem(i),
         nextId' = nextId, killer' = killer,
         timers' \subseteq timers, timers \ {<<"EV_ITEM_DESPAWN", i>>} \subseteq timers'
  PROVE  GroundOK'
<1>1. /\ DOMAIN ground' = DOMAIN ground \ {i}
      /\ \A j \in DOMAIN ground' : ground'[j] = ground[j]
  BY DEF RemoveFieldItem, Restrict
<1>2. /\ nextId' \in 1 .. MaxItems + 1 /\ DOMAIN ground' \subseteq 1 .. nextId' - 1
      /\ timers' \subseteq Events \X Ids /\ killer' \in [Ids -> Users \cup {None}]
      /\ \A j \in DOMAIN ground' : ground'[j] \in FieldItems
  BY <1>1 DEF FieldOK
<1>3. \A j : <<"EV_ITEM_LOOT_PRIORITY_EXPIRE", j>> \in timers
               => <<"EV_ITEM_LOOT_PRIORITY_EXPIRE", j>> \in timers'
  OBVIOUS
<1>4. LootInv' BY <1>1, <1>3 DEF LootInv
<1> QED BY <1>2, <1>4 DEF GroundOK

\* The ground is left alone.
LEMMA GroundFrame ==
  ASSUME FieldOK, LootInv, UNCHANGED <<ground, nextId, timers, killer>>
  PROVE  GroundOK' /\ \A k \in ItemIds : OnGround(k)' = OnGround(k)
<1>1. GroundOK' BY DEF FieldOK, GroundOK, LootInv
<1> QED BY <1>1, GroundSame

\* An answer, whatever happens to the ground.
LEMMA AnswerLemma ==
  ASSUME FieldOK, MirrorInv, NEW u \in Users, NEW b \in Bags, NEW updates,
         Covers(u, b, updates), Answer(u, b, updates),
         user' = user, mirror' = mirror, GroundOK', units' \in [ItemIds -> Int]
  PROVE  FieldOK' /\ MirrorInv' /\ LootInv'
<1>1. MirrorInv' /\ chan' \in [Viewers -> Seq(Updates)] BY AnswerMirror
<1>2. bag' \in [Users -> Bags] /\ ops' \in 0 .. MaxOps
  BY FieldAssumption DEF Answer, FieldOK
<1>3. user' \in [Users -> [on: {"grid", "dead"}, cell: Cells]]
      /\ mirror' \in [Viewers -> Bags]
  BY DEF FieldOK
<1> QED BY <1>1, <1>2, <1>3 DEF FieldOK, GroundOK

\* Requests that leave the ground alone and move no units between items:
\* equip, take off and swap.
LEMMA RearrangeLemma ==
  ASSUME FieldInv, NEW u \in Users, NEW b \in Bags, NEW updates,
         Covers(u, b, updates), Answer(u, b, updates),
         UNCHANGED <<user, ground, nextId, timers, mirror, history>>,
         \A k \in ItemIds : BagUnits(b, k) = BagUnits(bag[u], k)
  PROVE  FieldInv'
<1>1. FieldOK /\ MirrorInv /\ LootInv /\ UNCHANGED <<killer, units>>
  BY DEF FieldInv, history
<1>2. GroundOK' /\ \A k \in ItemIds : OnGround(k)' = OnGround(k)
  BY <1>1, GroundFrame
<1>3. units' \in [ItemIds -> Int] BY <1>1 DEF FieldOK
<1>4. FieldOK' /\ MirrorInv' /\ LootInv'
  BY <1>1, <1>2, <1>3, AnswerLemma
<1>5. ASSUME NEW k \in ItemIds PROVE InBags(k)' + OnGround(k)' = units'[k]
  <2>1. bag' = [bag EXCEPT ![u] = b] BY DEF Answer
  <2>2. /\ InBags(k) \in Nat
        /\ InBags(k)' = InBags(k) - BagUnits(bag[u], k) + BagUnits(b, k)
    BY <1>1, <2>1, InBagsChange
  <2>3. BagUnits(b, k) \in Nat /\ BagUnits(bag[u], k) = BagUnits(b, k)
    BY BagUnitsType
  <2>4. InBags(k)' = InBags(k) BY <2>2, <2>3
  <2> QED BY <1>1, <1>2, <2>4 DEF FieldInv, NothingDuplicated
<1>6. NothingDuplicated' BY <1>5 DEF NothingDuplicated
<1> QED BY <1>4, <1>6 DEF FieldInv

\* TryEquip, TryUnequip and TrySwapSlots preserve the invariant.
LEMMA RearrangeSteps ==
  ASSUME FieldInv, NEW u \in Users, NEW s \in Slots,
         \/ TryEquip(u, s) \/ TryUnequip(u, s)
         \/ \E r \in Slots : TrySwapSlots(u, s, r)
  PROVE  FieldInv'
<1>1. FieldOK BY DEF FieldInv
<1>2. UNCHANGED <<user, ground, nextId, timers, mirror, history>>
  BY DEF TryEquip, TryUnequip, TrySwapSlots
<1>3. CASE TryEquip(u, s)
  <2>1. PICK b \in Bags :
          /\ Covers(u, b, EquipUpdates(u, s, b)) /\ Answer(u, b, EquipUpdates(u, s, b))
          /\ \A k \in ItemIds : BagUnits(b, k) = BagUnits(bag[u], k)
    BY <1>1, <1>3, EquipEffect
  <2>2. PICK updates : updates = EquipUpdates(u, s, b) OBVIOUS
  <2>3. Covers(u, b, updates) /\ Answer(u, b, updates) BY <2>1, <2>2
  <2> QED BY <1>2, <2>1, <2>3, RearrangeLemma
<1>4. CASE TryUnequip(u, s)
  <2>1. PICK b \in Bags :
          /\ Covers(u, b, <<FillItemSlotData(b, {s})>>)
          /\ Answer(u, b, <<FillItemSlotData(b, {s})>>)
          /\ \A k \in ItemIds : BagUnits(b, k) = BagUnits(bag[u], k)
    BY <1>1, <1>4, UnequipEffect
  <2>2. PICK updates : updates = <<FillItemSlotData(b, {s})>> OBVIOUS
  <2>3. Covers(u, b, updates) /\ Answer(u, b, updates) BY <2>1, <2>2
  <2> QED BY <1>2, <2>1, <2>3, RearrangeLemma
<1>5. ASSUME NEW r \in Slots, TrySwapSlots(u, s, r) PROVE FieldInv'
  <2>1. PICK b \in Bags :
          /\ Covers(u, b, <<FillItemSlotData(b, {s, r})>>)
          /\ Answer(u, b, <<FillItemSlotData(b, {s, r})>>)
          /\ \A k \in ItemIds : BagUnits(b, k) = BagUnits(bag[u], k)
    BY <1>1, <1>5, SwapEffect
  <2>2. PICK updates : updates = <<FillItemSlotData(b, {s, r})>> OBVIOUS
  <2>3. Covers(u, b, updates) /\ Answer(u, b, updates) BY <2>1, <2>2
  <2> QED BY <1>2, <2>1, <2>3, RearrangeLemma
<1> QED BY <1>3, <1>4, <1>5

\* TryUseItem: the unit is gone from the bag and from the books.
LEMMA UseStep ==
  ASSUME FieldInv, NEW u \in Users, NEW s \in Slots, TryUseItem(u, s)
  PROVE  FieldInv'
<1>1. /\ FieldOK /\ MirrorInv /\ LootInv /\ NothingDuplicated
      /\ bag[u] \in Bags /\ bag[u][s] # NoItem
  BY DEF FieldInv, FieldOK, TryUseItem
<1>2. bag[u][s] \in Item /\ 1 <= bag[u][s].count
  <2>1. bag[u][s] \in Item BY <1>1, ItemTypes
  <2> QED BY <2>1, ItemTypes
<1>3. PICK b : b = [bag[u] EXCEPT ![s] = Bag(u)!WithCount(bag[u][s], bag[u][s].count - 1)]
  OBVIOUS
<1>4. PICK id : id = bag[u][s].id OBVIOUS
<1>5. /\ b \in Bags /\ Covers(u, b, <<FillItemSlotData(b, {s})>>)
      /\ BagUnits(b, id) = BagUnits(bag[u], id) - 1
      /\ \A k \in ItemIds \ {id} : BagUnits(b, k) = BagUnits(bag[u], k)
  <2>1. /\ FieldOK /\ bag[u][s] # NoItem /\ 1 <= bag[u][s].count
        /\ u \in Users /\ s \in Slots /\ 1 \in Nat
    BY <1>1, <1>2
  <2>2. /\ b \in Bags /\ bag[u][s] \in Item
        /\ Covers(u, b, <<FillItemSlotData(b, {s})>>)
        /\ BagUnits(b, bag[u][s].id) = BagUnits(bag[u], bag[u][s].id) - 1
        /\ \A k \in ItemIds \ {bag[u][s].id} : BagUnits(b, k) = BagUnits(bag[u], k)
    BY ONLY <2>1, <1>3, TakeEffect
  <2> QED BY <1>4, <2>2
<1>6. PICK updates : updates = <<FillItemSlotData(b, {s})>> OBVIOUS
<1>7. Covers(u, b, updates) /\ Answer(u, b, updates)
  BY <1>3, <1>5, <1>6 DEF TryUseItem
<1>8. /\ UNCHANGED <<user, ground, nextId, timers, mirror, killer>>
      /\ units' = [units EXCEPT ![id] = @ - 1] /\ id \in ItemIds
  BY <1>2, <1>4, ItemTypes DEF TryUseItem
<1>9. GroundOK' /\ \A k \in ItemIds : OnGround(k)' = OnGround(k)
  BY <1>1, <1>8, GroundFrame
<1>10. /\ units' \in [ItemIds -> Int] /\ units \in [ItemIds -> Int]
       /\ units'[id] = units[id] - 1
       /\ \A k \in ItemIds \ {id} : units'[k] = units[k]
  BY <1>1, <1>8 DEF FieldOK
<1>11. FieldOK' /\ MirrorInv' /\ LootInv'
  BY <1>1, <1>5, <1>7, <1>8, <1>9, <1>10, AnswerLemma
<1>12. ASSUME NEW k \in ItemIds PROVE InBags(k)' + OnGround(k)' = units'[k]
  <2>1. bag' = [bag EXCEPT ![u] = b] BY <1>7 DEF Answer
  <2>2. /\ InBags(k) \in Nat
        /\ InBags(k)' = InBags(k) - BagUnits(bag[u], k) + BagUnits(b, k)
    BY <1>1, <1>5, <2>1, InBagsChange
  <2>3. BagUnits(b, k) \in Nat /\ BagUnits(bag[u], k) \in Nat
    BY <1>1, <1>5, BagUnitsType
  <2>4. OnGround(k) \in Nat /\ InBags(k) + OnGround(k) = units[k]
    BY <1>1, GroundType DEF NothingDuplicated
  <2>5. CASE k = id BY <1>5, <1>9, <1>10, <2>2, <2>3, <2>4, <2>5
  <2>6. CASE k # id BY <1>5, <1>9, <1>10, <2>2, <2>3, <2>4, <2>6
  <2> QED BY <2>5, <2>6
<1> QED BY <1>11, <1>12 DEF FieldInv, NothingDuplicated

\* Discard: what leaves the bag lies on the ground.
LEMMA DiscardStep ==
  ASSUME FieldInv, NEW u \in Users, NEW s \in Slots, NEW n \in 1 .. MaxOps,
         Discard(u, s, n)
  PROVE  FieldInv'
<1>1. /\ FieldOK /\ MirrorInv /\ LootInv /\ NothingDuplicated
      /\ bag[u] \in Bags /\ bag[u][s] # NoItem
  BY DEF FieldInv, FieldOK, Discard
<1>2. n \in Nat \ {0} BY FieldAssumption
<1>3. bag[u][s] \in Item /\ n <= bag[u][s].count
  <2>1. bag[u][s] \in Item BY <1>1, ItemTypes
  <2> QED BY <1>2, <2>1, ItemTypes DEF Discard
<1>4. PICK b : b = [bag[u] EXCEPT ![s] = Bag(u)!WithCount(bag[u][s], bag[u][s].count - n)]
  OBVIOUS
<1>5. PICK id : id = bag[u][s].id OBVIOUS
<1>6. /\ b \in Bags /\ Covers(u, b, <<FillItemSlotData(b, {s})>>)
      /\ BagUnits(b, id) = BagUnits(bag[u], id) - n
      /\ \A k \in ItemIds \ {id} : BagUnits(b, k) = BagUnits(bag[u], k)
  <2>1. /\ FieldOK /\ bag[u][s] # NoItem /\ n <= bag[u][s].count
        /\ u \in Users /\ s \in Slots /\ n \in Nat
    BY <1>1, <1>2, <1>3
  <2>2. /\ b \in Bags /\ bag[u][s] \in Item
        /\ Covers(u, b, <<FillItemSlotData(b, {s})>>)
        /\ BagUnits(b, bag[u][s].id) = BagUnits(bag[u], bag[u][s].id) - n
        /\ \A k \in ItemIds \ {bag[u][s].id} : BagUnits(b, k) = BagUnits(bag[u], k)
    BY ONLY <2>1, <1>4, TakeEffect
  <2> QED BY <1>5, <2>2
<1>7. PICK updates : updates = <<FillItemSlotData(b, {s})>> OBVIOUS
<1>8. Covers(u, b, updates) /\ Answer(u, b, updates)
  BY <1>4, <1>6, <1>7 DEF Discard
<1>9. PICK c \in Cells : c = user[u].cell BY <1>1 DEF FieldOK
<1>10. /\ UNCHANGED <<user, mirror, killer, units>> /\ id \in ItemIds
       /\ SpawnFieldItem(id, n, c, None)
  BY <1>3, <1>5, <1>9, ItemTypes DEF Discard, history
<1>11. /\ GroundOK'
       /\ \A k \in ItemIds : OnGround(k)' = OnGround(k) + (IF k = id THEN n ELSE 0)
  <2>1. PICK owner \in Users \cup {None} : owner = None OBVIOUS
  <2>2. SpawnFieldItem(id, n, c, owner) BY <1>10, <2>1
  <2> QED BY <1>1, <1>2, <1>10, <2>1, <2>2, SpawnLemma
<1>12. units' \in [ItemIds -> Int] BY <1>1, <1>10 DEF FieldOK
<1>13. FieldOK' /\ MirrorInv' /\ LootInv'
  BY <1>1, <1>6, <1>8, <1>10, <1>11, <1>12, AnswerLemma
<1>14. ASSUME NEW k \in ItemIds PROVE InBags(k)' + OnGround(k)' = units'[k]
  <2>1. bag' = [bag EXCEPT ![u] = b] BY <1>8 DEF Answer
  <2>2. /\ InBags(k) \in Nat
        /\ InBags(k)' = InBags(k) - BagUnits(bag[u], k) + BagUnits(b, k)
    BY <1>1, <1>6, <2>1, InBagsChange
  <2>3. BagUnits(b, k) \in Nat /\ BagUnits(bag[u], k) \in Nat
    BY <1>1, <1>6, BagUnitsType
  <2>4. OnGround(k) \in Nat /\ InBags(k) + OnGround(k) = units'[k]
    BY <1>1, <1>10, GroundType DEF NothingDuplicated
  <2>5. CASE k = id BY <1>2, <1>6, <1>11, <2>2, <2>3, <2>4, <2>5
  <2>6. CASE k # id BY <1>6, <1>11, <2>2, <2>3, <2>4, <2>6
  <2> QED BY <2>5, <2>6
<1> QED BY <1>13, <1>14 DEF FieldInv, NothingDuplicated

\* TryPickupAt: what leaves the ground is in the bag, all of it.
LEMMA PickupStep ==
  ASSUME FieldInv, NEW u \in Users, TryPickupAt(u)
  PROVE  /\ FieldInv'
         /\ \E i \in Takeable(u), b \in Bags :
              /\ DOMAIN ground' = DOMAIN ground \ {i}
              /\ bag' = [bag EXCEPT ![u] = b] /\ b # bag[u]
<1>1. /\ FieldOK /\ MirrorInv /\ LootInv /\ NothingDuplicated /\ bag[u] \in Bags
      /\ UNCHANGED <<user, nextId, timers, mirror, killer, units>>
  BY DEF FieldInv, FieldOK, TryPickupAt, history
<1>2. PICK i \in Takeable(u) :
        \E fill \in Bag(u)!Placements(ground[i].id, ground[i].count) :
          LET b == Bag(u)!Filled(ground[i].id, fill)
              touched == SetToSeq({s \in Slots : fill[s] > 0})
          IN
          /\ Answer(u, b, [k \in DOMAIN touched |-> FillItemSlotData(b, {touched[k]})])
          /\ RemoveFieldItem(i)
  BY DEF TryPickupAt
<1>3. i \in DOMAIN ground BY DEF Takeable
<1>4. PICK id \in ItemIds, n \in Nat \ {0} : id = ground[i].id /\ n = ground[i].count
  BY <1>1, <1>3 DEF FieldOK, FieldItems
<1>5. PICK fill \in Bag(u)!Placements(id, n) :
        LET b == Bag(u)!Filled(id, fill)
            touched == SetToSeq({s \in Slots : fill[s] > 0})
        IN
        /\ Answer(u, b, [k \in DOMAIN touched |-> FillItemSlotData(b, {touched[k]})])
        /\ RemoveFieldItem(i)
  BY <1>2, <1>4
<1>6. PICK b : b = Bag(u)!Filled(id, fill) OBVIOUS
<1>7. PICK S \in SUBSET Slots : S = {s \in Slots : fill[s] > 0} OBVIOUS
<1>8. PICK updates :
        updates = [k \in DOMAIN SetToSeq(S) |-> FillItemSlotData(b, {SetToSeq(S)[k]})]
  OBVIOUS
<1>9. Answer(u, b, updates) /\ RemoveFieldItem(i)
  BY <1>5, <1>6, <1>7, <1>8
<1>10. /\ b \in Bags /\ b # bag[u]
       /\ \A s \in Slots \ S : b[s] = bag[u][s]
       /\ BagUnits(b, id) = BagUnits(bag[u], id) + n
       /\ \A k \in ItemIds \ {id} : BagUnits(b, k) = BagUnits(bag[u], k)
  BY <1>1, <1>5, <1>6, <1>7, PickupEffect
<1>11. Covers(u, b, updates) BY <1>8, <1>10, TouchedCovers
<1>12. GroundOK' BY <1>1, <1>3, <1>9, RemoveLemma
<1>13. units' \in [ItemIds -> Int] BY <1>1 DEF FieldOK
<1>14. FieldOK' /\ MirrorInv' /\ LootInv'
  BY <1>1, <1>9, <1>10, <1>11, <1>12, <1>13, AnswerLemma
<1>15. bag' = [bag EXCEPT ![u] = b] BY <1>9 DEF Answer
<1>16. ASSUME NEW k \in ItemIds PROVE InBags(k)' + OnGround(k)' = units'[k]
  <2>1. /\ InBags(k) \in Nat
        /\ InBags(k)' = InBags(k) - BagUnits(bag[u], k) + BagUnits(b, k)
    BY <1>1, <1>10, <1>15, InBagsChange
  <2>2. BagUnits(b, k) \in Nat /\ BagUnits(bag[u], k) \in Nat
    BY <1>1, <1>10, BagUnitsType
  <2>3. OnGround(k) \in Nat /\ InBags(k) + OnGround(k) = units'[k]
    BY <1>1, GroundType DEF NothingDuplicated
  <2>4. OnGround(k)' = OnGround(k) - (IF id = k THEN n ELSE 0)
    BY <1>1, <1>3, <1>4, <1>9, GroundRemoved
  <2>5. CASE k = id BY <1>4, <1>10, <2>1, <2>2, <2>3, <2>4, <2>5
  <2>6. CASE k # id BY <1>10, <2>1, <2>2, <2>3, <2>4, <2>6
  <2> QED BY <2>5, <2>6
<1>17. DOMAIN ground' = DOMAIN ground \ {i} BY <1>9 DEF RemoveFieldItem, Restrict
<1>18. FieldInv' BY <1>14, <1>16 DEF FieldInv, NothingDuplicated
<1> QED BY <1>10, <1>15, <1>17, <1>18

\* Steps that leave bags and clients alone.
LEMMA NoAnswerLemma ==
  ASSUME FieldInv, UNCHANGED <<bag, chan, mirror, ops>>,
         user' \in [Users -> [on: {"grid", "dead"}, cell: Cells]],
         GroundOK', units' \in [ItemIds -> Int],
         \A k \in ItemIds : OnGround(k)' = OnGround(k) + (units'[k] - units[k])
  PROVE  FieldInv'
<1>1. FieldOK' /\ LootInv' BY DEF FieldInv, FieldOK, GroundOK
<1>2. MirrorInv' BY DEF FieldInv, MirrorInv
<1>3. ASSUME NEW k \in ItemIds PROVE InBags(k)' + OnGround(k)' = units'[k]
  <2>1. InBags(k)' = InBags(k) BY InBagsSame
  <2>2. OnGround(k) \in Nat /\ InBags(k) \in Nat
    BY GroundType, InBagsType DEF FieldInv
  <2>3. units[k] \in Int /\ units'[k] \in Int /\ InBags(k) + OnGround(k) = units[k]
    BY DEF FieldInv, FieldOK, NothingDuplicated
  <2> QED BY <2>1, <2>2, <2>3
<1> QED BY <1>1, <1>2, <1>3 DEF FieldInv, NothingDuplicated

\* Steps that leave everything but the users alone.
LEMMA UserSteps ==
  ASSUME FieldInv, NEW u \in Users, Walk(u) \/ Die(u) \/ Respawn(u)
  PROVE  FieldInv'
<1>1. FieldOK /\ LootInv /\ units \in [ItemIds -> Int] BY DEF FieldInv, FieldOK
<1>2. UNCHANGED <<bag, ground, nextId, timers, chan, mirror, ops, killer, units>>
  BY DEF Walk, Die, Respawn, history
<1>3. user' \in [Users -> [on: {"grid", "dead"}, cell: Cells]]
  <2>1. PICK w \in [on: {"grid", "dead"}, cell: Cells] : w = user[u]
    BY <1>1 DEF FieldOK
  <2>2. CASE Walk(u)
    <3>1. PICK c \in Cells : user' = [user EXCEPT ![u].cell = c] BY <2>2 DEF Walk
    <3>2. [w EXCEPT !.cell = c] \in [on: {"grid", "dead"}, cell: Cells] OBVIOUS
    <3> QED BY <1>1, <2>1, <3>1, <3>2 DEF FieldOK
  <2>3. CASE Die(u)
    <3>1. [w EXCEPT !.on = "dead"] \in [on: {"grid", "dead"}, cell: Cells] OBVIOUS
    <3> QED BY <1>1, <2>1, <2>3, <3>1 DEF FieldOK, Die
  <2>4. CASE Respawn(u) BY <1>1, <2>4 DEF FieldOK, Respawn
  <2> QED BY <2>2, <2>3, <2>4
<1>4. GroundOK' /\ \A k \in ItemIds : OnGround(k)' = OnGround(k)
  BY <1>1, <1>2, GroundFrame
<1>5. \A k \in ItemIds : OnGround(k)' = OnGround(k) + (units'[k] - units[k])
  BY <1>1, <1>2, <1>4, GroundType
<1>6. units' \in [ItemIds -> Int] BY <1>1, <1>2
<1> QED BY <1>2, <1>3, <1>4, <1>5, <1>6, NoAnswerLemma

\* A drop brings new units.
LEMMA DropStep ==
  ASSUME FieldInv, NEW u \in Users, HandleItemDrop(u)
  PROVE  FieldInv'
<1>1. FieldOK /\ LootInv /\ units \in [ItemIds -> Int] BY DEF FieldInv, FieldOK
<1>2. PICK id \in DOMAIN DropTable, c \in Cells :
        \E n \in DropTable[id].min .. DropTable[id].max :
          /\ SpawnFieldItem(id, n, c, u)
          /\ units' = [units EXCEPT ![id] = @ + n]
  BY DEF HandleItemDrop
<1>3. PICK n \in DropTable[id].min .. DropTable[id].max :
          /\ SpawnFieldItem(id, n, c, u)
          /\ units' = [units EXCEPT ![id] = @ + n]
  BY <1>2
<1>4. id \in ItemIds /\ n \in Nat \ {0}
  BY FieldAssumption DEF ValidateDropTable
<1>5. UNCHANGED <<user, bag, chan, mirror, ops>> BY DEF HandleItemDrop
<1>6. /\ GroundOK'
      /\ \A k \in ItemIds : OnGround(k)' = OnGround(k) + (IF k = id THEN n ELSE 0)
  <2>1. killer' = [killer EXCEPT ![nextId] = u] BY DEF HandleItemDrop
  <2>2. PICK owner \in Users \cup {None} : owner = u OBVIOUS
  <2>3. SpawnFieldItem(id, n, c, owner) /\ killer' = [killer EXCEPT ![nextId] = owner]
    BY <1>3, <2>1, <2>2
  <2> QED BY <1>1, <1>4, <2>3, SpawnLemma
<1>7. /\ units' \in [ItemIds -> Int] /\ units'[id] = units[id] + n
      /\ \A k \in ItemIds \ {id} : units'[k] = units[k]
  BY <1>1, <1>3, <1>4
<1>8. ASSUME NEW k \in ItemIds
      PROVE  OnGround(k)' = OnGround(k) + (units'[k] - units[k])
  <2>1. units[k] \in Int /\ OnGround(k) \in Nat BY <1>1, GroundType
  <2>2. CASE k = id BY <1>4, <1>6, <1>7, <2>1, <2>2
  <2>3. CASE k # id BY <1>6, <1>7, <2>1, <2>3
  <2> QED BY <2>2, <2>3
<1>9. user' \in [Users -> [on: {"grid", "dead"}, cell: Cells]] BY <1>1, <1>5 DEF FieldOK
<1> QED BY <1>5, <1>6, <1>7, <1>8, <1>9, NoAnswerLemma

\* An item despawns only when its priority is over; one that is gone is not
\* found.
LEMMA DespawnStep ==
  ASSUME FieldInv, NEW i \in Ids, HandleDespawn(i)
  PROVE  /\ FieldInv'
         /\ DOMAIN ground \ DOMAIN ground' \subseteq {i}
         /\ i \in DOMAIN ground => killer[i] = None /\ ground[i].owner = None
<1>1. FieldOK /\ LootInv /\ units \in [ItemIds -> Int] BY DEF FieldInv, FieldOK
<1>2. /\ UNCHANGED <<user, bag, nextId, chan, mirror, ops, killer>>
      /\ timers' = timers \ {<<"EV_ITEM_DESPAWN", i>>}
      /\ \A e \in Events : <<e, i>> \in timers => Delay("EV_ITEM_DESPAWN") <= Delay(e)
  BY DEF HandleDespawn, Fires
<1>3. <<"EV_ITEM_LOOT_PRIORITY_EXPIRE", i>> \notin timers
  <2>1. Delay("EV_ITEM_DESPAWN") = 30 /\ Delay("EV_ITEM_LOOT_PRIORITY_EXPIRE") = 10
    BY DEF Delay
  <2>2. "EV_ITEM_LOOT_PRIORITY_EXPIRE" \in Events BY DEF Events
  <2> QED BY <1>2, <2>1, <2>2
<1>4. i \in DOMAIN ground => killer[i] = None /\ ground[i].owner = None
  BY <1>1, <1>3 DEF LootInv
<1>5. user' \in [Users -> [on: {"grid", "dead"}, cell: Cells]] BY <1>1, <1>2 DEF FieldOK
<1>6. CASE i \in DOMAIN ground
  <2>1. /\ RemoveFieldItem(i)
        /\ units' = [units EXCEPT ![ground[i].id] = @ - ground[i].count]
    BY <1>6 DEF HandleDespawn
  <2>2. PICK id \in ItemIds, n \in Nat : id = ground[i].id /\ n = ground[i].count
    BY <1>1, <1>6 DEF FieldOK, FieldItems
  <2>3. GroundOK' BY <1>1, <1>2, <1>6, <2>1, RemoveLemma
  <2>4. DOMAIN ground' = DOMAIN ground \ {i} BY <2>1 DEF RemoveFieldItem, Restrict
  <2>5. /\ units' \in [ItemIds -> Int] /\ units'[id] = units[id] - n
        /\ \A k \in ItemIds \ {id} : units'[k] = units[k]
    BY <1>1, <2>1, <2>2
  <2>6. ASSUME NEW k \in ItemIds
        PROVE  OnGround(k)' = OnGround(k) + (units'[k] - units[k])
    <3>1. units[k] \in Int /\ OnGround(k) \in Nat BY <1>1, GroundType
    <3>2. OnGround(k)' = OnGround(k) - (IF id = k THEN n ELSE 0)
      BY <1>1, <1>6, <2>1, <2>2, GroundRemoved
    <3>3. CASE k = id BY <2>2, <2>5, <3>1, <3>2, <3>3
    <3>4. CASE k # id BY <2>5, <3>1, <3>2, <3>4
    <3> QED BY <3>3, <3>4
  <2>7. FieldInv' BY <1>2, <1>5, <2>3, <2>5, <2>6, NoAnswerLemma
  <2> QED BY <1>4, <2>4, <2>7
<1>7. CASE i \notin DOMAIN ground
  <2>1. UNCHANGED <<ground, units>> BY <1>7 DEF HandleDespawn
  <2>2. GroundOK'
    <3>1. timers' \subseteq timers BY <1>2
    <3>2. LootInv' BY <1>1, <1>2, <2>1 DEF LootInv
    <3> QED BY <1>1, <1>2, <2>1, <3>1, <3>2 DEF FieldOK, GroundOK
  <2>3. \A k \in ItemIds : OnGround(k)' = OnGround(k) BY <2>1, GroundSame
  <2>4. \A k \in ItemIds : OnGround(k)' = OnGround(k) + (units'[k] - units[k])
    BY <1>1, <2>1, <2>3, GroundType
  <2>5. units' \in [ItemIds -> Int] BY <1>1, <2>1
  <2>6. FieldInv' BY <1>2, <1>5, <2>2, <2>4, <2>5, NoAnswerLemma
  <2> QED BY <1>7, <2>1, <2>6
<1> QED BY <1>6, <1>7

\* The end of the priority.
LEMMA ExpireStep ==
  ASSUME FieldInv, NEW i \in Ids, HandleLootPriorityExpire(i)
  PROVE  FieldInv' /\ DOMAIN ground' = DOMAIN ground
<1>1. FieldOK /\ LootInv /\ units \in [ItemIds -> Int] BY DEF FieldInv, FieldOK
<1>2. /\ UNCHANGED <<user, bag, nextId, chan, mirror, ops, units>>
      /\ timers' = timers \ {<<"EV_ITEM_LOOT_PRIORITY_EXPIRE", i>>}
      /\ killer' = [killer EXCEPT ![i] = None]
  BY DEF HandleLootPriorityExpire, Fires
<1>3. /\ DOMAIN ground' = DOMAIN ground
      /\ \A j \in DOMAIN ground :
           /\ j # i => ground'[j] = ground[j]
           /\ j = i => ground'[j] = [ground[j] EXCEPT !.owner = None]
  BY DEF HandleLootPriorityExpire
<1>4. ASSUME NEW j \in DOMAIN ground
      PROVE  /\ ground'[j] \in FieldItems
             /\ ground'[j].id = ground[j].id /\ ground'[j].count = ground[j].count
             /\ ground'[j].owner = IF j = i THEN None ELSE ground[j].owner
  BY <1>1, <1>3 DEF FieldOK, FieldItems
<1>5. /\ killer' \in [Ids -> Users \cup {None}] /\ killer'[i] = None
      /\ \A j \in Ids \ {i} : killer'[j] = killer[j]
  BY <1>1, <1>2 DEF FieldOK
<1>6. LootInv'
  <2>1. ASSUME NEW j \in DOMAIN ground'
        PROVE  /\ ground'[j].owner = killer'[j]
               /\ killer'[j] # None => <<"EV_ITEM_LOOT_PRIORITY_EXPIRE", j>> \in timers'
    <3>1. j \in Ids
      BY <1>1, <1>3, <2>1, FieldAssumption DEF FieldOK, Ids
    <3>2. CASE j = i BY <1>3, <1>4, <1>5, <2>1, <3>2
    <3>3. CASE j # i
      <4>1. killer'[j] = killer[j] /\ ground'[j].owner = ground[j].owner
        BY <1>3, <1>4, <1>5, <2>1, <3>1, <3>3
      <4> QED BY <1>1, <1>2, <1>3, <2>1, <3>3, <4>1 DEF LootInv
    <3> QED BY <3>2, <3>3
  <2>2. \A j \in Ids : j >= nextId' => killer'[j] = None
    BY <1>1, <1>2, <1>5 DEF LootInv
  <2> QED BY <2>1, <2>2 DEF LootInv
<1>7. GroundOK'
  <2>1. timers' \subseteq Events \X Ids BY <1>1, <1>2 DEF FieldOK
  <2> QED BY <1>1, <1>2, <1>3, <1>4, <1>5, <1>6, <2>1 DEF FieldOK, GroundOK
<1>8. \A k \in ItemIds : OnGround(k)' = OnGround(k) BY <1>3, <1>4, GroundSame
<1>9. \A k \in ItemIds : OnGround(k)' = OnGround(k) + (units'[k] - units[k])
  BY <1>1, <1>2, <1>8, GroundType
<1>10. /\ user' \in [Users -> [on: {"grid", "dead"}, cell: Cells]]
       /\ units' \in [ItemIds -> Int]
  BY <1>1, <1>2 DEF FieldOK
<1>11. FieldInv' BY <1>2, <1>7, <1>9, <1>10, NoAnswerLemma
<1> QED BY <1>3, <1>11

\* The client applies a packet.
LEMMA ApplyStep ==
  ASSUME FieldInv, NEW u \in Viewers, ApplyInventorySlot(u)
  PROVE  FieldInv'
<1>1. FieldOK /\ MirrorInv /\ LootInv /\ NothingDuplicated BY DEF FieldInv
<1>2. UNCHANGED <<user, bag, ground, nextId, timers, ops, killer, units>>
  BY DEF ApplyInventorySlot, history
<1>3. MirrorInv' /\ chan' \in [Viewers -> Seq(Updates)] /\ mirror' \in [Viewers -> Bags]
  BY <1>1, ApplyMirror
<1>4. FieldOK' /\ LootInv' BY <1>1, <1>2, <1>3 DEF FieldOK, LootInv
<1>5. ASSUME NEW k \in ItemIds PROVE InBags(k)' + OnGround(k)' = units'[k]
  <2>1. InBags(k)' = InBags(k) /\ OnGround(k)' = OnGround(k)
    BY <1>2, InBagsSame, GroundSame
  <2> QED BY <1>1, <1>2, <2>1 DEF NothingDuplicated
<1> QED BY <1>3, <1>4, <1>5 DEF FieldInv, NothingDuplicated

\* A step that changes nothing.
LEMMA StutterStep ==
  ASSUME FieldInv, UNCHANGED vars
  PROVE  FieldInv'
<1>1. UNCHANGED <<user, bag, ground, nextId, timers, chan, mirror, ops, killer, units>>
  BY DEF vars, history
<1>2. FieldOK' /\ LootInv' /\ MirrorInv'
  BY <1>1 DEF FieldInv, FieldOK, LootInv, MirrorInv
<1>3. ASSUME NEW k \in ItemIds PROVE InBags(k)' + OnGround(k)' = units'[k]
  <2>1. InBags(k)' = InBags(k) /\ OnGround(k)' = OnGround(k)
    BY <1>1, InBagsSame, GroundSame
  <2> QED BY <1>1, <2>1 DEF FieldInv, NothingDuplicated
<1> QED BY <1>2, <1>3 DEF FieldInv, NothingDuplicated

-----------------------------------------------------------------------------
\* The invariant.

\* It holds when the users have logged in: ITEM_LIST_ACK covers every slot.
LEMMA FieldStart ==
  ASSUME Init
  PROVE  FieldInv
<1>1. FieldOK
  <2>1. bag \in [Users -> Bags] /\ Viewers \subseteq Users BY FieldAssumption DEF Init
  <2>2. user \in [Users -> [on: {"grid", "dead"}, cell: Cells]]
    BY FieldAssumption DEF Init
  <2>3. nextId \in 1 .. MaxItems + 1 /\ DOMAIN ground = {} /\ timers = {}
    BY FieldAssumption DEF Init
  <2>4. chan \in [Viewers -> Seq(Updates)]
    <3>1. ASSUME NEW u \in Viewers PROVE <<bag[u]>> \in Seq(Updates)
      <4>1. bag[u] \in [Slots -> Item \cup {NoItem}] BY <2>1 DEF Bags
      <4>2. bag[u] \in Updates BY <4>1 DEF Updates
      <4> QED BY <4>2
    <3> QED BY <3>1 DEF Init
  <2>5. mirror \in [Viewers -> Bags] BY DEF Init, NoInventory, Bags
  <2>6. ops \in 0 .. MaxOps /\ killer \in [Ids -> Users \cup {None}]
    BY FieldAssumption DEF Init
  <2>7. units \in [ItemIds -> Int]
    <3>1. ASSUME NEW id \in ItemIds PROVE InBags(id) \in Int
      <4> DEFINE f == [v \in Users |-> BagUnits(bag[v], id)]
      <4>1. [v \in Users |-> Bag(v)!Total(bag[v], id)] = f /\ f \in [Users -> Int]
        BY <2>1, BagUnitsType
      <4>2. InBags(id) = SumFunction(f) BY <4>1 DEF InBags
      <4> HIDE DEF f
      <4>3. SumFunction(f) \in Int BY <4>1, SumInt, FieldAssumption
      <4> QED BY <4>2, <4>3
    <3> QED BY <3>1 DEF Init
  <2> QED BY <2>1, <2>2, <2>3, <2>4, <2>5, <2>6, <2>7 DEF FieldOK
<1>2. MirrorInv
  <2>1. ASSUME NEW u \in Viewers, NEW s \in Slots
        PROVE  /\ chan[u] = <<bag[u]>> /\ DOMAIN chan[u] = {1}
               /\ chan[u][1] = bag[u] /\ s \in DOMAIN bag[u]
    <3>1. u \in Users /\ bag[u] \in Bags BY FieldAssumption DEF Init
    <3>2. s \in DOMAIN bag[u] BY <3>1 DEF Bags
    <3> QED BY <3>2 DEF Init
  <2> QED BY <2>1 DEF MirrorInv
<1>3. LootInv BY DEF Init, LootInv
<1>4. NothingDuplicated
  <2>1. ASSUME NEW id \in ItemIds PROVE InBags(id) + OnGround(id) = units[id]
    <3>1. units[id] = InBags(id) BY DEF Init
    <3>2. /\ IsFiniteSet(DOMAIN ground)
          /\ GroundUnits(ground, id) \in [DOMAIN ground -> Int]
          /\ OnGround(id) = SumFunction(GroundUnits(ground, id))
      BY <1>1, GroundType
    <3>3. DOMAIN ground = {} BY DEF Init
    <3>4. OnGround(id) = 0 BY <3>2, <3>3, SumZero
    <3>5. InBags(id) \in Nat BY <1>1, InBagsType
    <3> QED BY <3>1, <3>4, <3>5
  <2> QED BY <2>1 DEF NothingDuplicated
<1> QED BY <1>1, <1>2, <1>3, <1>4 DEF FieldInv

\* Every request keeps it.
LEMMA RequestStep ==
  ASSUME FieldInv, NEW u \in Users, Request(u)
  PROVE  FieldInv'
<1>1. CASE TryPickupAt(u) BY <1>1, PickupStep
<1>2. ASSUME NEW s \in Slots, ActivateInventorySlot(u, s) PROVE FieldInv'
  <2>1. TryUseItem(u, s) \/ TryEquip(u, s) \/ TryUnequip(u, s)
    BY <1>2 DEF ActivateInventorySlot
  <2> QED BY <2>1, UseStep, RearrangeSteps
<1>3. ASSUME NEW s \in Slots, NEW n \in 1 .. MaxOps, Discard(u, s, n) PROVE FieldInv'
  BY <1>3, DiscardStep
<1>4. ASSUME NEW s \in Slots, NEW r \in Slots, TrySwapSlots(u, s, r) PROVE FieldInv'
  BY <1>4, RearrangeSteps
<1> QED BY <1>1, <1>2, <1>3, <1>4 DEF Request

\* Every step keeps it.
LEMMA FieldStep ==
  ASSUME FieldInv, [Next]_vars
  PROVE  FieldInv'
<1>1. ASSUME NEW u \in Users, Walk(u) \/ HandleItemDrop(u) \/ Request(u)
      PROVE  FieldInv'
  BY <1>1, UserSteps, DropStep, RequestStep
<1>2. ASSUME NEW u \in Viewers, Die(u) \/ Respawn(u) \/ ApplyInventorySlot(u)
      PROVE  FieldInv'
  <2>1. u \in Users BY FieldAssumption
  <2> QED BY <1>2, <2>1, UserSteps, ApplyStep
<1>3. CASE TimerEvent BY <1>3, DespawnStep, ExpireStep DEF TimerEvent
<1>4. CASE UNCHANGED vars BY <1>4, StutterStep
<1> QED BY <1>1, <1>2, <1>3, <1>4 DEF Next

\* The inductive invariant of the field items: the books balance, the last
\* update on its way to a client is right, and the owner of an item is the
\* killer of its monster until the priority ends.
THEOREM FieldCorrect == Spec => []FieldInv
<1>1. Init => FieldInv BY FieldStart
<1>2. FieldInv /\ [Next]_vars => FieldInv' BY FieldStep
<1> QED BY <1>1, <1>2, PTL DEF Spec

\* Units are never made or lost by drops, discards, pickups, uses and
\* despawns that the thread of the user's own zone runs (TryPickupAt,
\* RemoveFieldItem, TryExtractItem).
THEOREM NothingDuplicatedCorrect == Spec => []NothingDuplicated
<1>1. FieldInv => NothingDuplicated BY DEF FieldInv
<1> QED BY <1>1, FieldCorrect, PTL

\* A client that has processed its packets shows the bag as it is
\* (ApplyInventorySlot after the acknowledgements of every handler).
THEOREM MirrorCorrect == Spec => []MirrorRight
<1>1. FieldInv => MirrorRight
  <2> SUFFICES ASSUME FieldInv, NEW u \in Viewers, chan[u] = <<>>
               PROVE  mirror[u] = bag[u]
    BY DEF MirrorRight
  <2>1. mirror[u] \in Bags /\ bag[u] \in Bags
    BY FieldAssumption DEF FieldInv, FieldOK
  <2>2. \A s \in Slots : mirror[u][s] = bag[u][s] BY DEF FieldInv, MirrorInv
  <2> QED BY <2>1, <2>2 DEF Bags
<1> QED BY <1>1, FieldCorrect, PTL

\* The variables keep their types; the books are never negative.
THEOREM FieldTypeCorrect == Spec => []TypeOK
<1>1. FieldInv => TypeOK
  <2> SUFFICES ASSUME FieldInv PROVE TypeOK OBVIOUS
  <2>1. FieldOK /\ NothingDuplicated BY DEF FieldInv
  <2>2. units \in [ItemIds -> Nat]
    <3>1. ASSUME NEW id \in ItemIds PROVE units[id] \in Nat
      <4>1. InBags(id) \in Nat /\ OnGround(id) \in Nat
        BY <2>1, InBagsType, GroundType
      <4> QED BY <2>1, <4>1 DEF NothingDuplicated
    <3> QED BY <2>1, <3>1 DEF FieldOK
  <2>3. ASSUME NEW u \in Viewers, NEW k \in DOMAIN chan[u]
        PROVE  /\ DOMAIN chan[u][k] \subseteq Slots
               /\ \A s \in DOMAIN chan[u][k] : chan[u][k][s] \in Item \cup {NoItem}
    <3>1. chan[u] \in Seq(Updates) BY <2>1 DEF FieldOK
    <3>2. chan[u][k] \in Updates BY <2>3, <3>1
    <3> QED BY <3>2 DEF Updates
  <2> QED BY <2>1, <2>2, <2>3 DEF FieldOK, TypeOK
<1> QED BY <1>1, FieldCorrect, PTL

\* Whoever takes an item whose priority still runs is the killer, and no
\* item despawns before its priority has ended (TryPickupAt, HandleDespawn,
\* HandleLootPriorityExpire).
THEOREM LootPriorityCorrect == Spec => LootPriority
<1> DEFINE A == \A i \in DOMAIN ground \ DOMAIN ground' :
                  /\ killer[i] # None => bag'[killer[i]] # bag[killer[i]]
                  /\ bag' = bag => ground[i].owner = None
<1>1. ASSUME FieldInv, Next PROVE A
  <2>1. ASSUME NEW u \in Users, TryPickupAt(u) PROVE A
    <3>1. PICK i \in Takeable(u), b \in Bags :
            /\ DOMAIN ground' = DOMAIN ground \ {i}
            /\ bag' = [bag EXCEPT ![u] = b] /\ b # bag[u]
      BY <1>1, <2>1, PickupStep
    <3>2. bag'[u] # bag[u] BY <1>1, <3>1 DEF FieldInv, FieldOK
    <3>3. killer[i] \in {None, u} BY <1>1 DEF FieldInv, LootInv, Takeable
    <3> QED BY <3>1, <3>2, <3>3
  <2>2. ASSUME NEW i \in Ids, HandleDespawn(i) PROVE A
    BY <1>1, <2>2, DespawnStep
  <2>3. ASSUME NEW i \in Ids, HandleLootPriorityExpire(i) PROVE A
    BY <1>1, <2>3, ExpireStep
  <2>4. ASSUME NEW u \in Users, HandleItemDrop(u) PROVE A
    BY <2>4 DEF HandleItemDrop, SpawnFieldItem, Laid
  <2>5. ASSUME NEW u \in Users, NEW s \in Slots, NEW n, Discard(u, s, n) PROVE A
    BY <2>5 DEF Discard, SpawnFieldItem, Laid
  <2>6. ASSUME ground' = ground PROVE A
    BY <2>6
  <2>7. ASSUME NEW u \in Users, NEW s \in Slots, ActivateInventorySlot(u, s)
        PROVE  ground' = ground
    BY <2>7 DEF ActivateInventorySlot, TryUseItem, TryEquip, TryUnequip
  <2>8. ASSUME NEW u \in Users, NEW s \in Slots, NEW r \in Slots, TrySwapSlots(u, s, r)
        PROVE  ground' = ground
    BY <2>8 DEF TrySwapSlots
  <2>9. ASSUME NEW u, Walk(u) \/ Die(u) \/ Respawn(u) \/ ApplyInventorySlot(u)
        PROVE  ground' = ground
    BY <2>9 DEF Walk, Die, Respawn, ApplyInventorySlot
  <2> HIDE DEF A
  <2> QED
    BY <1>1, <2>1, <2>2, <2>3, <2>4, <2>5, <2>6, <2>7, <2>8, <2>9
    DEF Next, Request, TimerEvent
<1>2. FieldInv /\ [Next]_vars => [A]_vars BY <1>1
<1>3. [][A]_vars => LootPriority BY DEF LootPriority
<1> QED BY <1>2, <1>3, FieldCorrect, PTL DEF Spec

\* The despawn event of an item on the ground is still to come, however
\* often items are laid, taken and looked for in vain: what is on the ground
\* never lies there without a timer (SpawnFieldItem, HandleDespawn).
DespawnPending ==
  \A i \in DOMAIN ground : <<"EV_ITEM_DESPAWN", i>> \in timers

\* It holds in every reachable state: SpawnFieldItem starts the timer with the
\* item, and only HandleDespawn, which removes the item, takes it.
THEOREM DespawnPendingCorrect == Spec => []DespawnPending
<1>1. Init => DespawnPending BY DEF Init, DespawnPending
<1>2. ASSUME DespawnPending, Next PROVE DespawnPending'
  <2>1. ASSUME NEW id, NEW n, NEW c, NEW owner, SpawnFieldItem(id, n, c, owner)
        PROVE  DespawnPending'
    <3>1. \A i \in DOMAIN ground' : i \in DOMAIN ground \/ i = nextId
      BY <2>1 DEF SpawnFieldItem, Laid
    <3>2. <<"EV_ITEM_DESPAWN", nextId>> \in timers' /\ timers \subseteq timers'
      BY <2>1 DEF SpawnFieldItem
    <3> QED BY <1>2, <3>1, <3>2 DEF DespawnPending
  <2>2. ASSUME DOMAIN ground' \subseteq DOMAIN ground, timers' = timers
        PROVE  DespawnPending'
    BY <1>2, <2>2 DEF DespawnPending
  <2>3. ASSUME NEW u \in Users, HandleItemDrop(u) PROVE DespawnPending'
    BY <2>1, <2>3 DEF HandleItemDrop
  <2>4. ASSUME NEW u \in Users, NEW s \in Slots, NEW n, Discard(u, s, n)
        PROVE  DespawnPending'
    BY <2>1, <2>4 DEF Discard
  <2>5. ASSUME NEW i, RemoveFieldItem(i) PROVE DOMAIN ground' = DOMAIN ground \ {i}
    BY <2>5 DEF RemoveFieldItem, Restrict
  <2>6. ASSUME NEW u \in Users, TryPickupAt(u) PROVE DespawnPending'
    <3>1. timers' = timers /\ \E i : RemoveFieldItem(i) BY <2>6 DEF TryPickupAt
    <3> QED BY <2>2, <2>5, <3>1
  <2>7. ASSUME NEW i \in Ids, HandleDespawn(i) PROVE DespawnPending'
    <3>1. timers' = timers \ {<<"EV_ITEM_DESPAWN", i>>}
      BY <2>7 DEF HandleDespawn, Fires
    <3>2. DOMAIN ground' \subseteq DOMAIN ground \ {i}
      BY <2>5, <2>7 DEF HandleDespawn
    <3> QED BY <1>2, <3>1, <3>2 DEF DespawnPending
  <2>8. ASSUME NEW i \in Ids, HandleLootPriorityExpire(i) PROVE DespawnPending'
    <3>1. /\ timers' = timers \ {<<"EV_ITEM_LOOT_PRIORITY_EXPIRE", i>>}
          /\ DOMAIN ground' = DOMAIN ground
      BY <2>8 DEF HandleLootPriorityExpire, Fires
    <3> QED BY <1>2, <3>1 DEF DespawnPending
  <2>9. ASSUME NEW u \in Users, NEW s \in Slots, ActivateInventorySlot(u, s)
        PROVE  ground' = ground /\ timers' = timers
    BY <2>9 DEF ActivateInventorySlot, TryUseItem, TryEquip, TryUnequip
  <2>10. ASSUME NEW u \in Users, NEW s \in Slots, NEW r \in Slots, TrySwapSlots(u, s, r)
         PROVE  ground' = ground /\ timers' = timers
    BY <2>10 DEF TrySwapSlots
  <2>11. ASSUME NEW u, Walk(u) \/ Die(u) \/ Respawn(u) \/ ApplyInventorySlot(u)
         PROVE  ground' = ground /\ timers' = timers
    BY <2>11 DEF Walk, Die, Respawn, ApplyInventorySlot
  <2>12. ASSUME NEW u \in Users, Request(u) PROVE DespawnPending'
    BY <2>2, <2>4, <2>6, <2>9, <2>10, <2>12 DEF Request
  <2> QED
    BY <1>2, <2>2, <2>3, <2>7, <2>8, <2>11, <2>12 DEF Next, TimerEvent
<1>3. DespawnPending /\ UNCHANGED vars => DespawnPending'
  BY DEF DespawnPending, vars
<1> QED BY <1>1, <1>2, <1>3, PTL DEF Spec
===============================================================================
