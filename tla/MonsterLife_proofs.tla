-------------------------- MODULE MonsterLife_proofs --------------------------
(***************************************************************************)
(* Proofs about MonsterLife, for every number of monsters and users and    *)
(* whatever the size of the zone, the ranges, the hit points and the       *)
(* delays that LifeAssumption allows.                                      *)
(***************************************************************************)
EXTENDS MonsterLife, FiniteSums_proofs, SequenceTheorems

\* The events of a kind that are about somebody.
Of(ev, who) == {e \in QueuedEvents : e.ev = ev /\ who \in {e.m, e.u}}

\* How many of the queued events are in E.
Count(queue, E) == Cardinality({i \in DOMAIN queue : queue[i] \in E})

\* Events with the delay they are scheduled with.
Stamped(events, delay) == {[e EXCEPT !.in = delay] : e \in events}

Queues == {q \in Seq(QueuedEvents) : InOrder(q)}

-----------------------------------------------------------------------------
\* Counting events.

\* What an event is about.
LEMMA EventKinds ==
  ASSUME NEW e \in QueuedEvents
  PROVE  /\ e \in Events /\ e.in \in Nat
         /\ e.ev \in {"RANDOM_MOVE", "MONSTER_RESPAWN"} => e.m \in Monsters /\ e.u = None
         /\ e.ev \in {"AGGRO_MOVE", "MONSTER_ATTACK"} => e.m \in Monsters /\ e.u \in Users
         /\ e.ev \in {"HEAL", "USER_RESPAWN"} => e.m = None /\ e.u \in Users
         /\ e.ev = "HEAL" => e.in <= HealDelay
BY LifeAssumption DEF QueuedEvents, Events, EventTypes

\* Pending counts events of a kind.
LEMMA PendingIsCount ==
  ASSUME NEW q \in Seq(QueuedEvents), NEW ev, NEW who
  PROVE  Count(q, Of(ev, who))
           = Cardinality({i \in DOMAIN q : q[i].ev = ev /\ who \in {q[i].m, q[i].u}})
<1>1. \A i \in DOMAIN q : q[i] \in QueuedEvents OBVIOUS
<1>2. {i \in DOMAIN q : q[i] \in Of(ev, who)}
        = {i \in DOMAIN q : q[i].ev = ev /\ who \in {q[i].m, q[i].u}}
  BY <1>1 DEF Of
<1> QED BY <1>2 DEF Count

\* A count is a natural, positive when there is something to count.
LEMMA CountType ==
  ASSUME NEW T, NEW q \in Seq(T), NEW E
  PROVE  /\ IsFiniteSet({i \in DOMAIN q : q[i] \in E})
         /\ Count(q, E) \in Nat
         /\ Count(q, E) = 0 <=> \A i \in DOMAIN q : q[i] \notin E
<1> DEFINE I == {i \in DOMAIN q : q[i] \in E}
<1>1. DOMAIN q = 1 .. Len(q) /\ Len(q) \in Nat OBVIOUS
<1>2. IsFiniteSet(1 .. Len(q)) BY <1>1, FS_Interval
<1>3. I \subseteq 1 .. Len(q) BY <1>1
<1> HIDE DEF I
<1>4. IsFiniteSet(I) BY <1>2, <1>3, FS_Subset
<1>5. Cardinality(I) \in Nat BY <1>4, FS_CardinalityType
<1>6. Cardinality(I) = 0 <=> I = {} BY <1>4, FS_EmptySet
<1> QED BY <1>4, <1>5, <1>6 DEF I, Count

\* Two queues one after the other.
LEMMA CountConcat ==
  ASSUME NEW T, NEW a \in Seq(T), NEW b \in Seq(T), NEW E
  PROVE  Count(a \o b, E) = Count(a, E) + Count(b, E)
<1>1. PICK c \in Seq(T) : c = a \o b
  <2>1. a \o b \in Seq(T) OBVIOUS
  <2> QED BY <2>1
<1>2. /\ DOMAIN a = 1 .. Len(a) /\ DOMAIN b = 1 .. Len(b) /\ Len(a) \in Nat
      /\ Len(b) \in Nat /\ DOMAIN c = 1 .. (Len(a) + Len(b))
      /\ \A i \in DOMAIN a : c[i] = a[i]
      /\ \A i \in DOMAIN b : c[Len(a) + i] = b[i]
  BY <1>1
<1> DEFINE A == {i \in DOMAIN a : a[i] \in E}
           B == {i \in DOMAIN b : b[i] \in E}
           D == {Len(a) + i : i \in B}
           C == {i \in DOMAIN c : c[i] \in E}
<1>3. IsFiniteSet(A) /\ IsFiniteSet(B) BY CountType
<1>4. A \subseteq Int /\ B \subseteq Int /\ Len(a) \in Int BY <1>2
<1>5. C = A \cup D
  <2>1. ASSUME NEW i \in C PROVE i \in A \cup D
    <3>1. i \in DOMAIN c /\ c[i] \in E OBVIOUS
    <3>2. CASE i <= Len(a)
      <4>1. i \in DOMAIN a BY <1>2, <3>1, <3>2
      <4> QED BY <1>2, <3>1, <4>1
    <3>3. CASE ~(i <= Len(a))
      <4>1. i - Len(a) \in DOMAIN b /\ i = Len(a) + (i - Len(a)) BY <1>2, <3>1, <3>3
      <4>2. i - Len(a) \in B BY <1>2, <3>1, <4>1
      <4> QED BY <4>1, <4>2
    <3> QED BY <3>2, <3>3
  <2>2. A \subseteq C BY <1>2
  <2>3. D \subseteq C
    <3>1. ASSUME NEW i \in B PROVE Len(a) + i \in C
      <4>1. i \in DOMAIN b /\ b[i] \in E OBVIOUS
      <4>2. Len(a) + i \in DOMAIN c BY <1>2, <4>1
      <4> QED BY <1>2, <4>1, <4>2
    <3> QED BY <3>1
  <2> QED BY <2>1, <2>2, <2>3
<1>6. A \cap D = {} BY <1>2
<1>7. IsFiniteSet(D) /\ Cardinality(D) = Cardinality(B)
  <2>1. \A i, j \in B : Len(a) + i = Len(a) + j => i = j BY <1>4
  <2> DEFINE f == [i \in B |-> Len(a) + i]
  <2>2. f \in Bijection(B, D)
    BY <2>1 DEF Bijection, Injection, Surjection, IsInjective
  <2> HIDE DEF A, B, C, D, f
  <2>3. ExistsBijection(B, D) BY <2>2 DEF ExistsBijection
  <2>4. IsFiniteSet(D) /\ Cardinality(D) = Cardinality(B)
    BY <1>3, <2>3, FS_Bijection
  <2> QED BY <2>4
<1> HIDE DEF A, B, C, D
<1>8. Cardinality(A \cup D) = Cardinality(A) + Cardinality(D) - Cardinality(A \cap D)
  BY <1>3, <1>7, FS_Union
<1>9. Cardinality(A \cap D) = 0 BY <1>6, FS_EmptySet
<1>10. Cardinality(A) \in Nat /\ Cardinality(B) \in Nat BY <1>3, FS_CardinalityType
<1>11. Cardinality(C) = Cardinality(A) + Cardinality(B)
  BY <1>5, <1>7, <1>8, <1>9, <1>10
<1> QED BY <1>1, <1>11 DEF A, B, C, Count

\* One event.
LEMMA CountOne ==
  ASSUME NEW e, NEW E
  PROVE  Count(<<e>>, E) = IF e \in E THEN 1 ELSE 0
<1>1. DOMAIN <<e>> = {1} /\ <<e>>[1] = e OBVIOUS
<1>2. CASE e \in E
  <2>1. {i \in DOMAIN <<e>> : <<e>>[i] \in E} = {1} BY <1>1, <1>2
  <2> QED BY <1>2, <2>1, FS_Singleton DEF Count
<1>3. CASE e \notin E
  <2>1. {i \in DOMAIN <<e>> : <<e>>[i] \in E} = {} BY <1>1, <1>3
  <2> QED BY <1>3, <2>1, FS_EmptySet DEF Count
<1> QED BY <1>2, <1>3

\* A sequence made of a set of events.
LEMMA CountSet ==
  ASSUME NEW S, IsFiniteSet(S), NEW E
  PROVE  Count(SetToSeq(S), E) = Cardinality(S \cap E)
<1>1. PICK q : q = SetToSeq(S) OBVIOUS
<1>2. /\ q \in Seq(S)
      /\ \A x \in S : \E k \in DOMAIN q : q[k] = x
      /\ \A j, k \in DOMAIN q : q[j] = q[k] => j = k
  BY <1>1, SetToSeqLemma
<1> DEFINE I == {i \in DOMAIN q : q[i] \in E}
           f == [i \in I |-> q[i]]
<1>3. f \in Bijection(I, S \cap E)
  <2>1. \A i \in I : q[i] \in S \cap E BY <1>2
  <2>2. \A x \in S \cap E : \E i \in I : f[i] = x BY <1>2
  <2>3. \A i, j \in I : f[i] = f[j] => i = j BY <1>2
  <2> QED BY <2>1, <2>2, <2>3 DEF Bijection, Injection, Surjection, IsInjective
<1>4. IsFiniteSet(I) BY <1>2, CountType
<1> HIDE DEF I, f
<1>5. ExistsBijection(I, S \cap E) BY <1>3 DEF ExistsBijection
<1>6. Cardinality(S \cap E) = Cardinality(I) BY <1>4, <1>5, FS_Bijection
<1> QED BY <1>1, <1>6 DEF I, Count

-----------------------------------------------------------------------------
\* What the operations do to the queue.

\* The first event leaves.
LEMMA TailLemma ==
  ASSUME NEW q \in Queues, q # <<>>
  PROVE  /\ Head(q) \in QueuedEvents /\ Tail(q) \in Queues
         /\ \A E : Count(Tail(q), E) = Count(q, E) - (IF Head(q) \in E THEN 1 ELSE 0)
         /\ \A E : Count(q, E) \in Nat /\ Count(Tail(q), E) \in Nat
         /\ \A u : HealsFirst(q, u) => HealsFirst(Tail(q), u)
<1>1. q \in Seq(QueuedEvents) /\ InOrder(q) BY DEF Queues
<1>2. PICK h \in QueuedEvents : h = Head(q) BY <1>1
<1>3. PICK t \in Seq(QueuedEvents) : t = Tail(q)
  <2>1. Tail(q) \in Seq(QueuedEvents) BY <1>1
  <2> QED BY <2>1
<1>4. q = <<h>> \o t BY <1>1, <1>2, <1>3
<1>5. /\ DOMAIN t = 1 .. (Len(q) - 1) /\ DOMAIN q = 1 .. Len(q) /\ Len(q) \in Nat
      /\ \A i \in DOMAIN t : i + 1 \in DOMAIN q /\ t[i] = q[i + 1]
  BY <1>1, <1>3
<1>6. InOrder(t)
  <2> SUFFICES ASSUME NEW i \in DOMAIN t, NEW j \in DOMAIN t, i < j
               PROVE  t[i].in <= t[j].in
    BY DEF InOrder
  <2>1. i + 1 \in DOMAIN q /\ j + 1 \in DOMAIN q /\ i + 1 < j + 1 BY <1>5
  <2>2. q[i + 1].in <= q[j + 1].in BY <1>1, <2>1 DEF InOrder
  <2> QED BY <1>5, <2>2
<1>7. ASSUME NEW u, HealsFirst(q, u) PROVE HealsFirst(t, u)
  <2> SUFFICES ASSUME NEW i \in DOMAIN t, NEW j \in DOMAIN t,
                      t[i].ev = "HEAL", t[i].u = u,
                      t[j].ev = "USER_RESPAWN", t[j].u = u
               PROVE  i < j
    BY DEF HealsFirst
  <2>1. i + 1 \in DOMAIN q /\ j + 1 \in DOMAIN q /\ t[i] = q[i + 1] /\ t[j] = q[j + 1]
    BY <1>5
  <2>2. i + 1 < j + 1 BY <1>7, <2>1 DEF HealsFirst
  <2> QED BY <1>5, <2>2
<1>8. ASSUME NEW E
      PROVE  /\ Count(t, E) = Count(q, E) - (IF h \in E THEN 1 ELSE 0)
             /\ Count(q, E) \in Nat /\ Count(t, E) \in Nat
  <2>1. <<h>> \in Seq(QueuedEvents) OBVIOUS
  <2>2. Count(q, E) = Count(<<h>>, E) + Count(t, E) BY <1>4, <2>1, CountConcat
  <2>3. Count(<<h>>, E) = IF h \in E THEN 1 ELSE 0 BY CountOne
  <2>4. Count(q, E) \in Nat /\ Count(t, E) \in Nat BY <1>1, CountType
  <2> QED BY <2>2, <2>3, <2>4
<1> QED BY <1>2, <1>3, <1>6, <1>7, <1>8 DEF Queues

\* In a queue in order, what is due by a delay comes first.
LEMMA DueFirst ==
  ASSUME NEW q \in Queues, NEW delay \in Nat
  PROVE  \E p \in 0 .. Len(q) :
           /\ Cardinality({i \in DOMAIN q : q[i].in <= delay}) = p
           /\ \A i \in DOMAIN q : q[i].in <= delay <=> i <= p
<1>0. PICK L \in Nat : L = Len(q) /\ DOMAIN q = 1 .. L
  BY DEF Queues
<1>1. q \in Seq(QueuedEvents) /\ InOrder(q)
  BY DEF Queues
<1>2. \A i \in DOMAIN q : q[i].in \in Nat
  <2>1. \A i \in DOMAIN q : q[i] \in QueuedEvents BY <1>1
  <2> QED BY <2>1, EventKinds
<1>3. PICK p \in Nat :
        /\ p = L \/ (p + 1 \in DOMAIN q /\ q[p + 1].in > delay)
        /\ \A k \in Nat : k = L \/ (k + 1 \in DOMAIN q /\ q[k + 1].in > delay)
                            => p <= k
  <2> DEFINE Rest == {k \in Nat : k = L \/ (k + 1 \in DOMAIN q /\ q[k + 1].in > delay)}
  <2>1. Rest \in SUBSET Nat /\ Rest # {} OBVIOUS
  <2>2. PICK p \in Rest : \A k \in Rest : p <= k
    <3> HIDE DEF Rest
    <3> QED BY <2>1, LeastNatural
  <2> QED BY <2>2
<1>4. p <= L BY <1>3
<1>5. ASSUME NEW i \in 1 .. L PROVE q[i].in <= delay <=> i <= p
  <2>0. q[i].in \in Nat BY <1>0, <1>2
  <2>1. CASE i <= p
    <3>1. i - 1 \in Nat /\ ~(p <= i - 1) /\ (i - 1) + 1 = i BY <2>1
    <3>3. ~(q[i].in > delay) BY <1>0, <1>3, <3>1
    <3> QED BY <2>0, <2>1, <3>3
  <2>2. CASE ~(i <= p)
    <3>1. p # L /\ p + 1 <= i BY <1>4, <2>2
    <3>2. p + 1 \in DOMAIN q /\ q[p + 1].in > delay BY <1>3, <3>1
    <3>3. q[p + 1].in \in Nat BY <1>2, <3>2
    <3>4. q[p + 1].in <= q[i].in
      <4>1. CASE p + 1 = i BY <3>3, <4>1
      <4>2. CASE p + 1 < i BY <1>0, <1>1, <3>2, <4>2 DEF InOrder
      <4> QED BY <3>1, <4>1, <4>2
    <3> QED BY <2>0, <2>2, <3>2, <3>3, <3>4
  <2> QED BY <2>1, <2>2
<1>6. {i \in DOMAIN q : q[i].in <= delay} = 1 .. p BY <1>0, <1>4, <1>5
<1>7. Cardinality(1 .. p) = p
  <2>1. Cardinality(1 .. p) = IF 1 > p THEN 0 ELSE p - 1 + 1 BY FS_Interval
  <2> QED BY <2>1
<1>8. p \in 0 .. Len(q) BY <1>0, <1>4
<1>9. \A i \in DOMAIN q : q[i].in <= delay <=> i <= p BY <1>0, <1>5
<1> QED BY <1>6, <1>7, <1>8, <1>9

\* A sequence cut in two.
LEMMA CutLemma ==
  ASSUME NEW T, NEW q \in Seq(T), NEW p \in Nat, p <= Len(q)
  PROVE  /\ SubSeq(q, 1, p) \in Seq(T) /\ Len(SubSeq(q, 1, p)) = p
         /\ SubSeq(q, p + 1, Len(q)) \in Seq(T)
         /\ Len(SubSeq(q, p + 1, Len(q))) = Len(q) - p
         /\ q = SubSeq(q, 1, p) \o SubSeq(q, p + 1, Len(q))
<1>1. PICK L \in Nat : L = Len(q) /\ DOMAIN q = 1 .. L OBVIOUS
<1>2. \A i \in 1 .. L : q[i] \in T BY <1>1
<1>3. SubSeq(q, 1, p) \in Seq(T) /\ Len(SubSeq(q, 1, p)) = p
  <2>1. \A i \in 1 .. p : q[i] \in T BY <1>1, <1>2
  <2>2. /\ SubSeq(q, 1, p) \in Seq(T)
        /\ Len(SubSeq(q, 1, p)) = IF 1 <= p THEN p - 1 + 1 ELSE 0
    BY <2>1, SubSeqProperties
  <2> QED BY <2>2
<1>4. SubSeq(q, p + 1, L) \in Seq(T) /\ Len(SubSeq(q, p + 1, L)) = L - p
  <2>1. \A i \in (p + 1) .. L : q[i] \in T BY <1>2
  <2>2. /\ SubSeq(q, p + 1, L) \in Seq(T)
        /\ Len(SubSeq(q, p + 1, L)) = IF p + 1 <= L THEN L - (p + 1) + 1 ELSE 0
    BY <2>1, SubSeqProperties
  <2> QED BY <1>1, <2>2
<1>5. q = SubSeq(q, 1, p) \o SubSeq(q, p + 1, L)
  <2>1. 1 \in 1 .. Len(q) + 1 /\ p \in 1 - 1 .. Len(q) /\ L \in p .. Len(q) BY <1>1
  <2>2. SubSeq(q, 1, p) \o SubSeq(q, p + 1, L) = SubSeq(q, 1, L)
    BY <2>1, ConcatAdjacentSubSeq
  <2>3. SubSeq(q, 1, L) = q BY <1>1, SubSeqFull
  <2> QED BY <2>2, <2>3
<1> QED BY <1>1, <1>3, <1>4, <1>5

\* r is q with events of S after those that are due by delay.
Spliced(q, r, S, delay) ==
  \E p \in Nat, n \in Nat :
    /\ DOMAIN r = 1 .. (Len(q) + n) /\ p <= Len(q)
    /\ \A i \in DOMAIN q : q[i].in <= delay <=> i <= p
    /\ \A i \in DOMAIN r :
         /\ i <= p => i \in DOMAIN q /\ r[i] = q[i]
         /\ p < i /\ i <= p + n => r[i] \in S
         /\ i > p + n => i - n \in DOMAIN q /\ r[i] = q[i - n]

\* Scheduling puts the events between those that are due by then and the rest.
LEMMA ScheduleLemma ==
  ASSUME NEW q \in Queues, NEW delay \in Nat, NEW events,
         IsFiniteSet(Stamped(events, delay)),
         Stamped(events, delay) \subseteq QueuedEvents,
         \A e \in Stamped(events, delay) : e.in = delay,
         NEW r, r = ScheduleAll(q, delay, events)
  PROVE  /\ r \in Queues
         /\ \A E : Count(r, E) = Count(q, E) + Cardinality(Stamped(events, delay) \cap E)
         /\ \A E : Count(q, E) \in Nat
         /\ Spliced(q, r, Stamped(events, delay), delay)
<1>0. PICK L \in Nat : L = Len(q) /\ DOMAIN q = 1 .. L BY DEF Queues
<1>1. q \in Seq(QueuedEvents) /\ InOrder(q) BY DEF Queues
<1>2. PICK p \in Nat :
        /\ p <= L
        /\ Cardinality({i \in DOMAIN q : q[i].in <= delay}) = p
        /\ \A i \in DOMAIN q : q[i].in <= delay <=> i <= p
  <2>1. PICK p \in 0 .. Len(q) :
          /\ Cardinality({i \in DOMAIN q : q[i].in <= delay}) = p
          /\ \A i \in DOMAIN q : q[i].in <= delay <=> i <= p
    BY DueFirst
  <2>2. p \in Nat /\ p <= L BY <1>0
  <2> QED BY <2>1, <2>2
<1>3. PICK S : S = Stamped(events, delay) OBVIOUS
<1>4. PICK b : b = SetToSeq(S) OBVIOUS
<1>5. b \in Seq(S) BY <1>3, <1>4, SetToSeqLemma
<1>6. b \in Seq(QueuedEvents) BY <1>3, <1>5
<1>7. PICK a \in Seq(QueuedEvents), c \in Seq(QueuedEvents) :
        /\ a = SubSeq(q, 1, p) /\ c = SubSeq(q, p + 1, Len(q)) /\ q = a \o c
        /\ Len(a) = p /\ Len(c) = L - p
  <2>1. q \in Seq(QueuedEvents) /\ p \in Nat /\ p <= Len(q) BY <1>0, <1>1, <1>2
  <2>2. /\ SubSeq(q, 1, p) \in Seq(QueuedEvents) /\ Len(SubSeq(q, 1, p)) = p
        /\ SubSeq(q, p + 1, Len(q)) \in Seq(QueuedEvents)
        /\ Len(SubSeq(q, p + 1, Len(q))) = Len(q) - p
        /\ q = SubSeq(q, 1, p) \o SubSeq(q, p + 1, Len(q))
    BY ONLY <2>1, CutLemma
  <2> QED BY <1>0, <2>2
<1>8. PICK n \in Nat : n = Len(b) /\ DOMAIN b = 1 .. n BY <1>5
<1>9. r = (a \o b) \o c
  BY <1>2, <1>3, <1>4, <1>7 DEF ScheduleAll, Stamped
<1>10. /\ a \o b \in Seq(QueuedEvents) /\ Len(a \o b) = p + n
       /\ \A i \in 1 .. (p + n) : (a \o b)[i] = IF i <= p THEN a[i] ELSE b[i - p]
  <2>1. a \in Seq(QueuedEvents) /\ b \in Seq(QueuedEvents) BY <1>6
  <2>2. /\ a \o b \in Seq(QueuedEvents) /\ Len(a \o b) = Len(a) + Len(b)
        /\ \A i \in 1 .. Len(a) + Len(b) :
             (a \o b)[i] = IF i <= Len(a) THEN a[i] ELSE b[i - Len(a)]
    BY ONLY <2>1, ConcatProperties
  <2>3. Len(a) = p /\ Len(b) = n BY <1>7, <1>8
  <2> QED BY ONLY <2>2, <2>3
<1>11. /\ r \in Seq(QueuedEvents) /\ Len(r) = L + n
       /\ \A i \in 1 .. (L + n) :
            r[i] = IF i <= p + n THEN (a \o b)[i] ELSE c[i - (p + n)]
  <2>1. /\ r \in Seq(QueuedEvents) /\ Len(r) = (p + n) + (L - p)
        /\ \A i \in 1 .. ((p + n) + (L - p)) :
             r[i] = IF i <= p + n THEN (a \o b)[i] ELSE c[i - (p + n)]
    <3>1. PICK ab \in Seq(QueuedEvents) : ab = a \o b BY <1>10
    <3>2. c \in Seq(QueuedEvents) /\ Len(ab) = p + n /\ Len(c) = L - p
      BY <1>7, <1>10, <3>1
    <3>3. /\ ab \o c \in Seq(QueuedEvents) /\ Len(ab \o c) = Len(ab) + Len(c)
          /\ \A i \in 1 .. Len(ab) + Len(c) :
               (ab \o c)[i] = IF i <= Len(ab) THEN ab[i] ELSE c[i - Len(ab)]
      BY ONLY <3>2, ab \in Seq(QueuedEvents), ConcatProperties
    <3>4. r = ab \o c BY <1>9, <3>1
    <3> QED BY ONLY <3>1, <3>2, <3>3, <3>4
  <2>2. (p + n) + (L - p) = L + n OBVIOUS
  <2> QED BY <2>1, <2>2
<1>12. \A i \in 1 .. L : q[i] = IF i <= p THEN a[i] ELSE c[i - p]
  <2>1. \A i \in 1 .. (p + (L - p)) : q[i] = IF i <= p THEN a[i] ELSE c[i - p]
    <3>1. \A i \in 1 .. Len(a) + Len(c) :
            (a \o c)[i] = IF i <= Len(a) THEN a[i] ELSE c[i - Len(a)]
      BY ONLY a \in Seq(QueuedEvents), c \in Seq(QueuedEvents), ConcatProperties
    <3>2. Len(a) = p /\ Len(c) = L - p /\ q = a \o c BY <1>7
    <3> QED BY ONLY <3>1, <3>2
  <2>2. p + (L - p) = L OBVIOUS
  <2> QED BY <2>1, <2>2
<1>13. DOMAIN r = 1 .. (L + n) BY <1>11
<1>14. ASSUME NEW i \in 1 .. (L + n)
       PROVE  /\ i <= p => i \in 1 .. L /\ r[i] = q[i]
              /\ p < i /\ i <= p + n => r[i] \in S
              /\ i > p + n => i - n \in 1 .. L /\ r[i] = q[i - n]
  <2>1. CASE i <= p
    <3>1. i \in 1 .. L /\ i \in 1 .. (p + n) /\ i <= p + n BY <1>2, <2>1
    <3>2. r[i] = a[i] BY <1>10, <1>11, <2>1, <3>1
    <3>3. q[i] = a[i] BY <1>12, <2>1, <3>1
    <3> QED BY <2>1, <3>1, <3>2, <3>3
  <2>2. CASE p < i /\ i <= p + n
    <3>1. i \in 1 .. (p + n) /\ ~(i <= p) /\ i - p \in 1 .. n BY <1>2, <2>2
    <3>2. r[i] = b[i - p] BY <1>10, <1>11, <2>2, <3>1
    <3>3. b[i - p] \in S BY <1>5, <1>8, <3>1
    <3> QED BY <2>2, <3>1, <3>2, <3>3
  <2>3. CASE i > p + n
    <3>1. i - n \in 1 .. L /\ ~(i <= p + n) /\ ~(i - n <= p) BY <1>2, <2>3
    <3>2. r[i] = c[i - (p + n)] BY <1>11, <3>1
    <3>3. q[i - n] = c[(i - n) - p] BY <1>12, <3>1
    <3>4. (i - n) - p = i - (p + n) OBVIOUS
    <3>5. ~(i <= p) BY <2>3
    <3> QED BY <3>1, <3>2, <3>3, <3>4, <3>5
  <2> QED BY <2>1, <2>2, <2>3
<1>15. \A k \in 1 .. L : q[k].in \in Nat
  <2>1. \A k \in 1 .. L : q[k] \in QueuedEvents BY <1>0, <1>1
  <2> QED BY <2>1, EventKinds
<1>16. InOrder(r)
  <2> SUFFICES ASSUME NEW i \in 1 .. (L + n), NEW j \in 1 .. (L + n), i < j
               PROVE  r[i].in <= r[j].in
    BY <1>13 DEF InOrder
  <2>1. \A k \in 1 .. L : q[k].in <= delay <=> k <= p BY <1>0, <1>2
  <2>2. \A k, l \in 1 .. L : k < l => q[k].in <= q[l].in BY <1>0, <1>1 DEF InOrder
  <2>3. CASE i <= p
    <3>1. r[i] = q[i] /\ i \in 1 .. L /\ q[i].in <= delay BY <1>14, <2>1, <2>3
    <3>2. CASE j <= p BY <1>14, <2>2, <3>1, <3>2
    <3>3. CASE p < j /\ j <= p + n
      <4>1. r[j].in = delay BY <1>3, <1>14, <3>3
      <4> QED BY <3>1, <4>1
    <3>4. CASE j > p + n
      <4>1. j - n \in 1 .. L /\ r[j] = q[j - n] BY <1>14, <3>4
      <4>2. i < j - n BY <2>3, <3>4
      <4> QED BY <2>2, <3>1, <4>1, <4>2
    <3> QED BY <3>2, <3>3, <3>4
  <2>4. CASE p < i /\ i <= p + n
    <3>1. r[i].in = delay BY <1>3, <1>14, <2>4
    <3>2. CASE j <= p + n
      <4>1. p < j BY <2>4
      <4>2. r[j].in = delay BY <1>3, <1>14, <3>2, <4>1
      <4> QED BY <3>1, <4>2
    <3>3. CASE j > p + n
      <4>1. j - n \in 1 .. L /\ r[j] = q[j - n] BY <1>14, <3>3
      <4>2. ~(j - n <= p) BY <3>3
      <4>3. ~(q[j - n].in <= delay) /\ q[j - n].in \in Nat BY <1>15, <2>1, <4>1, <4>2
      <4> QED BY <3>1, <4>1, <4>3
    <3> QED BY <3>2, <3>3
  <2>5. CASE i > p + n
    <3>1. j > p + n /\ i - n < j - n BY <2>5
    <3>2. /\ i - n \in 1 .. L /\ r[i] = q[i - n] /\ j - n \in 1 .. L
          /\ r[j] = q[j - n]
      BY <1>14, <2>5, <3>1
    <3> QED BY <2>2, <3>1, <3>2
  <2> QED BY <2>3, <2>4, <2>5
<1>17. ASSUME NEW E
       PROVE  /\ Count(r, E) = Count(q, E) + Cardinality(S \cap E)
              /\ Count(q, E) \in Nat
  <2>1. PICK ab \in Seq(QueuedEvents) : ab = a \o b BY <1>10
  <2>2. r = ab \o c BY <1>9, <2>1
  <2>3. Count(r, E) = Count(ab, E) + Count(c, E) BY <2>2, CountConcat
  <2>4. Count(ab, E) = Count(a, E) + Count(b, E) BY <1>6, <2>1, CountConcat
  <2>5. Count(q, E) = Count(a, E) + Count(c, E) 
    <3>1. Count(a \o c, E) = Count(a, E) + Count(c, E) BY CountConcat
    <3> QED BY <1>7, <3>1
  <2>6. Count(b, E) = Cardinality(S \cap E) BY <1>3, <1>4, CountSet
  <2>7. Count(a, E) \in Nat /\ Count(b, E) \in Nat /\ Count(c, E) \in Nat
    BY <1>6, CountType
  <2> QED BY <2>3, <2>4, <2>5, <2>6, <2>7
<1>18. r \in Queues BY <1>11, <1>16 DEF Queues
<1>19. /\ DOMAIN r = 1 .. (Len(q) + n) /\ p <= Len(q)
       /\ \A i \in DOMAIN r :
            /\ i <= p => i \in DOMAIN q /\ r[i] = q[i]
            /\ p < i /\ i <= p + n => r[i] \in Stamped(events, delay)
            /\ i > p + n => i - n \in DOMAIN q /\ r[i] = q[i - n]
  BY <1>0, <1>2, <1>3, <1>13, <1>14
<1>20. Spliced(q, r, Stamped(events, delay), delay) BY <1>2, <1>19 DEF Spliced
<1> QED BY <1>3, <1>17, <1>18, <1>20

-----------------------------------------------------------------------------
\* What is true of a monster in state s, and of a user, while the queue is q.

MonsterOK(s, m, q) ==
  /\ s \in MonsterStates
  /\ Count(q, Of("MONSTER_RESPAWN", m)) = IF s.hp = 0 THEN 1 ELSE 0
  /\ s.hp = 0 => ~s.active
  /\ s.type = "AGGRO" /\ s.active => Count(q, Of("AGGRO_MOVE", m)) > 0

UserOK(s, u, q) ==
  /\ s \in UserStates
  /\ s.at = "world" =>
       /\ Count(q, Of("USER_RESPAWN", u)) = IF s.hp = 0 THEN 1 ELSE 0
       /\ s.hp > 0 => Count(q, Of("HEAL", u)) = 1
       /\ Count(q, Of("HEAL", u)) <= 1
       /\ HealsFirst(q, u)
  /\ s.at = "new" => /\ s.hp > 0
                     /\ Count(q, Of("HEAL", u)) = 0
                     /\ Count(q, Of("USER_RESPAWN", u)) = 0

\* A change of the queue that does not matter to m, or to u.
SameMonster(q, r, m) ==
  /\ Count(r, Of("MONSTER_RESPAWN", m)) = Count(q, Of("MONSTER_RESPAWN", m))
  /\ Count(q, Of("AGGRO_MOVE", m)) > 0 => Count(r, Of("AGGRO_MOVE", m)) > 0

SameUser(q, r, u) ==
  /\ Count(r, Of("HEAL", u)) = Count(q, Of("HEAL", u))
  /\ Count(r, Of("USER_RESPAWN", u)) = Count(q, Of("USER_RESPAWN", u))
  /\ HealsFirst(q, u) => HealsFirst(r, u)

LEMMA KeepMonster ==
  ASSUME NEW s, NEW m, NEW q, NEW r, MonsterOK(s, m, q), SameMonster(q, r, m)
  PROVE  MonsterOK(s, m, r)
BY DEF MonsterOK, SameMonster

LEMMA KeepUser ==
  ASSUME NEW s, NEW u, NEW q, NEW r, UserOK(s, u, q), SameUser(q, r, u)
  PROVE  UserOK(s, u, r)
BY DEF UserOK, SameUser

\* The first event leaves: it matters to the one it is about.
LEMMA TailKeeps ==
  ASSUME NEW q \in Queues, q # <<>>, NEW h, h = Head(q), NEW t, t = Tail(q)
  PROVE  /\ h \in QueuedEvents /\ t \in Queues
         /\ \A m \in Monsters :
              ~(h.ev \in {"MONSTER_RESPAWN", "AGGRO_MOVE"} /\ h.m = m) => SameMonster(q, t, m)
         /\ \A u \in Users :
              ~(h.ev \in {"HEAL", "USER_RESPAWN"} /\ h.u = u) => SameUser(q, t, u)
<1>1. /\ h \in QueuedEvents /\ t \in Queues
      /\ \A E : Count(t, E) = Count(q, E) - (IF h \in E THEN 1 ELSE 0)
      /\ \A E : Count(q, E) \in Nat /\ Count(t, E) \in Nat
      /\ \A u : HealsFirst(q, u) => HealsFirst(t, u)
  BY TailLemma
<1>2. \A E : h \notin E => Count(t, E) = Count(q, E) BY <1>1
<1>3. ASSUME NEW m \in Monsters, ~(h.ev \in {"MONSTER_RESPAWN", "AGGRO_MOVE"} /\ h.m = m)
      PROVE  SameMonster(q, t, m)
  <2>1. m # None /\ m \notin Users BY LifeAssumption
  <2>2. h \notin Of("MONSTER_RESPAWN", m) BY <1>1, <1>3, <2>1, EventKinds DEF Of
  <2>3. h \notin Of("AGGRO_MOVE", m) BY <1>1, <1>3, <2>1, EventKinds DEF Of
  <2> QED BY <1>2, <2>2, <2>3 DEF SameMonster
<1>4. ASSUME NEW u \in Users, ~(h.ev \in {"HEAL", "USER_RESPAWN"} /\ h.u = u)
      PROVE  SameUser(q, t, u)
  <2>1. u # None BY LifeAssumption
  <2>2. h \notin Of("HEAL", u) /\ h \notin Of("USER_RESPAWN", u)
    BY <1>1, <1>4, <2>1, EventKinds DEF Of
  <2> QED BY <1>1, <1>2, <2>2 DEF SameUser
<1> QED BY <1>1, <1>3, <1>4

\* r is queue q with the events of S added.
Added(q, r, S) ==
  /\ r \in Queues
  /\ \A E : Count(q, E) \in Nat /\ Count(r, E) \in Nat /\ Count(r, E) >= Count(q, E)
  /\ \A E : S \cap E = {} => Count(r, E) = Count(q, E)
  /\ \A E : \A e : S \cap E = {e} => Count(r, E) = Count(q, E) + 1
  /\ \A E : S \cap E # {} => Count(r, E) > 0
  /\ \A u \in Users :
       /\ \A e \in S : e.ev \notin {"HEAL", "USER_RESPAWN"} \/ e.u # u
       => SameUser(q, r, u)

\* Events are scheduled.
LEMMA AddKeeps ==
  ASSUME NEW q \in Queues, NEW delay \in Nat, NEW events,
         IsFiniteSet(Stamped(events, delay)),
         Stamped(events, delay) \subseteq QueuedEvents,
         \A e \in Stamped(events, delay) : e.in = delay,
         NEW r, r = ScheduleAll(q, delay, events)
  PROVE  Added(q, r, Stamped(events, delay))
<1> DEFINE St == Stamped(events, delay)
<1>1. /\ r \in Queues
      /\ \A E : Count(r, E) = Count(q, E) + Cardinality(St \cap E)
      /\ \A E : Count(q, E) \in Nat
  BY ScheduleLemma
<1>2. PICK p \in Nat, n \in Nat :
        /\ DOMAIN r = 1 .. (Len(q) + n) /\ p <= Len(q)
        /\ \A i \in DOMAIN q : q[i].in <= delay <=> i <= p
        /\ \A i \in DOMAIN r :
             /\ i <= p => i \in DOMAIN q /\ r[i] = q[i]
             /\ p < i /\ i <= p + n => r[i] \in St
             /\ i > p + n => i - n \in DOMAIN q /\ r[i] = q[i - n]
  <2>1. Spliced(q, r, Stamped(events, delay), delay) BY ScheduleLemma
  <2> QED BY <2>1 DEF Spliced
<1>3. IsFiniteSet(St) /\ St \subseteq QueuedEvents OBVIOUS
<1> HIDE DEF St
<1>4. \A E : Cardinality(St \cap E) \in Nat
  <2> SUFFICES ASSUME NEW E PROVE Cardinality(St \cap E) \in Nat OBVIOUS
  <2>1. IsFiniteSet(St \cap E) BY <1>3, FS_Subset
  <2> QED BY <2>1, FS_CardinalityType
<1>5. \A E : St \cap E = {} => Count(r, E) = Count(q, E)
  <2>1. Cardinality({}) = 0 BY FS_EmptySet
  <2> QED BY <1>1, <2>1
<1>6. ASSUME NEW E, NEW e, St \cap E = {e} PROVE Count(r, E) = Count(q, E) + 1
  <2>1. Cardinality({e}) = 1 BY FS_Singleton
  <2> QED BY <1>1, <1>6, <2>1
<1>7. ASSUME NEW E
      PROVE  /\ Count(r, E) \in Nat /\ Count(r, E) >= Count(q, E)
             /\ St \cap E # {} => Count(r, E) > 0
  <2>1. /\ Count(r, E) = Count(q, E) + Cardinality(St \cap E)
        /\ Count(q, E) \in Nat /\ Cardinality(St \cap E) \in Nat
    BY <1>1, <1>4
  <2>2. St \cap E # {} => Cardinality(St \cap E) # 0
    <3>1. IsFiniteSet(St \cap E) BY <1>3, FS_Subset
    <3> QED BY <3>1, FS_EmptySet
  <2> QED BY <2>1, <2>2
<1>8. ASSUME NEW u \in Users, \A e \in St : e.ev \notin {"HEAL", "USER_RESPAWN"} \/ e.u # u
      PROVE  SameUser(q, r, u)
  <2>1. u # None BY LifeAssumption
  <2>2. St \cap Of("HEAL", u) = {} /\ St \cap Of("USER_RESPAWN", u) = {}
    BY <1>3, <1>8, <2>1, EventKinds DEF Of
  <2>3. ASSUME HealsFirst(q, u) PROVE HealsFirst(r, u)
    <3> SUFFICES ASSUME NEW i \in DOMAIN r, NEW j \in DOMAIN r,
                        r[i].ev = "HEAL", r[i].u = u,
                        r[j].ev = "USER_RESPAWN", r[j].u = u
                 PROVE  i < j
      BY DEF HealsFirst
    <3>0. i \in Nat /\ j \in Nat
      <4>1. Len(q) \in Nat BY DEF Queues
      <4> QED BY <1>2, <4>1
    <3>1. r[i] \notin St /\ r[j] \notin St BY <1>8
    <3>2. i <= p \/ i > p + n BY <1>2, <3>0, <3>1
    <3>3. j <= p \/ j > p + n BY <1>2, <3>0, <3>1
    <3>4. \A k, l \in DOMAIN q :
            /\ q[k].ev = "HEAL" /\ q[k].u = u /\ q[l].ev = "USER_RESPAWN" /\ q[l].u = u
            => k < l
      BY <2>3 DEF HealsFirst
    <3>5. CASE i <= p /\ j <= p
      <4>1. i \in DOMAIN q /\ r[i] = q[i] /\ j \in DOMAIN q /\ r[j] = q[j] BY <1>2, <3>5
      <4> QED BY <3>4, <4>1
    <3>6. CASE i <= p /\ j > p + n BY <3>0, <3>6
    <3>7. CASE i > p + n /\ j <= p
      <4>1. i - n \in DOMAIN q /\ r[i] = q[i - n] /\ j \in DOMAIN q /\ r[j] = q[j]
        BY <1>2, <3>7
      <4>2. i - n < j BY <3>4, <4>1
      <4> QED BY <3>0, <3>7, <4>2
    <3>8. CASE i > p + n /\ j > p + n
      <4>1. i - n \in DOMAIN q /\ r[i] = q[i - n] /\ j - n \in DOMAIN q /\ r[j] = q[j - n]
        BY <1>2, <3>8
      <4>2. i - n < j - n BY <3>4, <4>1
      <4> QED BY <3>0, <4>2
    <3> QED BY <3>2, <3>3, <3>5, <3>6, <3>7, <3>8
  <2> QED BY <1>5, <2>2, <2>3 DEF SameUser
<1> QED BY <1>1, <1>5, <1>6, <1>7, <1>8 DEF St, Added

\* Steps and blows of monsters, and wake-ups.
LEMMA AddMoves ==
  ASSUME NEW q \in Queues, NEW delay \in Nat, NEW events, IsFiniteSet(events),
         events \subseteq QueuedEvents,
         \A e \in events : e.ev \in {"RANDOM_MOVE", "AGGRO_MOVE", "MONSTER_ATTACK"},
         NEW r, r = ScheduleAll(q, delay, events)
  PROVE  /\ r \in Queues
         /\ \A m \in Monsters : SameMonster(q, r, m)
         /\ \A u \in Users : SameUser(q, r, u)
         /\ \A e \in events : e.ev = "AGGRO_MOVE" => Count(r, Of("AGGRO_MOVE", e.m)) > 0
<1> DEFINE St == Stamped(events, delay)
<1>1. IsFiniteSet(St)
  <2>1. PICK f : f = [e \in events |-> [e EXCEPT !.in = delay]] OBVIOUS
  <2>2. IsFiniteSet({f[e] : e \in events}) BY <2>1, FiniteValues
  <2>3. {f[e] : e \in events} = St BY <2>1 DEF Stamped
  <2> QED BY <2>2, <2>3
<1>2. \A e \in events : /\ [e EXCEPT !.in = delay] \in QueuedEvents
                        /\ [e EXCEPT !.in = delay].in = delay
                        /\ [e EXCEPT !.in = delay].ev = e.ev
                        /\ [e EXCEPT !.in = delay].m = e.m
  BY DEF QueuedEvents
<1>3. /\ St \subseteq QueuedEvents /\ \A e \in St : e.in = delay
      /\ \A e \in St : e.ev \in {"RANDOM_MOVE", "AGGRO_MOVE", "MONSTER_ATTACK"}
  BY <1>2 DEF Stamped
<1>4. /\ r \in Queues
      /\ \A E : Count(q, E) \in Nat /\ Count(r, E) \in Nat /\ Count(r, E) >= Count(q, E)
      /\ \A E : St \cap E = {} => Count(r, E) = Count(q, E)
      /\ \A E : St \cap E # {} => Count(r, E) > 0
      /\ \A u \in Users :
           /\ \A e \in St : e.ev \notin {"HEAL", "USER_RESPAWN"} \/ e.u # u
           => SameUser(q, r, u)
  <2>1. Added(q, r, St) BY <1>1, <1>3, AddKeeps
  <2> QED BY <2>1 DEF Added
<1>5. \A u \in Users : SameUser(q, r, u) BY <1>3, <1>4
<1>6. ASSUME NEW m \in Monsters PROVE SameMonster(q, r, m)
  <2>1. St \cap Of("MONSTER_RESPAWN", m) = {} BY <1>3 DEF Of
  <2> QED BY <1>4, <2>1 DEF SameMonster
<1>7. ASSUME NEW e \in events, e.ev = "AGGRO_MOVE"
      PROVE  Count(r, Of("AGGRO_MOVE", e.m)) > 0
  <2>1. PICK x : x = [e EXCEPT !.in = delay] OBVIOUS
  <2>2. x \in St \cap Of("AGGRO_MOVE", e.m) BY <1>2, <1>7, <2>1 DEF Stamped, Of
  <2> QED BY <1>4, <2>2
<1> QED BY <1>4, <1>5, <1>6, <1>7

\* Respawns of monsters.
Respawns(killed) == {MonsterEvent("MONSTER_RESPAWN", m, None) : m \in killed}

LEMMA AddRespawns ==
  ASSUME NEW q \in Queues, NEW killed \in SUBSET Monsters, NEW r,
         r = ScheduleAll(q, RespawnDelay, Respawns(killed))
  PROVE  /\ r \in Queues
         /\ \A m \in Monsters \ killed : SameMonster(q, r, m)
         /\ \A m \in killed : Count(r, Of("MONSTER_RESPAWN", m))
                                = Count(q, Of("MONSTER_RESPAWN", m)) + 1
         /\ \A u \in Users : SameUser(q, r, u)
<1> DEFINE events == {MonsterEvent("MONSTER_RESPAWN", m, None) : m \in killed}
           event(m) == [ev |-> "MONSTER_RESPAWN", m |-> m, u |-> None, in |-> RespawnDelay]
           St == Stamped(events, RespawnDelay)
<1>1. St = {event(m) : m \in killed}
  <2>1. \A m \in killed :
          [MonsterEvent("MONSTER_RESPAWN", m, None) EXCEPT !.in = RespawnDelay] = event(m)
    BY DEF MonsterEvent
  <2>2. St = {[MonsterEvent("MONSTER_RESPAWN", m, None) EXCEPT !.in = RespawnDelay] :
                m \in killed}
    BY DEF Stamped
  <2> HIDE DEF event, events, St
  <2>3. ASSUME NEW e \in St PROVE e \in {event(m) : m \in killed} BY <2>1, <2>2
  <2>4. ASSUME NEW m \in killed PROVE event(m) \in St BY <2>1, <2>2
  <2> QED BY <2>3, <2>4
<1>2. IsFiniteSet(St)
  <2>1. PICK f : f = [m \in killed |-> event(m)] OBVIOUS
  <2>2. IsFiniteSet(killed) BY LifeAssumption, FS_Subset
  <2>3. IsFiniteSet({f[m] : m \in killed}) BY <2>1, <2>2, FiniteValues
  <2>4. {f[m] : m \in killed} = St BY <1>1, <2>1
  <2> QED BY <2>3, <2>4
<1>3. RespawnDelay \in Nat BY LifeAssumption
<1>4. /\ St \subseteq QueuedEvents /\ \A e \in St : e.in = RespawnDelay
      /\ \A e \in St : e.ev = "MONSTER_RESPAWN"
  BY <1>1, <1>3 DEF QueuedEvents
<1>5. \A m \in Monsters : /\ m \notin killed => St \cap Of("MONSTER_RESPAWN", m) = {}
                          /\ m \in killed => St \cap Of("MONSTER_RESPAWN", m) = {event(m)}
  <2> SUFFICES ASSUME NEW m \in Monsters
               PROVE  /\ m \notin killed => St \cap Of("MONSTER_RESPAWN", m) = {}
                      /\ m \in killed => St \cap Of("MONSTER_RESPAWN", m) = {event(m)}
    OBVIOUS
  <2>1. m # None BY LifeAssumption
  <2>2. ASSUME NEW k \in killed PROVE event(k) \in Of("MONSTER_RESPAWN", m) <=> k = m
    <3>1. event(k) \in QueuedEvents BY <1>1, <1>4
    <3> QED BY <2>1, <3>1 DEF Of
  <2> QED BY <1>1, <2>2
<1>6. r = ScheduleAll(q, RespawnDelay, events) BY DEF Respawns
<1> HIDE DEF events, event
<1>7. /\ r \in Queues
      /\ \A E : Count(q, E) \in Nat /\ Count(r, E) \in Nat /\ Count(r, E) >= Count(q, E)
      /\ \A E : St \cap E = {} => Count(r, E) = Count(q, E)
      /\ \A E : \A e : St \cap E = {e} => Count(r, E) = Count(q, E) + 1
      /\ \A u \in Users :
           /\ \A e \in St : e.ev \notin {"HEAL", "USER_RESPAWN"} \/ e.u # u
           => SameUser(q, r, u)
  <2>1. Added(q, r, St) BY <1>2, <1>3, <1>4, <1>6, AddKeeps
  <2> QED BY <2>1 DEF Added
<1>8. \A u \in Users : SameUser(q, r, u) BY <1>4, <1>7
<1>9. ASSUME NEW m \in Monsters \ killed PROVE SameMonster(q, r, m)
  BY <1>5, <1>7 DEF SameMonster
<1>10. ASSUME NEW m \in killed
       PROVE  Count(r, Of("MONSTER_RESPAWN", m)) = Count(q, Of("MONSTER_RESPAWN", m)) + 1
  BY <1>5, <1>7
<1> QED BY <1>7, <1>8, <1>9, <1>10

\* An event of user u, its next heal or its respawn.
LEMMA AddUserEvent ==
  ASSUME NEW q \in Queues, NEW u \in Users, NEW ev \in {"HEAL", "USER_RESPAWN"},
         NEW delay \in Nat, ev = "HEAL" => delay = HealDelay,
         ev = "USER_RESPAWN" => delay > HealDelay,
         NEW r, r = ScheduleAfter(q, delay, UserEvent(ev, u))
  PROVE  /\ r \in Queues
         /\ \A m \in Monsters : SameMonster(q, r, m)
         /\ \A v \in Users \ {u} : SameUser(q, r, v)
         /\ Count(r, Of(ev, u)) = Count(q, Of(ev, u)) + 1
         /\ \A other \in {"HEAL", "USER_RESPAWN"} \ {ev} :
              Count(r, Of(other, u)) = Count(q, Of(other, u))
         /\ Count(q, Of("USER_RESPAWN", u)) = 0 => HealsFirst(r, u)
         /\ \A E : Count(q, E) \in Nat
<1> DEFINE x == [ev |-> ev, m |-> None, u |-> u, in |-> delay]
           events == {UserEvent(ev, u)}
           St == Stamped(events, delay)
<1>0. HealDelay \in Nat BY LifeAssumption
<1>1. St = {x} BY DEF Stamped, UserEvent
<1>2. IsFiniteSet(St) BY <1>1, FS_Singleton
<1>3. x \in QueuedEvents BY <1>0 DEF QueuedEvents
<1>4. St \subseteq QueuedEvents /\ \A e \in St : e.in = delay /\ e.ev = ev /\ e.u = u
  BY <1>1, <1>3
<1>5. r = ScheduleAll(q, delay, events) BY DEF ScheduleAfter
<1>6. /\ St \cap Of(ev, u) = {x}
      /\ \A other \in {"HEAL", "USER_RESPAWN"} \ {ev} : St \cap Of(other, u) = {}
      /\ \A m : St \cap Of("MONSTER_RESPAWN", m) = {} /\ St \cap Of("AGGRO_MOVE", m) = {}
  BY <1>1, <1>3 DEF Of
<1> HIDE DEF x, events
<1>7. /\ r \in Queues
      /\ \A E : Count(q, E) \in Nat /\ Count(r, E) \in Nat /\ Count(r, E) >= Count(q, E)
      /\ \A E : St \cap E = {} => Count(r, E) = Count(q, E)
      /\ \A E : \A e : St \cap E = {e} => Count(r, E) = Count(q, E) + 1
      /\ \A v \in Users :
           /\ \A e \in St : e.ev \notin {"HEAL", "USER_RESPAWN"} \/ e.u # v
           => SameUser(q, r, v)
  <2>1. Added(q, r, St) BY <1>2, <1>4, <1>5, AddKeeps
  <2> QED BY <2>1 DEF Added
<1>8. \A v \in Users \ {u} : SameUser(q, r, v) BY <1>4, <1>7
<1>9. \A m \in Monsters : SameMonster(q, r, m) BY <1>6, <1>7 DEF SameMonster
<1>10. Count(r, Of(ev, u)) = Count(q, Of(ev, u)) + 1 BY <1>6, <1>7
<1>11. \A other \in {"HEAL", "USER_RESPAWN"} \ {ev} :
         Count(r, Of(other, u)) = Count(q, Of(other, u))
  BY <1>6, <1>7
<1>12. ASSUME Count(q, Of("USER_RESPAWN", u)) = 0 PROVE HealsFirst(r, u)
  <2> SUFFICES ASSUME NEW i \in DOMAIN r, NEW j \in DOMAIN r,
                      r[i].ev = "HEAL", r[i].u = u,
                      r[j].ev = "USER_RESPAWN", r[j].u = u
               PROVE  i < j
    BY DEF HealsFirst
  <2>1. Spliced(q, r, St, delay) BY <1>2, <1>4, <1>5, ScheduleLemma
  <2>2. PICK p \in Nat, n \in Nat :
          /\ DOMAIN r = 1 .. (Len(q) + n) /\ p <= Len(q)
          /\ \A k \in DOMAIN q : q[k].in <= delay <=> k <= p
          /\ \A k \in DOMAIN r :
               /\ k <= p => k \in DOMAIN q /\ r[k] = q[k]
               /\ p < k /\ k <= p + n => r[k] \in St
               /\ k > p + n => k - n \in DOMAIN q /\ r[k] = q[k - n]
    BY <2>1 DEF Spliced
  <2>3. i \in Nat /\ j \in Nat
    <3>1. Len(q) \in Nat BY DEF Queues
    <3> QED BY <2>2, <3>1
  <2>4. \A k \in DOMAIN q : q[k] \in QueuedEvents BY DEF Queues
  <2>5. \A k \in DOMAIN q : ~(q[k].ev = "USER_RESPAWN" /\ q[k].u = u)
    <3>1. \A k \in DOMAIN q : q[k] \notin Of("USER_RESPAWN", u)
      BY <1>12, CountType DEF Queues
    <3> QED BY <2>4, <3>1 DEF Of
  <2>6. p < j /\ j <= p + n
    <3>1. ~(j <= p) BY <2>2, <2>5
    <3>2. ~(j > p + n) BY <2>2, <2>5
    <3> QED BY <2>3, <3>1, <3>2
  <2>7. r[j] \in St BY <2>2, <2>6
  <2>8. ev = "USER_RESPAWN" BY <1>4, <2>7
  <2>9. ~(p < i /\ i <= p + n) BY <1>4, <2>2, <2>8
  <2>10. ~(i > p + n)
    <3> SUFFICES ASSUME i > p + n PROVE FALSE OBVIOUS
    <3>1. i - n \in DOMAIN q /\ r[i] = q[i - n] /\ ~(i - n <= p) BY <2>2, <2>3
    <3>2. q[i - n].in <= HealDelay /\ q[i - n].in \in Nat BY <2>4, <3>1, EventKinds
    <3>3. q[i - n].in <= delay BY <1>0, <2>8, <3>2
    <3> QED BY <2>2, <3>1, <3>3
  <2> QED BY <2>3, <2>6, <2>9, <2>10
<1> QED BY <1>7, <1>8, <1>9, <1>10, <1>11, <1>12

\* Time passes.
LEMMA TickKeeps ==
  ASSUME NEW q \in Queues, NEW r,
         r = [i \in DOMAIN q |-> [q[i] EXCEPT !.in = IF @ = 0 THEN 0 ELSE @ - 1]]
  PROVE  /\ r \in Queues
         /\ \A m \in Monsters : SameMonster(q, r, m)
         /\ \A u \in Users : SameUser(q, r, u)
<1>1. /\ q \in Seq(QueuedEvents) /\ InOrder(q) BY DEF Queues
<1>2. PICK L \in Nat : L = Len(q) /\ DOMAIN q = 1 .. L BY <1>1
<1>3. DOMAIN r = DOMAIN q OBVIOUS
<1>4. ASSUME NEW i \in DOMAIN q
      PROVE  /\ r[i] \in QueuedEvents /\ q[i] \in QueuedEvents /\ q[i].in \in Nat
             /\ r[i].ev = q[i].ev /\ r[i].m = q[i].m /\ r[i].u = q[i].u
             /\ r[i].in = IF q[i].in = 0 THEN 0 ELSE q[i].in - 1
  <2>1. PICK e \in QueuedEvents : e = q[i] BY <1>1
  <2>2. r[i] = [e EXCEPT !.in = IF e.in = 0 THEN 0 ELSE e.in - 1] BY <2>1
  <2>3. e.in \in Nat BY EventKinds
  <2>4. HealDelay \in Nat BY LifeAssumption
  <2>5. PICK k \in Nat : k = (IF e.in = 0 THEN 0 ELSE e.in - 1) /\ k <= e.in BY <2>3
  <2>6. [e EXCEPT !.in = k] \in QueuedEvents
    BY <2>3, <2>4, <2>5 DEF QueuedEvents
  <2>7. /\ [e EXCEPT !.in = k].ev = e.ev /\ [e EXCEPT !.in = k].m = e.m
        /\ [e EXCEPT !.in = k].u = e.u /\ [e EXCEPT !.in = k].in = k
    BY DEF QueuedEvents
  <2> QED BY <2>1, <2>2, <2>3, <2>5, <2>6, <2>7
<1>5. r \in Seq(QueuedEvents) BY <1>2, <1>3, <1>4
<1>6. InOrder(r)
  <2> SUFFICES ASSUME NEW i \in DOMAIN r, NEW j \in DOMAIN r, i < j
               PROVE  r[i].in <= r[j].in
    BY DEF InOrder
  <2>1. q[i].in <= q[j].in BY <1>1, <1>3 DEF InOrder
  <2> QED BY <1>3, <1>4, <2>1
<1>7. ASSUME NEW ev, NEW who PROVE Count(r, Of(ev, who)) = Count(q, Of(ev, who))
  <2>1. {i \in DOMAIN r : r[i] \in Of(ev, who)} = {i \in DOMAIN q : q[i] \in Of(ev, who)}
    BY <1>3, <1>4 DEF Of
  <2> QED BY <2>1 DEF Count
<1>8. ASSUME NEW u, HealsFirst(q, u) PROVE HealsFirst(r, u)
  <2> SUFFICES ASSUME NEW i \in DOMAIN q, NEW j \in DOMAIN q,
                      r[i].ev = "HEAL", r[i].u = u,
                      r[j].ev = "USER_RESPAWN", r[j].u = u
               PROVE  i < j
    BY <1>3 DEF HealsFirst
  <2>1. /\ q[i].ev = "HEAL" /\ q[i].u = u
        /\ q[j].ev = "USER_RESPAWN" /\ q[j].u = u
    BY <1>4
  <2> QED BY <1>8, <2>1 DEF HealsFirst
<1> QED BY <1>5, <1>6, <1>7, <1>8 DEF Queues, SameMonster, SameUser

-----------------------------------------------------------------------------
\* The steps.

\* LifeInv, monster by monster and user by user.
LifeOK ==
  /\ timers \in Queues
  /\ packets \in 0 .. MaxPackets /\ lives \in [Users -> 0 .. MaxLives]
  /\ monster \in [Monsters -> MonsterStates]
  /\ user \in [Users -> UserStates]
  /\ \A m \in Monsters : MonsterOK(monster[m], m, timers)
  /\ \A u \in Users : UserOK(user[u], u, timers)

\* Changes of the queue one after the other.
LEMMA SameTwice ==
  ASSUME NEW q, NEW r, NEW t, NEW who
  PROVE  /\ SameMonster(q, r, who) /\ SameMonster(r, t, who) => SameMonster(q, t, who)
         /\ SameUser(q, r, who) /\ SameUser(r, t, who) => SameUser(q, t, who)
BY DEF SameMonster, SameUser

\* Time passes.
LEMMA TickStep ==
  ASSUME LifeOK, Tick
  PROVE  LifeOK'
<1>1. PICK q \in Queues : q = timers BY DEF LifeOK
<1>2. /\ timers' \in Queues
      /\ \A m \in Monsters : SameMonster(timers, timers', m)
      /\ \A u \in Users : SameUser(timers, timers', u)
  <2>1. timers' = [i \in DOMAIN q |-> [q[i] EXCEPT !.in = IF @ = 0 THEN 0 ELSE @ - 1]]
    BY <1>1 DEF Tick
  <2> QED BY <1>1, <2>1, TickKeeps
<1>3. UNCHANGED <<monster, user, packets, lives>> BY DEF Tick
<1>4. \A m \in Monsters : MonsterOK(monster'[m], m, timers')
  BY <1>2, <1>3, KeepMonster DEF LifeOK
<1>5. \A u \in Users : UserOK(user'[u], u, timers')
  BY <1>2, <1>3, KeepUser DEF LifeOK
<1> QED BY <1>2, <1>3, <1>4, <1>5 DEF LifeOK

\* Monsters wake up and start their chains.
LEMMA WakeLemma ==
  ASSUME NEW q \in Queues, monster \in [Monsters -> MonsterStates],
         \A m \in Monsters : MonsterOK(monster[m], m, q),
         NEW woken \in SUBSET Monsters, \A m \in woken : monster[m].hp > 0,
         NEW u \in Users, NEW r, r = WithWoken(q, woken, u),
         NEW awake, awake = Activated(woken)
  PROVE  /\ r \in Queues /\ awake \in [Monsters -> MonsterStates]
         /\ \A m \in Monsters : MonsterOK(awake[m], m, r)
         /\ \A v \in Users : SameUser(q, r, v)
<1> DEFINE events == {FirstMove(m, u) : m \in woken}
<1>0. MoveDelay \in Nat BY LifeAssumption
<1>1. ASSUME NEW m \in woken
      PROVE  /\ FirstMove(m, u) \in QueuedEvents /\ FirstMove(m, u).m = m
             /\ FirstMove(m, u).ev \in {"RANDOM_MOVE", "AGGRO_MOVE"}
             /\ monster[m].type = "AGGRO" => FirstMove(m, u).ev = "AGGRO_MOVE"
  BY DEF FirstMove, MonsterEvent, QueuedEvents
<1>2. IsFiniteSet(events)
  <2>1. PICK f : f = [m \in woken |-> FirstMove(m, u)] OBVIOUS
  <2>2. IsFiniteSet(woken) BY LifeAssumption, FS_Subset
  <2>3. IsFiniteSet({f[m] : m \in woken}) BY <2>1, <2>2, FiniteValues
  <2>4. {f[m] : m \in woken} = events BY <2>1
  <2> QED BY <2>3, <2>4
<1>3. /\ events \subseteq QueuedEvents
      /\ \A e \in events : e.ev \in {"RANDOM_MOVE", "AGGRO_MOVE", "MONSTER_ATTACK"}
  BY <1>1
<1>4. r = ScheduleAll(q, MoveDelay, events) BY DEF WithWoken
<1>5. \A m \in woken : FirstMove(m, u) \in events OBVIOUS
<1> HIDE DEF events
<1>6. /\ r \in Queues
      /\ \A m \in Monsters : SameMonster(q, r, m)
      /\ \A v \in Users : SameUser(q, r, v)
      /\ \A e \in events : e.ev = "AGGRO_MOVE" => Count(r, Of("AGGRO_MOVE", e.m)) > 0
  BY <1>0, <1>2, <1>3, <1>4, AddMoves
<1>7. \A m \in Monsters : MonsterOK(monster[m], m, r) BY <1>6, KeepMonster
<1>8. ASSUME NEW m \in Monsters PROVE awake[m] \in MonsterStates /\ MonsterOK(awake[m], m, r)
  <2>1. CASE m \notin woken BY <1>7, <2>1 DEF Activated
  <2>2. CASE m \in woken
    <3>1. PICK s \in MonsterStates : s = monster[m] OBVIOUS
    <3>2. PICK a : a = [s EXCEPT !.active = TRUE] OBVIOUS
    <3>3. a \in MonsterStates /\ a.hp = s.hp /\ a.type = s.type
      BY <3>2 DEF MonsterStates
    <3>4. awake[m] = a BY <2>2, <3>1, <3>2 DEF Activated
    <3>5. a.hp # 0
      <4>1. s.hp \in Int /\ s.hp > 0 BY <2>2, <3>1, LifeAssumption DEF MonsterStates
      <4> QED BY <3>3, <4>1
    <3>6. a.type = "AGGRO" => Count(r, Of("AGGRO_MOVE", m)) > 0
      BY <1>1, <1>5, <1>6, <2>2, <3>1, <3>3
    <3>7. Count(r, Of("MONSTER_RESPAWN", m)) = 0
      BY <1>7, <3>1, <3>3, <3>5 DEF MonsterOK
    <3> QED BY <3>3, <3>4, <3>5, <3>6, <3>7 DEF MonsterOK
  <2> QED BY <2>1, <2>2
<1>9. awake \in [Monsters -> MonsterStates] BY <1>8 DEF Activated
<1> QED BY <1>6, <1>8, <1>9

\* Whoever is woken lives.
LEMMA WokenLives ==
  ASSUME NEW x, NEW force
  PROVE  /\ Woken(x, force) \in SUBSET Monsters
         /\ \A m \in Woken(x, force) : monster[m].hp > 0
BY DEF Woken

\* A user logs in: its chain of heals starts.
LEMMA LoginStep ==
  ASSUME LifeOK, NEW u \in Users, Login(u)
  PROVE  LifeOK'
<1>1. /\ timers \in Queues /\ monster \in [Monsters -> MonsterStates]
      /\ user \in [Users -> UserStates] /\ user[u].at = "new"
      /\ \A m \in Monsters : MonsterOK(monster[m], m, timers)
      /\ \A v \in Users : UserOK(user[v], v, timers)
      /\ UNCHANGED <<packets, lives>>
  BY DEF LifeOK, Login
<1>2. PICK x \in Cells :
        /\ user' = [user EXCEPT ![u] = [x |-> x, hp |-> PLAYER_MAX_HP, at |-> "world"]]
        /\ monster' = Activated(Woken(x, FALSE))
        /\ timers' = WithWoken(ScheduleAfter(timers, HealDelay, UserEvent("HEAL", u)),
                               Woken(x, FALSE), u)
  BY DEF Login
<1>3. PICK q : q = ScheduleAfter(timers, HealDelay, UserEvent("HEAL", u)) OBVIOUS
<1>4. HealDelay \in Nat /\ PLAYER_MAX_HP \in Nat \ {0} BY LifeAssumption
<1>5. PICK ev \in {"HEAL", "USER_RESPAWN"} : ev = "HEAL" OBVIOUS
<1>6. /\ q \in Queues
      /\ \A m \in Monsters : SameMonster(timers, q, m)
      /\ \A v \in Users \ {u} : SameUser(timers, q, v)
      /\ Count(q, Of(ev, u)) = Count(timers, Of(ev, u)) + 1
      /\ \A other \in {"HEAL", "USER_RESPAWN"} \ {ev} :
           Count(q, Of(other, u)) = Count(timers, Of(other, u))
      /\ Count(timers, Of("USER_RESPAWN", u)) = 0 => HealsFirst(q, u)
  BY <1>1, <1>3, <1>4, <1>5, AddUserEvent
<1>7. Count(timers, Of("HEAL", u)) = 0 /\ Count(timers, Of("USER_RESPAWN", u)) = 0
  BY <1>1 DEF UserOK
<1>8. /\ Count(q, Of("HEAL", u)) = 1 /\ Count(q, Of("USER_RESPAWN", u)) = 0
      /\ HealsFirst(q, u)
  BY <1>5, <1>6, <1>7
<1>9. \A m \in Monsters : MonsterOK(monster[m], m, q) BY <1>1, <1>6, KeepMonster
<1>10. PICK woken \in SUBSET Monsters :
         woken = Woken(x, FALSE) /\ \A m \in woken : monster[m].hp > 0
  BY WokenLives
<1>11. timers' = WithWoken(q, woken, u) /\ monster' = Activated(woken)
  BY <1>2, <1>3, <1>10
<1>12. /\ timers' \in Queues /\ monster' \in [Monsters -> MonsterStates]
       /\ \A m \in Monsters : MonsterOK(monster'[m], m, timers')
       /\ \A v \in Users : SameUser(q, timers', v)
  BY <1>1, <1>6, <1>9, <1>10, <1>11, WakeLemma
<1>13. PICK s : s = [x |-> x, hp |-> PLAYER_MAX_HP, at |-> "world"] OBVIOUS
<1>14. s \in UserStates /\ s.hp > 0 /\ s.at = "world" BY <1>4, <1>13 DEF UserStates
<1>15. UserOK(s, u, q)
  <2>1. s.hp # 0 /\ s.at # "new" BY <1>4, <1>14, <1>13
  <2> QED BY <1>8, <1>14, <2>1 DEF UserOK
<1>16. user' \in [Users -> UserStates] /\ user'[u] = s
       /\ \A v \in Users \ {u} : user'[v] = user[v]
  BY <1>1, <1>2, <1>13, <1>14
<1>17. ASSUME NEW v \in Users PROVE UserOK(user'[v], v, timers')
  <2>1. UserOK(user'[v], v, q)
    <3>1. CASE v = u BY <1>15, <1>16, <3>1
    <3>2. CASE v # u
      <4>1. UserOK(user[v], v, timers) /\ SameUser(timers, q, v) BY <1>1, <1>6, <3>2
      <4>2. UserOK(user[v], v, q) BY <4>1, KeepUser
      <4> QED BY <1>16, <3>2, <4>2
    <3> QED BY <3>1, <3>2
  <2> QED BY <1>12, <2>1, KeepUser
<1> QED BY <1>1, <1>12, <1>16, <1>17 DEF LifeOK

\* A user that sends a packet: what the handler leaves alone.
LEMMA SendsTypes ==
  ASSUME LifeOK, NEW u \in Users, Sends(u)
  PROVE  packets' \in 0 .. MaxPackets
<1>1. MaxPackets \in Nat BY LifeAssumption
<1> QED BY <1>1 DEF LifeOK, Sends

\* A user moves: monsters wake up.
LEMMA MoveStep ==
  ASSUME LifeOK, NEW u \in Users, HandlePlayerMove(u)
  PROVE  LifeOK'
<1>1. /\ timers \in Queues /\ monster \in [Monsters -> MonsterStates]
      /\ user \in [Users -> UserStates] /\ UNCHANGED lives
      /\ \A m \in Monsters : MonsterOK(monster[m], m, timers)
      /\ \A v \in Users : UserOK(user[v], v, timers)
      /\ lives \in [Users -> 0 .. MaxLives]
  BY DEF LifeOK, HandlePlayerMove
<1>2. PICK x \in Cells :
        /\ user' = [user EXCEPT ![u].x = x]
        /\ monster' = Activated(Woken(x, FALSE))
        /\ timers' = WithWoken(timers, Woken(x, FALSE), u)
  BY DEF HandlePlayerMove
<1>3. PICK woken \in SUBSET Monsters :
        woken = Woken(x, FALSE) /\ \A m \in woken : monster[m].hp > 0
  BY WokenLives
<1>4. timers' = WithWoken(timers, woken, u) /\ monster' = Activated(woken)
  BY <1>2, <1>3
<1>5. /\ timers' \in Queues /\ monster' \in [Monsters -> MonsterStates]
      /\ \A m \in Monsters : MonsterOK(monster'[m], m, timers')
      /\ \A v \in Users : SameUser(timers, timers', v)
  BY <1>1, <1>3, <1>4, WakeLemma
<1>6. ASSUME NEW v \in Users
      PROVE  /\ user'[v] \in UserStates
             /\ user'[v].hp = user[v].hp /\ user'[v].at = user[v].at
  BY <1>1, <1>2 DEF UserStates
<1>7. ASSUME NEW v \in Users PROVE UserOK(user'[v], v, timers')
  <2>1. UserOK(user[v], v, timers) BY <1>1
  <2>2. UserOK(user'[v], v, timers) BY <1>6, <2>1 DEF UserOK
  <2> QED BY <1>5, <2>2, KeepUser
<1>8. user' \in [Users -> UserStates] BY <1>1, <1>2, <1>6
<1>9. packets' \in 0 .. MaxPackets BY SendsTypes DEF HandlePlayerMove
<1> QED BY <1>1, <1>5, <1>7, <1>8, <1>9 DEF LifeOK

\* A user is gone, and nothing is promised about its events.
LEMMA GoneLemma ==
  ASSUME NEW s \in UserStates, NEW u, NEW q
  PROVE  /\ [s EXCEPT !.at = "gone"] \in UserStates
         /\ UserOK([s EXCEPT !.at = "gone"], u, q)
<1>1. PICK g : g = [s EXCEPT !.at = "gone"] OBVIOUS
<1>2. g \in UserStates /\ g.at = "gone" BY <1>1 DEF UserStates
<1>3. UserOK(g, u, q) BY <1>2 DEF UserOK
<1> QED BY <1>1, <1>2, <1>3

LEMMA DisconnectStep ==
  ASSUME LifeOK, NEW u \in Users, Disconnect(u)
  PROVE  LifeOK'
<1>1. /\ UNCHANGED <<monster, timers, packets, lives>>
      /\ user' = [user EXCEPT ![u] = [user[u] EXCEPT !.at = "gone"]]
      /\ user \in [Users -> UserStates]
  BY DEF Disconnect, LifeOK
<1>2. user' \in [Users -> UserStates] BY <1>1, GoneLemma
<1>3. ASSUME NEW v \in Users PROVE UserOK(user'[v], v, timers')
  <2>1. CASE v = u BY <1>1, <2>1, GoneLemma
  <2>2. CASE v # u BY <1>1, <2>2 DEF LifeOK
  <2> QED BY <2>1, <2>2
<1> QED BY <1>1, <1>2, <1>3 DEF LifeOK

\* AttackMonster: whoever is killed gets its one respawn.
LEMMA AttackLemma ==
  ASSUME LifeOK, NEW targets \in SUBSET Monsters, \A m \in targets : monster[m].hp > 0,
         NEW damage \in Nat, AttackMonsters(targets, damage)
  PROVE  /\ timers' \in Queues /\ monster' \in [Monsters -> MonsterStates]
         /\ \A m \in Monsters : MonsterOK(monster'[m], m, timers')
         /\ \A u \in Users : SameUser(timers, timers', u)
<1> DEFINE hp(m)  == IF monster[m].hp > damage THEN monster[m].hp - damage ELSE 0
           dead == {m \in targets : hp(m) = 0}
<1>1. /\ timers \in Queues /\ monster \in [Monsters -> MonsterStates]
      /\ \A m \in Monsters : MonsterOK(monster[m], m, timers)
  BY DEF LifeOK
<1>2. /\ monster' = [m \in Monsters |->
           IF m \in dead
           THEN [monster[m] EXCEPT !.hp = 0, !.active = FALSE, !.attack = FALSE]
           ELSE IF m \in targets THEN [monster[m] EXCEPT !.hp = hp(m)] ELSE monster[m]]
      /\ timers' = ScheduleAll(timers, RespawnDelay,
                     {MonsterEvent("MONSTER_RESPAWN", m, None) : m \in dead})
  BY DEF AttackMonsters
<1>3. PICK killed \in SUBSET Monsters : killed = dead OBVIOUS
<1>4. /\ timers' \in Queues
      /\ \A m \in Monsters \ killed : SameMonster(timers, timers', m)
      /\ \A m \in killed : Count(timers', Of("MONSTER_RESPAWN", m))
                             = Count(timers, Of("MONSTER_RESPAWN", m)) + 1
      /\ \A u \in Users : SameUser(timers, timers', u)
  <2> HIDE DEF dead
  <2>1. timers' = ScheduleAll(timers, RespawnDelay, Respawns(killed))
    BY <1>2, <1>3 DEF Respawns
  <2> QED BY <1>1, <2>1, AddRespawns
<1>5. ASSUME NEW m \in Monsters
      PROVE  monster'[m] \in MonsterStates /\ MonsterOK(monster'[m], m, timers')
  <2>1. PICK s \in MonsterStates : s = monster[m] BY <1>1
  <2>2. s.hp \in Nat /\ s.hp <= MONSTER_MAX_HP /\ MONSTER_MAX_HP \in Nat
    BY LifeAssumption DEF MonsterStates
  <2>3. MonsterOK(s, m, timers) BY <1>1, <2>1
  <2>4. CASE m \in killed
    <3>1. PICK r : r = [s EXCEPT !.hp = 0, !.active = FALSE, !.attack = FALSE] OBVIOUS
    <3>2. r \in MonsterStates /\ r.hp = 0 /\ ~r.active
      <4>1. 0 \in 0 .. MONSTER_MAX_HP BY <2>2
      <4>2. r \in MonsterStates BY <3>1, <4>1 DEF MonsterStates
      <4>3. r.hp = 0 /\ r.active = FALSE BY <3>1 DEF MonsterStates
      <4> QED BY <4>2, <4>3
    <3>3. monster'[m] = r BY <1>2, <1>3, <2>1, <2>4, <3>1
    <3>4. Count(timers, Of("MONSTER_RESPAWN", m)) = 0
      <4>1. s.hp > 0 BY <1>3, <2>1, <2>4
      <4> QED BY <2>2, <2>3, <4>1 DEF MonsterOK
    <3>5. Count(timers', Of("MONSTER_RESPAWN", m)) = 1 BY <1>4, <2>4, <3>4
    <3> QED BY <3>2, <3>3, <3>5 DEF MonsterOK
  <2>5. CASE m \in targets \ killed
    <3>1. PICK h \in 1 .. MONSTER_MAX_HP : h = hp(m)
      BY <1>3, <2>1, <2>2, <2>5
    <3>2. PICK r : r = [s EXCEPT !.hp = h] OBVIOUS
    <3>3. h \in 0 .. MONSTER_MAX_HP /\ h # 0 BY <2>2, <3>1
    <3>4. r \in MonsterStates /\ r.hp # 0 /\ r.active = s.active /\ r.type = s.type
      BY <3>2, <3>3 DEF MonsterStates
    <3>5. monster'[m] = r BY <1>2, <1>3, <2>1, <2>5, <3>1, <3>2
    <3>6. s.hp # 0 BY <2>1, <2>2, <2>5
    <3>7. SameMonster(timers, timers', m) BY <1>4, <2>5
    <3>8. MonsterOK(s, m, timers') BY <2>3, <3>7, KeepMonster
    <3> QED BY <3>4, <3>5, <3>6, <3>8 DEF MonsterOK
  <2>6. CASE m \notin targets
    <3>1. m \notin killed BY <1>3, <2>6
    <3>2. monster'[m] = s BY <1>2, <1>3, <2>1, <2>6, <3>1
    <3>3. SameMonster(timers, timers', m) BY <1>4, <3>1
    <3> QED BY <2>3, <3>2, <3>3, KeepMonster
  <2> QED BY <2>4, <2>5, <2>6
<1>6. monster' \in [Monsters -> MonsterStates] BY <1>2, <1>5
<1> QED BY <1>4, <1>5, <1>6

\* A user attacks, with or without its skill.
LEMMA AttackStep ==
  ASSUME LifeOK, NEW u \in Users, HandleAttack(u) \/ SkillAttack(u)
  PROVE  LifeOK'
<1>1. /\ \A m \in Targets(u) : m \in Monsters /\ monster[m].hp > 0
      /\ SKILL_DAMAGE \in Nat /\ 1 \in Nat
  BY LifeAssumption DEF Targets
<1>2. /\ timers' \in Queues /\ monster' \in [Monsters -> MonsterStates]
      /\ \A m \in Monsters : MonsterOK(monster'[m], m, timers')
      /\ \A v \in Users : SameUser(timers, timers', v)
  <2>1. CASE HandleAttack(u)
    <3>1. PICK left \in BOOLEAN :
            AttackMonsters({m \in Targets(u) : left <=> monster[m].x < user[u].x}, 1)
      BY <2>1 DEF HandleAttack
    <3>2. PICK targets \in SUBSET Monsters :
            /\ targets = {m \in Targets(u) : left <=> monster[m].x < user[u].x}
            /\ \A m \in targets : monster[m].hp > 0
      BY <1>1
    <3>3. AttackMonsters(targets, 1) BY <3>1, <3>2
    <3> QED BY <1>1, <3>2, <3>3, AttackLemma
  <2>2. CASE SkillAttack(u)
    <3>1. PICK targets \in SUBSET Monsters :
            targets = Targets(u) /\ \A m \in targets : monster[m].hp > 0
      BY <1>1
    <3>2. AttackMonsters(targets, SKILL_DAMAGE) BY <2>2, <3>1 DEF SkillAttack
    <3> QED BY <1>1, <3>1, <3>2, AttackLemma
  <2> QED BY <2>1, <2>2
<1>3. UNCHANGED <<user, lives>> BY DEF HandleAttack, SkillAttack
<1>4. packets' \in 0 .. MaxPackets BY SendsTypes DEF HandleAttack, SkillAttack
<1>5. ASSUME NEW v \in Users PROVE UserOK(user'[v], v, timers')
  BY <1>2, <1>3, KeepUser DEF LifeOK
<1> QED BY <1>2, <1>3, <1>4, <1>5 DEF LifeOK

-----------------------------------------------------------------------------
\* The events of monsters.

Moves == {"RANDOM_MOVE", "AGGRO_MOVE", "MONSTER_ATTACK"}

\* State s of a monster that was in state old: as alive, and of the same type.
SameLife(old, s) ==
  s \in MonsterStates /\ s.hp = old.hp /\ s.type = old.type /\ (s.hp = 0 => ~s.active)

\* What the first event is about.
LEMMA RunsEvent ==
  ASSUME LifeOK, NEW ev \in EventTypes, Runs(ev)
  PROVE  /\ timers # <<>> /\ Head(timers) \in QueuedEvents /\ Head(timers).ev = ev
         /\ Tail(timers) \in Queues
BY TailLemma DEF LifeOK, Runs

\* The first event has left, the queue is now r, monster h.m is in state s.
LEMMA RunLemma ==
  ASSUME LifeOK, timers # <<>>, NEW h, h = Head(timers), h.ev \in Moves,
         NEW s, SameLife(monster[h.m], s), NEW r \in Queues,
         \A k \in Monsters : SameMonster(Tail(timers), r, k),
         s.type = "AGGRO" /\ s.active =>
           \/ h.ev # "AGGRO_MOVE" /\ monster[h.m].active
           \/ Count(r, Of("AGGRO_MOVE", h.m)) > 0,
         NEW new, new = [monster EXCEPT ![h.m] = s]
  PROVE  /\ new \in [Monsters -> MonsterStates]
         /\ \A k \in Monsters : MonsterOK(new[k], k, r)
<1>1. /\ timers \in Queues /\ monster \in [Monsters -> MonsterStates]
      /\ \A k \in Monsters : MonsterOK(monster[k], k, timers)
  BY DEF LifeOK
<1>2. PICK t : t = Tail(timers) OBVIOUS
<1>3. /\ h \in QueuedEvents /\ t \in Queues
      /\ \A k \in Monsters :
           ~(h.ev \in {"MONSTER_RESPAWN", "AGGRO_MOVE"} /\ h.m = k)
           => SameMonster(timers, t, k)
  BY <1>1, <1>2, TailKeeps
<1>4. PICK m \in Monsters : m = h.m
  <2>1. h.m \in Monsters BY <1>3, EventKinds DEF Moves
  <2> QED BY <2>1
<1>5. Count(t, Of("MONSTER_RESPAWN", m)) = Count(timers, Of("MONSTER_RESPAWN", m))
  <2>1. /\ \A E : Count(t, E) = Count(timers, E) - (IF h \in E THEN 1 ELSE 0)
        /\ \A E : Count(timers, E) \in Nat
    BY <1>1, <1>2, TailLemma
  <2>2. h \notin Of("MONSTER_RESPAWN", m) BY DEF Of, Moves
  <2> QED BY <2>1, <2>2
<1>6. SameMonster(t, r, m) BY <1>2
<1>7. MonsterOK(s, m, r)
  <2>1. MonsterOK(monster[m], m, timers) BY <1>1
  <2>2. s \in MonsterStates /\ s.hp = monster[m].hp /\ s.type = monster[m].type
        /\ (s.hp = 0 => ~s.active)
    BY <1>4 DEF SameLife
  <2>3. Count(r, Of("MONSTER_RESPAWN", m)) = Count(timers, Of("MONSTER_RESPAWN", m))
    BY <1>5, <1>6 DEF SameMonster
  <2>4. ASSUME s.type = "AGGRO", s.active PROVE Count(r, Of("AGGRO_MOVE", m)) > 0
    <3>1. CASE Count(r, Of("AGGRO_MOVE", h.m)) > 0 BY <1>4, <3>1
    <3>2. CASE h.ev # "AGGRO_MOVE" /\ monster[h.m].active
      <4>1. Count(timers, Of("AGGRO_MOVE", m)) > 0
        BY <1>4, <2>1, <2>2, <2>4, <3>2 DEF MonsterOK
      <4>2. SameMonster(timers, t, m) BY <1>3, <3>2 DEF Moves
      <4> QED BY <1>6, <4>1, <4>2 DEF SameMonster
    <3> QED BY <2>4, <3>1, <3>2
  <2> QED BY <2>1, <2>2, <2>3, <2>4 DEF MonsterOK
<1>8. ASSUME NEW k \in Monsters PROVE MonsterOK(new[k], k, r)
  <2>1. CASE k = m BY <1>1, <1>4, <1>7, <2>1
  <2>2. CASE k # m
    <3>1. SameMonster(timers, t, k) BY <1>3, <1>4, <2>2
    <3>2. SameMonster(t, r, k) BY <1>2
    <3>3. SameMonster(timers, r, k) BY <3>1, <3>2, SameTwice
    <3>4. MonsterOK(monster[k], k, r) BY <1>1, <3>3, KeepMonster
    <3> QED BY <1>1, <1>4, <2>2, <3>4
  <2> QED BY <2>1, <2>2
<1>9. new \in [Monsters -> MonsterStates] BY <1>1, <1>4 DEF SameLife
<1> QED BY <1>8, <1>9

\* One more move or blow in the queue.
LEMMA AddMove ==
  ASSUME NEW q \in Queues, NEW delay \in Nat, NEW event \in QueuedEvents,
         event.ev \in Moves, NEW r, r = ScheduleAfter(q, delay, event)
  PROVE  /\ r \in Queues
         /\ \A m \in Monsters : SameMonster(q, r, m)
         /\ \A u \in Users : SameUser(q, r, u)
         /\ event.ev = "AGGRO_MOVE" => Count(r, Of("AGGRO_MOVE", event.m)) > 0
<1>1. PICK events : events = {event} OBVIOUS
<1>2. /\ IsFiniteSet(events) /\ events \subseteq QueuedEvents /\ event \in events
      /\ \A e \in events : e.ev \in {"RANDOM_MOVE", "AGGRO_MOVE", "MONSTER_ATTACK"}
  BY <1>1, FS_Singleton DEF Moves
<1>3. r = ScheduleAll(q, delay, events) BY <1>1 DEF ScheduleAfter
<1>4. /\ r \in Queues
      /\ \A m \in Monsters : SameMonster(q, r, m)
      /\ \A u \in Users : SameUser(q, r, u)
      /\ \A e \in events : e.ev = "AGGRO_MOVE" => Count(r, Of("AGGRO_MOVE", e.m)) > 0
  BY <1>2, <1>3, AddMoves
<1> QED BY <1>2, <1>4

\* What a handler of a monster keeps, whatever it does to the users.
MovesKept ==
  /\ timers' \in Queues /\ monster' \in [Monsters -> MonsterStates]
  /\ \A k \in Monsters : MonsterOK(monster'[k], k, timers')
  /\ \A v \in Users : SameUser(timers, timers', v)

\* The handler ends the chain.
LEMMA EndsLemma ==
  ASSUME LifeOK, timers # <<>>, NEW h, h = Head(timers), h.ev \in Moves,
         NEW s, SameLife(monster[h.m], s),
         s.type = "AGGRO" /\ s.active => h.ev # "AGGRO_MOVE" /\ monster[h.m].active,
         Ends(h.m, s)
  PROVE  MovesKept
<1>1. timers \in Queues BY DEF LifeOK
<1>2. /\ monster' = [monster EXCEPT ![h.m] = s] /\ timers' = Tail(timers) BY DEF Ends
<1>3. PICK t : t = Tail(timers) OBVIOUS
<1>4. t \in Queues /\ \A v \in Users : SameUser(timers, t, v)
  <2>1. /\ t \in Queues
        /\ \A v \in Users :
             ~(h.ev \in {"HEAL", "USER_RESPAWN"} /\ h.u = v) => SameUser(timers, t, v)
    BY <1>1, <1>3, TailKeeps
  <2> QED BY <2>1 DEF Moves
<1>5. \A k \in Monsters : SameMonster(Tail(timers), t, k) BY <1>3 DEF SameMonster
<1>6. PICK new : new = [monster EXCEPT ![h.m] = s] OBVIOUS
<1>7. new \in [Monsters -> MonsterStates] /\ \A k \in Monsters : MonsterOK(new[k], k, t)
  BY <1>4, <1>5, <1>6, RunLemma
<1> QED BY <1>2, <1>3, <1>4, <1>6, <1>7 DEF MovesKept

\* The handler schedules the next event of the chain.
LEMMA GoesLemma ==
  ASSUME LifeOK, timers # <<>>, NEW h, h = Head(timers), h.ev \in Moves,
         NEW s, SameLife(monster[h.m], s), NEW delay \in Nat,
         NEW event \in QueuedEvents, event.ev \in Moves, event.m = h.m,
         s.type = "AGGRO" /\ s.active =>
           \/ h.ev # "AGGRO_MOVE" /\ monster[h.m].active
           \/ event.ev = "AGGRO_MOVE",
         Goes(h.m, s, delay, event)
  PROVE  MovesKept
<1>1. timers \in Queues BY DEF LifeOK
<1>2. /\ monster' = [monster EXCEPT ![h.m] = s]
      /\ timers' = ScheduleAfter(Tail(timers), delay, event)
  BY DEF Goes
<1>3. PICK t : t = Tail(timers) OBVIOUS
<1>4. t \in Queues /\ \A v \in Users : SameUser(timers, t, v)
  <2>1. /\ t \in Queues
        /\ \A v \in Users :
             ~(h.ev \in {"HEAL", "USER_RESPAWN"} /\ h.u = v) => SameUser(timers, t, v)
    BY <1>1, <1>3, TailKeeps
  <2> QED BY <2>1 DEF Moves
<1>5. PICK r : r = ScheduleAfter(t, delay, event) OBVIOUS
<1>6. /\ r \in Queues
      /\ \A k \in Monsters : SameMonster(t, r, k)
      /\ \A v \in Users : SameUser(t, r, v)
      /\ event.ev = "AGGRO_MOVE" => Count(r, Of("AGGRO_MOVE", event.m)) > 0
  BY <1>4, <1>5, AddMove
<1>7. PICK new : new = [monster EXCEPT ![h.m] = s] OBVIOUS
<1>8. new \in [Monsters -> MonsterStates] /\ \A k \in Monsters : MonsterOK(new[k], k, r)
  <2>1. s.type = "AGGRO" /\ s.active =>
          \/ h.ev # "AGGRO_MOVE" /\ monster[h.m].active
          \/ Count(r, Of("AGGRO_MOVE", h.m)) > 0
    BY <1>6
  <2>2. \A k \in Monsters : SameMonster(Tail(timers), r, k) BY <1>3, <1>6
  <2> QED BY <1>6, <1>7, <2>1, <2>2, RunLemma
<1>9. \A v \in Users : SameUser(timers, r, v) BY <1>4, <1>6, SameTwice
<1> QED BY <1>2, <1>3, <1>5, <1>6, <1>7, <1>8, <1>9 DEF MovesKept

\* The states that the handlers of monster m leave behind.
LEMMA HandlerStates ==
  ASSUME LifeOK, NEW m \in Monsters, NEW x \in Zone, NEW b \in BOOLEAN
  PROVE  /\ SameLife(monster[m], monster[m])
         /\ SameLife(monster[m], Asleep(m)) /\ ~Asleep(m).active
         /\ SameLife(monster[m], GivenUp(m)) /\ ~GivenUp(m).active
         /\ SameLife(monster[m], Quiet(m)) /\ Quiet(m).active = monster[m].active
         /\ SameLife(monster[m], [monster[m] EXCEPT !.attack = TRUE])
         /\ [monster[m] EXCEPT !.attack = TRUE].active = monster[m].active
         /\ SameLife(monster[m], At(m, x)) /\ At(m, x).active = monster[m].active
         /\ SameLife(monster[m], [At(m, x) EXCEPT !.attack = FALSE])
         /\ monster[m].hp > 0 => SameLife(monster[m], [At(m, x) EXCEPT !.active = b])
         /\ [At(m, x) EXCEPT !.active = b].active = b
<1>1. PICK s \in MonsterStates : s = monster[m] BY DEF LifeOK
<1>2. s.hp = 0 => ~s.active BY <1>1 DEF LifeOK, MonsterOK
<1>3. s.hp > 0 => s.hp # 0 BY LifeAssumption DEF MonsterStates
<1>4. PICK l \in BOOLEAN :
        l = IF x < s.x THEN TRUE ELSE IF x > s.x THEN FALSE ELSE s.left
  BY DEF MonsterStates
<1>5. PICK a : a = [s EXCEPT !.x = x, !.left = l] OBVIOUS
<1>6. At(m, x) = a BY <1>1, <1>4, <1>5 DEF At
<1>7. a \in MonsterStates /\ a.hp = s.hp /\ a.type = s.type /\ a.active = s.active
  BY <1>5 DEF MonsterStates
<1>8. SameLife(s, s) /\ SameLife(s, a) BY <1>2, <1>7 DEF SameLife
<1>9. ASSUME NEW o \in MonsterStates, NEW c \in BOOLEAN
      PROVE  /\ [o EXCEPT !.attack = c] \in MonsterStates
             /\ [o EXCEPT !.attack = c].hp = o.hp
             /\ [o EXCEPT !.attack = c].type = o.type
             /\ [o EXCEPT !.attack = c].active = o.active
             /\ [o EXCEPT !.active = c] \in MonsterStates
             /\ [o EXCEPT !.active = c].hp = o.hp
             /\ [o EXCEPT !.active = c].type = o.type
             /\ [o EXCEPT !.active = c].active = c
             /\ [o EXCEPT !.active = FALSE, !.attack = FALSE] \in MonsterStates
             /\ [o EXCEPT !.active = FALSE, !.attack = FALSE].hp = o.hp
             /\ [o EXCEPT !.active = FALSE, !.attack = FALSE].type = o.type
             /\ [o EXCEPT !.active = FALSE, !.attack = FALSE].active = FALSE
  BY DEF MonsterStates
<1>10. SameLife(monster[m], monster[m]) BY <1>1, <1>8
<1>11. SameLife(monster[m], Asleep(m)) /\ ~Asleep(m).active
  BY <1>1, <1>9 DEF SameLife, Asleep
<1>12. SameLife(monster[m], GivenUp(m)) /\ ~GivenUp(m).active
  BY <1>1, <1>9 DEF SameLife, GivenUp
<1>13. SameLife(monster[m], Quiet(m)) /\ Quiet(m).active = monster[m].active
  BY <1>1, <1>2, <1>9 DEF SameLife, Quiet
<1>14. /\ SameLife(monster[m], [monster[m] EXCEPT !.attack = TRUE])
       /\ [monster[m] EXCEPT !.attack = TRUE].active = monster[m].active
  BY <1>1, <1>2, <1>9 DEF SameLife
<1>15. SameLife(monster[m], At(m, x)) /\ At(m, x).active = monster[m].active
  BY <1>1, <1>6, <1>7, <1>8
<1>16. SameLife(monster[m], [At(m, x) EXCEPT !.attack = FALSE])
  <2>1. PICK d : d = [a EXCEPT !.attack = FALSE] OBVIOUS
  <2>2. d \in MonsterStates /\ d.hp = a.hp /\ d.type = a.type /\ d.active = a.active
    BY <1>7, <2>1 DEF MonsterStates
  <2>3. SameLife(s, d) BY <1>2, <1>7, <2>2 DEF SameLife
  <2> QED BY <1>1, <1>6, <2>1, <2>3
<1>17. /\ monster[m].hp > 0 => SameLife(monster[m], [At(m, x) EXCEPT !.active = b])
       /\ [At(m, x) EXCEPT !.active = b].active = b
  <2>1. PICK d : d = [a EXCEPT !.active = b] OBVIOUS
  <2>2. d \in MonsterStates /\ d.hp = a.hp /\ d.type = a.type /\ d.active = b
    BY <1>7, <2>1 DEF MonsterStates
  <2>3. s.hp > 0 => SameLife(s, d) BY <1>3, <1>7, <2>2 DEF SameLife
  <2> QED BY <1>1, <1>6, <2>1, <2>2, <2>3
<1> QED BY <1>10, <1>11, <1>12, <1>13, <1>14, <1>15, <1>16, <1>17

\* The users go on as they were.
LEMMA OnlyMonsters ==
  ASSUME LifeOK, MovesKept, UNCHANGED <<user, packets, lives>>
  PROVE  LifeOK'
<1>1. ASSUME NEW v \in Users PROVE UserOK(user'[v], v, timers')
  BY KeepUser DEF LifeOK, MovesKept
<1> QED BY <1>1 DEF LifeOK, MovesKept

LEMMA MonsterEvents ==
  ASSUME NEW m \in Monsters, NEW u \in Users
  PROVE  /\ MonsterEvent("RANDOM_MOVE", m, None) \in QueuedEvents
         /\ MonsterEvent("AGGRO_MOVE", m, u) \in QueuedEvents
         /\ MonsterEvent("MONSTER_ATTACK", m, u) \in QueuedEvents
         /\ \A ev, v : MonsterEvent(ev, m, v).m = m /\ MonsterEvent(ev, m, v).ev = ev
BY DEF MonsterEvent, QueuedEvents

\* A passive monster's step.
LEMMA RandomMoveStep ==
  ASSUME LifeOK, HandleRandomMove
  PROVE  LifeOK'
<1>1. PICK h \in QueuedEvents : h = Head(timers) /\ h.ev = "RANDOM_MOVE" /\ timers # <<>>
  <2>1. Runs("RANDOM_MOVE") /\ "RANDOM_MOVE" \in EventTypes
    BY DEF HandleRandomMove, EventTypes
  <2> QED BY <2>1, RunsEvent
<1>2. PICK m \in Monsters : m = h.m
  <2>1. h.m \in Monsters BY <1>1, EventKinds
  <2> QED BY <2>1
<1>3. h.ev \in Moves /\ h.ev # "AGGRO_MOVE" BY <1>1 DEF Moves
<1>4. MoveDelay \in Nat /\ 0 \in Nat BY LifeAssumption
<1>5. UNCHANGED <<user, packets, lives>> BY DEF HandleRandomMove
<1>6. /\ SameLife(monster[m], monster[m])
      /\ SameLife(monster[m], Asleep(m)) /\ ~Asleep(m).active
      /\ \A x \in Zone : SameLife(monster[m], At(m, x))
                         /\ At(m, x).active = monster[m].active
  <2>1. FALSE \in BOOLEAN /\ monster[m].x \in Zone
    BY DEF LifeOK, MonsterStates
  <2>2. ASSUME NEW x \in Zone
        PROVE  /\ SameLife(monster[m], monster[m])
               /\ SameLife(monster[m], Asleep(m)) /\ ~Asleep(m).active
               /\ SameLife(monster[m], At(m, x)) /\ At(m, x).active = monster[m].active
    BY <2>1, HandlerStates
  <2> QED BY <2>1, <2>2
<1>7. \/ Ends(m, monster[m])
      \/ \E u \in Users : Goes(m, monster[m], 0, MonsterEvent("MONSTER_ATTACK", m, u))
      \/ \E x \in Zone :
           Goes(m, At(m, x), MoveDelay, MonsterEvent("RANDOM_MOVE", m, None))
      \/ Ends(m, Asleep(m))
  BY <1>1, <1>2 DEF HandleRandomMove, RandomSteps
<1>8. CASE Ends(m, monster[m])
  <2>1. MovesKept BY <1>1, <1>2, <1>3, <1>6, <1>8, EndsLemma
  <2> QED BY <1>5, <2>1, OnlyMonsters
<1>9. CASE Ends(m, Asleep(m))
  <2>1. MovesKept BY <1>1, <1>2, <1>3, <1>6, <1>9, EndsLemma
  <2> QED BY <1>5, <2>1, OnlyMonsters
<1>10. ASSUME NEW u \in Users, Goes(m, monster[m], 0, MonsterEvent("MONSTER_ATTACK", m, u))
       PROVE  LifeOK'
  <2>1. PICK event \in QueuedEvents :
          /\ event = MonsterEvent("MONSTER_ATTACK", m, u)
          /\ event.ev \in Moves /\ event.m = m
    BY MonsterEvents DEF Moves
  <2>2. Goes(m, monster[m], 0, event) BY <1>10, <2>1
  <2>3. MovesKept BY <1>1, <1>2, <1>3, <1>4, <1>6, <2>1, <2>2, GoesLemma
  <2> QED BY <1>5, <2>3, OnlyMonsters
<1>11. ASSUME NEW x \in Zone,
              Goes(m, At(m, x), MoveDelay, MonsterEvent("RANDOM_MOVE", m, None))
       PROVE  LifeOK'
  <2>1. PICK event \in QueuedEvents :
          /\ event = MonsterEvent("RANDOM_MOVE", m, None)
          /\ event.ev \in Moves /\ event.m = m
    <3>1. MonsterEvent("RANDOM_MOVE", m, None) \in QueuedEvents
      BY DEF MonsterEvent, QueuedEvents
    <3>2. /\ MonsterEvent("RANDOM_MOVE", m, None).ev \in Moves
          /\ MonsterEvent("RANDOM_MOVE", m, None).m = m
      BY DEF MonsterEvent, Moves
    <3> QED BY <3>1, <3>2
  <2>2. Goes(m, At(m, x), MoveDelay, event) BY <1>11, <2>1
  <2>3. SameLife(monster[m], At(m, x)) /\ At(m, x).active = monster[m].active BY <1>6
  <2>4. MovesKept BY <1>1, <1>2, <1>3, <1>4, <2>1, <2>2, <2>3, GoesLemma
  <2> QED BY <1>5, <2>4, OnlyMonsters
<1> QED BY <1>7, <1>8, <1>9, <1>10, <1>11

\* A chase stays in the zone.
LEMMA AdvanceInZone ==
  ASSUME LifeOK, NEW m \in Monsters, NEW goal \in Zone, NEW x \in Advance(m, goal)
  PROVE  x \in Zone
<1>1. monster[m].x \in Zone BY DEF LifeOK, MonsterStates
<1>2. PICK y \in Zone : y = monster[m].x BY <1>1
<1>3. y # goal /\ x = y + (IF goal > y THEN 1 ELSE -1) BY <1>2 DEF Advance
<1>4. Width \in Nat BY LifeAssumption
<1> QED BY <1>3, <1>4 DEF Zone

\* An aggressive monster's step.
LEMMA AggroMoveStep ==
  ASSUME LifeOK, HandleAggroMove
  PROVE  LifeOK'
<1>1. PICK h \in QueuedEvents : h = Head(timers) /\ h.ev = "AGGRO_MOVE" /\ timers # <<>>
  <2>1. Runs("AGGRO_MOVE") /\ "AGGRO_MOVE" \in EventTypes
    BY DEF HandleAggroMove, EventTypes
  <2> QED BY <2>1, RunsEvent
<1>2. PICK m \in Monsters, u \in Users : m = h.m /\ u = h.u
  <2>1. h.m \in Monsters /\ h.u \in Users BY <1>1, EventKinds
  <2> QED BY <2>1
<1>3. h.ev \in Moves BY <1>1 DEF Moves
<1>4. MoveDelay \in Nat /\ 0 \in Nat BY LifeAssumption
<1>5. UNCHANGED <<user, packets, lives>> BY DEF HandleAggroMove
<1>6. PICK next \in QueuedEvents :
        /\ next = MonsterEvent("AGGRO_MOVE", m, u)
        /\ next.ev \in Moves /\ next.m = m /\ next.ev = "AGGRO_MOVE"
  <2>1. MonsterEvent("AGGRO_MOVE", m, u) \in QueuedEvents BY MonsterEvents
  <2>2. /\ MonsterEvent("AGGRO_MOVE", m, u).ev = "AGGRO_MOVE"
        /\ MonsterEvent("AGGRO_MOVE", m, u).m = m
    BY DEF MonsterEvent
  <2> QED BY <2>1, <2>2 DEF Moves
<1>7. monster[m].x \in Zone /\ monster[m].spawn \in Zone
  BY DEF LifeOK, MonsterStates
<1>8. /\ SameLife(monster[m], monster[m])
      /\ SameLife(monster[m], GivenUp(m)) /\ ~GivenUp(m).active
      /\ monster[m].hp = 0 => ~monster[m].active
  BY <1>7, HandlerStates DEF SameLife
<1>9. \A x \in Zone :
        /\ SameLife(monster[m], [At(m, x) EXCEPT !.attack = FALSE])
        /\ monster[m].hp > 0 =>
             /\ SameLife(monster[m], [At(m, x) EXCEPT !.active = TRUE])
             /\ SameLife(monster[m], [At(m, x) EXCEPT !.active = FALSE])
        /\ [At(m, x) EXCEPT !.active = FALSE].active = FALSE
  <2> SUFFICES ASSUME NEW x \in Zone
               PROVE  /\ SameLife(monster[m], [At(m, x) EXCEPT !.attack = FALSE])
                      /\ monster[m].hp > 0 =>
                           /\ SameLife(monster[m], [At(m, x) EXCEPT !.active = TRUE])
                           /\ SameLife(monster[m], [At(m, x) EXCEPT !.active = FALSE])
                      /\ [At(m, x) EXCEPT !.active = FALSE].active = FALSE
    OBVIOUS
  <2> QED BY HandlerStates
<1>10. \/ /\ monster[m].hp = 0 /\ Ends(m, monster[m])
       \/ Ends(m, GivenUp(m))
       \/ \E x \in Advance(m, monster[m].spawn) :
            Goes(m, [At(m, x) EXCEPT !.attack = FALSE], MoveDelay, next)
       \/ /\ monster' = monster
          /\ timers' = LET hit == IF monster[m].attack THEN Tail(timers)
                                  ELSE ScheduleAfter(Tail(timers), 0,
                                         MonsterEvent("MONSTER_ATTACK", m, u))
                       IN ScheduleAfter(hit, MoveDelay, next)
       \/ /\ monster[m].hp > 0 /\ user[u].x \in Zone
          /\ \E x \in Advance(m, user[u].x) \cup {monster[m].x} :
               \/ Goes(m, [At(m, x) EXCEPT !.active = TRUE], MoveDelay, next)
               \/ Ends(m, [At(m, x) EXCEPT !.active = FALSE])
  BY <1>1, <1>2, <1>6 DEF HandleAggroMove, ValidTarget
<1>11. CASE monster[m].hp = 0 /\ Ends(m, monster[m])
  <2>1. MovesKept BY <1>1, <1>2, <1>3, <1>8, <1>11, EndsLemma
  <2> QED BY <1>5, <2>1, OnlyMonsters
<1>12. CASE Ends(m, GivenUp(m))
  <2>1. MovesKept BY <1>1, <1>2, <1>3, <1>8, <1>12, EndsLemma
  <2> QED BY <1>5, <2>1, OnlyMonsters
<1>13. ASSUME NEW s, SameLife(monster[m], s), Goes(m, s, MoveDelay, next)
       PROVE  LifeOK'
  <2>1. MovesKept BY <1>1, <1>2, <1>3, <1>4, <1>6, <1>13, GoesLemma
  <2> QED BY <1>5, <2>1, OnlyMonsters
<1>14. ASSUME NEW x \in Advance(m, monster[m].spawn),
              Goes(m, [At(m, x) EXCEPT !.attack = FALSE], MoveDelay, next)
       PROVE  LifeOK'
  <2>1. PICK goal \in Zone : goal = monster[m].spawn BY <1>7
  <2>2. x \in Zone BY <2>1, AdvanceInZone
  <2>3. SameLife(monster[m], [At(m, x) EXCEPT !.attack = FALSE]) BY <1>9, <2>2
  <2> QED BY <1>13, <1>14, <2>3
<1>15. ASSUME NEW x \in Advance(m, user[u].x) \cup {monster[m].x},
              monster[m].hp > 0, user[u].x \in Zone,
              \/ Goes(m, [At(m, x) EXCEPT !.active = TRUE], MoveDelay, next)
              \/ Ends(m, [At(m, x) EXCEPT !.active = FALSE])
       PROVE  LifeOK'
  <2>1. x \in Zone
    <3>1. PICK goal \in Zone : goal = user[u].x BY <1>15
    <3>2. CASE x \in Advance(m, goal) BY <3>2, AdvanceInZone
    <3>3. CASE x = monster[m].x BY <1>7, <3>3
    <3> QED BY <3>1, <3>2, <3>3
  <2>2. CASE Goes(m, [At(m, x) EXCEPT !.active = TRUE], MoveDelay, next)
    <3>1. SameLife(monster[m], [At(m, x) EXCEPT !.active = TRUE]) BY <1>9, <1>15, <2>1
    <3> QED BY <1>13, <2>2, <3>1
  <2>3. CASE Ends(m, [At(m, x) EXCEPT !.active = FALSE])
    <3>1. PICK s : s = [At(m, x) EXCEPT !.active = FALSE] OBVIOUS
    <3>2. SameLife(monster[m], s) /\ ~s.active BY <1>9, <1>15, <2>1, <3>1
    <3>3. MovesKept BY <1>1, <1>2, <1>3, <2>3, <3>1, <3>2, EndsLemma
    <3> QED BY <1>5, <3>3, OnlyMonsters
  <2> QED BY <1>15, <2>2, <2>3
<1>16. CASE /\ monster' = monster
            /\ timers' = LET hit == IF monster[m].attack THEN Tail(timers)
                                    ELSE ScheduleAfter(Tail(timers), 0,
                                           MonsterEvent("MONSTER_ATTACK", m, u))
                         IN ScheduleAfter(hit, MoveDelay, next)
  <2>1. PICK t : t = Tail(timers) OBVIOUS
  <2>2. t \in Queues /\ \A v \in Users : SameUser(timers, t, v)
    <3>1. timers \in Queues BY DEF LifeOK
    <3>2. /\ t \in Queues
          /\ \A v \in Users :
               ~(h.ev \in {"HEAL", "USER_RESPAWN"} /\ h.u = v) => SameUser(timers, t, v)
      BY <1>1, <2>1, <3>1, TailKeeps
    <3> QED BY <1>1, <3>2
  <2>3. PICK blow \in QueuedEvents :
          blow = MonsterEvent("MONSTER_ATTACK", m, u) /\ blow.ev \in Moves
    <3>1. MonsterEvent("MONSTER_ATTACK", m, u) \in QueuedEvents BY MonsterEvents
    <3>2. MonsterEvent("MONSTER_ATTACK", m, u).ev \in Moves BY DEF MonsterEvent, Moves
    <3> QED BY <3>1, <3>2
  <2>4. PICK hit : hit = IF monster[m].attack THEN t ELSE ScheduleAfter(t, 0, blow) OBVIOUS
  <2>5. /\ hit \in Queues
        /\ \A k \in Monsters : SameMonster(t, hit, k)
        /\ \A v \in Users : SameUser(t, hit, v)
    <3>1. CASE monster[m].attack BY <2>2, <2>4, <3>1 DEF SameMonster, SameUser
    <3>2. CASE ~monster[m].attack
      <4>1. hit = ScheduleAfter(t, 0, blow) BY <2>4, <3>2
      <4> QED BY <1>4, <2>2, <2>3, <4>1, AddMove
    <3> QED BY <3>1, <3>2
  <2>6. PICK r : r = ScheduleAfter(hit, MoveDelay, next) OBVIOUS
  <2>7. /\ r \in Queues
        /\ \A k \in Monsters : SameMonster(hit, r, k)
        /\ \A v \in Users : SameUser(hit, r, v)
        /\ next.ev = "AGGRO_MOVE" => Count(r, Of("AGGRO_MOVE", next.m)) > 0
    BY <1>4, <1>6, <2>5, <2>6, AddMove
  <2>8. timers' = r BY <1>16, <2>1, <2>3, <2>4, <2>6
  <2>9. \A k \in Monsters : SameMonster(Tail(timers), r, k)
    BY <2>1, <2>5, <2>7, SameTwice
  <2>10. \A v \in Users : SameUser(timers, r, v)
    <3> SUFFICES ASSUME NEW v \in Users PROVE SameUser(timers, r, v) OBVIOUS
    <3>1. SameUser(timers, hit, v) BY <2>2, <2>5, SameTwice
    <3> QED BY <2>7, <3>1, SameTwice
  <2>11. PICK s : s = monster[m] OBVIOUS
  <2>12. monster' = [monster EXCEPT ![h.m] = s]
    BY <1>2, <1>16, <2>11 DEF LifeOK
  <2>13. PICK new : new = [monster EXCEPT ![h.m] = s] OBVIOUS
  <2>14. /\ new \in [Monsters -> MonsterStates]
         /\ \A k \in Monsters : MonsterOK(new[k], k, r)
    <3>1. SameLife(monster[h.m], s) BY <1>2, <1>8, <2>11
    <3>2. Count(r, Of("AGGRO_MOVE", h.m)) > 0 BY <1>2, <1>6, <2>7
    <3> QED BY <1>1, <1>3, <2>7, <2>9, <2>13, <3>1, <3>2, RunLemma
  <2>15. MovesKept BY <2>7, <2>8, <2>10, <2>12, <2>13, <2>14 DEF MovesKept
  <2> QED BY <1>5, <2>15, OnlyMonsters
<1> QED BY <1>10, <1>11, <1>12, <1>14, <1>15, <1>16

\* One user changes, the others go on as they were.
LEMMA OneUser ==
  ASSUME LifeOK, NEW u \in Users, NEW s \in UserStates, NEW r,
         UserOK(s, u, r), \A v \in Users \ {u} : SameUser(timers, r, v),
         NEW new, new = [user EXCEPT ![u] = s]
  PROVE  new \in [Users -> UserStates] /\ \A v \in Users : UserOK(new[v], v, r)
<1>1. user \in [Users -> UserStates] /\ \A v \in Users : UserOK(user[v], v, timers)
  BY DEF LifeOK
<1>2. ASSUME NEW v \in Users PROVE UserOK(new[v], v, r)
  <2>1. CASE v = u BY <1>1, <2>1
  <2>2. CASE v # u BY <1>1, <2>2, KeepUser
  <2> QED BY <2>1, <2>2
<1> QED BY <1>1, <1>2

\* What a user's new hit points do to its state.
LEMMA UserHp ==
  ASSUME NEW s \in UserStates, NEW hp \in 0 .. PLAYER_MAX_HP
  PROVE  /\ [s EXCEPT !.hp = hp] \in UserStates
         /\ [s EXCEPT !.hp = hp].hp = hp /\ [s EXCEPT !.hp = hp].at = s.at
         /\ s.hp \in 0 .. PLAYER_MAX_HP
BY DEF UserStates

\* A monster strikes.
LEMMA BlowStep ==
  ASSUME LifeOK, HandleAttackToPlayer
  PROVE  LifeOK'
<1>1. PICK h \in QueuedEvents :
        h = Head(timers) /\ h.ev = "MONSTER_ATTACK" /\ timers # <<>>
  <2>1. Runs("MONSTER_ATTACK") /\ "MONSTER_ATTACK" \in EventTypes
    BY DEF HandleAttackToPlayer, EventTypes
  <2> QED BY <2>1, RunsEvent
<1>2. PICK m \in Monsters, u \in Users : m = h.m /\ u = h.u
  <2>1. h.m \in Monsters /\ h.u \in Users BY <1>1, EventKinds
  <2> QED BY <2>1
<1>3. h.ev \in Moves /\ h.ev # "AGGRO_MOVE" BY <1>1 DEF Moves
<1>4. /\ AttackDelay \in Nat /\ UserRespawnDelay \in Nat /\ HealDelay \in Nat
      /\ HealDelay < UserRespawnDelay /\ PLAYER_MAX_HP \in Nat
  BY LifeAssumption
<1>5. UNCHANGED <<packets, lives>> BY DEF HandleAttackToPlayer
<1>6. /\ SameLife(monster[m], monster[m])
      /\ SameLife(monster[m], GivenUp(m)) /\ ~GivenUp(m).active
      /\ SameLife(monster[m], Quiet(m)) /\ Quiet(m).active = monster[m].active
      /\ SameLife(monster[m], [monster[m] EXCEPT !.attack = TRUE])
      /\ [monster[m] EXCEPT !.attack = TRUE].active = monster[m].active
  <2>1. monster[m].x \in Zone BY DEF LifeOK, MonsterStates
  <2> QED BY <2>1, HandlerStates
<1>7. \/ /\ Ends(m, monster[m]) \/ Ends(m, Quiet(m))
         /\ UNCHANGED user
      \/ /\ user[u].hp > 1
         /\ user' = [user EXCEPT ![u] = [user[u] EXCEPT !.hp = user[u].hp - 1]]
         /\ \/ Goes(m, [monster[m] EXCEPT !.attack = TRUE], AttackDelay, h)
            \/ Ends(m, Quiet(m))
      \/ /\ user[u].at = "world" /\ user[u].hp > 0
         /\ user' = [user EXCEPT ![u] = [user[u] EXCEPT !.hp = 0]]
         /\ Goes(m, GivenUp(m), UserRespawnDelay, UserEvent("USER_RESPAWN", u))
  BY <1>1, <1>2 DEF HandleAttackToPlayer, Exists, BlowLands, LifeOK, UserStates
<1>8. ASSUME Ends(m, monster[m]) \/ Ends(m, Quiet(m)) PROVE MovesKept
  <2>1. CASE Ends(m, monster[m]) BY <1>1, <1>2, <1>3, <1>6, <2>1, EndsLemma
  <2>2. CASE Ends(m, Quiet(m)) BY <1>1, <1>2, <1>3, <1>6, <2>2, EndsLemma
  <2> QED BY <1>8, <2>1, <2>2
<1>9. CASE (Ends(m, monster[m]) \/ Ends(m, Quiet(m))) /\ UNCHANGED user
  BY <1>5, <1>8, <1>9, OnlyMonsters
<1>10. CASE /\ user[u].hp > 1
            /\ user' = [user EXCEPT ![u] = [user[u] EXCEPT !.hp = user[u].hp - 1]]
            /\ \/ Goes(m, [monster[m] EXCEPT !.attack = TRUE], AttackDelay, h)
               \/ Ends(m, Quiet(m))
  <2>1. MovesKept
    <3>1. CASE Goes(m, [monster[m] EXCEPT !.attack = TRUE], AttackDelay, h)
      <4>1. PICK s : s = [monster[m] EXCEPT !.attack = TRUE] OBVIOUS
      <4>2. Goes(h.m, s, AttackDelay, h) BY <1>2, <3>1, <4>1
      <4>3. SameLife(monster[h.m], s) /\ s.active = monster[h.m].active
        BY <1>2, <1>6, <4>1
      <4> QED BY <1>1, <1>3, <1>4, <4>2, <4>3, GoesLemma
    <3>2. CASE Ends(m, Quiet(m)) BY <1>8, <3>2
    <3> QED BY <1>10, <3>1, <3>2
  <2>2. PICK s \in UserStates : s = user[u] BY DEF LifeOK
  <2>3. PICK hp \in 0 .. PLAYER_MAX_HP : hp = s.hp - 1 /\ hp > 0 /\ s.hp \in Nat
    <3>1. s.hp \in 0 .. PLAYER_MAX_HP /\ s.hp > 1 BY <1>10, <2>2 DEF UserStates
    <3>2. s.hp \in Nat /\ s.hp - 1 \in 0 .. PLAYER_MAX_HP /\ s.hp - 1 > 0
      BY <1>4, <3>1
    <3> QED BY <3>2
  <2>4. PICK b : b = [s EXCEPT !.hp = hp] OBVIOUS
  <2>5. b \in UserStates /\ b.hp = hp /\ b.at = s.at BY <2>4, UserHp
  <2>6. PICK r : r = timers' OBVIOUS
  <2>7. \A v \in Users : SameUser(timers, r, v) BY <2>1, <2>6 DEF MovesKept
  <2>8. UserOK(b, u, r)
    <3>1. UserOK(s, u, timers) BY <2>2 DEF LifeOK
    <3>2. UserOK(s, u, r) BY <2>7, <3>1, KeepUser
    <3>3. s.hp > 0 /\ s.hp # 0 /\ hp # 0 BY <1>4, <2>3
    <3> QED BY <2>3, <2>5, <3>2, <3>3 DEF UserOK
  <2>9. PICK new : new = [user EXCEPT ![u] = b] OBVIOUS
  <2>10. new \in [Users -> UserStates] /\ \A v \in Users : UserOK(new[v], v, r)
    BY <2>5, <2>7, <2>8, <2>9, OneUser
  <2>11. user' = new BY <1>10, <2>2, <2>3, <2>4, <2>9
  <2> QED BY <1>5, <2>1, <2>6, <2>10, <2>11 DEF LifeOK, MovesKept
<1>11. CASE /\ user[u].at = "world" /\ user[u].hp > 0
            /\ user' = [user EXCEPT ![u] = [user[u] EXCEPT !.hp = 0]]
            /\ Goes(m, GivenUp(m), UserRespawnDelay, UserEvent("USER_RESPAWN", u))
  <2>1. PICK t : t = Tail(timers) OBVIOUS
  <2>2. t \in Queues /\ \A v \in Users : SameUser(timers, t, v)
    <3>1. timers \in Queues BY DEF LifeOK
    <3>2. /\ t \in Queues
          /\ \A v \in Users :
               ~(h.ev \in {"HEAL", "USER_RESPAWN"} /\ h.u = v) => SameUser(timers, t, v)
      BY <1>1, <2>1, <3>1, TailKeeps
    <3> QED BY <1>1, <3>2
  <2>3. PICK ev \in {"HEAL", "USER_RESPAWN"} : ev = "USER_RESPAWN" OBVIOUS
  <2>4. PICK r : r = ScheduleAfter(t, UserRespawnDelay, UserEvent(ev, u)) OBVIOUS
  <2>5. /\ r \in Queues
        /\ \A k \in Monsters : SameMonster(t, r, k)
        /\ \A v \in Users \ {u} : SameUser(t, r, v)
        /\ Count(r, Of(ev, u)) = Count(t, Of(ev, u)) + 1
        /\ \A other \in {"HEAL", "USER_RESPAWN"} \ {ev} :
             Count(r, Of(other, u)) = Count(t, Of(other, u))
        /\ Count(t, Of("USER_RESPAWN", u)) = 0 => HealsFirst(r, u)
    <3>1. UserRespawnDelay > HealDelay BY <1>4
    <3> QED BY <1>4, <2>2, <2>3, <2>4, <3>1, AddUserEvent
  <2>6. monster' = [monster EXCEPT ![h.m] = GivenUp(m)] /\ timers' = r
    BY <1>2, <1>11, <2>1, <2>3, <2>4 DEF Goes
  <2>7. PICK new : new = [monster EXCEPT ![h.m] = GivenUp(m)] OBVIOUS
  <2>8. /\ new \in [Monsters -> MonsterStates]
        /\ \A k \in Monsters : MonsterOK(new[k], k, r)
    <3>1. \A k \in Monsters : SameMonster(Tail(timers), r, k) BY <2>1, <2>5
    <3> QED BY <1>1, <1>2, <1>3, <1>6, <2>5, <2>7, <3>1, RunLemma
  <2>9. PICK s \in UserStates : s = user[u] BY DEF LifeOK
  <2>10. PICK b : b = [s EXCEPT !.hp = 0] OBVIOUS
  <2>11. b \in UserStates /\ b.hp = 0 /\ b.at = "world"
    <3>1. 0 \in 0 .. PLAYER_MAX_HP BY <1>4
    <3> QED BY <1>11, <2>9, <2>10, <3>1, UserHp
  <2>12. UserOK(b, u, r)
    <3>1. UserOK(s, u, timers) BY <2>9 DEF LifeOK
    <3>2. UserOK(s, u, t) BY <2>2, <3>1, KeepUser
    <3>3. s.hp # 0 BY <1>4, <1>11, <2>9, UserHp
    <3>4. Count(t, Of("HEAL", u)) = 1 /\ Count(t, Of("USER_RESPAWN", u)) = 0
      BY <1>11, <2>9, <3>2, <3>3 DEF UserOK
    <3>5. /\ Count(r, Of("HEAL", u)) = 1 /\ Count(r, Of("USER_RESPAWN", u)) = 1
          /\ HealsFirst(r, u)
      BY <2>3, <2>5, <3>4
    <3> QED BY <2>11, <3>5 DEF UserOK
  <2>13. \A v \in Users \ {u} : SameUser(timers, r, v) BY <2>2, <2>5, SameTwice
  <2>14. PICK users : users = [user EXCEPT ![u] = b] OBVIOUS
  <2>15. users \in [Users -> UserStates] /\ \A v \in Users : UserOK(users[v], v, r)
    BY <2>11, <2>12, <2>13, <2>14, OneUser
  <2>16. user' = users BY <1>11, <2>9, <2>10, <2>14
  <2> QED BY <1>5, <2>5, <2>6, <2>7, <2>8, <2>15, <2>16 DEF LifeOK
<1> QED BY <1>7, <1>9, <1>10, <1>11

\* A monster comes back.
LEMMA MonsterRespawnStep ==
  ASSUME LifeOK, HandleMonsterRespawn
  PROVE  LifeOK'
<1>1. PICK h \in QueuedEvents :
        h = Head(timers) /\ h.ev = "MONSTER_RESPAWN" /\ timers # <<>>
  <2>1. Runs("MONSTER_RESPAWN") /\ "MONSTER_RESPAWN" \in EventTypes
    BY DEF HandleMonsterRespawn, EventTypes
  <2> QED BY <2>1, RunsEvent
<1>2. PICK m \in Monsters : m = h.m
  <2>1. h.m \in Monsters BY <1>1, EventKinds
  <2> QED BY <2>1
<1>3. UNCHANGED <<user, packets, lives>> BY DEF HandleMonsterRespawn
<1>4. /\ timers \in Queues /\ monster \in [Monsters -> MonsterStates]
      /\ \A k \in Monsters : MonsterOK(monster[k], k, timers)
  BY DEF LifeOK
<1>5. PICK s \in MonsterStates : s = monster[m] BY <1>4
<1>6. PICK x \in Zone :
        Ends(m, [monster[m] EXCEPT !.x = x, !.spawn = x, !.hp = MONSTER_MAX_HP,
                                   !.active = FALSE, !.attack = FALSE])
  BY <1>1, <1>2 DEF HandleMonsterRespawn
<1>7. PICK b : b = [s EXCEPT !.x = x, !.spawn = x, !.hp = MONSTER_MAX_HP,
                             !.active = FALSE, !.attack = FALSE]
  OBVIOUS
<1>8. b \in MonsterStates /\ b.hp # 0 /\ b.active = FALSE
  <2>1. MONSTER_MAX_HP \in 0 .. MONSTER_MAX_HP /\ MONSTER_MAX_HP # 0 BY LifeAssumption
  <2>2. b.hp = MONSTER_MAX_HP /\ b.active = FALSE BY <1>7 DEF MonsterStates
  <2>3. b \in MonsterStates BY <1>7, <2>1 DEF MonsterStates
  <2> QED BY <2>1, <2>2, <2>3
<1>9. PICK t : t = Tail(timers) OBVIOUS
<1>10. /\ t \in Queues
       /\ \A k \in Monsters \ {m} : SameMonster(timers, t, k)
       /\ \A v \in Users : SameUser(timers, t, v)
  BY <1>1, <1>2, <1>4, <1>9, TailKeeps
<1>11. Count(t, Of("MONSTER_RESPAWN", m)) = 0
  <2>1. /\ \A E : Count(t, E) = Count(timers, E) - (IF h \in E THEN 1 ELSE 0)
        /\ \A E : Count(t, E) \in Nat
    BY <1>1, <1>4, <1>9, TailLemma
  <2>2. h \in Of("MONSTER_RESPAWN", m) BY <1>1, <1>2 DEF Of
  <2>3. Count(timers, Of("MONSTER_RESPAWN", m)) = IF s.hp = 0 THEN 1 ELSE 0
    BY <1>4, <1>5 DEF MonsterOK
  <2>4. /\ Count(t, Of("MONSTER_RESPAWN", m)) = Count(timers, Of("MONSTER_RESPAWN", m)) - 1
        /\ Count(t, Of("MONSTER_RESPAWN", m)) \in Nat
    BY <2>1, <2>2
  <2> QED BY <2>3, <2>4
<1>12. MonsterOK(b, m, t) BY <1>8, <1>11 DEF MonsterOK
<1>13. monster' = [monster EXCEPT ![m] = b] /\ timers' = t
  BY <1>5, <1>6, <1>7, <1>9 DEF Ends
<1>14. ASSUME NEW k \in Monsters PROVE MonsterOK(monster'[k], k, timers')
  <2>1. CASE k = m BY <1>4, <1>12, <1>13, <2>1
  <2>2. CASE k # m
    <3>1. MonsterOK(monster[k], k, t) BY <1>4, <1>10, <2>2, KeepMonster
    <3> QED BY <1>4, <1>13, <2>2, <3>1
  <2> QED BY <2>1, <2>2
<1>15. MovesKept BY <1>4, <1>8, <1>10, <1>13, <1>14 DEF MovesKept
<1> QED BY <1>3, <1>15, OnlyMonsters

\* A heal: a living user's chain goes on, a dead user's ends.
LEMMA HealStep ==
  ASSUME LifeOK, HandleHeal
  PROVE  LifeOK'
<1>1. PICK h \in QueuedEvents : h = Head(timers) /\ h.ev = "HEAL" /\ timers # <<>>
  <2>1. Runs("HEAL") /\ "HEAL" \in EventTypes BY DEF HandleHeal, EventTypes
  <2> QED BY <2>1, RunsEvent
<1>2. PICK u \in Users : u = h.u
  <2>1. h.u \in Users BY <1>1, EventKinds
  <2> QED BY <2>1
<1>3. UNCHANGED <<monster, packets, lives>> BY DEF HandleHeal
<1>4. /\ timers \in Queues /\ user \in [Users -> UserStates]
      /\ \A v \in Users : UserOK(user[v], v, timers)
  BY DEF LifeOK
<1>5. PICK s \in UserStates : s = user[u] BY <1>4
<1>6. PICK t : t = Tail(timers) OBVIOUS
<1>7. /\ t \in Queues
      /\ \A k \in Monsters : SameMonster(timers, t, k)
      /\ \A v \in Users \ {u} : SameUser(timers, t, v)
  BY <1>1, <1>2, <1>4, <1>6, TailKeeps
<1>8. /\ Count(t, Of("HEAL", u)) = Count(timers, Of("HEAL", u)) - 1
      /\ Count(t, Of("HEAL", u)) \in Nat
      /\ Count(timers, Of("HEAL", u)) \in Nat
      /\ Count(t, Of("USER_RESPAWN", u)) = Count(timers, Of("USER_RESPAWN", u))
      /\ HealsFirst(timers, u) => HealsFirst(t, u)
  <2>1. /\ \A E : Count(t, E) = Count(timers, E) - (IF h \in E THEN 1 ELSE 0)
        /\ \A E : Count(timers, E) \in Nat /\ Count(t, E) \in Nat
        /\ \A v : HealsFirst(timers, v) => HealsFirst(t, v)
    BY <1>1, <1>4, <1>6, TailLemma
  <2>2. h \in Of("HEAL", u) /\ h \notin Of("USER_RESPAWN", u) BY <1>1, <1>2 DEF Of
  <2> QED BY <2>1, <2>2
<1>9. UserOK(s, u, timers) BY <1>4, <1>5
<1>10. \/ /\ s.at = "world" /\ s.hp > 0
          /\ user' = [user EXCEPT ![u] = [s EXCEPT !.hp = HealHp(s.hp)]]
          /\ timers' = ScheduleAfter(t, HealDelay, UserEvent("HEAL", u))
       \/ /\ ~(s.at = "world" /\ s.hp > 0)
          /\ timers' = t /\ user' = user
  BY <1>1, <1>2, <1>5, <1>6 DEF HandleHeal, Heals, Exists
<1>11. CASE /\ s.at = "world" /\ s.hp > 0
            /\ user' = [user EXCEPT ![u] = [s EXCEPT !.hp = HealHp(s.hp)]]
            /\ timers' = ScheduleAfter(t, HealDelay, UserEvent("HEAL", u))
  <2>1. PICK ev \in {"HEAL", "USER_RESPAWN"} : ev = "HEAL" OBVIOUS
  <2>2. PICK r : r = ScheduleAfter(t, HealDelay, UserEvent(ev, u)) OBVIOUS
  <2>3. /\ r \in Queues
        /\ \A k \in Monsters : SameMonster(t, r, k)
        /\ \A v \in Users \ {u} : SameUser(t, r, v)
        /\ Count(r, Of(ev, u)) = Count(t, Of(ev, u)) + 1
        /\ \A other \in {"HEAL", "USER_RESPAWN"} \ {ev} :
             Count(r, Of(other, u)) = Count(t, Of(other, u))
        /\ Count(t, Of("USER_RESPAWN", u)) = 0 => HealsFirst(r, u)
    <3>1. HealDelay \in Nat BY LifeAssumption
    <3> QED BY <1>7, <2>1, <2>2, <3>1, AddUserEvent
  <2>4. PICK hp \in 0 .. PLAYER_MAX_HP : hp = HealHp(s.hp) /\ hp > 0
    <3>1. s.hp \in 0 .. PLAYER_MAX_HP BY DEF UserStates
    <3>2. HEAL_SIZE \in Nat /\ PLAYER_MAX_HP \in Nat \ {0} BY LifeAssumption
    <3>3. HealHp(s.hp) \in 0 .. PLAYER_MAX_HP /\ HealHp(s.hp) > 0
      BY <1>11, <3>1, <3>2 DEF HealHp
    <3> QED BY <3>3
  <2>5. PICK b : b = [s EXCEPT !.hp = hp] OBVIOUS
  <2>6. b \in UserStates /\ b.hp = hp /\ b.at = "world" BY <1>11, <2>5, UserHp
  <2>7. UserOK(b, u, r)
    <3>1. s.hp # 0 /\ hp # 0
      <4>1. s.hp \in 0 .. PLAYER_MAX_HP BY DEF UserStates
      <4>2. PLAYER_MAX_HP \in Nat BY LifeAssumption
      <4> QED BY <1>11, <2>4, <4>1, <4>2
    <3>2. Count(timers, Of("HEAL", u)) = 1 /\ Count(timers, Of("USER_RESPAWN", u)) = 0
      BY <1>9, <1>11, <3>1 DEF UserOK
    <3>3. /\ Count(r, Of("HEAL", u)) = 1 /\ Count(r, Of("USER_RESPAWN", u)) = 0
          /\ HealsFirst(r, u)
      BY <1>8, <2>1, <2>3, <3>2
    <3> QED BY <2>4, <2>6, <3>1, <3>3 DEF UserOK
  <2>8. \A v \in Users \ {u} : SameUser(timers, r, v) BY <1>7, <2>3, SameTwice
  <2>9. PICK new : new = [user EXCEPT ![u] = b] OBVIOUS
  <2>10. new \in [Users -> UserStates] /\ \A v \in Users : UserOK(new[v], v, r)
    BY <2>6, <2>7, <2>8, <2>9, OneUser
  <2>11. user' = new /\ timers' = r BY <1>11, <2>1, <2>2, <2>4, <2>5, <2>9
  <2>12. \A k \in Monsters : MonsterOK(monster[k], k, r)
    <3> SUFFICES ASSUME NEW k \in Monsters PROVE MonsterOK(monster[k], k, r) OBVIOUS
    <3>1. SameMonster(timers, r, k) BY <1>7, <2>3, SameTwice
    <3> QED BY <3>1, KeepMonster DEF LifeOK
  <2> QED BY <1>3, <2>3, <2>10, <2>11, <2>12 DEF LifeOK
<1>12. CASE ~(s.at = "world" /\ s.hp > 0) /\ timers' = t /\ user' = user
  <2>1. UserOK(s, u, t)
    <3>1. s.at # "new" BY <1>8, <1>9 DEF UserOK
    <3>2. CASE s.at = "world"
      <4>1. s.hp = 0
        <5>1. s.hp \in 0 .. PLAYER_MAX_HP /\ PLAYER_MAX_HP \in Nat
          BY LifeAssumption DEF UserStates
        <5> QED BY <1>12, <3>2, <5>1
      <4>2. Count(t, Of("HEAL", u)) <= 1 BY <1>8, <1>9, <3>2 DEF UserOK
      <4>3. ~(s.hp > 0) BY <4>1
      <4> QED BY <1>8, <1>9, <3>1, <3>2, <4>1, <4>2, <4>3 DEF UserOK
    <3>3. CASE s.at # "world" BY <3>1, <3>3 DEF UserOK
    <3> QED BY <3>2, <3>3
  <2>2. PICK new : new = [user EXCEPT ![u] = s] OBVIOUS
  <2>3. new \in [Users -> UserStates] /\ \A v \in Users : UserOK(new[v], v, t)
    BY <1>7, <2>1, <2>2, OneUser
  <2>4. user' = new BY <1>4, <1>5, <1>12, <2>2
  <2>5. \A k \in Monsters : MonsterOK(monster[k], k, t)
    BY <1>7, KeepMonster DEF LifeOK
  <2> QED BY <1>3, <1>7, <1>12, <2>3, <2>4, <2>5 DEF LifeOK
<1> QED BY <1>10, <1>11, <1>12

\* When a user's respawn is due, the chain of heals of its earlier life has ended.
LEMMA NoHealLeft ==
  ASSUME NEW q \in Queues, q # <<>>, NEW u,
         Head(q).ev = "USER_RESPAWN", Head(q).u = u, HealsFirst(q, u), u # None
  PROVE  Count(q, Of("HEAL", u)) = 0
<1>1. q \in Seq(QueuedEvents) BY DEF Queues
<1>2. PICK L \in Nat : L = Len(q) /\ DOMAIN q = 1 .. L /\ L # 0 BY <1>1
<1>3. 1 \in DOMAIN q /\ Head(q) = q[1] BY <1>1, <1>2
<1>4. ASSUME NEW i \in DOMAIN q PROVE q[i] \notin Of("HEAL", u)
  <2>1. q[i] \in QueuedEvents BY <1>1
  <2>2. ASSUME q[i].ev = "HEAL", q[i].u = u PROVE FALSE
    <3>1. i < 1 BY <1>3, <2>2 DEF HealsFirst
    <3> QED BY <1>2, <3>1
  <2> QED BY <2>1, <2>2, EventKinds DEF Of
<1> QED BY <1>1, <1>4, CountType

\* A user comes back, and its chain of heals starts again.
LEMMA RespawnStep ==
  ASSUME LifeOK, HandleRespawn
  PROVE  LifeOK'
<1>1. PICK h \in QueuedEvents : h = Head(timers) /\ h.ev = "USER_RESPAWN" /\ timers # <<>>
  <2>1. Runs("USER_RESPAWN") /\ "USER_RESPAWN" \in EventTypes
    BY DEF HandleRespawn, EventTypes
  <2> QED BY <2>1, RunsEvent
<1>2. PICK u \in Users : u = h.u
  <2>1. h.u \in Users BY <1>1, EventKinds
  <2> QED BY <2>1
<1>3. UNCHANGED packets BY DEF HandleRespawn
<1>4. /\ timers \in Queues /\ user \in [Users -> UserStates]
      /\ monster \in [Monsters -> MonsterStates]
      /\ lives \in [Users -> 0 .. MaxLives]
      /\ \A k \in Monsters : MonsterOK(monster[k], k, timers)
      /\ \A v \in Users : UserOK(user[v], v, timers)
  BY DEF LifeOK
<1>5. PICK s \in UserStates : s = user[u] BY <1>4
<1>6. PICK t : t = Tail(timers) OBVIOUS
<1>7. /\ t \in Queues
      /\ \A k \in Monsters : SameMonster(timers, t, k)
      /\ \A v \in Users \ {u} : SameUser(timers, t, v)
  BY <1>1, <1>2, <1>4, <1>6, TailKeeps
<1>8. \A k \in Monsters : MonsterOK(monster[k], k, t) BY <1>4, <1>7, KeepMonster
<1>9. CASE /\ Exists(u) /\ lives[u] < MaxLives
           /\ \E x \in IF user[u].x \in Zone THEN Zone ELSE {Width} :
                LET woken == Woken(x, TRUE) IN
                /\ user' = [user EXCEPT ![u].x = x, ![u].hp = PLAYER_MAX_HP]
                /\ monster' = Activated(woken)
                /\ timers' = ScheduleAfter(WithWoken(Tail(timers), woken, u), HealDelay,
                                           UserEvent("HEAL", u))
           /\ lives' = [lives EXCEPT ![u] = @ + 1]
  <2>1. PICK x \in IF user[u].x \in Zone THEN Zone ELSE {Width} :
          /\ user' = [user EXCEPT ![u].x = x, ![u].hp = PLAYER_MAX_HP]
          /\ monster' = Activated(Woken(x, TRUE))
          /\ timers' = ScheduleAfter(WithWoken(Tail(timers), Woken(x, TRUE), u), HealDelay,
                                     UserEvent("HEAL", u))
    BY <1>9
  <2>2. PICK woken \in SUBSET Monsters :
          woken = Woken(x, TRUE) /\ \A m \in woken : monster[m].hp > 0
    BY WokenLives
  <2>3. PICK q : q = WithWoken(t, woken, u) OBVIOUS
  <2>4. monster' = Activated(woken) BY <2>1, <2>2
  <2>5. /\ q \in Queues /\ monster' \in [Monsters -> MonsterStates]
        /\ \A k \in Monsters : MonsterOK(monster'[k], k, q)
        /\ \A v \in Users : SameUser(t, q, v)
    BY <1>4, <1>7, <1>8, <2>2, <2>3, <2>4, WakeLemma
  <2>6. PICK ev \in {"HEAL", "USER_RESPAWN"} : ev = "HEAL" OBVIOUS
  <2>7. PICK r : r = ScheduleAfter(q, HealDelay, UserEvent(ev, u)) OBVIOUS
  <2>8. /\ r \in Queues
        /\ \A k \in Monsters : SameMonster(q, r, k)
        /\ \A v \in Users \ {u} : SameUser(q, r, v)
        /\ Count(r, Of(ev, u)) = Count(q, Of(ev, u)) + 1
        /\ \A other \in {"HEAL", "USER_RESPAWN"} \ {ev} :
             Count(r, Of(other, u)) = Count(q, Of(other, u))
        /\ Count(q, Of("USER_RESPAWN", u)) = 0 => HealsFirst(r, u)
    <3>1. HealDelay \in Nat BY LifeAssumption
    <3> QED BY <2>5, <2>6, <2>7, <3>1, AddUserEvent
  <2>9. timers' = r BY <1>6, <2>1, <2>2, <2>3, <2>6, <2>7
  <2>10. Count(t, Of("USER_RESPAWN", u)) = 0 /\ Count(t, Of("HEAL", u)) = 0
    <3>1. UserOK(s, u, timers) /\ s.at = "world" BY <1>4, <1>5, <1>9 DEF Exists
    <3>2. /\ \A E : Count(t, E) = Count(timers, E) - (IF h \in E THEN 1 ELSE 0)
          /\ \A E : Count(timers, E) \in Nat /\ Count(t, E) \in Nat
      BY <1>1, <1>4, <1>6, TailLemma
    <3>3. h \in Of("USER_RESPAWN", u) /\ h \notin Of("HEAL", u) BY <1>1, <1>2 DEF Of
    <3>4. /\ Count(t, Of("USER_RESPAWN", u)) = Count(timers, Of("USER_RESPAWN", u)) - 1
          /\ Count(t, Of("USER_RESPAWN", u)) \in Nat
          /\ Count(t, Of("HEAL", u)) = Count(timers, Of("HEAL", u))
      BY <3>2, <3>3
    <3>5. /\ Count(timers, Of("USER_RESPAWN", u)) = IF s.hp = 0 THEN 1 ELSE 0
          /\ HealsFirst(timers, u)
      BY <3>1 DEF UserOK
    <3>6. u # None BY LifeAssumption
    <3>7. Count(timers, Of("HEAL", u)) = 0
      BY <1>1, <1>2, <1>4, <3>5, <3>6, NoHealLeft
    <3> QED BY <3>4, <3>5, <3>7
  <2>11. Count(q, Of("USER_RESPAWN", u)) = 0 /\ Count(q, Of("HEAL", u)) = 0
    BY <2>5, <2>10 DEF SameUser
  <2>12. /\ Count(r, Of("HEAL", u)) = 1 /\ Count(r, Of("USER_RESPAWN", u)) = 0
         /\ HealsFirst(r, u)
    BY <2>6, <2>8, <2>11
  <2>13. PICK b : b = [s EXCEPT !.x = x, !.hp = PLAYER_MAX_HP] OBVIOUS
  <2>14. b \in UserStates /\ b.hp # 0 /\ b.hp > 0 /\ b.at = "world"
    <3>1. PLAYER_MAX_HP \in Nat \ {0} /\ Width \in Nat BY LifeAssumption
    <3>2. PLAYER_MAX_HP \in 0 .. PLAYER_MAX_HP BY <3>1
    <3>3. x \in Cells
      <4>1. CASE user[u].x \in Zone BY <3>1, <4>1 DEF Zone, Cells
      <4>2. CASE user[u].x \notin Zone BY <3>1, <4>2 DEF Cells
      <4> QED BY <4>1, <4>2
    <3>4. b \in UserStates BY <2>13, <3>2, <3>3 DEF UserStates
    <3>5. b.hp = PLAYER_MAX_HP /\ b.at = s.at BY <2>13 DEF UserStates
    <3> QED BY <1>5, <1>9, <3>1, <3>4, <3>5 DEF Exists
  <2>15. UserOK(b, u, r) BY <2>12, <2>14 DEF UserOK
  <2>16. \A v \in Users \ {u} : SameUser(timers, r, v)
    <3> SUFFICES ASSUME NEW v \in Users \ {u} PROVE SameUser(timers, r, v) OBVIOUS
    <3>1. SameUser(timers, q, v) BY <1>7, <2>5, SameTwice
    <3> QED BY <2>8, <3>1, SameTwice
  <2>17. PICK new : new = [user EXCEPT ![u] = b] OBVIOUS
  <2>18. new \in [Users -> UserStates] /\ \A v \in Users : UserOK(new[v], v, r)
    BY <2>14, <2>15, <2>16, <2>17, OneUser
  <2>19. user' = new BY <1>4, <1>5, <2>1, <2>13, <2>17
  <2>20. \A k \in Monsters : MonsterOK(monster'[k], k, r) BY <2>5, <2>8, KeepMonster
  <2>21. lives' \in [Users -> 0 .. MaxLives]
    <3>1. MaxLives \in Nat BY LifeAssumption
    <3> QED BY <1>4, <1>9, <3>1
  <2>22. packets' \in 0 .. MaxPackets BY <1>3 DEF LifeOK
  <2> QED BY <2>5, <2>8, <2>9, <2>18, <2>19, <2>20, <2>21, <2>22 DEF LifeOK
<1>10. CASE /\ user' = [user EXCEPT ![u].at = "gone"]
            /\ timers' = Tail(timers)
            /\ UNCHANGED <<monster, lives>>
  <2>1. PICK b : b = [s EXCEPT !.at = "gone"] OBVIOUS
  <2>2. b \in UserStates /\ UserOK(b, u, t) BY <2>1, GoneLemma
  <2>3. PICK new : new = [user EXCEPT ![u] = b] OBVIOUS
  <2>4. new \in [Users -> UserStates] /\ \A v \in Users : UserOK(new[v], v, t)
    BY <1>7, <2>2, <2>3, OneUser
  <2>5. user' = new BY <1>5, <1>10, <2>1, <2>3
  <2> QED BY <1>3, <1>6, <1>7, <1>8, <1>10, <2>4, <2>5 DEF LifeOK
<1>11. Head(timers).u = u BY <1>1, <1>2
<1> QED BY <1>9, <1>10, <1>11 DEF HandleRespawn

-----------------------------------------------------------------------------
\* The theorems.

\* The queue is empty at first: nobody is dead and nobody has logged in.
LEMMA LifeInit == Init => LifeOK
<1> SUFFICES ASSUME Init PROVE LifeOK OBVIOUS
<1>1. /\ MONSTER_MAX_HP \in Nat \ {0} /\ PLAYER_MAX_HP \in Nat \ {0} /\ Width \in Nat \ {0}
      /\ MaxPackets \in Nat /\ MaxLives \in Nat
  BY LifeAssumption
<1>2. timers = <<>> BY DEF Init
<1>3. timers \in Seq(QueuedEvents) /\ DOMAIN timers = {} BY <1>2
<1>4. timers \in Queues BY <1>3 DEF Queues, InOrder
<1>5. \A E : Count(timers, E) = 0 BY <1>3, CountType
<1>6. PICK x \in [Monsters -> Zone], type \in [Monsters -> {"AGGRO", "PASSIVE"}] :
        monster = [m \in Monsters |->
                     [x |-> x[m], left |-> FALSE, spawn |-> x[m], type |-> type[m],
                      hp |-> MONSTER_MAX_HP, active |-> FALSE, attack |-> FALSE]]
  BY DEF Init
<1>7. ASSUME NEW m \in Monsters
      PROVE  monster[m] \in MonsterStates /\ MonsterOK(monster[m], m, timers)
  <2>1. MONSTER_MAX_HP \in 0 .. MONSTER_MAX_HP BY <1>1
  <2>2. monster[m] \in MonsterStates BY <1>6, <2>1 DEF MonsterStates
  <2>3. monster[m].hp = MONSTER_MAX_HP /\ monster[m].active = FALSE BY <1>6
  <2>4. monster[m].hp # 0 /\ ~monster[m].active BY <1>1, <2>3
  <2> QED BY <1>5, <2>2, <2>4 DEF MonsterOK
<1>8. ASSUME NEW u \in Users PROVE user[u] \in UserStates /\ UserOK(user[u], u, timers)
  <2>1. 0 \in Cells /\ PLAYER_MAX_HP \in 0 .. PLAYER_MAX_HP /\ PLAYER_MAX_HP > 0
    BY <1>1 DEF Cells
  <2>2. user[u] = [x |-> 0, hp |-> PLAYER_MAX_HP, at |-> "new"] BY DEF Init
  <2>3. user[u] \in UserStates /\ user[u].hp > 0 /\ user[u].at = "new"
    BY <2>1, <2>2 DEF UserStates
  <2> QED BY <1>5, <2>3 DEF UserOK
<1>9. packets \in 0 .. MaxPackets /\ lives \in [Users -> 0 .. MaxLives] BY <1>1 DEF Init
<1>10. monster \in [Monsters -> MonsterStates] BY <1>6, <1>7
<1>11. user \in [Users -> UserStates] BY <1>8 DEF Init
<1> QED BY <1>4, <1>7, <1>8, <1>9, <1>10, <1>11 DEF LifeOK

\* Every step keeps LifeOK.
LEMMA LifeStep == LifeOK /\ [Next]_vars => LifeOK'
<1> SUFFICES ASSUME LifeOK, [Next]_vars PROVE LifeOK' OBVIOUS
<1>1. CASE Tick BY <1>1, TickStep
<1>2. CASE HandleRandomMove BY <1>2, RandomMoveStep
<1>3. CASE HandleAggroMove BY <1>3, AggroMoveStep
<1>4. CASE HandleAttackToPlayer BY <1>4, BlowStep
<1>5. CASE HandleMonsterRespawn BY <1>5, MonsterRespawnStep
<1>6. CASE HandleHeal BY <1>6, HealStep
<1>7. CASE HandleRespawn BY <1>7, RespawnStep
<1>8. ASSUME NEW u \in Users, Login(u) PROVE LifeOK' BY <1>8, LoginStep
<1>9. ASSUME NEW u \in Users, HandlePlayerMove(u) PROVE LifeOK' BY <1>9, MoveStep
<1>10. ASSUME NEW u \in Users, HandleAttack(u) \/ SkillAttack(u) PROVE LifeOK'
  BY <1>10, AttackStep
<1>11. ASSUME NEW u \in Users, Disconnect(u) PROVE LifeOK' BY <1>11, DisconnectStep
<1>12. CASE UNCHANGED vars BY <1>12 DEF vars, LifeOK
<1> QED
  BY <1>1, <1>2, <1>3, <1>4, <1>5, <1>6, <1>7, <1>8, <1>9, <1>10, <1>11, <1>12
  DEF Next, RunTimer

\* LifeOK counts the events as Pending does.
LEMMA LifeOKGivesInv == LifeOK => LifeInv
<1> SUFFICES ASSUME LifeOK PROVE LifeInv OBVIOUS
<1>1. timers \in Seq(QueuedEvents) /\ InOrder(timers) BY DEF LifeOK, Queues
<1>2. \A ev, who : Pending(ev, who) = Count(timers, Of(ev, who))
  BY <1>1, PendingIsCount DEF Pending
<1>3. timers \in Seq(Events)
  <2>1. QueuedEvents \subseteq Events BY EventKinds
  <2> QED BY <1>1, <2>1
<1>4. TypeOK BY <1>3 DEF TypeOK, LifeOK
<1>5. MonsterComesBack BY <1>2 DEF MonsterComesBack, LifeOK, MonsterOK
<1>6. ChaseGoesOn BY <1>2 DEF ChaseGoesOn, LifeOK, MonsterOK
<1>7. \A m \in Monsters : monster[m].hp = 0 => ~monster[m].active
  BY DEF LifeOK, MonsterOK
<1>8. UserComesBack BY <1>2 DEF UserComesBack, LifeOK, UserOK, Exists
<1>9. OneHealChain BY <1>2 DEF OneHealChain, LifeOK, UserOK, Exists
<1>10. \A u \in Users : /\ Exists(u) => HealsFirst(timers, u)
                        /\ user[u].at = "new" => /\ user[u].hp > 0
                                                 /\ Pending("HEAL", u) = 0
                                                 /\ Pending("USER_RESPAWN", u) = 0
  BY <1>2 DEF LifeOK, UserOK, Exists
<1> QED BY <1>1, <1>4, <1>5, <1>6, <1>7, <1>8, <1>9, <1>10 DEF LifeInv

\* The inductive invariant of the timer chains holds in every reachable state.
THEOREM LifeCorrect == Spec => []LifeInv
BY LifeInit, LifeStep, LifeOKGivesInv, PTL DEF Spec

\* Every handler keeps monsters, users and queued events in their types, a
\* monster's steps in its zone included (RandomMove, TryAdvanceTowardGoal).
THEOREM LifeTypeCorrect == Spec => []TypeOK
<1>1. LifeInv => TypeOK BY DEF LifeInv
<1> QED BY <1>1, LifeCorrect, PTL

\* A killed monster has exactly one respawn ahead of it and a living one none
\* (AttackMonster, HandleMonsterRespawn).
THEOREM MonsterComesBackCorrect == Spec => []MonsterComesBack
<1>1. LifeInv => MonsterComesBack BY DEF LifeInv
<1> QED BY <1>1, LifeCorrect, PTL

\* A killed user has exactly one respawn ahead of it and a living one none
\* (HandleAttackToPlayer, HandleRespawn).
THEOREM UserComesBackCorrect == Spec => []UserComesBack
<1>1. LifeInv => UserComesBack BY DEF LifeInv
<1> QED BY <1>1, LifeCorrect, PTL

\* A living user heals on one chain of events, death and respawn included
\* (HandleHeal, HandleRespawn).
THEOREM OneHealChainCorrect == Spec => []OneHealChain
<1>1. LifeInv => OneHealChain BY DEF LifeInv
<1> QED BY <1>1, LifeCorrect, PTL

\* An active aggressive monster has its next step in the queue
\* (WakeUpMonster, HandleAggroMove).
THEOREM ChaseGoesOnCorrect == Spec => []ChaseGoesOn
<1>1. LifeInv => ChaseGoesOn BY DEF LifeInv
<1> QED BY <1>1, LifeCorrect, PTL
===============================================================================
