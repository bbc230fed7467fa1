-------------------------- MODULE SessionSend_proofs --------------------------
(***************************************************************************)
(* Proofs about SessionSend, for any number of workers, any packet and     *)
(* batch sizes and any number of bytes, on a system where WSASend fails    *)
(* only when the connection does.                                          *)
(***************************************************************************)
EXTENDS SessionSend, SequenceTheorems, TLAPS

\* The bytes of the queue after a packet of n bytes is added.
LEMMA PostedBytes ==
  ASSUME NEW q \in Seq(Nat), NEW p \in Nat, NEW n \in Nat
  PROVE  LET r == q \o [i \in 1..n |-> p + i] IN
         /\ r \in Seq(Nat) /\ Len(r) = Len(q) + n
         /\ \A i \in 1..Len(q) : r[i] = q[i]
         /\ \A i \in (Len(q) + 1)..(Len(q) + n) : r[i] = p + (i - Len(q))
<1> DEFINE t == [i \in 1..n |-> p + i]
<1>1. t \in Seq(Nat) /\ Len(t) = n
  <2>1. \A i \in 1..n : p + i \in Nat OBVIOUS
  <2> QED BY <2>1
<1>2. \A i \in 1..n : t[i] = p + i OBVIOUS
<1> HIDE DEF t
<1>3. /\ q \o t \in Seq(Nat) /\ Len(q \o t) = Len(q) + n
      /\ \A i \in 1..Len(q) : (q \o t)[i] = q[i]
      /\ \A i \in (Len(q) + 1)..(Len(q) + n) : (q \o t)[i] = t[i - Len(q)]
  BY <1>1
<1>4. \A i \in (Len(q) + 1)..(Len(q) + n) : i - Len(q) \in 1..n
  OBVIOUS
<1>5. \A i \in (Len(q) + 1)..(Len(q) + n) : (q \o t)[i] = p + (i - Len(q))
  BY <1>2, <1>3, <1>4
<1> QED BY <1>3, <1>5 DEF t

\* The bytes of a part of a sequence.
LEMMA PartOf ==
  ASSUME NEW q \in Seq(Nat), NEW a \in 1..(Len(q) + 1), NEW b \in 0..Len(q),
         a <= b + 1
  PROVE  /\ SubSeq(q, a, b) \in Seq(Nat)
         /\ Len(SubSeq(q, a, b)) = (b - a) + 1
         /\ \A i \in 1..((b - a) + 1) : SubSeq(q, a, b)[i] = q[(a + i) - 1]
OBVIOUS


-----------------------------------------------------------------------------
\* A queue whose packets end near every byte always gives SubmitSendBatchImpl
\* something to send.
LEMMA SomethingFits ==
  ASSUME NEW q \in Seq(Nat), q # <<>>, NEW e,
         \A i \in 1..Len(q) : \E j \in i..Len(q) : j < i + MaxPacket /\ q[j] \in e
  PROVE  ~Fits(0, q, e)
<1>1. 1 \in 1..Len(q) OBVIOUS
<1>2. PICK j \in 1..Len(q) : j < 1 + MaxPacket /\ q[j] \in e BY <1>1
<1>3. j <= Capacity BY <1>2, SendAssumption
<1>4. j \in (0 + 1)..Len(q) BY <1>2
<1> QED BY <1>2, <1>3, <1>4 DEF Fits

\* PostSend adds a whole packet.
LEMMA BoundariesPost ==
  ASSUME SendInv, NEW n \in 1..MaxPacket, PostSend(n)
  PROVE  /\ Boundaries'
         /\ queue' \in Seq(Nat) /\ ends' \in SUBSET Nat /\ posted' \in Nat
         /\ posted' = posted + n /\ Len(queue') = Len(queue) + n
         /\ \A i \in 1..Len(queue') : queue'[i] = (posted - Len(queue)) + i
<1>1. /\ queue \in Seq(Nat) /\ posted \in Nat /\ ends \in SUBSET Nat
      /\ Boundaries /\ n \in Nat /\ n <= MaxPacket /\ MaxPacket \in Nat
  BY SendAssumption DEF SendInv, TypeOK
<1>2. /\ posted' = posted + n /\ ends' = ends \cup {posted + n}
      /\ queue' = queue \o [i \in 1..n |-> posted + i]
  BY DEF PostSend
<1>3. /\ queue' \in Seq(Nat) /\ Len(queue') = Len(queue) + n
      /\ \A i \in 1..Len(queue) : queue'[i] = queue[i]
      /\ \A i \in (Len(queue) + 1)..(Len(queue) + n) :
           queue'[i] = posted + (i - Len(queue))
  BY <1>1, <1>2, PostedBytes
<1>4. \A i \in 1..Len(queue') : queue'[i] = (posted - Len(queue)) + i
  <2>1. \A i \in 1..Len(queue) : queue[i] = (posted - Len(queue)) + i
    BY <1>1 DEF SendInv, Positions
  <2>2. Len(queue) \in Nat BY <1>1
  <2> TAKE i \in 1..Len(queue')
  <2>3. CASE i \in 1..Len(queue) BY <1>3, <2>1, <2>3
  <2>4. CASE i \in (Len(queue) + 1)..(Len(queue) + n)
    <3>1. queue'[i] = posted + (i - Len(queue)) BY <1>3, <2>4
    <3> QED BY <1>1, <2>2, <3>1
  <2> QED BY <1>1, <1>3, <2>2, <2>3, <2>4
<1>5. Boundaries'
  <2> SUFFICES ASSUME NEW i \in 1..Len(queue')
               PROVE  \E j \in i..Len(queue') : j < i + MaxPacket /\ queue'[j] \in ends'
    BY <1>3 DEF Boundaries
  <2>1. CASE i \in 1..Len(queue)
    <3>1. PICK j \in i..Len(queue) : j < i + MaxPacket /\ queue[j] \in ends
      BY <1>1, <2>1 DEF Boundaries
    <3>2. j \in i..Len(queue') /\ j \in 1..Len(queue) BY <1>1, <1>3, <2>1, <3>1
    <3> QED BY <1>2, <1>3, <3>1, <3>2
  <2>2. CASE i \in (Len(queue) + 1)..(Len(queue) + n)
    <3> DEFINE j == Len(queue) + n
    <3>1. j \in i..Len(queue') /\ j < i + MaxPacket
          /\ j \in (Len(queue) + 1)..(Len(queue) + n)
      BY <1>1, <1>3, <2>2
    <3>2. queue'[j] = posted + n
      <4>1. Len(queue) \in Nat BY <1>1
      <4>2. queue'[j] = posted + (j - Len(queue)) BY <1>3, <3>1
      <4> QED BY <1>1, <4>1, <4>2
    <3> QED BY <1>2, <3>1, <3>2
  <2> QED BY <1>1, <1>3, <2>1, <2>2
<1>6. ends' \in SUBSET Nat /\ posted' \in Nat BY <1>1, <1>2
<1> QED BY <1>1, <1>2, <1>3, <1>4, <1>5, <1>6

\* A new batch is made of the next bytes of the stream.
LEMMA SubmitStep ==
  ASSUME SendInv, sends = <<>>, Submit(queue', ends'), open, open' = open,
         queue' \in Seq(Nat), ends' \in SUBSET Nat, posted' \in Nat, wire' = wire,
         Len(wire) + Len(queue') = posted',
         \A i \in 1..Len(queue') : queue'[i] = Len(wire) + i,
         Boundaries',
         job' \in [Workers -> {"idle", "complete", "fail", "close"}],
         count' \in [Workers -> Nat],
         \A w \in Workers : job'[w] = "idle"
  PROVE  SendInv'
<1>1. PICK k \in 1..Len(queue') : /\ batch' = SubSeq(queue', 1, k)
                                  /\ sends' = Append(sends, SubSeq(queue', 1, k))
  BY DEF Submit
<1>2. inFlight' = TRUE /\ up' = up /\ faults' = faults BY DEF Submit
<1>3. /\ batch' \in Seq(Nat) /\ Len(batch') = k
      /\ \A i \in 1..k : batch'[i] = queue'[i]
  BY <1>1, PartOf
<1>4. sends' = <<batch'>> BY <1>1
<1>5. sends' \in Seq(Seq(Nat)) /\ Len(sends') = 1 /\ sends'[1] = batch' /\ sends' # <<>>
  BY <1>3, <1>4
<1>6. wire \in Seq(Nat) /\ Len(wire) \in Nat BY DEF SendInv, TypeOK
<1>7. TypeOK'
  <2>1. open' \in BOOLEAN /\ up' \in BOOLEAN /\ inFlight' \in BOOLEAN
    BY <1>2 DEF SendInv, TypeOK
  <2>2. faults' \in Nat BY <1>2 DEF SendInv, TypeOK
  <2> QED BY <1>3, <1>5, <1>6, <2>1, <2>2 DEF TypeOK
<1>8. Turns' BY <1>2, <1>5 DEF Turns
<1>9. Positions'
  <2>1. Len(wire') <= posted' /\ Len(queue') <= posted' BY <1>6
  <2>2. \A i \in 1..Len(queue') : queue'[i] = (posted' - Len(queue')) + i
    BY <1>6
  <2>3. \A i \in 1..k : batch'[i] = Len(wire') + i
    <3>1. \A i \in 1..k : i \in 1..Len(queue') OBVIOUS
    <3>2. Len(wire') = Len(wire) OBVIOUS
    <3> QED BY <1>3, <3>1, <3>2
  <2>4. Len(wire') + Len(batch') <= posted' BY <1>3, <1>6
  <2>5. \A i \in DOMAIN wire' : wire'[i] = i BY DEF SendInv, Positions
  <2>6. DOMAIN batch' = 1..k /\ DOMAIN queue' = 1..Len(queue') BY <1>3
  <2> QED BY <1>2, <2>1, <2>2, <2>3, <2>4, <2>5, <2>6 DEF Positions
<1> QED BY <1>2, <1>7, <1>8, <1>9 DEF SendInv

\* Nobody is busy with a session on which a send can be submitted.
LEMMA AllIdle ==
  ASSUME SendInv, open, up, ~inFlight
  PROVE  /\ sends = <<>> /\ queue = <<>> /\ Len(wire) = posted
         /\ \A w \in Workers : job[w] = "idle"
<1>1. Turns /\ Positions BY DEF SendInv
<1>2. sends = <<>> BY <1>1 DEF Turns
<1>3. queue = <<>> /\ Len(wire) = posted BY <1>1 DEF Positions
<1>4. ASSUME NEW w \in Workers PROVE job[w] = "idle"
  <2>1. job[w] \in {"idle", "complete", "fail", "close"} BY DEF SendInv, TypeOK
  <2> QED BY <1>1, <2>1 DEF Turns
<1> QED BY <1>2, <1>3, <1>4

\* PostSend keeps the invariant.
LEMMA PostStep ==
  ASSUME MaxFaults = 0, SendInv, NEW n \in 1..MaxPacket, PostSend(n)
  PROVE  SendInv'
<1>1. /\ Boundaries'
      /\ queue' \in Seq(Nat) /\ ends' \in SUBSET Nat /\ posted' \in Nat
      /\ posted' = posted + n /\ Len(queue') = Len(queue) + n
      /\ \A i \in 1..Len(queue') : queue'[i] = (posted - Len(queue)) + i
  BY BoundariesPost
<1>2. open /\ UNCHANGED <<open, job, count, wire>> BY DEF PostSend
<1>3. /\ TypeOK /\ Turns /\ Positions /\ faults = 0 /\ n \in Nat /\ n > 0
      /\ queue \in Seq(Nat) /\ posted \in Nat /\ wire \in Seq(Nat)
      /\ Len(queue) \in Nat /\ Len(wire) \in Nat /\ Len(queue) <= posted
  BY SendAssumption DEF SendInv, TypeOK, Positions
<1>4. \A i \in 1..Len(queue') : queue'[i] = (posted' - Len(queue')) + i
  <2> TAKE i \in 1..Len(queue')
  <2>1. queue'[i] = (posted - Len(queue)) + i BY <1>1
  <2> QED BY <1>1, <1>3, <2>1
<1>5. CASE inFlight /\ UNCHANGED <<batch, inFlight, winsock>>
  <2>1. UNCHANGED <<batch, inFlight, up, sends, faults>> BY <1>5 DEF winsock
  <2>2. TypeOK' BY <1>1, <1>2, <1>3, <2>1 DEF TypeOK
  <2>3. Turns' BY <1>2, <1>3, <2>1 DEF Turns
  <2>4. Positions'
    <3>1. Len(wire') <= posted' /\ Len(queue') <= posted' BY <1>1, <1>2, <1>3 DEF Positions
    <3>2. sends' # <<>> => /\ \A i \in DOMAIN batch' : batch'[i] = Len(wire') + i
                           /\ Len(wire') + Len(batch') <= posted'
                           /\ Len(wire') + Len(queue') = posted'
      <4> SUFFICES ASSUME sends # <<>>
                   PROVE /\ \A i \in DOMAIN batch : batch[i] = Len(wire) + i
                         /\ Len(wire) + Len(batch) <= posted'
                         /\ Len(wire) + Len(queue') = posted'
        BY <1>2, <2>1
      <4>1. Len(batch) \in Nat BY <1>3 DEF TypeOK
      <4> QED BY <1>1, <1>2, <1>3, <4>1 DEF Positions
    <3>3. \A w \in Workers : job'[w] = "complete" =>
             Len(wire') + Len(queue') = posted' + count'[w] /\ Len(batch') <= Len(queue')
      <4> SUFFICES ASSUME NEW w \in Workers, job[w] = "complete"
                   PROVE  /\ Len(wire) + Len(queue') = posted' + count[w]
                          /\ Len(batch) <= Len(queue')
        BY <1>2, <2>1
      <4>1. count[w] \in Nat /\ Len(batch) \in Nat BY <1>3 DEF TypeOK
      <4>2. Len(wire) + Len(queue) = posted + count[w] /\ Len(batch) <= Len(queue)
        BY <1>2, <1>3 DEF Positions
      <4>3. Len(wire) + Len(queue') = posted' + count[w]
        <5>1. Len(queue') = Len(queue) + n /\ posted' = posted + n BY <1>1
        <5>2. \A a, b, c, d \in Nat : a + b = c + d => a + (b + n) = (c + n) + d
          BY <1>3
        <5>3. Len(wire) + (Len(queue) + n) = (posted + n) + count[w]
          <6> DEFINE c == count[w]
          <6>1. c \in Nat /\ Len(wire) + Len(queue) = posted + c BY <4>1, <4>2
          <6> HIDE DEF c
          <6>2. Len(wire) \in Nat /\ Len(queue) \in Nat /\ posted \in Nat BY <1>3
          <6>3. Len(wire) + (Len(queue) + n) = (posted + n) + c
            BY <5>2, <6>1, <6>2
          <6> QED BY <6>3 DEF c
        <5> QED BY <5>1, <5>3
      <4>4. Len(batch) <= Len(queue') BY <1>1, <1>3, <4>1, <4>2
      <4> QED BY <4>3, <4>4
    <3>4. DOMAIN queue' = 1..Len(queue') BY <1>1
    <3> QED BY <1>2, <1>3, <1>4, <1>5, <2>1, <3>1, <3>2, <3>3, <3>4 DEF Positions
  <2> QED BY <1>1, <1>3, <2>1, <2>2, <2>3, <2>4 DEF SendInv
<1>6. CASE ~inFlight /\ Submit(queue', ends')
  <2>1. up BY <1>6 DEF Submit
  <2>2. /\ sends = <<>> /\ queue = <<>> /\ Len(wire) = posted
        /\ \A w \in Workers : job[w] = "idle"
    BY <1>2, <1>6, <2>1, AllIdle
  <2>3. Len(queue) = 0 BY <2>2
  <2>4. Len(wire) + Len(queue') = posted' BY <1>1, <1>3, <2>2, <2>3
  <2>5. \A i \in 1..Len(queue') : queue'[i] = Len(wire) + i BY <1>1, <1>3, <2>2, <2>3
  <2>6. /\ job' \in [Workers -> {"idle", "complete", "fail", "close"}]
        /\ count' \in [Workers -> Nat]
        /\ \A w \in Workers : job'[w] = "idle"
    BY <1>2, <1>3, <2>2 DEF TypeOK
  <2> QED BY <1>1, <1>2, <1>6, <2>2, <2>4, <2>5, <2>6, SubmitStep
<1>7. CASE ~inFlight /\ SubmitFails(queue', ends')
  <2>1. queue' # <<>> BY <1>1, <1>3
  <2>2. DOMAIN queue' = 1..Len(queue') BY <1>1
  <2>3. ~Fits(0, queue', ends') BY <1>1, <2>1, <2>2, SomethingFits DEF Boundaries
  <2>4. /\ ~up /\ batch' = <<>> /\ inFlight' = FALSE
        /\ UNCHANGED <<up, sends, faults>>
    BY <1>3, <1>7, <2>3 DEF SubmitFails
  <2>5. sends = <<>> BY <1>3, <1>7 DEF Turns
  <2>6. TypeOK'
    <3>1. batch' \in Seq(Nat) BY <2>4
    <3>2. inFlight' \in BOOLEAN BY <2>4
    <3> QED BY <1>1, <1>2, <1>3, <2>4, <3>1, <3>2 DEF TypeOK
  <2>7. \A w \in Workers : job[w] # "complete" BY <1>3, <1>7 DEF Turns
  <2>8. Turns' BY <1>2, <1>3, <2>4, <2>5, <2>7 DEF Turns
  <2>9. Positions'
    <3>1. Len(wire') <= posted' /\ Len(queue') <= posted' BY <1>1, <1>2, <1>3 DEF Positions
    <3> QED BY <1>2, <1>3, <1>4, <2>2, <2>4, <2>5, <2>7, <3>1 DEF Positions
  <2> QED BY <1>1, <1>3, <2>4, <2>6, <2>8, <2>9 DEF SendInv
<1> QED BY <1>5, <1>6, <1>7 DEF PostSend

\* What Winsock takes from a send are the next bytes of the stream.
LEMMA TransferBytes ==
  ASSUME SendInv, NEW n \in Nat, Transfer(n)
  PROVE  /\ sends # <<>> /\ Len(sends) = 1 /\ sends' = <<>> /\ n <= Len(batch)
         /\ batch = Head(sends) /\ inFlight
         /\ wire' \in Seq(Nat) /\ Len(wire') = Len(wire) + n
         /\ Len(wire') <= posted
         /\ \A i \in DOMAIN wire' : wire'[i] = i
         /\ \A w \in Workers : job[w] = "idle"
<1>1. sends # <<>> /\ n <= Len(Head(sends)) BY DEF Transfer
<1>2. TypeOK /\ Turns /\ Positions BY DEF SendInv
<1>3. /\ Len(sends) = 1 /\ batch = sends[1] /\ sends \in Seq(Seq(Nat)) /\ inFlight
      /\ batch \in Seq(Nat) /\ wire \in Seq(Nat) /\ posted \in Nat
  BY <1>1, <1>2 DEF Turns, TypeOK
<1>4. Head(sends) = batch /\ Tail(sends) = <<>>
  <2>1. Head(sends) = sends[1] BY <1>1, <1>3
  <2>2. Tail(sends) \in Seq(Seq(Nat)) /\ Len(Tail(sends)) = 0
    BY <1>1, <1>3, HeadTailProperties
  <2>3. Tail(sends) = <<>> BY <2>2, EmptySeq
  <2> QED BY <1>3, <2>1, <2>3
<1>5. n <= Len(batch) /\ wire' = wire \o SubSeq(batch, 1, n) /\ sends' = <<>>
  BY <1>1, <1>4 DEF Transfer
<1>6. /\ SubSeq(batch, 1, n) \in Seq(Nat) /\ Len(SubSeq(batch, 1, n)) = n
      /\ \A i \in 1..n : SubSeq(batch, 1, n)[i] = batch[i]
  <2>1. n \in 0..Len(batch) /\ 1 \in 1..(Len(batch) + 1) BY <1>3, <1>5
  <2> QED BY <1>3, <2>1, PartOf
<1> DEFINE part == SubSeq(batch, 1, n)
<1>7. /\ wire' \in Seq(Nat) /\ Len(wire') = Len(wire) + n
      /\ \A i \in 1..Len(wire) : wire'[i] = wire[i]
      /\ \A i \in (Len(wire) + 1)..(Len(wire) + n) : wire'[i] = part[i - Len(wire)]
  <2> HIDE DEF part
  <2>1. wire' = wire \o part BY <1>5 DEF part
  <2>2. part \in Seq(Nat) /\ Len(part) = n BY <1>6 DEF part
  <2> QED BY <1>3, <2>1, <2>2
<1>8. Len(wire) \in Nat /\ Len(batch) \in Nat BY <1>3
<1>9. \A i \in DOMAIN wire' : wire'[i] = i
  <2> SUFFICES ASSUME NEW i \in 1..(Len(wire) + n) PROVE wire'[i] = i BY <1>7
  <2>1. CASE i \in 1..Len(wire)
    <3>1. wire[i] = i BY <1>2, <1>3, <2>1 DEF Positions
    <3> QED BY <1>7, <2>1, <3>1
  <2>2. CASE i \in (Len(wire) + 1)..(Len(wire) + n)
    <3>1. i - Len(wire) \in 1..n /\ i - Len(wire) \in 1..Len(batch) BY <1>5, <1>8, <2>2
    <3>2. wire'[i] = batch[i - Len(wire)] BY <1>6, <1>7, <2>2, <3>1
    <3>3. batch[i - Len(wire)] = Len(wire) + (i - Len(wire))
      BY <1>1, <1>2, <1>3, <3>1 DEF Positions
    <3> QED BY <1>8, <3>2, <3>3
  <2> QED BY <1>8, <2>1, <2>2
<1>10. Len(wire') <= posted BY <1>1, <1>2, <1>3, <1>5, <1>7, <1>8 DEF Positions
<1>11. \A w \in Workers : job[w] = "idle" BY <1>1, <1>2 DEF Turns
<1> QED BY <1>1, <1>3, <1>4, <1>5, <1>7, <1>9, <1>10, <1>11

\* Taking a completion keeps the invariant.
LEMMA DoneStep ==
  ASSUME SendInv, NEW w \in Workers, NEW n \in Nat, SendDone(w, n)
  PROVE  SendInv'
<1>1. /\ n > 0 /\ Transfer(n) /\ job' = [job EXCEPT ![w] = "complete"]
      /\ count' = [count EXCEPT ![w] = n]
      /\ UNCHANGED <<open, queue, batch, inFlight, up, faults, posted, ends>>
  BY DEF SendDone, session
<1>2. /\ sends # <<>> /\ sends' = <<>> /\ n <= Len(batch) /\ inFlight
      /\ wire' \in Seq(Nat) /\ Len(wire') = Len(wire) + n
      /\ Len(wire') <= posted
      /\ \A i \in DOMAIN wire' : wire'[i] = i
      /\ \A v \in Workers : job[v] = "idle"
  BY <1>1, TransferBytes
<1>3. TypeOK /\ Turns /\ Positions /\ Boundaries /\ faults = 0 BY DEF SendInv
<1>4. /\ job' \in [Workers -> {"idle", "complete", "fail", "close"}]
      /\ count' \in [Workers -> Nat]
      /\ job'[w] = "complete" /\ count'[w] = n
      /\ \A v \in Workers : v # w => job'[v] = "idle"
  BY <1>1, <1>2, <1>3 DEF TypeOK
<1>5. TypeOK'
  <2>1. sends' \in Seq(Seq(Nat)) BY <1>2
  <2> QED BY <1>1, <1>2, <1>3, <1>4, <2>1 DEF TypeOK
<1>6. Turns'
  <2>1. Len(batch) \in Nat BY <1>3 DEF TypeOK
  <2>2. n \in 1..Len(batch) BY <1>1, <1>2, <2>1
  <2> QED BY <1>1, <1>2, <1>4, <2>2 DEF Turns
<1>7. Positions'
  <2>1. ASSUME open PROVE Len(wire') + Len(queue) = posted + n /\ Len(batch) <= Len(queue)
    <3>1. /\ Len(wire) \in Nat /\ Len(queue) \in Nat /\ Len(batch) \in Nat
          /\ posted \in Nat
      BY <1>3 DEF TypeOK
    <3>2. Len(wire) + Len(queue) = posted /\ Len(wire) + Len(batch) <= posted
      BY <1>2, <1>3, <2>1 DEF Positions
    <3> QED BY <1>2, <3>1, <3>2
  <2>2. open => \A v \in Workers : job'[v] = "complete" =>
                  /\ Len(wire') + Len(queue) = posted + count'[v]
                  /\ Len(batch) <= Len(queue)
    BY <1>4, <2>1
  <2> QED BY <1>1, <1>2, <1>3, <2>2 DEF Positions
<1>8. Boundaries' BY <1>1, <1>3 DEF Boundaries
<1> QED BY <1>1, <1>3, <1>5, <1>6, <1>7, <1>8 DEF SendInv

\* So does taking the completion of a send that was aborted.
LEMMA AbortStep ==
  ASSUME SendInv, NEW w \in Workers, SendAborted(w)
  PROVE  SendInv'
<1>1. /\ ~up \/ ~open
      /\ job' = [job EXCEPT ![w] = "fail"]
      /\ UNCHANGED <<open, queue, batch, inFlight, count, up, faults, posted, ends>>
  BY DEF SendAborted, session
<1>2. PICK n \in 0..Capacity : Transfer(n) BY DEF SendAborted
<1>3. n \in Nat BY SendAssumption
<1>4. /\ sends # <<>> /\ sends' = <<>> /\ inFlight
      /\ wire' \in Seq(Nat) /\ Len(wire') <= posted
      /\ \A i \in DOMAIN wire' : wire'[i] = i
      /\ \A v \in Workers : job[v] = "idle"
  BY <1>2, <1>3, TransferBytes
<1>5. TypeOK /\ Turns /\ Positions /\ Boundaries /\ faults = 0 BY DEF SendInv
<1>6. /\ job' \in [Workers -> {"idle", "complete", "fail", "close"}]
      /\ job'[w] = "fail" /\ \A v \in Workers : v # w => job'[v] = "idle"
  BY <1>1, <1>4, <1>5 DEF TypeOK
<1>7. TypeOK'
  <2>1. sends' \in Seq(Seq(Nat)) BY <1>4
  <2> QED BY <1>1, <1>4, <1>5, <1>6, <2>1 DEF TypeOK
<1>8. Turns' BY <1>1, <1>4, <1>6 DEF Turns
<1>9. Positions'
  <2>1. \A v \in Workers : job'[v] # "complete" BY <1>6
  <2> QED BY <1>1, <1>4, <1>5, <2>1 DEF Positions
<1>10. Boundaries' BY <1>1, <1>5 DEF Boundaries
<1> QED BY <1>1, <1>5, <1>7, <1>8, <1>9, <1>10 DEF SendInv

\* Removing bytes from the front of the queue leaves the rest of its last
\* packets in place.
LEMMA ConsumeBytes ==
  ASSUME SendInv, NEW n \in Nat, n <= Len(queue), queue' = Consume(n), ends' = ends
  PROVE  /\ Boundaries'
         /\ queue' \in Seq(Nat) /\ Len(queue') = Len(queue) - n
         /\ \A i \in 1..Len(queue') : queue'[i] = (posted - Len(queue)) + (n + i)
<1>1. queue \in Seq(Nat) /\ Len(queue) \in Nat /\ posted \in Nat BY DEF SendInv, TypeOK
<1>2. /\ queue' \in Seq(Nat) /\ Len(queue') = Len(queue) - n
      /\ \A i \in 1..(Len(queue) - n) : queue'[i] = queue[n + i]
  <2>1. n + 1 \in 1..(Len(queue) + 1) /\ Len(queue) \in 0..Len(queue)
        /\ n + 1 <= Len(queue) + 1
    BY <1>1
  <2>2. /\ SubSeq(queue, n + 1, Len(queue)) \in Seq(Nat)
        /\ Len(SubSeq(queue, n + 1, Len(queue))) = (Len(queue) - (n + 1)) + 1
        /\ \A i \in 1..((Len(queue) - (n + 1)) + 1) :
             SubSeq(queue, n + 1, Len(queue))[i] = queue[((n + 1) + i) - 1]
    BY <1>1, <2>1, PartOf
  <2>3. (Len(queue) - (n + 1)) + 1 = Len(queue) - n BY <1>1
  <2>4. \A i \in 1..(Len(queue) - n) : ((n + 1) + i) - 1 = n + i BY <1>1
  <2> QED BY <2>2, <2>3, <2>4 DEF Consume
<1>3. \A i \in 1..Len(queue') : n + i \in 1..Len(queue) BY <1>1, <1>2
<1>4. \A i \in 1..Len(queue') : queue'[i] = (posted - Len(queue)) + (n + i)
  <2>1. \A j \in 1..Len(queue) : queue[j] = (posted - Len(queue)) + j
    BY <1>1 DEF SendInv, Positions
  <2> QED BY <1>2, <1>3, <2>1
<1>5. Boundaries'
  <2> SUFFICES ASSUME NEW i \in 1..Len(queue')
               PROVE  \E j \in i..Len(queue') : j < i + MaxPacket /\ queue'[j] \in ends
    BY <1>2 DEF Boundaries
  <2>0. n + i \in DOMAIN queue BY <1>1, <1>3
  <2>1. PICK k \in (n + i)..Len(queue) : k < (n + i) + MaxPacket /\ queue[k] \in ends
    <3> DEFINE m == n + i
    <3>1. m \in DOMAIN queue BY <2>0
    <3> HIDE DEF m
    <3>2. \E k \in m..Len(queue) : k < m + MaxPacket /\ queue[k] \in ends
      BY <3>1 DEF SendInv, Boundaries
    <3> QED BY <3>2 DEF m
  <2>2. k - n \in i..Len(queue') /\ k - n < i + MaxPacket
        /\ k - n \in 1..(Len(queue) - n) /\ n + (k - n) = k
    BY <1>1, <1>2, <2>1, SendAssumption
  <2>3. queue'[k - n] = queue[n + (k - n)] BY <1>2, <2>2
  <2> QED BY <2>1, <2>2, <2>3
<1> QED BY <1>2, <1>4, <1>5

\* Arithmetic of a completion: of b queued bytes n have been sent, so what
\* stays queued continues the wire.
LEMMA SentBytesBalance ==
  ASSUME NEW a \in Nat, NEW b \in Nat, NEW c \in Int, NEW n \in Nat, NEW p \in Nat,
         a + b = p + n, c = b - n
  PROVE  a + c = p /\ (p - b) + n = a
OBVIOUS

\* HandleSendCompletion keeps the invariant.
LEMMA CompletionStep ==
  ASSUME MaxFaults = 0, SendInv, NEW w \in Workers, HandleSendCompletion(w)
  PROVE  SendInv'
<1> DEFINE n == count[w]
<1>1. /\ job[w] = "complete" /\ UNCHANGED <<open, count, posted, ends, wire>>
  BY DEF HandleSendCompletion
<1>2. TypeOK /\ Turns /\ Positions /\ Boundaries /\ faults = 0 BY DEF SendInv
<1>3. /\ sends = <<>> /\ inFlight /\ n \in 1..Len(batch) /\ n \in Nat
      /\ \A v \in Workers : v # w => job[v] = "idle"
  BY <1>1, <1>2 DEF Turns, TypeOK
<1>4. /\ wire \in Seq(Nat) /\ queue \in Seq(Nat) /\ posted \in Nat /\ ends \in SUBSET Nat
      /\ Len(wire) \in Nat /\ Len(queue) \in Nat /\ Len(batch) \in Nat
      /\ \A i \in DOMAIN wire : wire[i] = i
      /\ Len(wire) <= posted
  BY <1>2 DEF TypeOK, Positions
<1>5. open => Len(wire) + Len(queue) = posted + n /\ Len(batch) <= Len(queue)
  BY <1>1, <1>2 DEF Positions
<1>6. ~open => queue = <<>> /\ Len(queue) = 0 BY <1>2 DEF Positions
<1>0. \/ /\ n > Len(batch) \/ n > Len(queue)
         /\ queue' = IF n > Len(batch) THEN queue ELSE <<>>
         /\ job' = [job EXCEPT ![w] = "fail"]
         /\ UNCHANGED <<batch, inFlight, winsock>>
      \/ /\ n <= Len(batch) /\ n <= Len(queue)
         /\ queue' = Consume(n)
         /\ \/ /\ ~open \/ queue' = <<>>
               /\ batch' = <<>> /\ inFlight' = FALSE /\ UNCHANGED winsock
               /\ job' = [job EXCEPT ![w] = "idle"]
            \/ /\ open /\ queue' # <<>>
               /\ Submit(queue', ends)
               /\ job' = [job EXCEPT ![w] = "idle"]
            \/ /\ open /\ queue' # <<>>
               /\ SubmitFails(queue', ends)
               /\ job' = [job EXCEPT ![w] = "fail"]
  BY Zenon DEF HandleSendCompletion
<1> HIDE DEF n
<1>7. n <= Len(batch) /\ ~(n > Len(batch)) BY <1>3, <1>4
<1>8. /\ n > Len(queue) <=> ~open
      /\ n <= Len(queue) <=> open
  BY <1>3, <1>4, <1>5, <1>6, <1>7
<1>9. CASE ~open
  <2>1. /\ queue' = <<>> /\ job' = [job EXCEPT ![w] = "fail"]
        /\ UNCHANGED <<batch, inFlight, up, sends, faults>>
    BY <1>0, <1>7, <1>8, <1>9 DEF winsock
  <2>2. /\ job' \in [Workers -> {"idle", "complete", "fail", "close"}]
        /\ job'[w] = "fail" /\ \A v \in Workers : v # w => job'[v] = "idle"
    BY <1>2, <1>3, <2>1 DEF TypeOK
  <2>3. queue' \in Seq(Nat) /\ Len(queue') = 0 /\ DOMAIN queue' = {} BY <2>1
  <2>4. TypeOK' BY <1>1, <1>2, <2>1, <2>2, <2>3 DEF TypeOK
  <2>5. Turns' BY <1>1, <1>3, <1>9, <2>1, <2>2 DEF Turns
  <2>6. Positions'
    <3>1. Len(queue') <= posted' BY <1>1, <1>4, <2>3
    <3> QED BY <1>1, <1>3, <1>4, <1>9, <2>1, <2>3, <3>1 DEF Positions
  <2>7. Boundaries' BY <2>3 DEF Boundaries
  <2> QED BY <1>2, <2>1, <2>4, <2>5, <2>6, <2>7 DEF SendInv
<1>10. CASE open
  <2>1. queue' = Consume(n) /\ n <= Len(queue)
    BY <1>0, <1>7, <1>8, <1>10
  <2>2. /\ Boundaries'
        /\ queue' \in Seq(Nat) /\ Len(queue') = Len(queue) - n
        /\ \A i \in 1..Len(queue') : queue'[i] = (posted - Len(queue)) + (n + i)
    BY <1>1, <1>3, <2>1, ConsumeBytes
  <2>3. Len(queue') = Len(queue) - n /\ Len(queue') \in Int BY <1>3, <1>4, <2>2
  <2>4. Len(wire) + Len(queue') = posted /\ (posted - Len(queue)) + n = Len(wire)
    <3>1. Len(wire) + Len(queue) = posted + n BY <1>5, <1>10
    <3>2. Len(wire) \in Nat /\ Len(queue) \in Nat /\ n \in Nat /\ posted \in Nat
      BY <1>3, <1>4
    <3> QED BY ONLY <2>3, <3>1, <3>2, SentBytesBalance
  <2>5. \A i \in 1..Len(queue') : queue'[i] = Len(wire) + i
    <3> TAKE i \in 1..Len(queue')
    <3>1. queue'[i] = (posted - Len(queue)) + (n + i) BY <2>2
    <3>2. (posted - Len(queue)) + (n + i) = ((posted - Len(queue)) + n) + i
      BY <1>3, <1>4
    <3> QED BY <2>4, <3>1, <3>2
  <2>6. \/ /\ queue' = <<>> /\ batch' = <<>> /\ inFlight' = FALSE
           /\ UNCHANGED <<up, sends, faults>>
           /\ job' = [job EXCEPT ![w] = "idle"]
        \/ queue' # <<>> /\ Submit(queue', ends) /\ job' = [job EXCEPT ![w] = "idle"]
        \/ queue' # <<>> /\ SubmitFails(queue', ends) /\ job' = [job EXCEPT ![w] = "fail"]
    BY <1>0, <1>7, <1>8, <1>10 DEF winsock
  <2>7. CASE queue' = <<>> /\ batch' = <<>> /\ inFlight' = FALSE
             /\ UNCHANGED <<up, sends, faults>> /\ job' = [job EXCEPT ![w] = "idle"]
    <3>1. /\ job' \in [Workers -> {"idle", "complete", "fail", "close"}]
          /\ \A v \in Workers : job'[v] = "idle"
      BY <1>2, <1>3, <2>7 DEF TypeOK
    <3>2. batch' \in Seq(Nat) /\ Len(queue') = 0 /\ DOMAIN queue' = {} BY <2>7
    <3>3. Len(wire) = posted /\ Len(queue') <= posted BY <1>4, <2>4, <3>2
    <3>4. inFlight' \in BOOLEAN BY <2>7
    <3>5. TypeOK' BY <1>1, <1>2, <2>2, <2>7, <3>1, <3>2, <3>4 DEF TypeOK
    <3>6. Turns' BY <1>1, <1>3, <2>7, <3>1 DEF Turns
    <3>7. Positions' BY <1>1, <1>3, <1>4, <2>7, <3>1, <3>2, <3>3 DEF Positions
    <3> QED BY <1>2, <2>2, <2>7, <3>5, <3>6, <3>7 DEF SendInv
  <2>8. CASE queue' # <<>> /\ Submit(queue', ends) /\ job' = [job EXCEPT ![w] = "idle"]
    <3>1. /\ job' \in [Workers -> {"idle", "complete", "fail", "close"}]
          /\ count' \in [Workers -> Nat]
          /\ \A v \in Workers : job'[v] = "idle"
      BY <1>1, <1>2, <1>3, <2>8 DEF TypeOK
    <3>2. /\ Submit(queue', ends') /\ ends' \in SUBSET Nat /\ posted' \in Nat
          /\ Len(wire) + Len(queue') = posted'
      BY <1>1, <1>4, <2>4, <2>8
    <3> QED BY <1>1, <1>3, <1>10, <2>2, <2>5, <3>1, <3>2, SubmitStep
  <2>9. CASE queue' # <<>> /\ SubmitFails(queue', ends) /\ job' = [job EXCEPT ![w] = "fail"]
    <3>1. DOMAIN queue' = 1..Len(queue') /\ ends' = ends BY <1>1, <2>2
    <3>2. ~Fits(0, queue', ends) BY <2>2, <2>9, <3>1, SomethingFits DEF Boundaries
    <3>3. /\ ~up /\ batch' = <<>> /\ inFlight' = FALSE /\ UNCHANGED <<up, sends, faults>>
      BY <1>2, <2>9, <3>2 DEF SubmitFails
    <3>4. /\ job' \in [Workers -> {"idle", "complete", "fail", "close"}]
          /\ job'[w] = "fail" /\ \A v \in Workers : v # w => job'[v] = "idle"
      BY <1>2, <1>3, <2>9 DEF TypeOK
    <3>5. batch' \in Seq(Nat) BY <3>3
    <3>6. inFlight' \in BOOLEAN BY <3>3
    <3>7. TypeOK' BY <1>1, <1>2, <2>2, <3>3, <3>4, <3>5, <3>6 DEF TypeOK
    <3>8. Turns' BY <1>1, <1>3, <3>3, <3>4 DEF Turns
    <3>9. Positions'
      <4>1. Len(queue') <= posted BY <1>4, <2>2, <2>3, <2>4
      <4>2. \A i \in 1..Len(queue') : queue'[i] = (posted - Len(queue')) + i
        <5>1. Len(queue') \in Nat BY <2>2
        <5>2. posted - Len(queue') = Len(wire) BY <1>4, <2>4, <5>1
        <5> QED BY <2>5, <5>2
      <4> QED BY <1>1, <1>3, <1>4, <1>10, <3>1, <3>3, <3>4, <4>1, <4>2 DEF Positions
    <3> QED BY <1>2, <2>2, <3>3, <3>7, <3>8, <3>9 DEF SendInv
  <2> QED BY <2>6, <2>7, <2>8, <2>9
<1> QED BY <1>9, <1>10

\* Giving the session up, closing it and losing the connection keep the
\* invariant.
LEMMA GiveUpSteps ==
  ASSUME SendInv,
         \/ \E w \in Workers : HandleSendFailure(w) \/ EnqueueDisconnect(w)
         \/ CloseSocket \/ ConnectionLost
  PROVE  SendInv'
<1>1. TypeOK /\ Turns /\ Positions /\ Boundaries /\ faults = 0 BY DEF SendInv
<1>2. posted \in Nat BY <1>1 DEF TypeOK
<1>3. ASSUME queue' = <<>>, posted' = posted
      PROVE  queue' \in Seq(Nat) /\ Boundaries' /\ DOMAIN queue' = {}
             /\ Len(queue') <= posted'
  <2>1. queue' \in Seq(Nat) /\ Len(queue') = 0 /\ DOMAIN queue' = {} BY <1>3
  <2> QED BY <1>2, <1>3, <2>1 DEF Boundaries
<1>4. ASSUME NEW w \in Workers, HandleSendFailure(w) PROVE SendInv'
  <2>1. /\ job[w] = "fail" /\ queue' = <<>> /\ batch' = <<>> /\ inFlight' = FALSE
        /\ job' = [job EXCEPT ![w] = "close"]
        /\ UNCHANGED <<open, count, up, sends, faults, posted, ends, wire>>
    BY <1>4 DEF HandleSendFailure, winsock
  <2>2. queue' \in Seq(Nat) /\ Boundaries' /\ DOMAIN queue' = {} /\ Len(queue') <= posted'
    BY <1>3, <2>1
  <2>3. /\ sends = <<>> /\ (~up \/ ~open)
        /\ \A v \in Workers : v # w => job[v] = "idle"
    BY <1>1, <2>1 DEF Turns
  <2>4. /\ job' \in [Workers -> {"idle", "complete", "fail", "close"}]
        /\ job'[w] = "close" /\ \A v \in Workers : v # w => job'[v] = "idle"
    BY <1>1, <2>1, <2>3 DEF TypeOK
  <2>5. batch' \in Seq(Nat) BY <2>1
  <2>6. inFlight' \in BOOLEAN BY <2>1
  <2>7. TypeOK' BY <1>1, <2>1, <2>2, <2>4, <2>5, <2>6 DEF TypeOK
  <2>8. Turns' BY <2>1, <2>3, <2>4 DEF Turns
  <2>9. Positions' BY <1>1, <2>1, <2>2, <2>3, <2>4 DEF Positions
  <2> QED BY <1>1, <2>1, <2>2, <2>7, <2>8, <2>9 DEF SendInv
<1>5. ASSUME NEW w \in Workers, EnqueueDisconnect(w) PROVE SendInv'
  <2>1. /\ job[w] = "close" /\ queue' = <<>> /\ open' = FALSE
        /\ job' = [job EXCEPT ![w] = "idle"]
        /\ UNCHANGED <<batch, inFlight, count, up, sends, faults, posted, ends, wire>>
    BY <1>5 DEF EnqueueDisconnect, CloseSocketImpl, winsock
  <2>2. queue' \in Seq(Nat) /\ Boundaries' /\ DOMAIN queue' = {} /\ Len(queue') <= posted'
    BY <1>3, <2>1
  <2>3. sends = <<>> /\ \A v \in Workers : v # w => job[v] = "idle"
    BY <1>1, <2>1 DEF Turns
  <2>4. /\ job' \in [Workers -> {"idle", "complete", "fail", "close"}]
        /\ \A v \in Workers : job'[v] = "idle"
    BY <1>1, <2>1, <2>3 DEF TypeOK
  <2>5. ~inFlight
    <3>1. \A v \in Workers : job[v] \notin {"complete", "fail"} BY <2>1, <2>3
    <3> QED BY <1>1, <2>3, <3>1 DEF Turns
  <2>6. open' \in BOOLEAN BY <2>1
  <2>7. TypeOK' BY <1>1, <2>1, <2>2, <2>4, <2>6 DEF TypeOK
  <2>8. Turns' BY <2>1, <2>3, <2>4, <2>5 DEF Turns
  <2>9. Positions' BY <1>1, <2>1, <2>2, <2>3, <2>4 DEF Positions
  <2> QED BY <1>1, <2>1, <2>2, <2>7, <2>8, <2>9 DEF SendInv
<1>6. CASE CloseSocket
  <2>1. /\ queue' = <<>> /\ open' = FALSE
        /\ UNCHANGED <<job, batch, inFlight, count, up, sends, faults, posted, ends, wire>>
    BY <1>6 DEF CloseSocket, CloseSocketImpl, winsock
  <2>2. queue' \in Seq(Nat) /\ Boundaries' /\ DOMAIN queue' = {} /\ Len(queue') <= posted'
    BY <1>3, <2>1
  <2>3. open' \in BOOLEAN BY <2>1
  <2>4. TypeOK' BY <1>1, <2>1, <2>2, <2>3 DEF TypeOK
  <2>5. Turns' BY <1>1, <2>1 DEF Turns
  <2>6. Positions' BY <1>1, <2>1, <2>2 DEF Positions
  <2> QED BY <1>1, <2>1, <2>2, <2>4, <2>5, <2>6 DEF SendInv
<1>7. CASE ConnectionLost
  <2>1. /\ up' = FALSE
        /\ UNCHANGED <<open, queue, batch, inFlight, job, count, sends, faults, posted,
                       ends, wire>>
    BY <1>7 DEF ConnectionLost, session
  <2>2. up' \in BOOLEAN BY <2>1
  <2>3. TypeOK' BY <1>1, <2>1, <2>2 DEF TypeOK
  <2>4. Turns' BY <1>1, <2>1 DEF Turns
  <2>5. Positions' BY <1>1, <2>1 DEF Positions
  <2>6. Boundaries' BY <1>1, <2>1 DEF Boundaries
  <2> QED BY <1>1, <2>1, <2>3, <2>4, <2>5, <2>6 DEF SendInv
<1> QED BY <1>4, <1>5, <1>6, <1>7

-----------------------------------------------------------------------------
\* The inductive invariant holds of every reachable state of a session.
THEOREM SendCorrect ==
  ASSUME MaxFaults = 0 PROVE Spec => []SendInv
<1>1. Init => SendInv
  <2> SUFFICES ASSUME Init PROVE SendInv OBVIOUS
  <2>1. /\ open = TRUE /\ up = TRUE /\ inFlight = FALSE
        /\ queue = <<>> /\ batch = <<>> /\ sends = <<>> /\ wire = <<>>
        /\ job = [w \in Workers |-> "idle"]
        /\ count = [w \in Workers |-> 0]
        /\ faults = 0 /\ posted = 0 /\ ends = {}
    BY DEF Init
  <2>2. open \in BOOLEAN /\ up \in BOOLEAN /\ inFlight \in BOOLEAN BY Zenon, <2>1
  <2>3. /\ queue \in Seq(Nat) /\ batch \in Seq(Nat) /\ wire \in Seq(Nat)
        /\ sends \in Seq(Seq(Nat))
        /\ Len(queue) = 0 /\ Len(wire) = 0 /\ DOMAIN queue = {} /\ DOMAIN wire = {}
    BY <2>1
  <2>4. TypeOK BY <2>1, <2>2, <2>3 DEF TypeOK
  <2>5. Turns BY <2>1 DEF Turns
  <2>6. Positions BY <2>1, <2>3 DEF Positions
  <2>7. Boundaries BY <2>3 DEF Boundaries
  <2> QED BY <2>1, <2>4, <2>5, <2>6, <2>7 DEF SendInv
<1>2. SendInv /\ [Next]_vars => SendInv'
  <2> SUFFICES ASSUME SendInv, [Next]_vars PROVE SendInv' OBVIOUS
  <2>1. ASSUME NEW n \in 1..MaxPacket, PostSend(n) PROVE SendInv'
    BY <2>1, PostStep
  <2>2. ASSUME NEW w \in Workers, SendAborted(w) PROVE SendInv'
    BY <2>2, AbortStep
  <2>3. ASSUME NEW w \in Workers, NEW n \in 1..Capacity, SendDone(w, n) PROVE SendInv'
    BY <2>3, DoneStep
  <2>4. ASSUME NEW w \in Workers, HandleSendCompletion(w) PROVE SendInv'
    BY <2>4, CompletionStep
  <2>5. ASSUME NEW w \in Workers, HandleSendFailure(w) \/ EnqueueDisconnect(w)
        PROVE  SendInv'
    BY <2>5, GiveUpSteps
  <2>6. CASE CloseSocket \/ ConnectionLost BY <2>6, GiveUpSteps
  <2>7. CASE UNCHANGED vars
    BY <2>7 DEF vars, session, winsock, SendInv, TypeOK, Turns, Positions, Boundaries
  <2> QED BY <2>1, <2>2, <2>3, <2>4, <2>5, <2>6, <2>7 DEF Next, TakeCompletion, WorkerStep
<1> QED BY <1>1, <1>2, PTL DEF Spec

\* The send context is never given to WSASend again, nor reset, while a
\* send is outstanding.
THEOREM OneSendPerSession ==
  ASSUME MaxFaults = 0 PROVE Spec => []OneSendOutstanding
<1>1. SendInv => OneSendOutstanding
  <2> SUFFICES ASSUME SendInv, sends # <<>>
               PROVE  Len(sends) = 1 /\ inFlight /\ batch = Head(sends)
    BY DEF OneSendOutstanding
  <2>1. sends \in Seq(Seq(Nat)) /\ Len(sends) = 1 /\ inFlight /\ batch = sends[1]
    BY DEF SendInv, TypeOK, Turns
  <2> QED BY <2>1
<1> QED BY <1>1, SendCorrect, PTL

\* On a live connection queued bytes always have a send, or a worker, that
\* will take care of them: PostSend may leave a packet in the queue
\* whenever a send is in flight.
THEOREM NoBytesLeftBehind ==
  ASSUME MaxFaults = 0 PROVE Spec => []NoStall
<1>1. SendInv => NoStall
  <2> SUFFICES ASSUME SendInv, open, up, queue # <<>>
               PROVE  sends # <<>> \/ \E w \in Workers : job[w] # "idle"
    BY DEF NoStall
  <2>1. inFlight BY DEF SendInv, Positions
  <2> QED BY <2>1 DEF SendInv, Turns
<1> QED BY <1>1, SendCorrect, PTL

\* A GameSession implements the ordered stream of SendStream: whatever the
\* batches, the partial sends and the way it ends, the bytes on the wire
\* are the accepted ones, in order.
THEOREM ImplementsStream ==
  ASSUME MaxFaults = 0 PROVE Spec => StreamSpec
<1>1. Init => Stream!Init BY DEF Init, Stream!Init
<1>2. SendInv /\ [Next]_vars => [Stream!Next]_(Stream!vars)
  <2> SUFFICES ASSUME SendInv, [Next]_vars,
                      ~UNCHANGED <<posted, wire, open>>
               PROVE  Stream!Next
    BY DEF Stream!vars
  <2>1. ASSUME NEW n \in 1..MaxPacket, PostSend(n) PROVE Stream!Accept
    <3>1. posted \in Nat /\ n \in Nat /\ n > 0
      BY SendAssumption DEF SendInv, TypeOK
    <3>2. open /\ posted' = posted + n /\ UNCHANGED <<wire, open>> BY <2>1 DEF PostSend
    <3> QED BY <3>1, <3>2 DEF Stream!Accept
  <2>2. ASSUME NEW n \in Nat, Transfer(n), UNCHANGED <<posted, open>>
        PROVE  Stream!Transmit
    <3>1. /\ wire' \in Seq(Nat) /\ Len(wire') = Len(wire) + n /\ Len(wire') <= posted
          /\ \A i \in DOMAIN wire' : wire'[i] = i
      BY <2>2, TransferBytes
    <3>2. wire \in Seq(Nat) /\ posted \in Nat /\ \A i \in DOMAIN wire : wire[i] = i
      BY DEF SendInv, TypeOK, Positions
    <3>3. n # 0
      <4> SUFFICES ASSUME n = 0 PROVE FALSE OBVIOUS
      <4>1. Len(wire') = Len(wire) BY <3>1, <3>2
      <4>2. \A i \in 1..Len(wire) : wire'[i] = wire[i]
        <5>1. PICK L \in Nat : /\ L = Len(wire) /\ DOMAIN wire = 1..L
                               /\ L = Len(wire') /\ DOMAIN wire' = 1..L
          BY <3>1, <3>2, <4>1
        <5> QED BY <3>1, <3>2, <5>1
      <4>3. wire' = wire BY <3>1, <3>2, <4>1, <4>2, SeqEqual
      <4> QED BY <2>2, <4>3
    <3>4. Len(wire) \in Nat /\ Len(wire') \in Nat BY <3>1, <3>2
    <3>5. Len(wire') \in (Len(wire) + 1)..posted BY <3>1, <3>2, <3>3, <3>4
    <3>6. wire' = [i \in 1..Len(wire') |-> IF i <= Len(wire) THEN wire[i] ELSE i]
      <4>1. \A i \in 1..Len(wire') :
              wire'[i] = IF i <= Len(wire) THEN wire[i] ELSE i
        <5>1. DOMAIN wire = 1..Len(wire) /\ DOMAIN wire' = 1..Len(wire') BY <3>1, <3>2
        <5> SUFFICES ASSUME NEW i \in 1..Len(wire')
                     PROVE  wire'[i] = IF i <= Len(wire) THEN wire[i] ELSE i
          OBVIOUS
        <5>2. wire'[i] = i BY <3>1, <5>1
        <5>3. i <= Len(wire) => wire[i] = i BY <3>2, <3>4, <5>1
        <5> QED BY <5>2, <5>3
      <4>2. wire' = [i \in 1..Len(wire') |-> wire'[i]] BY <3>1
      <4> QED BY <4>1, <4>2
    <3> QED BY <2>2, <3>5, <3>6 DEF Stream!Transmit
  <2>3. ASSUME NEW w \in Workers, SendAborted(w) PROVE Stream!Transmit
    <3>1. PICK n \in 0..Capacity : Transfer(n) BY <2>3 DEF SendAborted
    <3>2. n \in Nat /\ UNCHANGED <<posted, open>>
      BY <2>3, <3>1, SendAssumption DEF SendAborted, session
    <3> QED BY <2>2, <3>1, <3>2
  <2>4. ASSUME NEW w \in Workers, NEW n \in 1..Capacity, SendDone(w, n)
        PROVE  Stream!Transmit
    <3>1. n \in Nat /\ Transfer(n) /\ UNCHANGED <<posted, open>>
      BY <2>4, SendAssumption DEF SendDone, session
    <3> QED BY <2>2, <3>1
  <2>5. ASSUME CloseSocketImpl, UNCHANGED <<posted, wire>> PROVE Stream!Close
    <3>1. open' = FALSE BY <2>5 DEF CloseSocketImpl
    <3>2. open \in BOOLEAN BY DEF SendInv, TypeOK
    <3> QED BY <2>5, <3>1, <3>2 DEF Stream!Close
  <2>6. ASSUME NEW w \in Workers, EnqueueDisconnect(w) PROVE Stream!Close
    BY <2>5, <2>6 DEF EnqueueDisconnect
  <2>7. CASE CloseSocket BY <2>5, <2>7 DEF CloseSocket, Stream!Next
  <2>8. ~\E w \in Workers : HandleSendCompletion(w) \/ HandleSendFailure(w)
    BY DEF HandleSendCompletion, HandleSendFailure
  <2>9. ~ConnectionLost BY DEF ConnectionLost, session
  <2>10. ~UNCHANGED vars BY DEF vars, session
  <2> QED BY <2>1, <2>3, <2>4, <2>6, <2>7, <2>8, <2>9, <2>10
          DEF Next, TakeCompletion, WorkerStep, Stream!Next
<1> QED BY <1>1, <1>2, SendCorrect, PTL DEF Spec, StreamSpec, Stream!Spec
=============================================================================
