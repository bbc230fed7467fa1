----------------------------- MODULE SessionSend -----------------------------
(***************************************************************************)
(* The send side of one GameSession.                                       *)
(*                                                                         *)
(* Zone threads call PostSend, which queues a packet and, when no send is  *)
(* in flight, copies as many whole packets as fit into the send context    *)
(* and gives it to WSASend.  An IOCP worker takes the completion, removes  *)
(* the bytes that went out, which may end inside a packet, and submits the *)
(* rest.  Each method of the session is atomic (m_sessionLock); a worker   *)
(* that gives the session up calls three of them one after the other.      *)
(*                                                                         *)
(* A byte is its position in the stream of accepted packets; `ends' holds  *)
(* the positions at which packets end, so a queue of packets with offsets  *)
(* is a sequence of bytes.                                                 *)
(***************************************************************************)
EXTENDS Naturals, Sequences

CONSTANTS
  Workers,    \* the IOCP worker threads
  MaxPacket,  \* MAX_SERVER_PACKET_SIZE
  Capacity,   \* SEND_BATCH_BUFFER_SIZE
  MaxBytes,   \* bound: bytes the zone threads send
  MaxFaults   \* bound: WSASend calls that fail on a connection that is up

ASSUME SendAssumption ==
  /\ MaxPacket \in Nat \ {0}
  /\ Capacity \in Nat
  /\ MaxPacket <= Capacity        \* the static_assert in GameSession.h
  /\ MaxBytes \in Nat /\ MaxFaults \in Nat

VARIABLES
  open,      \* m_socket is not INVALID_SOCKET
  queue,     \* m_sendQueue
  batch,     \* the payload of m_sendContext
  inFlight,  \* m_sendInFlight
  job,       \* job[w]: what worker w is about to do for this session
  count,     \* count[w]: the bytes the completion reported to w
  \* Winsock
  up,        \* the connection
  sends,     \* payloads given to WSASend whose completion nobody has taken
  faults,    \* WSASend calls that have failed on a connection that is up
  \* the stream
  posted,    \* bytes accepted by PostSend
  ends,      \* the ones that end a packet
  wire       \* bytes handed to TCP, in order

session == <<open, queue, batch, inFlight>>
winsock == <<up, sends, faults>>
vars    == <<session, job, count, winsock, posted, ends, wire>>

TypeOK ==
  /\ open \in BOOLEAN /\ inFlight \in BOOLEAN /\ up \in BOOLEAN
  /\ queue \in Seq(Nat) /\ batch \in Seq(Nat) /\ wire \in Seq(Nat)
  /\ job \in [Workers -> {"idle", "complete", "fail", "close"}]
  /\ count \in [Workers -> Nat]
  /\ sends \in Seq(Seq(Nat))
  /\ faults \in Nat /\ posted \in Nat
  /\ ends \in SUBSET Nat

-----------------------------------------------------------------------------
\* Mutant: a packet that would fill the buffer is taken for one that does
\* not fit.
Fits_OffByOne(k, q, e) ==
  /\ k < Capacity
  /\ k > 0 => q[k] \in e
  /\ \A j \in (k + 1)..Len(q) : j < Capacity => q[j] \notin e

\* The loop of SubmitSendBatchImpl: k bytes are copied, whole packets until
\* one does not fit.
Fits(k, q, e) ==
  /\ k <= Capacity
  /\ k > 0 => q[k] \in e
  /\ \A j \in (k + 1)..Len(q) : j <= Capacity => q[j] \notin e

\* WSASend takes the context.
Submit(q, e) ==
  /\ up
  /\ \E k \in 1..Len(q) :
       /\ Fits(k, q, e)
       /\ batch' = SubSeq(q, 1, k)
       /\ sends' = Append(sends, SubSeq(q, 1, k))
  /\ inFlight' = TRUE
  /\ UNCHANGED <<up, faults>>

\* WSASend fails at once, because the connection is gone or the system
\* short of buffers; or no packet fits.
SubmitFails(q, e) ==
  /\ \/ ~up /\ UNCHANGED faults
     \/ up /\ faults < MaxFaults /\ faults' = faults + 1
     \/ Fits(0, q, e) /\ UNCHANGED faults
  /\ batch' = <<>>
  /\ inFlight' = FALSE
  /\ UNCHANGED <<up, sends>>

\* Mutant: a send in flight does not keep the next one back.
PostSend_Overlapping(n) ==
  /\ open
  /\ posted + n <= MaxBytes
  /\ posted' = posted + n
  /\ ends' = ends \cup {posted + n}
  /\ queue' = queue \o [i \in 1..n |-> posted + i]
  /\ Submit(queue', ends') \/ SubmitFails(queue', ends')
  /\ UNCHANGED <<open, job, count, wire>>

\* PostSend; its callers ignore the result.
PostSend(n) ==
  /\ open
  /\ posted + n <= MaxBytes
  /\ posted' = posted + n
  /\ ends' = ends \cup {posted + n}
  /\ queue' = queue \o [i \in 1..n |-> posted + i]
  /\ \/ inFlight /\ UNCHANGED <<batch, inFlight, winsock>>
     \/ ~inFlight /\ (Submit(queue', ends') \/ SubmitFails(queue', ends'))
  /\ UNCHANGED <<open, job, count, wire>>

-----------------------------------------------------------------------------
\* The completion port.

\* Some bytes of a send have gone out.
Transfer(n) ==
  /\ sends # <<>>
  /\ n <= Len(Head(sends))
  /\ wire' = wire \o SubSeq(Head(sends), 1, n)
  /\ sends' = Tail(sends)

\* Worker w takes a completion that reports n bytes.
SendDone(w, n) ==
  /\ job[w] = "idle"
  /\ n > 0 /\ Transfer(n)
  /\ job' = [job EXCEPT ![w] = "complete"]
  /\ count' = [count EXCEPT ![w] = n]
  /\ UNCHANGED <<session, up, faults, posted, ends>>

\* Worker w takes the completion of a send that closesocket or a reset has
\* aborted; a part of it may have gone out.
SendAborted(w) ==
  /\ job[w] = "idle"
  /\ ~up \/ ~open
  /\ \E n \in 0..Capacity : Transfer(n)
  /\ job' = [job EXCEPT ![w] = "fail"]
  /\ UNCHANGED <<session, count, up, faults, posted, ends>>

ConnectionLost ==
  /\ up
  /\ up' = FALSE
  /\ UNCHANGED <<session, job, count, sends, faults, posted, ends, wire>>

-----------------------------------------------------------------------------
\* What the worker does with it.

\* Mutant: all of the batch is taken for sent.
Consume_WholeBatch(n) == SubSeq(queue, Len(batch) + 1, Len(queue))

\* Packets that have gone out leave the queue, a part of one moves its
\* offset.
Consume(n) == SubSeq(queue, n + 1, Len(queue))

\* Mutant: the rest waits for the next PostSend.
HandleSendCompletion_NoResubmit(w) ==
  /\ job[w] = "complete"
  /\ \/ /\ count[w] > Len(batch) \/ count[w] > Len(queue)
        /\ queue' = IF count[w] > Len(batch) THEN queue ELSE <<>>
        /\ job' = [job EXCEPT ![w] = "fail"]
        /\ UNCHANGED <<batch, inFlight, winsock>>
     \/ /\ count[w] <= Len(batch) /\ count[w] <= Len(queue)
        /\ queue' = Consume(count[w])
        /\ batch' = <<>> /\ inFlight' = FALSE /\ UNCHANGED winsock
        /\ job' = [job EXCEPT ![w] = "idle"]
  /\ UNCHANGED <<open, count, posted, ends, wire>>

\* The queue of a closed session is empty: there is nothing to remove the
\* bytes from and the completion counts as failed.
HandleSendCompletion(w) ==
  /\ job[w] = "complete"
  /\ \/ /\ count[w] > Len(batch) \/ count[w] > Len(queue)
        /\ queue' = IF count[w] > Len(batch) THEN queue ELSE <<>>
        /\ job' = [job EXCEPT ![w] = "fail"]
        /\ UNCHANGED <<batch, inFlight, winsock>>
     \/ /\ count[w] <= Len(batch) /\ count[w] <= Len(queue)
        /\ queue' = Consume(count[w])
        /\ \/ /\ ~open \/ queue' = <<>>
              /\ batch' = <<>> /\ inFlight' = FALSE /\ UNCHANGED winsock
              /\ job' = [job EXCEPT ![w] = "idle"]
           \/ /\ open /\ queue' # <<>>
              /\ Submit(queue', ends)
              /\ job' = [job EXCEPT ![w] = "idle"]
           \/ /\ open /\ queue' # <<>>
              /\ SubmitFails(queue', ends)
              /\ job' = [job EXCEPT ![w] = "fail"]
  /\ UNCHANGED <<open, count, posted, ends, wire>>

\* Mutant: the flag stays up.
HandleSendFailure_StaysInFlight(w) ==
  /\ job[w] = "fail"
  /\ queue' = <<>> /\ batch' = <<>>
  /\ job' = [job EXCEPT ![w] = "close"]
  /\ UNCHANGED <<open, inFlight, count, winsock, posted, ends, wire>>

HandleSendFailure(w) ==
  /\ job[w] = "fail"
  /\ queue' = <<>> /\ batch' = <<>> /\ inFlight' = FALSE
  /\ job' = [job EXCEPT ![w] = "close"]
  /\ UNCHANGED <<open, count, winsock, posted, ends, wire>>

\* CloseSocketImpl: a send in flight stays in flight.
CloseSocketImpl ==
  /\ queue' = <<>>
  /\ open' = FALSE
  /\ UNCHANGED <<batch, inFlight>>

\* EnqueueDisconnect, by the worker whose send has failed.
EnqueueDisconnect(w) ==
  /\ job[w] = "close"
  /\ CloseSocketImpl
  /\ job' = [job EXCEPT ![w] = "idle"]
  /\ UNCHANGED <<count, winsock, posted, ends, wire>>

\* EnqueueDisconnect by a worker that has got no data or a bad packet from
\* the client, which may be at any time.
CloseSocket ==
  /\ open
  /\ CloseSocketImpl
  /\ UNCHANGED <<job, count, winsock, posted, ends, wire>>

-----------------------------------------------------------------------------
\* An accepted connection: AttachSocket on a new session.
Init ==
  /\ open = TRUE /\ up = TRUE /\ inFlight = FALSE
  /\ queue = <<>> /\ batch = <<>> /\ sends = <<>> /\ wire = <<>>
  /\ job = [w \in Workers |-> "idle"]
  /\ count = [w \in Workers |-> 0]
  /\ faults = 0 /\ posted = 0
  /\ ends = {}

TakeCompletion ==
  \E w \in Workers : SendAborted(w) \/ \E n \in 1..Capacity : SendDone(w, n)

WorkerStep(w) ==
  HandleSendCompletion(w) \/ HandleSendFailure(w) \/ EnqueueDisconnect(w)

Next ==
  \/ \E n \in 1..MaxPacket : PostSend(n)
  \/ TakeCompletion
  \/ \E w \in Workers : WorkerStep(w)
  \/ ConnectionLost \/ CloseSocket

Spec == Init /\ [][Next]_vars

\* A client that is connected keeps reading, so that its sends complete;
\* the receive pending on a lost connection fails and its worker closes the
\* session; workers do not stop.
Fairness ==
  /\ WF_vars(TakeCompletion)
  /\ \A w \in Workers : WF_vars(WorkerStep(w))
  /\ WF_vars(~up /\ CloseSocket)

FairSpec == Spec /\ Fairness

-----------------------------------------------------------------------------
\* One send per session at a time: the context, its buffer and its
\* OVERLAPPED included, is not touched while Winsock has it, whoever calls
\* PostSend, closes the session or handles a failure meanwhile.
OneSendOutstanding ==
  sends # <<>> => Len(sends) = 1 /\ inFlight /\ batch = Head(sends)

\* Queued bytes never wait for nothing: on a live connection a send is in
\* flight, its completion being handled, or the session being given up.
NoStall ==
  open /\ up /\ queue # <<>> =>
    sends # <<>> \/ \E w \in Workers : job[w] # "idle"

\* The session is the stream that SendStream promises: a byte goes out once
\* and after all bytes accepted before it, over partial sends, batches and
\* closing.
Stream == INSTANCE SendStream WITH accepted <- posted
StreamSpec == Stream!Spec

\* Every accepted byte goes out, unless the session is closed.
EverythingSent ==
  \A n \in 1..MaxBytes : posted >= n ~> Len(wire) >= n \/ ~open

-----------------------------------------------------------------------------
(***************************************************************************)
(* The inductive invariant for a system that never runs short of buffers.  *)
(***************************************************************************)

\* A send, or its completion, is in one pair of hands, and who gives the
\* session up has nothing to fear from PostSend.
Turns ==
  /\ sends # <<>> => Len(sends) = 1 /\ inFlight /\ batch = sends[1]
  /\ inFlight /\ sends = <<>> => \E w \in Workers : job[w] \in {"complete", "fail"}
  /\ \A w \in Workers :
       /\ job[w] # "idle" => sends = <<>>
       /\ job[w] = "complete" => inFlight /\ count[w] \in 1..Len(batch)
       /\ job[w] \in {"fail", "close"} => ~up \/ ~open
       /\ \A v \in Workers : job[w] # "idle" /\ job[v] # "idle" => w = v

\* Where the bytes are.
Positions ==
  /\ \A i \in DOMAIN wire : wire[i] = i
  /\ Len(wire) <= posted
  /\ Len(queue) <= posted
  /\ \A i \in DOMAIN queue : queue[i] = (posted - Len(queue)) + i
  /\ ~open => queue = <<>>
  /\ sends # <<>> =>
       /\ \A i \in DOMAIN batch : batch[i] = Len(wire) + i
       /\ Len(wire) + Len(batch) <= posted
       /\ open => Len(wire) + Len(queue) = posted
  /\ open => \A w \in Workers :
       job[w] = "complete" => /\ Len(wire) + Len(queue) = posted + count[w]
                              /\ Len(batch) <= Len(queue)
  /\ open /\ up /\ ~inFlight => queue = <<>> /\ Len(wire) = posted

\* From every queued byte the end of its packet is near.
Boundaries ==
  \A i \in DOMAIN queue :
    \E j \in i..Len(queue) : j < i + MaxPacket /\ queue[j] \in ends

SendInv == TypeOK /\ faults = 0 /\ Turns /\ Positions /\ Boundaries
=============================================================================
