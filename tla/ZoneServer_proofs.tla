--------------------------- MODULE ZoneServer_proofs ---------------------------
(***************************************************************************)
(* Proofs about the zone-ownership protocol.                               *)
(***************************************************************************)
EXTENDS ZoneServer, TLAPS

\* What has been seen to go wrong stays so, and the unplaced are strays.
ObservedGrows ==
  /\ ObservedOK'
  /\ unplaced \subseteq unplaced' /\ unplaced' \subseteq stray'
  /\ crashed => crashed'

\* Appending a task that fits keeps every queue well-formed
\* (GameLogicThread::Enqueue).
LEMMA EnqueueLemma ==
  ASSUME TypeOK, QueuesFit, ObservedGrows,
         NEW z \in Threads, NEW task \in Task, TaskFits(task, z),
         EnqueueByZone(z, task)
  PROVE  queue' \in [Threads -> Seq(Task)] /\ QueuesFit'
<1>1. queue \in [Threads -> Seq(Task)] /\ queue[z] \in Seq(Task)
  BY DEF TypeOK
<1>2. Append(queue[z], task) \in Seq(Task)
  BY <1>1
<1>3. queue' = [queue EXCEPT ![z] = Append(queue[z], task)]
  BY <1>1 DEF EnqueueByZone
<1>4. queue' \in [Threads -> Seq(Task)]
  BY <1>1, <1>2, <1>3
<1>5. ASSUME NEW y \in Threads, NEW i \in DOMAIN queue'[y]
      PROVE  TaskFits(queue[y][i], y)'
  <2> USE DEF TaskFits, ObservedGrows
  <2>1. CASE y # z
    BY <1>1, <1>3, <1>5, <2>1 DEF QueuesFit
  <2>2. CASE y = z /\ i \in DOMAIN queue[z]
    <3>1. queue'[y][i] = queue[z][i]
      BY <1>1, <1>3, <2>2
    <3> QED BY <3>1, <2>2 DEF QueuesFit
  <2>3. CASE y = z /\ i \notin DOMAIN queue[z]
    <3>1. queue'[y][i] = task
      BY <1>1, <1>3, <1>5, <2>3
    <3> QED BY <3>1, <2>3
  <2> QED BY <2>1, <2>2, <2>3
<1> QED BY <1>4, <1>5 DEF QueuesFit

\* The task a thread pops fits, and so do the ones left behind it
\* (GameLogicThread::Run).
LEMMA PopLemma ==
  ASSUME TypeOK, QueuesFit, NEW t \in Threads, queue[t] # <<>>
  PROVE  /\ Head(queue[t]) \in Task
         /\ TaskFits(Head(queue[t]), t)
         /\ Pop(t) /\ ObservedGrows =>
              queue' \in [Threads -> Seq(Task)] /\ QueuesFit'
<1>1. queue \in [Threads -> Seq(Task)] /\ queue[t] \in Seq(Task)
  BY DEF TypeOK
<1>2. Head(queue[t]) = queue[t][1] /\ 1 \in DOMAIN queue[t]
  BY <1>1
<1>3. Head(queue[t]) \in Task /\ TaskFits(Head(queue[t]), t)
  BY <1>1, <1>2 DEF QueuesFit
<1>4. ASSUME Pop(t), ObservedGrows
      PROVE  queue' \in [Threads -> Seq(Task)] /\ QueuesFit'
  <2>1. Tail(queue[t]) \in Seq(Task)
    BY <1>1
  <2>2. queue' = [queue EXCEPT ![t] = Tail(queue[t])]
    BY <1>1, <1>4 DEF Pop
  <2>3. queue' \in [Threads -> Seq(Task)]
    BY <1>1, <2>1, <2>2
  <2>4. ASSUME NEW y \in Threads, NEW i \in DOMAIN queue'[y]
        PROVE  TaskFits(queue[y][i], y)'
    <3> USE <1>4 DEF TaskFits, ObservedGrows
    <3>1. CASE y # t
      BY <1>1, <2>2, <2>4, <3>1 DEF QueuesFit
    <3>2. CASE y = t
      <4>1. i + 1 \in DOMAIN queue[t] /\ queue'[y][i] = queue[t][i + 1]
        BY <1>1, <2>2, <2>4, <3>2
      <4> QED BY <4>1, <3>2 DEF QueuesFit
    <3> QED BY <3>1, <3>2
  <2> QED BY <2>3, <2>4 DEF QueuesFit
<1> QED BY <1>3, <1>4

-----------------------------------------------------------------------------
\* The part of the inductive invariant about shapes and routes.
ShapeInv == TypeOK /\ RouteInv

\* Server start: no session, empty queues and an empty grid satisfy the
\* invariant.
LEMMA ShapeInit == Init => ShapeInv
<1> SUFFICES ASSUME Init PROVE ShapeInv
  OBVIOUS
<1> USE ConstantsAssumption DEF Init, InvalidZoneId, NoSector, DefaultThread,
        Threads
<1>1. SessionOK /\ RegistryOK /\ UserOK /\ ObservedOK
  BY DEF SessionOK, RegistryOK, UserOK, ObservedOK
<1>2. \A pc \in {"none", "waiting"} : Doing(pc) \in WorkerStates
  BY DEF Doing, WorkerStates, WorkerPcs
<1>3. IoOK
  BY <1>2 DEF IoOK, Workers
<1>4. Idle \in RunStates
  BY DEF RunStates, Idle, At, Ops
<1>5. queue \in [Threads -> Seq(Task)] /\ run \in [Threads -> RunStates]
  BY <1>4
<1>6. QueuesFit
  BY DEF QueuesFit
<1>7. \A t \in Threads : RunFits(t)
  BY DEF RunFits, Idle, At, TransferOps, LoginOps, EndingOps
<1>8. \A p \in Players : \A w \in Workers : WorkerFits(p, w)
  BY DEF WorkerFits, Doing
<1>9. \A p \in Players : RouteKnown(p)
  BY DEF RouteKnown
<1> QED BY <1>1, <1>3, <1>5, <1>6, <1>7, <1>8, <1>9 DEF ShapeInv, RouteInv, TypeOK

\* A step of a running task: only thread t moves.
LEMMA AdvanceLemma ==
  ASSUME ShapeInv, NEW t \in Threads, NEW op \in Ops \ {"idle"},
         NEW next \in Ops, Advance(t, op, next)
  PROVE  /\ run[t].op = op /\ run[t].p \in Players
         /\ run[t].c \in Cells \cup {None}
         /\ run' \in [Threads -> RunStates]
         /\ \A u \in Threads \ {t} : run'[u] = run[u]
         /\ run'[t].op = next
         /\ next = "idle" => run'[t].p = None
         /\ next # "idle" => run'[t].p = run[t].p /\ run'[t].c = run[t].c
<1>1. run[t] \in RunStates /\ RunFits(t) /\ run \in [Threads -> RunStates]
  BY DEF ShapeInv, RouteInv, TypeOK
<1>2. run[t].op = op
  BY DEF Advance
<1>3. run[t].p \in Players /\ run[t].c \in Cells \cup {None}
  BY <1>1, <1>2 DEF RunFits, RunStates
<1>4. CASE next = "idle"
  <2>1. run' = [run EXCEPT ![t] = Idle] /\ Idle \in RunStates
    BY <1>4 DEF Advance, Idle, At, RunStates, Ops
  <2>2. run' \in [Threads -> RunStates] /\ run'[t] = Idle
    BY <1>1, <2>1
  <2> QED BY <1>1, <1>2, <1>3, <1>4, <2>1, <2>2 DEF Idle, At
<1>5. CASE next # "idle"
  <2>1. run' = [run EXCEPT ![t] = [run[t] EXCEPT !.op = next]]
    BY <1>1, <1>5 DEF Advance
  <2>2. [run[t] EXCEPT !.op = next] \in RunStates
    BY <1>1 DEF RunStates
  <2>3. run' \in [Threads -> RunStates]
        /\ run'[t] = [run[t] EXCEPT !.op = next]
    BY <1>1, <2>1, <2>2
  <2> QED BY <1>1, <1>2, <1>3, <1>5, <2>1, <2>3 DEF RunStates
<1> QED BY <1>4, <1>5

\* A thread that pops a task and goes on with it at op.
LEMMA PopToLemma ==
  ASSUME ShapeInv, NEW t \in Threads, queue[t] # <<>>,
         NEW op \in Ops \ {"idle"}, PopTo(t, op)
  PROVE  /\ run' \in [Threads -> RunStates]
         /\ \A u \in Threads \ {t} : run'[u] = run[u]
         /\ run'[t].op = op
         /\ run'[t].p = Head(queue[t]).p /\ run'[t].p \in Players
         /\ run'[t].c = Head(queue[t]).c
         /\ ObservedGrows => queue' \in [Threads -> Seq(Task)] /\ QueuesFit'
<1>1. run \in [Threads -> RunStates] /\ TypeOK /\ QueuesFit
  BY DEF ShapeInv, RouteInv, TypeOK
<1>2. Pop(t) /\ run' = [run EXCEPT ![t] = At(op, Head(queue[t]).p, Head(queue[t]).c)]
  BY DEF PopTo
<1>3. /\ Head(queue[t]) \in Task
      /\ ObservedGrows => queue' \in [Threads -> Seq(Task)] /\ QueuesFit'
  BY <1>1, <1>2, PopLemma
<1>4. /\ Head(queue[t]).p \in Players
      /\ Head(queue[t]).c \in Cells \cup {None}
  BY <1>3 DEF Task
<1>5. At(op, Head(queue[t]).p, Head(queue[t]).c) \in RunStates
  BY <1>4 DEF At, RunStates
<1> QED BY <1>1, <1>2, <1>3, <1>4, <1>5 DEF At

\* Routes only change to zones.
RoutesStay ==
  \A p \in Players : routing'[p] = routing[p] \/ routing'[p] \in Zones

\* The threads but t are where they were.
LEMMA RunFitsLemma ==
  ASSUME ShapeInv, NEW t \in Threads, RoutesStay, ObservedGrows,
         \A u \in Threads \ {t} : run'[u] = run[u],
         RunFits(t)'
  PROVE  \A u \in Threads : RunFits(u)'
<1> SUFFICES ASSUME NEW u \in Threads \ {t} PROVE RunFits(u)'
  OBVIOUS
<1>1. RunFits(u) /\ run'[u] = run[u] /\ run[u].p \in Players \cup {None}
  BY DEF ShapeInv, RouteInv, TypeOK, RunStates
<1>2. run[u].op = "login_ack" => HasRoute(run[u].p)'
  BY <1>1, ConstantsAssumption DEF RunFits, HasRoute, RoutesStay, ObservedGrows
<1> QED BY <1>1, <1>2 DEF RunFits, ObservedGrows

\* Nothing of the workers and the clients changes.
LEMMA IoStays ==
  ASSUME ShapeInv, RoutesStay, ObservedGrows, UNCHANGED io
  PROVE  /\ IoOK'
         /\ \A p \in Players : \A w \in Workers : WorkerFits(p, w)'
         /\ \A p \in Players : RouteKnown(p)'
<1>1. IoOK'
  BY DEF ShapeInv, TypeOK, IoOK, io
<1>2. \A p \in Players : \A w \in Workers : WorkerFits(p, w)'
  BY DEF ShapeInv, RouteInv, WorkerFits, TaskFits, ObservedGrows, io
<1>3. \A p \in Players : RouteKnown(p)'
  BY DEF ShapeInv, RouteInv, RouteKnown, HasRoute, RoutesStay, ObservedGrows, io
<1> QED BY <1>1, <1>2, <1>3

\* Sector::UpdateObjectSectorAndPosition and Sector::RemoveObject.
LEMMA SectorLemma ==
  ASSUME UserOK, NEW t \in Threads, NEW p \in Players
  PROVE  /\ \A c \in Cells : UpdateSector(t, p, c) =>
              /\ grid' \in [Cells -> SUBSET Players]
              /\ sector' \in [Players -> Cells \cup {NoSector}]
         /\ RemoveFromSector(t, p) =>
              /\ grid' \in [Cells -> SUBSET Players]
              /\ sector' \in [Players -> Cells \cup {NoSector}]
<1>1. ASSUME NEW c \in Cells, UpdateSector(t, p, c)
      PROVE  /\ grid' \in [Cells -> SUBSET Players]
             /\ sector' \in [Players -> Cells \cup {NoSector}]
  <2>1. CASE sector[p] = c
    BY <1>1, <2>1 DEF UserOK, UpdateSector
  <2>2. CASE sector[p] # c
    <3>1. sector' = [sector EXCEPT ![p] = c]
      BY <1>1, <2>2 DEF UpdateSector
    <3>2. grid' = [d \in Cells |->
                     IF d = c THEN grid[d] \cup {p}
                     ELSE IF d = sector[p] /\ ZoneOf[d] = t
                          THEN grid[d] \ {p} ELSE grid[d]]
      BY <1>1, <2>2 DEF UpdateSector
    <3> QED BY <3>1, <3>2 DEF UserOK
  <2> QED BY <2>1, <2>2
<1>2. ASSUME RemoveFromSector(t, p)
      PROVE  /\ grid' \in [Cells -> SUBSET Players]
             /\ sector' \in [Players -> Cells \cup {NoSector}]
  BY <1>2 DEF UserOK, RemoveFromSector, NoSector
<1> QED BY <1>1, <1>2

\* A group of variables that a step leaves alone keeps its part of the
\* invariant.
LEMMA UnchangedLemma ==
  ASSUME ShapeInv
  PROVE  /\ UNCHANGED session => SessionOK' /\ RoutesStay
         /\ UNCHANGED registry => RegistryOK'
         /\ UNCHANGED user => UserOK'
         /\ UNCHANGED observed => ObservedGrows
         /\ UNCHANGED queue /\ ObservedGrows =>
              queue' \in [Threads -> Seq(Task)] /\ QueuesFit'
<1>1. UNCHANGED session => SessionOK' /\ RoutesStay
  BY DEF ShapeInv, TypeOK, SessionOK, RoutesStay, session
<1>2. UNCHANGED registry => RegistryOK'
  BY DEF ShapeInv, TypeOK, RegistryOK, registry
<1>3. UNCHANGED user => UserOK'
  BY DEF ShapeInv, TypeOK, UserOK, user
<1>4. UNCHANGED observed => ObservedGrows
  BY DEF ShapeInv, RouteInv, TypeOK, ObservedOK, ObservedGrows, observed
<1>5. UNCHANGED queue /\ ObservedGrows =>
        queue' \in [Threads -> Seq(Task)] /\ QueuesFit'
  BY DEF ShapeInv, TypeOK, RouteInv, QueuesFit, TaskFits, ObservedGrows
<1> QED BY <1>1, <1>2, <1>3, <1>4, <1>5

\* What a step of thread t that leaves workers and clients alone must show.
LEMMA ThreadShape ==
  ASSUME ShapeInv, NEW t \in Threads, RoutesStay, UNCHANGED io,
         SessionOK', RegistryOK', UserOK', ObservedGrows,
         queue' \in [Threads -> Seq(Task)], QueuesFit',
         run' \in [Threads -> RunStates],
         \A u \in Threads \ {t} : run'[u] = run[u],
         RunFits(t)'
  PROVE  ShapeInv'
BY RunFitsLemma, IoStays DEF ShapeInv, RouteInv, TypeOK, ObservedGrows

\* A thread that drops a task stays as it was.
LEMMA PopOnlyShape ==
  ASSUME ShapeInv, NEW t \in Threads, queue[t] # <<>>, Pop(t), UNCHANGED run,
         RoutesStay, ObservedGrows
  PROVE  /\ queue' \in [Threads -> Seq(Task)] /\ QueuesFit'
         /\ run' \in [Threads -> RunStates]
         /\ \A u \in Threads \ {t} : run'[u] = run[u]
         /\ RunFits(t)'
<1>1. queue' \in [Threads -> Seq(Task)] /\ QueuesFit'
  BY PopLemma DEF ShapeInv, RouteInv
<1>2. RunFits(t) /\ run[t].p \in Players \cup {None}
  BY DEF ShapeInv, RouteInv, TypeOK, RunStates
<1>3. run[t].op = "login_ack" => HasRoute(run[t].p)'
  BY <1>2, ConstantsAssumption DEF RunFits, HasRoute, RoutesStay, ObservedGrows
<1>4. RunFits(t)'
  BY <1>2, <1>3 DEF RunFits, ObservedGrows
<1> QED BY <1>1, <1>4 DEF ShapeInv, TypeOK

\* HandleLogin handing the new user to its session keeps the invariant.
LEMMA LoginBindShape ==
  ASSUME ShapeInv, NEW t \in Threads, LoginBind(t)
  PROVE  ShapeInv'
<1>1. /\ run[t].op = "login_bind" /\ run[t].p \in Players
      /\ run[t].c \in Cells \cup {None}
      /\ run' \in [Threads -> RunStates]
      /\ \A u \in Threads \ {t} : run'[u] = run[u]
      /\ run'[t].op = "login_place"
      /\ run'[t].p = run[t].p /\ run'[t].c = run[t].c
  BY AdvanceLemma DEF LoginBind, Ops
<1>2. /\ RegistryOK'
      /\ UserOK'
      /\ ObservedGrows
      /\ queue' \in [Threads -> Seq(Task)] /\ QueuesFit'
  BY UnchangedLemma DEF LoginBind, registry, user, observed
<1>3. RunFits(t) /\ TypeOK
  BY DEF ShapeInv, RouteInv
<1>4. SessionOK' /\ RoutesStay
  BY <1>1, <1>3 DEF LoginBind, TypeOK, SessionOK, RoutesStay
<1>5. RunFits(t)'
  BY <1>1, <1>3, ConstantsAssumption
  DEF RunFits, TransferOps, LoginOps, EndingOps, DefaultThread, InvalidZoneId, Threads
<1> QED BY <1>1, <1>2, <1>4, <1>5, ThreadShape DEF LoginBind

\* HandleLogin putting the user into the sector grid keeps the invariant.
LEMMA LoginPlaceShape ==
  ASSUME ShapeInv, NEW t \in Threads, LoginPlace(t)
  PROVE  ShapeInv'
<1>1. /\ run[t].op = "login_place" /\ run[t].p \in Players
      /\ run[t].c \in Cells \cup {None}
      /\ run' \in [Threads -> RunStates]
      /\ \A u \in Threads \ {t} : run'[u] = run[u]
      /\ run'[t].op = "login_map"
      /\ run'[t].p = run[t].p /\ run'[t].c = run[t].c
  BY AdvanceLemma DEF LoginPlace, Ops
<1>2. /\ SessionOK' /\ RoutesStay
      /\ RegistryOK'
      /\ ObservedGrows
      /\ queue' \in [Threads -> Seq(Task)] /\ QueuesFit'
  BY UnchangedLemma DEF LoginPlace, session, registry, observed
<1>3. RunFits(t) /\ TypeOK
  BY DEF ShapeInv, RouteInv
<1>4. run[t].c \in Cells /\ ZoneOf[run[t].c] = t /\ t \in Zones
  BY <1>1, <1>3, ConstantsAssumption DEF RunFits, LoginOps
<1>5. UserOK'
  BY <1>1, <1>3, <1>4, SectorLemma DEF LoginPlace, TypeOK, UserOK, Threads
<1>6. RunFits(t)'
  BY <1>1, <1>3, ConstantsAssumption
  DEF RunFits, TransferOps, LoginOps, EndingOps, DefaultThread, InvalidZoneId, Threads
<1> QED BY <1>1, <1>2, <1>4, <1>5, <1>6, ThreadShape DEF LoginPlace

\* A login that cannot place its player: nothing is stored but that.
LEMMA LoginFallbackShape ==
  ASSUME ShapeInv, NEW t \in Threads, LoginFallback(t)
  PROVE  ShapeInv'
<1>1. /\ run[t].op = "login_place" /\ run[t].p \in Players
      /\ run[t].c \in Cells \cup {None}
      /\ run' \in [Threads -> RunStates]
      /\ \A u \in Threads \ {t} : run'[u] = run[u]
      /\ run'[t].op = "login_ack"
      /\ run'[t].p = run[t].p /\ run'[t].c = run[t].c
  BY AdvanceLemma DEF LoginFallback, Ops
<1>2. RunFits(t) /\ TypeOK /\ unplaced \subseteq stray
  BY DEF ShapeInv, RouteInv
<1>3. ObservedGrows /\ run[t].p \in unplaced'
  BY <1>1, <1>2 DEF LoginFallback, TypeOK, ObservedOK, ObservedGrows
<1>4. /\ SessionOK' /\ RoutesStay
      /\ RegistryOK'
      /\ UserOK'
      /\ queue' \in [Threads -> Seq(Task)] /\ QueuesFit'
  BY <1>3, UnchangedLemma DEF LoginFallback, session, registry, user
<1>5. run[t].c \in Cells /\ ZoneOf[run[t].c] = t /\ t \in Zones
  BY <1>1, <1>2, ConstantsAssumption DEF RunFits, LoginOps
<1>6. RunFits(t)'
  BY <1>1, <1>3, <1>5, ConstantsAssumption
  DEF RunFits, HasRoute, TransferOps, LoginOps, EndingOps, DefaultThread,
      InvalidZoneId
<1> QED BY <1>1, <1>3, <1>4, <1>6, ThreadShape DEF LoginFallback

\* HandleLogin writing ZoneManager's player-to-zone map keeps the invariant.
LEMMA LoginMapShape ==
  ASSUME ShapeInv, NEW t \in Threads, LoginMap(t)
  PROVE  ShapeInv'
<1>1. /\ run[t].op = "login_map" /\ run[t].p \in Players
      /\ run[t].c \in Cells \cup {None}
      /\ run' \in [Threads -> RunStates]
      /\ \A u \in Threads \ {t} : run'[u] = run[u]
      /\ run'[t].op = "login_route"
      /\ run'[t].p = run[t].p /\ run'[t].c = run[t].c
  BY AdvanceLemma DEF LoginMap, Ops
<1>2. /\ SessionOK' /\ RoutesStay
      /\ UserOK'
      /\ ObservedGrows
      /\ queue' \in [Threads -> Seq(Task)] /\ QueuesFit'
  BY UnchangedLemma DEF LoginMap, session, user, observed
<1>3. RunFits(t) /\ TypeOK
  BY DEF ShapeInv, RouteInv
<1>4. RegistryOK'
  BY <1>1, <1>3 DEF LoginMap, TypeOK, RegistryOK, UserOK
<1>5. RunFits(t)'
  BY <1>1, <1>3, ConstantsAssumption
  DEF RunFits, TransferOps, LoginOps, EndingOps, DefaultThread, InvalidZoneId, Threads
<1> QED BY <1>1, <1>2, <1>4, <1>5, ThreadShape DEF LoginMap

\* HandleLogin storing the session's zone id, a real zone, keeps the
\* invariant.
LEMMA LoginRouteShape ==
  ASSUME ShapeInv, NEW t \in Threads, LoginRoute(t)
  PROVE  ShapeInv'
<1>1. /\ run[t].op = "login_route" /\ run[t].p \in Players
      /\ run[t].c \in Cells \cup {None}
      /\ run' \in [Threads -> RunStates]
      /\ \A u \in Threads \ {t} : run'[u] = run[u]
      /\ run'[t].op = "login_ack"
      /\ run'[t].p = run[t].p /\ run'[t].c = run[t].c
  BY AdvanceLemma DEF LoginRoute, Ops
<1>2. /\ RegistryOK'
      /\ UserOK'
      /\ ObservedGrows
      /\ queue' \in [Threads -> Seq(Task)] /\ QueuesFit'
  BY UnchangedLemma DEF LoginRoute, registry, user, observed
<1>3. RunFits(t) /\ TypeOK
  BY DEF ShapeInv, RouteInv
<1>4. run[t].c \in Cells /\ ZoneOf[run[t].c] = t /\ t \in Zones
  BY <1>1, <1>3, ConstantsAssumption DEF RunFits, LoginOps
<1>5. SessionOK' /\ RoutesStay /\ routing'[run[t].p] \in Zones
  BY <1>1, <1>3, <1>4 DEF LoginRoute, TypeOK, SessionOK, RoutesStay, Threads
<1>6. RunFits(t)'
  BY <1>1, <1>3, <1>4, <1>5, ConstantsAssumption
  DEF RunFits, HasRoute, TransferOps, LoginOps, EndingOps, DefaultThread,
      InvalidZoneId, Threads
<1> QED BY <1>1, <1>2, <1>4, <1>5, <1>6, ThreadShape DEF LoginRoute

\* Running an item packet, which changes no route, keeps the invariant.
LEMMA HandleItemShape ==
  ASSUME ShapeInv, NEW t \in Threads, HandleItem(t)
  PROVE  ShapeInv'
<1>1. /\ run[t].op = "item" /\ run[t].p \in Players
      /\ run[t].c \in Cells \cup {None}
      /\ run' \in [Threads -> RunStates]
      /\ \A u \in Threads \ {t} : run'[u] = run[u]
      /\ run'[t].op = "idle"
      /\ run'[t].p = None
  BY AdvanceLemma DEF HandleItem, Ops
<1>2. /\ SessionOK' /\ RoutesStay
      /\ RegistryOK'
      /\ UserOK'
      /\ ObservedGrows
      /\ queue' \in [Threads -> Seq(Task)] /\ QueuesFit'
  BY UnchangedLemma DEF HandleItem, session, registry, user, observed
<1>3. RunFits(t) /\ TypeOK
  BY DEF ShapeInv, RouteInv
<1>4. RunFits(t)'
  BY <1>1, ConstantsAssumption DEF RunFits, TransferOps, LoginOps, EndingOps
<1> QED BY <1>1, <1>2, <1>4, ThreadShape DEF HandleItem

\* A move, within the zone or starting a transfer, keeps the invariant.
LEMMA HandlePlayerMoveShape ==
  ASSUME ShapeInv, NEW t \in Threads, HandlePlayerMove(t)
  PROVE  ShapeInv'
<1>1. /\ run[t].op = "move" /\ run[t].p \in Players
      /\ run[t].c \in Cells \cup {None}
      /\ run' \in [Threads -> RunStates]
      /\ \A u \in Threads \ {t} : run'[u] = run[u]
      /\ run'[t].op = "idle"
      /\ run'[t].p = None
  BY AdvanceLemma DEF HandlePlayerMove, Ops
<1>2. /\ RegistryOK'
      /\ ObservedGrows
      /\ queue' \in [Threads -> Seq(Task)] /\ QueuesFit'
  BY UnchangedLemma DEF HandlePlayerMove, registry, observed
<1>3. RunFits(t) /\ TypeOK
  BY DEF ShapeInv, RouteInv
<1>4. run[t].c \in Cells /\ ZoneOf[run[t].c] \in Zones
  BY <1>1, <1>3, ConstantsAssumption DEF RunFits
<1>5. SessionOK' /\ RoutesStay
  BY <1>1, <1>3, <1>4 DEF HandlePlayerMove, TypeOK, SessionOK, RoutesStay, Threads
<1>6. UserOK'
  BY <1>1, <1>3, <1>4, SectorLemma DEF HandlePlayerMove, TypeOK, UserOK
<1>7. RunFits(t)'
  BY <1>1, ConstantsAssumption DEF RunFits, TransferOps, LoginOps, EndingOps
<1> QED BY <1>1, <1>2, <1>4, <1>5, <1>6, <1>7, ThreadShape DEF HandlePlayerMove

\* Leaving the old zone's grid keeps the invariant.
LEMMA TransferLeaveShape ==
  ASSUME ShapeInv, ~crashed, NEW t \in Threads, TransferLeave(t)
  PROVE  ShapeInv'
<1>1. /\ run[t].op = "move" /\ run[t].p \in Players
      /\ run[t].c \in Cells \cup {None}
      /\ run' \in [Threads -> RunStates]
      /\ \A u \in Threads \ {t} : run'[u] = run[u]
      /\ run'[t].op = "transfer_zone"
      /\ run'[t].p = run[t].p /\ run'[t].c = run[t].c
  BY AdvanceLemma DEF TransferLeave, Ops
<1>2. /\ SessionOK' /\ RoutesStay
      /\ RegistryOK'
      /\ ObservedGrows
      /\ queue' \in [Threads -> Seq(Task)] /\ QueuesFit'
  BY UnchangedLemma DEF TransferLeave, session, registry, observed
<1>3. RunFits(t) /\ TypeOK
  BY DEF ShapeInv, RouteInv
<1>4. UserOK'
  BY <1>1, <1>3, SectorLemma DEF TransferLeave, TypeOK, UserOK
<1>5. RunFits(t)'
  BY <1>1, <1>3, ConstantsAssumption
  DEF RunFits, TransferOps, LoginOps, EndingOps, DefaultThread, InvalidZoneId, Threads
<1> QED BY <1>1, <1>2, <1>4, <1>5, ThreadShape DEF TransferLeave

\* Giving the user its new zone id keeps the invariant.
LEMMA TransferZoneShape ==
  ASSUME ShapeInv, NEW t \in Threads, TransferZone(t)
  PROVE  ShapeInv'
<1>1. /\ run[t].op = "transfer_zone" /\ run[t].p \in Players
      /\ run[t].c \in Cells \cup {None}
      /\ run' \in [Threads -> RunStates]
      /\ \A u \in Threads \ {t} : run'[u] = run[u]
      /\ run'[t].op = "transfer_map"
      /\ run'[t].p = run[t].p /\ run'[t].c = run[t].c
  BY AdvanceLemma DEF TransferZone, Ops
<1>2. /\ SessionOK' /\ RoutesStay
      /\ RegistryOK'
      /\ ObservedGrows
      /\ queue' \in [Threads -> Seq(Task)] /\ QueuesFit'
  BY UnchangedLemma DEF TransferZone, session, registry, observed
<1>3. RunFits(t) /\ TypeOK
  BY DEF ShapeInv, RouteInv
<1>4. run[t].c \in Cells /\ ZoneOf[run[t].c] \in Zones
  BY <1>1, <1>3, ConstantsAssumption DEF RunFits, TransferOps
<1>5. UserOK'
  BY <1>1, <1>3, <1>4 DEF TransferZone, TypeOK, UserOK, Threads
<1>6. RunFits(t)'
  BY <1>1, <1>3, ConstantsAssumption
  DEF RunFits, TransferOps, LoginOps, EndingOps, DefaultThread, InvalidZoneId, Threads
<1> QED BY <1>1, <1>2, <1>4, <1>5, <1>6, ThreadShape DEF TransferZone

\* Overwriting the zone map with the target zone keeps the invariant.
LEMMA TransferMapShape ==
  ASSUME ShapeInv, NEW t \in Threads, TransferMap(t)
  PROVE  ShapeInv'
<1>1. /\ run[t].op = "transfer_map" /\ run[t].p \in Players
      /\ run[t].c \in Cells \cup {None}
      /\ run' \in [Threads -> RunStates]
      /\ \A u \in Threads \ {t} : run'[u] = run[u]
      /\ run'[t].op = "transfer_route"
      /\ run'[t].p = run[t].p /\ run'[t].c = run[t].c
  BY AdvanceLemma DEF TransferMap, Ops
<1>2. /\ SessionOK' /\ RoutesStay
      /\ UserOK'
      /\ ObservedGrows
      /\ queue' \in [Threads -> Seq(Task)] /\ QueuesFit'
  BY UnchangedLemma DEF TransferMap, session, user, observed
<1>3. RunFits(t) /\ TypeOK
  BY DEF ShapeInv, RouteInv
<1>4. run[t].c \in Cells /\ ZoneOf[run[t].c] \in Zones
  BY <1>1, <1>3, ConstantsAssumption DEF RunFits, TransferOps
<1>5. RegistryOK'
  BY <1>1, <1>3, <1>4 DEF TransferMap, TypeOK, RegistryOK, Threads
<1>6. RunFits(t)'
  BY <1>1, <1>3, ConstantsAssumption
  DEF RunFits, TransferOps, LoginOps, EndingOps, DefaultThread, InvalidZoneId, Threads
<1> QED BY <1>1, <1>2, <1>4, <1>5, <1>6, ThreadShape DEF TransferMap

\* Overwriting the session's route with another real zone keeps the
\* invariant.
LEMMA TransferRouteShape ==
  ASSUME ShapeInv, NEW t \in Threads, TransferRoute(t)
  PROVE  ShapeInv'
<1>1. /\ run[t].op = "transfer_route" /\ run[t].p \in Players
      /\ run[t].c \in Cells \cup {None}
      /\ run' \in [Threads -> RunStates]
      /\ \A u \in Threads \ {t} : run'[u] = run[u]
      /\ run'[t].op = "transfer_post"
      /\ run'[t].p = run[t].p /\ run'[t].c = run[t].c
  BY AdvanceLemma DEF TransferRoute, Ops
<1>2. /\ RegistryOK'
      /\ UserOK'
      /\ ObservedGrows
      /\ queue' \in [Threads -> Seq(Task)] /\ QueuesFit'
  BY UnchangedLemma DEF TransferRoute, registry, user, observed
<1>3. RunFits(t) /\ TypeOK
  BY DEF ShapeInv, RouteInv
<1>4. run[t].c \in Cells /\ ZoneOf[run[t].c] \in Zones
  BY <1>1, <1>3, ConstantsAssumption DEF RunFits, TransferOps
<1>5. SessionOK' /\ RoutesStay
  BY <1>1, <1>3, <1>4 DEF TransferRoute, TypeOK, SessionOK, RoutesStay, Threads
<1>6. RunFits(t)'
  BY <1>1, <1>3, ConstantsAssumption
  DEF RunFits, TransferOps, LoginOps, EndingOps, DefaultThread, InvalidZoneId, Threads
<1> QED BY <1>1, <1>2, <1>4, <1>5, <1>6, ThreadShape DEF TransferRoute

\* Posting the enter task, always to a real zone, keeps the invariant.
LEMMA TransferPostShape ==
  ASSUME ShapeInv, NEW t \in Threads, TransferPost(t)
  PROVE  ShapeInv'
<1>1. /\ run[t].op = "transfer_post" /\ run[t].p \in Players
      /\ run[t].c \in Cells \cup {None}
      /\ run' \in [Threads -> RunStates]
      /\ \A u \in Threads \ {t} : run'[u] = run[u]
      /\ run'[t].op = "idle"
      /\ run'[t].p = None
  BY AdvanceLemma DEF TransferPost, Ops
<1>2. /\ SessionOK' /\ RoutesStay
      /\ RegistryOK'
      /\ UserOK'
      /\ ObservedGrows
  BY UnchangedLemma DEF TransferPost, session, registry, user, observed
<1>3. RunFits(t) /\ TypeOK
  BY DEF ShapeInv, RouteInv
<1>4. run[t].c \in Cells /\ ZoneOf[run[t].c] \in Zones
  BY <1>1, <1>3, ConstantsAssumption DEF RunFits, TransferOps
<1>5. /\ MkTask("enter", run[t].p, run[t].c) \in Task
      /\ TaskFits(MkTask("enter", run[t].p, run[t].c), ZoneOf[run[t].c])
  BY <1>1, <1>4, ConstantsAssumption
  DEF MkTask, Task, TaskTypes, PacketTypes, TaskFits, DefaultThread, InvalidZoneId
<1>6. queue' \in [Threads -> Seq(Task)] /\ QueuesFit'
  BY <1>2, <1>3, <1>4, <1>5, EnqueueLemma
  DEF TransferPost, ShapeInv, RouteInv, Threads
<1>7. RunFits(t)'
  BY <1>1, ConstantsAssumption DEF RunFits, TransferOps, LoginOps, EndingOps
<1> QED BY <1>1, <1>2, <1>4, <1>5, <1>6, <1>7, ThreadShape DEF TransferPost

\* Ending HandleEnterZone keeps the invariant.
LEMMA EnterDoneShape ==
  ASSUME ShapeInv, NEW t \in Threads, EnterDone(t)
  PROVE  ShapeInv'
<1>1. /\ run[t].op = "enter_done" /\ run[t].p \in Players
      /\ run[t].c \in Cells \cup {None}
      /\ run' \in [Threads -> RunStates]
      /\ \A u \in Threads \ {t} : run'[u] = run[u]
      /\ run'[t].op = "idle"
      /\ run'[t].p = None
  BY AdvanceLemma DEF EnterDone, Ops
<1>2. /\ SessionOK' /\ RoutesStay
      /\ RegistryOK'
      /\ ObservedGrows
      /\ queue' \in [Threads -> Seq(Task)] /\ QueuesFit'
  BY UnchangedLemma DEF EnterDone, session, registry, observed
<1>3. RunFits(t) /\ TypeOK
  BY DEF ShapeInv, RouteInv
<1>4. UserOK'
  BY <1>1, <1>3 DEF EnterDone, TypeOK, UserOK
<1>5. RunFits(t)'
  BY <1>1, ConstantsAssumption DEF RunFits, TransferOps, LoginOps, EndingOps
<1> QED BY <1>1, <1>2, <1>4, <1>5, ThreadShape DEF EnterDone

\* Disconnect closing the session keeps the invariant.
LEMMA DisconnectCloseShape ==
  ASSUME ShapeInv, NEW t \in Threads, DisconnectClose(t)
  PROVE  ShapeInv'
<1>1. /\ run[t].op = "close_session" /\ run[t].p \in Players
      /\ run[t].c \in Cells \cup {None}
      /\ run' \in [Threads -> RunStates]
      /\ \A u \in Threads \ {t} : run'[u] = run[u]
      /\ run'[t].op = "delete"
      /\ run'[t].p = run[t].p /\ run'[t].c = run[t].c
  BY AdvanceLemma DEF DisconnectClose, Ops
<1>2. /\ RegistryOK'
      /\ UserOK'
      /\ ObservedGrows
      /\ queue' \in [Threads -> Seq(Task)] /\ QueuesFit'
  BY UnchangedLemma DEF DisconnectClose, registry, user, observed
<1>3. RunFits(t) /\ TypeOK
  BY DEF ShapeInv, RouteInv
<1>4. SessionOK' /\ RoutesStay
  BY <1>1, <1>3 DEF DisconnectClose, TypeOK, SessionOK, RoutesStay
<1>5. RunFits(t)'
  BY <1>1, <1>3, ConstantsAssumption
  DEF RunFits, TransferOps, LoginOps, EndingOps, DefaultThread, InvalidZoneId, Threads
<1> QED BY <1>1, <1>2, <1>4, <1>5, ThreadShape DEF DisconnectClose

\* Disconnect erasing the game object keeps the invariant.
LEMMA DisconnectDeleteShape ==
  ASSUME ShapeInv, NEW t \in Threads, DisconnectDelete(t)
  PROVE  ShapeInv'
<1>1. /\ run[t].op = "delete" /\ run[t].p \in Players
      /\ run[t].c \in Cells \cup {None}
      /\ run' \in [Threads -> RunStates]
      /\ \A u \in Threads \ {t} : run'[u] = run[u]
      /\ run'[t].op = "unmap"
      /\ run'[t].p = run[t].p /\ run'[t].c = run[t].c
  BY AdvanceLemma DEF DisconnectDelete, Ops
<1>2. /\ SessionOK' /\ RoutesStay
      /\ UserOK'
      /\ ObservedGrows
      /\ queue' \in [Threads -> Seq(Task)] /\ QueuesFit'
  BY UnchangedLemma DEF DisconnectDelete, session, user, observed
<1>3. RunFits(t) /\ TypeOK
  BY DEF ShapeInv, RouteInv
<1>4. RegistryOK'
  BY <1>1, <1>3 DEF DisconnectDelete, TypeOK, RegistryOK
<1>5. RunFits(t)'
  BY <1>1, <1>3, ConstantsAssumption
  DEF RunFits, TransferOps, LoginOps, EndingOps, DefaultThread, InvalidZoneId, Threads
<1> QED BY <1>1, <1>2, <1>4, <1>5, ThreadShape DEF DisconnectDelete

\* Disconnect erasing the zone map entry keeps the invariant.
LEMMA DisconnectUnmapShape ==
  ASSUME ShapeInv, NEW t \in Threads, DisconnectUnmap(t)
  PROVE  ShapeInv'
<1>1. /\ run[t].op = "unmap" /\ run[t].p \in Players
      /\ run[t].c \in Cells \cup {None}
      /\ run' \in [Threads -> RunStates]
      /\ \A u \in Threads \ {t} : run'[u] = run[u]
      /\ run'[t].op = "idle"
      /\ run'[t].p = None
  BY AdvanceLemma DEF DisconnectUnmap, Ops
<1>2. /\ SessionOK' /\ RoutesStay
      /\ UserOK'
      /\ ObservedGrows
      /\ queue' \in [Threads -> Seq(Task)] /\ QueuesFit'
  BY UnchangedLemma DEF DisconnectUnmap, session, user, observed
<1>3. RunFits(t) /\ TypeOK
  BY DEF ShapeInv, RouteInv
<1>4. RegistryOK'
  BY <1>1, <1>3 DEF DisconnectUnmap, TypeOK, RegistryOK, Threads, DefaultThread
<1>5. RunFits(t)'
  BY <1>1, ConstantsAssumption DEF RunFits, TransferOps, LoginOps, EndingOps
<1> QED BY <1>1, <1>2, <1>4, <1>5, ThreadShape DEF DisconnectUnmap

\* HandleLogin creating the user from the database row keeps the invariant.
LEMMA LoginInsertShape ==
  ASSUME ShapeInv, NEW t \in Threads, LoginInsert(t)
  PROVE  ShapeInv'
<1> DEFINE p == Head(queue[t]).p
<1>1. /\ queue[t] # <<>> /\ Head(queue[t]).type = "login"
      /\ SessionOK' /\ RoutesStay /\ UserOK' /\ ObservedGrows /\ UNCHANGED io
  BY UnchangedLemma DEF LoginInsert, Takes, session, user, observed
<1>2. Head(queue[t]) \in Task /\ TaskFits(Head(queue[t]), t) /\ TypeOK
  BY <1>1, PopLemma DEF ShapeInv, RouteInv
<1>3. CASE state[p] = "ST_ALLOC" /\ p \notin objects
  <2>1. PopTo(t, "login_bind") /\ objects' = objects \cup {p}
        /\ UNCHANGED objectZones
    BY <1>3 DEF LoginInsert
  <2>2. RegistryOK'
    BY <1>2, <2>1 DEF TypeOK, RegistryOK, Task
  <2>3. /\ run' \in [Threads -> RunStates]
        /\ \A u \in Threads \ {t} : run'[u] = run[u]
        /\ run'[t].op = "login_bind" /\ run'[t].p \in Players
        /\ run'[t].c = Head(queue[t]).c
        /\ queue' \in [Threads -> Seq(Task)] /\ QueuesFit'
    BY <1>1, <2>1, PopToLemma DEF Ops
  <2>4. RunFits(t)'
    BY <1>1, <1>2, <2>3, ConstantsAssumption
    DEF RunFits, TaskFits, TransferOps, LoginOps, EndingOps, Threads,
        DefaultThread, InvalidZoneId
  <2> QED BY <1>1, <2>2, <2>3, <2>4, ThreadShape
<1>4. CASE ~(state[p] = "ST_ALLOC" /\ p \notin objects)
  <2>1. Pop(t) /\ UNCHANGED run /\ UNCHANGED <<objects, objectZones>>
    BY <1>4 DEF LoginInsert
  <2>2. RegistryOK'
    BY <2>1, UnchangedLemma DEF registry
  <2> QED BY <1>1, <2>1, <2>2, PopOnlyShape, ThreadShape
<1> QED BY <1>3, <1>4

\* Starting or dropping a game packet keeps the invariant; only real zones
\* are sent one.
LEMMA DispatchGamePacketShape ==
  ASSUME ShapeInv, NEW t \in Threads, DispatchGamePacket(t)
  PROVE  ShapeInv'
<1> DEFINE task == Head(queue[t])
<1>1. /\ queue[t] # <<>> /\ task.type \in {"move", "item"}
      /\ SessionOK' /\ RoutesStay /\ RegistryOK' /\ UserOK' /\ UNCHANGED io
  BY UnchangedLemma DEF DispatchGamePacket, Takes, session, registry, user
<1>2. task \in Task /\ TaskFits(task, t) /\ TypeOK
  BY <1>1, PopLemma DEF ShapeInv, RouteInv
<1>3. CASE /\ PopTo(t, task.type) /\ NoteHandling(t, task.p)
           /\ UseSector(t) \/ (task.type = "item" /\ UNCHANGED crashed)
  <2>a. /\ stray \in SUBSET Players /\ unplaced \in SUBSET Players
        /\ unplaced \subseteq stray /\ task.p \in Players
    BY <1>2 DEF ShapeInv, RouteInv, TypeOK, ObservedOK, Task
  <2>b. /\ stray' \in SUBSET Players /\ stray \subseteq stray'
        /\ unplaced' = unplaced
    BY <1>3, <2>a DEF NoteHandling
  <2>c. crashed' \in BOOLEAN /\ (crashed => crashed')
    <3>1. crashed \in BOOLEAN
      BY <1>2 DEF TypeOK, ObservedOK
    <3>2. CASE UseSector(t)
      <4>1. crashed' = (crashed \/ t = DefaultThread)
        BY <3>2 DEF UseSector
      <4> QED BY <4>1, Zenon
    <3>3. CASE UNCHANGED crashed
      BY <3>1, <3>3
    <3> QED BY <1>3, <3>2, <3>3
  <2>1. ObservedGrows
    BY <2>a, <2>b, <2>c DEF ObservedOK, ObservedGrows
  <2>2. /\ run' \in [Threads -> RunStates]
        /\ \A u \in Threads \ {t} : run'[u] = run[u]
        /\ run'[t].op = task.type /\ run'[t].p \in Players
        /\ run'[t].p = task.p /\ run'[t].c = task.c
        /\ queue' \in [Threads -> Seq(Task)] /\ QueuesFit'
    BY <1>1, <1>3, <2>1, PopToLemma DEF Ops
  <2>3. RunFits(t)'
    BY <1>1, <1>2, <1>3, <2>1, <2>2, ConstantsAssumption
    DEF RunFits, TaskFits, UseSector, ObservedGrows, TransferOps, LoginOps,
        EndingOps
  <2> QED BY <1>1, <2>1, <2>2, <2>3, ThreadShape
<1>4. CASE Pop(t) /\ UNCHANGED <<run, observed>>
  <2>1. ObservedGrows
    BY <1>4, UnchangedLemma
  <2> QED BY <1>1, <1>4, <2>1, PopOnlyShape, ThreadShape
<1> QED BY <1>3, <1>4 DEF DispatchGamePacket

\* HandleEnterZone placing the user, or finding it gone, keeps the invariant.
LEMMA EnterPlaceShape ==
  ASSUME ShapeInv, NEW t \in Threads, EnterPlace(t)
  PROVE  ShapeInv'
<1> DEFINE p == Head(queue[t]).p
           c == Head(queue[t]).c
<1>1. /\ queue[t] # <<>> /\ Head(queue[t]).type = "enter"
      /\ SessionOK' /\ RoutesStay /\ RegistryOK' /\ ObservedGrows
      /\ UNCHANGED io
  BY UnchangedLemma DEF EnterPlace, Takes, session, registry, observed
<1>2. Head(queue[t]) \in Task /\ TaskFits(Head(queue[t]), t) /\ TypeOK
  BY <1>1, PopLemma DEF ShapeInv, RouteInv
<1>3. p \in Players /\ c \in Cells /\ ZoneOf[c] = t
  BY <1>1, <1>2 DEF TaskFits, Task
<1>4. CASE p \in objects
  <2>1. PopTo(t, "enter_done") /\ UpdateSector(t, p, c)
        /\ UNCHANGED <<transferring, zoneId>>
    BY <1>4 DEF EnterPlace
  <2>2. UserOK'
    BY <1>2, <1>3, <2>1, SectorLemma DEF TypeOK, UserOK
  <2>3. /\ run' \in [Threads -> RunStates]
        /\ \A u \in Threads \ {t} : run'[u] = run[u]
        /\ run'[t].op = "enter_done" /\ run'[t].p \in Players
        /\ queue' \in [Threads -> Seq(Task)] /\ QueuesFit'
    BY <1>1, <2>1, PopToLemma DEF Ops
  <2>4. RunFits(t)'
    BY <1>3, <2>3, ConstantsAssumption
    DEF RunFits, TransferOps, LoginOps, EndingOps, DefaultThread,
        InvalidZoneId
  <2> QED BY <1>1, <2>2, <2>3, <2>4, ThreadShape
<1>5. CASE p \notin objects
  <2>1. Pop(t) /\ UNCHANGED run
        /\ UNCHANGED <<transferring, zoneId, sector, grid>>
    BY <1>5 DEF EnterPlace
  <2>2. UserOK'
    BY <2>1, UnchangedLemma DEF user
  <2> QED BY <1>1, <2>1, <2>2, PopOnlyShape, ThreadShape
<1> QED BY <1>4, <1>5

\* Disconnect leaving the grid, or finding no user, keeps the invariant.
LEMMA DisconnectLeaveShape ==
  ASSUME ShapeInv, NEW t \in Threads, DisconnectLeave(t)
  PROVE  ShapeInv'
<1> DEFINE p == Head(queue[t]).p
<1>1. /\ queue[t] # <<>>
      /\ SessionOK' /\ RoutesStay /\ RegistryOK' /\ UNCHANGED io
  BY UnchangedLemma DEF DisconnectLeave, Takes, session, registry
<1>2. Head(queue[t]) \in Task /\ TypeOK
  BY <1>1, PopLemma DEF ShapeInv, RouteInv
<1>3. p \in Players
  BY <1>2 DEF Task
<1>4. CASE p \in objects
  <2>1. /\ PopTo(t, "close_session") /\ NoteHandling(t, p) /\ UseSector(t)
        /\ RemoveFromSector(t, p) /\ UNCHANGED <<transferring, zoneId>>
    BY <1>4 DEF DisconnectLeave
  <2>2. UserOK'
    BY <1>2, <1>3, <2>1, SectorLemma DEF TypeOK, UserOK
  <2>3. ObservedGrows
    BY <1>2, <1>3, <2>1
    DEF NoteHandling, UseSector, ShapeInv, RouteInv, TypeOK, ObservedOK,
        ObservedGrows
  <2>4. /\ run' \in [Threads -> RunStates]
        /\ \A u \in Threads \ {t} : run'[u] = run[u]
        /\ run'[t].op = "close_session" /\ run'[t].p \in Players
        /\ queue' \in [Threads -> Seq(Task)] /\ QueuesFit'
    BY <1>1, <2>1, <2>3, PopToLemma DEF Ops
  <2>5. RunFits(t)'
    BY <2>4, ConstantsAssumption DEF RunFits, TransferOps, LoginOps, EndingOps
  <2> QED BY <1>1, <2>2, <2>3, <2>4, <2>5, ThreadShape
<1>5. CASE p \notin objects
  <2>1. Pop(t) /\ UNCHANGED run /\ UNCHANGED observed
        /\ UNCHANGED <<transferring, zoneId, sector, grid>>
    BY <1>5 DEF DisconnectLeave
  <2>2. UserOK' /\ ObservedGrows
    BY <2>1, UnchangedLemma DEF user
  <2> QED BY <1>1, <2>1, <2>2, PopOnlyShape, ThreadShape
<1> QED BY <1>4, <1>5

\* The task goes from the queue of t to that of the player's new zone.
LEMMA DisconnectBusyShape ==
  ASSUME ShapeInv, NEW t \in Threads, DisconnectBusy(t)
  PROVE  ShapeInv'
<1> DEFINE task == Head(queue[t])
           z == zoneId[task.p]
           rest == [queue EXCEPT ![t] = Tail(queue[t])]
<1>1. /\ queue[t] # <<>> /\ task.type = "disconnect" /\ z \in Zones
      /\ SessionOK' /\ RoutesStay /\ RegistryOK' /\ UserOK' /\ ObservedGrows
      /\ UNCHANGED io /\ UNCHANGED run
  BY UnchangedLemma
  DEF DisconnectBusy, Busy, Takes, session, registry, user, observed
<1>2. TypeOK /\ QueuesFit /\ task \in Task /\ queue \in [Threads -> Seq(Task)]
  BY <1>1, PopLemma DEF ShapeInv, RouteInv, TypeOK
<1>3. rest \in [Threads -> Seq(Task)]
  BY <1>1, <1>2
<1>4. queue' = [rest EXCEPT ![z] = Append(rest[z], task)]
  BY <1>1, <1>2, <1>3 DEF DisconnectBusy, Threads
<1>5. queue' \in [Threads -> Seq(Task)]
  <2> HIDE DEF rest, z, task
  <2>1. Append(rest[z], task) \in Seq(Task)
    BY <1>1, <1>2, <1>3 DEF Threads
  <2> QED BY <1>3, <1>4, <2>1
<1>6. ASSUME NEW y \in Threads, NEW i \in DOMAIN rest[y]
      PROVE  TaskFits(rest[y][i], y)
  <2>1. CASE y # t
    BY <1>2, <1>6, <2>1 DEF QueuesFit
  <2>2. CASE y = t
    <3>1. i + 1 \in DOMAIN queue[t] /\ rest[y][i] = queue[t][i + 1]
      BY <1>1, <1>2, <1>6, <2>2
    <3> QED BY <1>2, <2>2, <3>1 DEF QueuesFit
  <2> QED BY <2>1, <2>2
<1>7. ASSUME NEW y \in Threads, NEW i \in DOMAIN queue'[y]
      PROVE  TaskFits(queue[y][i], y)'
  <2> USE <1>1 DEF TaskFits, ObservedGrows
  <2> HIDE DEF rest, z, task
  <2>1. CASE y # z
    BY <1>3, <1>4, <1>6, <1>7, <2>1
  <2>2. CASE y = z /\ i \in DOMAIN rest[z]
    BY <1>2, <1>3, <1>4, <1>6, <2>2
  <2>3. CASE y = z /\ i \notin DOMAIN rest[z]
    <3>1. queue'[y][i] = task
      BY <1>2, <1>3, <1>4, <1>7, <2>3
    <3> QED BY <1>1, <3>1 DEF TaskFits
  <2> QED BY <2>1, <2>2, <2>3
<1>8. QueuesFit'
  BY <1>7 DEF QueuesFit
<1>9. RunFits(t)' /\ run' \in [Threads -> RunStates]
  BY <1>1, <1>2
  DEF ShapeInv, RouteInv, TypeOK, DisconnectBusy, RunFits, HasRoute,
      ObservedGrows, session
<1> QED BY <1>1, <1>5, <1>8, <1>9, ThreadShape

\* Disconnect before a login, which only closes the session, keeps the
\* invariant.
LEMMA CloseSessionShape ==
  ASSUME ShapeInv, NEW t \in Threads, CloseSession(t)
  PROVE  ShapeInv'
<1>1. /\ queue[t] # <<>> /\ Pop(t) /\ UNCHANGED run /\ UNCHANGED io
      /\ RegistryOK' /\ UserOK' /\ ObservedGrows
  BY UnchangedLemma DEF CloseSession, Takes, registry, user, observed
<1>2. Head(queue[t]) \in Task
  BY <1>1, PopLemma DEF ShapeInv, RouteInv
<1>3. SessionOK' /\ RoutesStay
  BY <1>2 DEF CloseSession, ShapeInv, TypeOK, SessionOK, RoutesStay, Task
<1> QED BY <1>1, <1>3, PopOnlyShape, ThreadShape

-----------------------------------------------------------------------------
\* Steps that change the workers' and the clients' state.

\* One I/O chain of one session takes a step that fits.
LEMMA WorkerLemma ==
  ASSUME ShapeInv, ObservedGrows, NEW p \in Players, NEW w \in Workers,
         NEW s \in WorkerStates,
         worker' = [worker EXCEPT ![p][w] = s],
         WorkerFits(p, w)'
  PROVE  /\ worker' \in [Players -> [Workers -> WorkerStates]]
         /\ \A q \in Players : \A v \in Workers : WorkerFits(q, v)'
<1>1. worker \in [Players -> [Workers -> WorkerStates]]
  BY DEF ShapeInv, TypeOK, IoOK
<1>2. worker' \in [Players -> [Workers -> WorkerStates]]
  BY <1>1
<1>3. ASSUME NEW q \in Players, NEW v \in Workers
      PROVE  WorkerFits(q, v)'
  <2>1. CASE q = p /\ v = w
    BY <2>1
  <2>2. CASE ~(q = p /\ v = w)
    <3>1. worker'[q][v] = worker[q][v]
      BY <1>1, <2>2
    <3> QED BY <3>1 DEF WorkerFits, TaskFits, ObservedGrows, ShapeInv, RouteInv
  <2> QED BY <2>1, <2>2
<1> QED BY <1>2, <1>3

\* A worker that changes what it is doing for one session leaves the others
\* alone.
LEMMA DoingLemma ==
  ASSUME NEW pc \in WorkerPcs \ {"posting"}
  PROVE  Doing(pc) \in WorkerStates /\ Doing(pc).pc # "posting"
BY DEF Doing, WorkerStates, DefaultThread, InvalidZoneId, Threads

\* What a step that leaves threads and their queues alone must show.
LEMMA IoShape ==
  ASSUME ShapeInv, UNCHANGED <<registry, user, observed, queue, run>>,
         SessionOK', UNCHANGED routing, IoOK',
         \A q \in Players : \A v \in Workers : WorkerFits(q, v)',
         \A q \in Players : RouteKnown(q)'
  PROVE  ShapeInv'
<1>1. RegistryOK' /\ UserOK' /\ ObservedGrows
      /\ queue' \in [Threads -> Seq(Task)] /\ QueuesFit'
  BY UnchangedLemma DEF registry, user, observed
<1>2. run' \in [Threads -> RunStates] /\ \A t \in Threads : RunFits(t)'
  BY DEF ShapeInv, RouteInv, TypeOK, RunFits, HasRoute, observed
<1> QED BY <1>1, <1>2 DEF ShapeInv, RouteInv, TypeOK, ObservedGrows

\* A worker step that only moves the chain to another point.
LEMMA WorkerOnlyShape ==
  ASSUME ShapeInv, NEW p \in Players, NEW w \in Workers,
         NEW pc \in WorkerPcs \ {"posting"},
         worker' = [worker EXCEPT ![p][w] = Doing(pc)],
         UNCHANGED <<dbLogin, client, sent>>,
         UNCHANGED <<registry, user, observed, queue, run>>,
         SessionOK', UNCHANGED routing
  PROVE  ShapeInv'
<1>1. worker \in [Players -> [Workers -> WorkerStates]]
  BY DEF ShapeInv, TypeOK, IoOK
<1>2. worker'[p][w] = Doing(pc)
  BY <1>1
<1>3. WorkerFits(p, w)'
  BY <1>2, DoingLemma DEF WorkerFits
<1>4. IoOK' /\ \A q \in Players : \A v \in Workers : WorkerFits(q, v)'
  BY <1>3, DoingLemma, UnchangedLemma, WorkerLemma DEF ShapeInv, TypeOK, IoOK
<1>5. \A q \in Players : RouteKnown(q)'
  BY DEF ShapeInv, RouteInv, RouteKnown, HasRoute, observed
<1> QED BY <1>4, <1>5, IoShape

\* A failing receive or send keeps the invariant.
LEMMA IoFailsShape ==
  ASSUME ShapeInv, NEW p \in Players, NEW w \in Workers, IoFails(p, w)
  PROVE  ShapeInv'
<1>1. SessionOK' /\ UNCHANGED routing
  BY UnchangedLemma DEF IoFails, session
<1> QED BY <1>1, WorkerOnlyShape DEF IoFails, WorkerPcs

\* closesocket aborting the outstanding I/O keeps the invariant.
LEMMA CloseSocketShape ==
  ASSUME ShapeInv, NEW p \in Players, NEW w \in Workers, CloseSocket(p, w)
  PROVE  ShapeInv'
<1>1. SessionOK' /\ UNCHANGED routing
  BY DEF CloseSocket, ShapeInv, TypeOK, SessionOK
<1> QED BY <1>1, WorkerOnlyShape DEF CloseSocket, WorkerPcs

\* A worker reading the route for a disconnect task keeps the invariant.
LEMMA LookupOwnerShape ==
  ASSUME ShapeInv, NEW p \in Players, NEW w \in Workers, LookupOwner(p, w)
  PROVE  ShapeInv'
<1> DEFINE s == IF GetOwner(p)
                THEN Posting(MkTask("disconnect", p, None), objectZones[p])
                ELSE Posting(MkTask("close", p, None), DefaultThread)
<1>1. worker' = [worker EXCEPT ![p][w] = s]
      /\ worker \in [Players -> [Workers -> WorkerStates]]
      /\ UNCHANGED routing /\ SessionOK' /\ ObservedGrows
  BY UnchangedLemma DEF LookupOwner, ShapeInv, TypeOK, IoOK, session
<1>2. /\ s \in WorkerStates /\ s.task \in Task
      /\ s.task.type \in {"disconnect", "close"}
  BY DEF Posting, MkTask, WorkerStates, WorkerPcs, Task, TaskTypes, PacketTypes,
         ShapeInv, TypeOK, RegistryOK, Threads, DefaultThread
<1> HIDE DEF s
<1>3. worker'[p][w] = s
  BY <1>1
<1>4. WorkerFits(p, w)'
  BY <1>2, <1>3 DEF WorkerFits, TaskFits
<1>5. IoOK' /\ \A q \in Players : \A v \in Workers : WorkerFits(q, v)'
  BY <1>1, <1>2, <1>4, WorkerLemma DEF LookupOwner, ShapeInv, TypeOK, IoOK
<1>6. \A q \in Players : RouteKnown(q)'
  BY <1>1 DEF LookupOwner, ShapeInv, RouteInv, RouteKnown, HasRoute, observed
<1> QED BY <1>1, <1>5, <1>6, IoShape DEF LookupOwner

\* What a worker that takes a received packet must show.
LEMMA RecvPacketLemma ==
  ASSUME ShapeInv, NEW p \in Players, NEW type \in PacketTypes,
         NEW c \in Cells \cup {None}, type = "move" => c \in Cells,
         type # "login_req" => HasRoute(p),
         RecvPacket(p, type, c)
  PROVE  /\ worker' \in [Players -> [Workers -> WorkerStates]]
         /\ \A q \in Players : \A v \in Workers : WorkerFits(q, v)'
<1> DEFINE s == Posting(MkTask(type, p, c), routing[p])
<1>1. worker' = [worker EXCEPT ![p]["recv"] = s] /\ "recv" \in Workers
      /\ worker \in [Players -> [Workers -> WorkerStates]] /\ ObservedGrows
  BY UnchangedLemma DEF RecvPacket, ShapeInv, TypeOK, IoOK, Workers
<1>2. /\ s \in WorkerStates /\ s.task = MkTask(type, p, c) /\ s.task \in Task
      /\ s.to = routing[p]
  BY DEF Posting, MkTask, WorkerStates, WorkerPcs, Task, TaskTypes,
         ShapeInv, TypeOK, SessionOK
<1>3. s.task.type = type /\ s.task.p = p /\ s.task.c = c
  BY <1>2 DEF MkTask
<1> HIDE DEF s
<1>4. worker'[p]["recv"] = s
  BY <1>1
<1>5. TaskFits(s.task, s.to)
  BY <1>2, <1>3, ConstantsAssumption
  DEF TaskFits, HasRoute, PacketTypes, DefaultThread, InvalidZoneId
<1>6. WorkerFits(p, "recv")'
  BY <1>1, <1>2, <1>3, <1>4, <1>5
  DEF WorkerFits, TaskFits, ObservedGrows, PacketTypes
<1> QED BY <1>1, <1>2, <1>6, WorkerLemma

\* Receiving the login packet keeps the invariant.
LEMMA RecvLoginShape ==
  ASSUME ShapeInv, NEW p \in Players, RecvLogin(p)
  PROVE  ShapeInv'
<1>1. RecvPacket(p, "login_req", None)
  BY DEF RecvLogin
<1>2. /\ worker' \in [Players -> [Workers -> WorkerStates]]
      /\ \A q \in Players : \A v \in Workers : WorkerFits(q, v)'
  BY <1>1, RecvPacketLemma DEF PacketTypes
<1>3. SessionOK' /\ UNCHANGED routing
  BY <1>1, UnchangedLemma DEF RecvPacket, session
<1>4. IoOK'
  BY <1>1, <1>2 DEF RecvLogin, RecvPacket, ShapeInv, TypeOK, IoOK
<1>5. \A q \in Players : RouteKnown(q)'
  BY <1>1, <1>3
  DEF RecvLogin, RecvPacket, ShapeInv, RouteInv, TypeOK, IoOK, RouteKnown,
      HasRoute, observed
<1> QED BY <1>1, <1>2, <1>3, <1>4, <1>5, IoShape DEF RecvPacket

\* Receiving a game packet, possible only after the login answer, keeps the
\* invariant.
LEMMA RecvGamePacketShape ==
  ASSUME ShapeInv, NEW p \in Players, RecvGamePacket(p)
  PROVE  ShapeInv'
<1>1. PICK type \in {"move", "item"}, c \in Cells \cup {None} :
        RecvPacket(p, type, c) /\ (type = "move" => c \in Cells)
  BY DEF RecvGamePacket
<1>2. HasRoute(p)
  BY DEF RecvGamePacket, ShapeInv, RouteInv, RouteKnown
<1>3. /\ worker' \in [Players -> [Workers -> WorkerStates]]
      /\ \A q \in Players : \A v \in Workers : WorkerFits(q, v)'
  BY <1>1, <1>2, RecvPacketLemma DEF PacketTypes
<1>4. SessionOK' /\ UNCHANGED routing
  BY <1>1, UnchangedLemma DEF RecvPacket, session
<1>5. IoOK'
  BY <1>1, <1>3 DEF RecvGamePacket, RecvPacket, ShapeInv, TypeOK, IoOK
<1>6. \A q \in Players : RouteKnown(q)'
  BY <1>1, <1>4
  DEF RecvGamePacket, RecvPacket, ShapeInv, RouteInv, RouteKnown, HasRoute,
      observed
<1> QED BY <1>1, <1>3, <1>4, <1>5, <1>6, IoShape DEF RecvPacket

\* A worker appending its task to the queue of the zone it has read keeps the
\* invariant.
LEMMA PostTaskShape ==
  ASSUME ShapeInv, NEW p \in Players, NEW w \in Workers, PostTask(p, w)
  PROVE  ShapeInv'
<1>1. /\ worker[p][w].pc = "posting" /\ worker[p][w].task \in Task
      /\ TaskFits(worker[p][w].task, worker[p][w].to)
      /\ worker[p][w].to \in Threads
      /\ worker \in [Players -> [Workers -> WorkerStates]]
      /\ TypeOK /\ QueuesFit
  BY DEF PostTask, ShapeInv, RouteInv, WorkerFits, TypeOK, IoOK, WorkerStates
<1>2. queue' \in [Threads -> Seq(Task)] /\ QueuesFit' /\ ObservedGrows
  BY <1>1, EnqueueLemma, UnchangedLemma DEF PostTask
<1>3. PICK pc \in {"done", "waiting"} :
        worker' = [worker EXCEPT ![p][w] = Doing(pc)]
  BY DEF PostTask
<1>4. WorkerFits(p, w)'
  BY <1>1, <1>3, DoingLemma DEF WorkerFits, WorkerPcs
<1>5. IoOK' /\ \A q \in Players : \A v \in Workers : WorkerFits(q, v)'
  BY <1>1, <1>2, <1>3, <1>4, DoingLemma, WorkerLemma
  DEF PostTask, TypeOK, IoOK, WorkerPcs
<1>6. /\ SessionOK' /\ RoutesStay /\ RegistryOK' /\ UserOK' /\ ObservedGrows
  BY UnchangedLemma DEF PostTask, session, registry, user, observed
<1>7. run' \in [Threads -> RunStates] /\ \A t \in Threads : RunFits(t)'
  BY DEF PostTask, ShapeInv, RouteInv, TypeOK, RunFits, HasRoute, session, observed
<1>8. \A q \in Players : RouteKnown(q)'
  BY DEF PostTask, ShapeInv, RouteInv, RouteKnown, HasRoute, session, observed
<1> QED BY <1>2, <1>5, <1>6, <1>7, <1>8
        DEF ShapeInv, RouteInv, TypeOK, ObservedGrows

\* A PostSend, with or without a socket.
LEMMA SendLemma ==
  ASSUME ShapeInv, ObservedGrows, NEW p \in Players, worker' = SendInFlight(p)
  PROVE  /\ worker' \in [Players -> [Workers -> WorkerStates]]
         /\ \A q \in Players : \A v \in Workers : WorkerFits(q, v)'
<1>1. worker \in [Players -> [Workers -> WorkerStates]] /\ "send" \in Workers
  BY DEF ShapeInv, TypeOK, IoOK, Workers
<1>2. CASE worker' = worker
  BY <1>1, <1>2 DEF ShapeInv, RouteInv, WorkerFits, TaskFits, ObservedGrows
<1>3. CASE worker' = [worker EXCEPT ![p]["send"] = Doing("waiting")]
  <2>1. WorkerFits(p, "send")'
    BY <1>1, <1>3, DoingLemma DEF WorkerFits, WorkerPcs
  <2> QED BY <1>1, <1>3, <2>1, DoingLemma, WorkerLemma DEF WorkerPcs
<1> QED BY <1>2, <1>3 DEF SendInFlight

\* The database refusing a login keeps the invariant.
LEMMA DBRefusesLoginShape ==
  ASSUME ShapeInv, NEW p \in Players, DBRefusesLogin(p)
  PROVE  ShapeInv'
<1>1. SessionOK' /\ UNCHANGED routing
  BY UnchangedLemma DEF DBRefusesLogin, session
<1>2. /\ worker' \in [Players -> [Workers -> WorkerStates]]
      /\ \A q \in Players : \A v \in Workers : WorkerFits(q, v)'
  BY SendLemma, UnchangedLemma DEF DBRefusesLogin
<1>3. IoOK'
  BY <1>2 DEF DBRefusesLogin, ShapeInv, TypeOK, IoOK
<1>4. \A q \in Players : RouteKnown(q)'
  BY <1>1
  DEF DBRefusesLogin, ShapeInv, RouteInv, TypeOK, IoOK, RouteKnown, HasRoute,
      observed
<1> QED BY <1>1, <1>2, <1>3, <1>4, IoShape DEF DBRefusesLogin

\* The database posting the login result to the default thread keeps the
\* invariant.
LEMMA DBAnswersLoginShape ==
  ASSUME ShapeInv, NEW p \in Players, DBAnswersLogin(p)
  PROVE  ShapeInv'
<1>1. PICK c \in Cells : EnqueueByZone(ZoneOf[c], MkTask("login", p, c))
  BY DEF DBAnswersLogin
<1>2. /\ MkTask("login", p, c) \in Task /\ ZoneOf[c] \in Zones
      /\ TaskFits(MkTask("login", p, c), ZoneOf[c])
  BY ConstantsAssumption
  DEF MkTask, Task, TaskTypes, PacketTypes, TaskFits, DefaultThread,
      InvalidZoneId
<1>3. queue' \in [Threads -> Seq(Task)] /\ QueuesFit'
  BY <1>1, <1>2, EnqueueLemma, UnchangedLemma
  DEF DBAnswersLogin, ShapeInv, RouteInv, Threads
<1>4. /\ SessionOK' /\ RegistryOK' /\ UserOK' /\ ObservedGrows
  BY UnchangedLemma DEF DBAnswersLogin, session, registry, user, observed
<1>5. IoOK' /\ run' \in [Threads -> RunStates]
  BY DEF DBAnswersLogin, ShapeInv, TypeOK, IoOK
<1>6. \A t \in Threads : RunFits(t)'
  BY DEF DBAnswersLogin, ShapeInv, RouteInv, RunFits, HasRoute, session, observed
<1>7. /\ \A q \in Players : \A v \in Workers : WorkerFits(q, v)'
      /\ \A q \in Players : RouteKnown(q)'
  BY DEF DBAnswersLogin, ShapeInv, RouteInv, WorkerFits, TaskFits, RouteKnown,
         HasRoute, session, observed
<1> QED BY <1>3, <1>4, <1>5, <1>6, <1>7
        DEF ShapeInv, RouteInv, TypeOK, ObservedGrows

\* Starting HandleLogin keeps the invariant.
LEMMA DispatchLoginShape ==
  ASSUME ShapeInv, NEW t \in Threads, DispatchLogin(t)
  PROVE  ShapeInv'
<1>1. /\ queue[t] # <<>> /\ Pop(t) /\ UNCHANGED run
      /\ SessionOK' /\ RoutesStay /\ RegistryOK' /\ UserOK' /\ ObservedGrows
  BY UnchangedLemma
  DEF DispatchLogin, Takes, session, registry, user, observed
<1>2. Head(queue[t]) \in Task
  BY <1>1, PopLemma DEF ShapeInv, RouteInv
<1>3. IoOK'
  BY <1>2 DEF DispatchLogin, ShapeInv, TypeOK, IoOK, Task
<1>4. /\ \A q \in Players : \A v \in Workers : WorkerFits(q, v)'
      /\ \A q \in Players : RouteKnown(q)'
  BY DEF DispatchLogin, ShapeInv, RouteInv, WorkerFits, TaskFits, RouteKnown,
         HasRoute, session, observed
<1>5. /\ queue' \in [Threads -> Seq(Task)] /\ QueuesFit'
      /\ run' \in [Threads -> RunStates] /\ \A u \in Threads : RunFits(u)'
  BY <1>1, PopOnlyShape, RunFitsLemma
<1> QED BY <1>1, <1>3, <1>4, <1>5
        DEF ShapeInv, RouteInv, TypeOK, ObservedGrows

\* Sending the login answer, after the route is stored, keeps the invariant.
LEMMA LoginAckShape ==
  ASSUME ShapeInv, NEW t \in Threads, LoginAck(t)
  PROVE  ShapeInv'
<1>1. /\ run[t].op = "login_ack" /\ run[t].p \in Players
      /\ run' \in [Threads -> RunStates]
      /\ \A u \in Threads \ {t} : run'[u] = run[u]
      /\ run'[t].op = "idle" /\ run'[t].p = None
  BY AdvanceLemma DEF LoginAck, Ops
<1>2. /\ SessionOK' /\ RoutesStay /\ RegistryOK' /\ UserOK' /\ ObservedGrows
      /\ queue' \in [Threads -> Seq(Task)] /\ QueuesFit' /\ UNCHANGED routing
  BY UnchangedLemma DEF LoginAck, session, registry, user, observed
<1>3. /\ worker' \in [Players -> [Workers -> WorkerStates]]
      /\ \A q \in Players : \A v \in Workers : WorkerFits(q, v)'
  BY <1>1, <1>2, SendLemma DEF LoginAck
<1>4. IoOK'
  BY <1>1, <1>3 DEF LoginAck, ShapeInv, TypeOK, IoOK
<1>5. HasRoute(run[t].p)
  BY <1>1 DEF ShapeInv, RouteInv, RunFits
<1>6. \A q \in Players : RouteKnown(q)'
  BY <1>1, <1>2, <1>5
  DEF LoginAck, ShapeInv, RouteInv, TypeOK, IoOK, RouteKnown, HasRoute, observed
<1>7. RunFits(t)'
  BY <1>1, ConstantsAssumption DEF RunFits, TransferOps, LoginOps, EndingOps
<1>8. \A u \in Threads : RunFits(u)'
  BY <1>1, <1>2, <1>7, RunFitsLemma
<1> QED BY <1>1, <1>2, <1>3, <1>4, <1>6, <1>8
        DEF ShapeInv, RouteInv, TypeOK, ObservedGrows

-----------------------------------------------------------------------------
\* Every step of the server keeps the invariant.
LEMMA ShapeStep == ShapeInv /\ [Next]_vars => ShapeInv'
<1> SUFFICES ASSUME ShapeInv, [Next]_vars PROVE ShapeInv'
  OBVIOUS
<1>1. CASE UNCHANGED vars
  <2>1. IoOK' /\ run' \in [Threads -> RunStates]
    BY <1>1 DEF ShapeInv, TypeOK, IoOK, vars, io
  <2>2. /\ SessionOK' /\ RegistryOK' /\ UserOK' /\ ObservedGrows
        /\ queue' \in [Threads -> Seq(Task)] /\ QueuesFit'
    BY <1>1, UnchangedLemma DEF vars
  <2>3. \A t \in Threads : RunFits(t)'
    BY <1>1 DEF ShapeInv, RouteInv, RunFits, HasRoute, vars, session, observed
  <2>4. /\ \A q \in Players : \A v \in Workers : WorkerFits(q, v)'
        /\ \A q \in Players : RouteKnown(q)'
    BY <1>1
    DEF ShapeInv, RouteInv, WorkerFits, TaskFits, RouteKnown, HasRoute, vars,
        session, io, observed
  <2> QED BY <2>1, <2>2, <2>3, <2>4
          DEF ShapeInv, RouteInv, TypeOK, ObservedGrows
<1>2. ASSUME NEW p \in Players, IoStep(p) PROVE ShapeInv'
  BY <1>2, RecvLoginShape, RecvGamePacketShape, PostTaskShape, IoFailsShape,
     CloseSocketShape, LookupOwnerShape, DBAnswersLoginShape,
     DBRefusesLoginShape DEF IoStep
<1>3. ASSUME ~crashed, NEW t \in Threads, ThreadStep(t) PROVE ShapeInv'
  BY <1>3, DispatchLoginShape, LoginInsertShape, LoginBindShape,
     LoginPlaceShape, LoginFallbackShape, LoginMapShape, LoginRouteShape,
     LoginAckShape,
     DispatchGamePacketShape, HandleItemShape, HandlePlayerMoveShape,
     TransferLeaveShape, TransferZoneShape, TransferMapShape,
     TransferRouteShape, TransferPostShape, EnterPlaceShape, EnterDoneShape,
     DisconnectBusyShape, DisconnectLeaveShape, DisconnectCloseShape,
     DisconnectDeleteShape, DisconnectUnmapShape, CloseSessionShape
  DEF ThreadStep
<1> QED BY <1>1, <1>2, <1>3 DEF Next

\* ShapeInv holds in every reachable state.
THEOREM ShapeCorrect == Spec => []ShapeInv
<1>1. Init => ShapeInv
  BY ShapeInit
<1>2. ShapeInv /\ [Next]_vars => ShapeInv'
  BY ShapeStep
<1> QED BY <1>1, <1>2, PTL DEF Spec

\* Every variable keeps its type, for any number of players, zones, cells
\* and packets.
THEOREM TypeCorrect == Spec => []TypeOK
<1>1. ShapeInv => TypeOK
  BY DEF ShapeInv
<1> QED BY <1>1, ShapeCorrect, PTL

\* The thread without a Sector runs no game packet but of a player the login
\* could not place: of all others, strays included, the login answer that
\* lets a client play is sent after the route is stored, and a route never
\* goes back to InvalidZoneId.
THEOREM GamePacketsInZones == Spec => []GamePacketsRunInZones
<1>1. ShapeInv => GamePacketsRunInZones
  BY DEF ShapeInv, RouteInv, RunFits, GamePacketsRunInZones, EndingOps, Threads
<1> QED BY <1>1, ShapeCorrect, PTL

-----------------------------------------------------------------------------
(***************************************************************************)
(* Every step of the zone-ownership protocol keeps PlayerInv of every      *)
(* player that no thread has handled without owning it.  A step of a task  *)
(* touches one player: for every other one all that PlayerInv reads stays  *)
(* (StaysLemma), and for that one the step leads to another point of the   *)
(* task (WorkingLemma), to rest in a zone or out of the world              *)
(* (RestingLemma), or to the wait for HandleEnterZone.                     *)
(***************************************************************************)

\* What a step leaves alone of player q: its session, User and cells ...
SelfStays(q) ==
  /\ state'[q] = state[q] /\ bound'[q] = bound[q] /\ routing'[q] = routing[q]
  /\ q \in objects' <=> q \in objects
  /\ objectZones'[q] = objectZones[q]
  /\ transferring'[q] = transferring[q]
  /\ zoneId'[q] = zoneId[q] /\ sector'[q] = sector[q]
  /\ \A c \in Cells : q \in grid'[c] <=> q \in grid[c]

\* ... the task a thread runs for it ...
RunStays(q) ==
  \A t \in Threads : run[t].p = q \/ run'[t].p = q => run'[t] = run[t]

\* ... and its pending HandleEnterZone.
EntersStay(q) ==
  \A z \in Threads : /\ EnterIn(z, q)' <=> EnterIn(z, q)
                     /\ EnterOnce(z, q) => EnterOnce(z, q)'

\* A player of which a step leaves all this alone keeps its invariant.
LEMMA StaysLemma ==
  ASSUME NEW q \in Players, PlayerInv(q),
         SelfStays(q), RunStays(q), EntersStay(q)
  PROVE  PlayerInv(q)'
<1>1. \A t \in Threads : run'[t].p = q <=> run[t].p = q
  BY DEF RunStays
<1>2. /\ \A z \in Threads : EnterIn(z, q)' <=> EnterIn(z, q)
      /\ EnterPending(q)' <=> EnterPending(q)
  BY DEF EntersStay, EnterPending
<1>3. AtRest(q)' <=> AtRest(q)
  BY <1>1 DEF AtRest
<1>4. /\ \A z : KnownIn(q, z)' <=> KnownIn(q, z)
      /\ \A z : InSector(q, z)' <=> InSector(q, z)
  BY DEF SelfStays, KnownIn, InSector
<1>5. (state'[q] = "ST_ALLOC" => Fresh(q)') /\ (q \notin objects' => Gone(q)')
  BY <1>2, <1>3, <1>4 DEF PlayerInv, Fresh, Gone, SelfStays
<1>6. ASSUME NEW t \in Threads, run'[t].p = q PROVE AtOp(t, q)'
  <2>1. run[t].p = q /\ AtOp(t, q) /\ run'[t] = run[t]
    BY <1>6 DEF PlayerInv, RunStays
  <2> HIDE DEF EnterPending, KnownIn, InSector
  <2> QED BY <1>2, <1>4, <2>1 DEF AtOp, SelfStays
<1>7. \A z \in Threads : EnterOnce(z, q)'
  BY DEF PlayerInv, EntersStay
<1>8. ASSUME NEW z \in Threads, EnterIn(z, q)'
      PROVE  /\ AtRest(q)' /\ q \in objects' /\ transferring'[q]
             /\ sector'[q] = NoSector /\ KnownIn(q, z)'
  BY <1>2, <1>3, <1>4, <1>8 DEF PlayerInv, SelfStays
<1>9. q \in objects' /\ AtRest(q)' /\ ~EnterPending(q)' =>
        ~transferring'[q] /\ InSector(q, zoneId[q])' /\ KnownIn(q, zoneId[q])'
  BY <1>2, <1>3, <1>4 DEF PlayerInv, SelfStays
<1>10. \A c \in Cells : q \in grid'[c] <=> sector'[q] = c
  BY DEF PlayerInv, SelfStays
<1> QED BY <1>1, <1>5, <1>6, <1>7, <1>8, <1>9, <1>10 DEF PlayerInv

\* No HandleEnterZone waits for q.
LEMMA NoEnterLemma ==
  ASSUME NEW q, ~EnterPending(q)'
  PROVE  \A z \in Threads : EnterOnce(z, q)' /\ ~EnterIn(z, q)'
BY DEF EnterPending, EnterIn, EnterOnce

\* Thread t alone works on q, at a point where AtOp holds.
LEMMA WorkingLemma ==
  ASSUME NEW q \in Players, NEW t \in Threads,
         \A u \in Threads : run'[u].p = q <=> u = t,
         AtOp(t, q)',
         state'[q] = "ST_ALLOC" => Fresh(q)',
         \A c \in Cells : q \in grid'[c] <=> sector'[q] = c
  PROVE  PlayerInv(q)'
<1>1. ~EnterPending(q)' /\ ~AtRest(q)'
  BY DEF AtOp, AtRest
<1>2. q \notin objects' => Gone(q)'
  BY <1>1 DEF AtOp, Gone, EndingOps
<1> QED BY <1>1, <1>2, NoEnterLemma DEF PlayerInv

\* Nobody works on q, which is settled in a zone or out of the world.
LEMMA RestingLemma ==
  ASSUME NEW q \in Players, AtRest(q)', ~EnterPending(q)',
         state'[q] # "ST_ALLOC",
         q \in objects' => /\ ~transferring'[q]
                           /\ InSector(q, zoneId[q])'
                           /\ KnownIn(q, zoneId[q])',
         q \notin objects' => Gone(q)',
         \A c \in Cells : q \in grid'[c] <=> sector'[q] = c
  PROVE  PlayerInv(q)'
BY NoEnterLemma DEF PlayerInv, AtRest

-----------------------------------------------------------------------------
\* Queues.

\* Appending a task that is no HandleEnterZone of player q leaves the ones
\* that q waits for where they are.
LEMMA AppendStays ==
  ASSUME TypeOK, NEW z \in Threads, NEW task \in Task, EnqueueByZone(z, task),
         NEW q, task.type # "enter" \/ task.p # q
  PROVE  EntersStay(q)
<1>1. queue \in [Threads -> Seq(Task)]
  BY DEF TypeOK
<1>2. queue' = [queue EXCEPT ![z] = Append(queue[z], task)]
  BY <1>1 DEF EnqueueByZone
<1> SUFFICES ASSUME NEW y \in Threads
             PROVE  /\ EnterIn(y, q)' <=> EnterIn(y, q)
                    /\ EnterOnce(y, q) => EnterOnce(y, q)'
  BY DEF EntersStay
<1>3. ASSUME NEW i PROVE EnterAt(y, i, q)' <=> EnterAt(y, i, q)
  <2>1. CASE y # z
    BY <1>1, <1>2, <2>1 DEF EnterAt
  <2>2. CASE y = z
    <3>1. queue'[y] = Append(queue[y], task) /\ queue[y] \in Seq(Task)
      BY <1>1, <1>2, <2>2
    <3>2. CASE i \in DOMAIN queue[y]
      BY <3>1, <3>2 DEF EnterAt
    <3>3. CASE i \in DOMAIN queue'[y] /\ i \notin DOMAIN queue[y]
      <4>1. queue'[y][i] = task
        BY <3>1, <3>3
      <4> QED BY <3>3, <4>1 DEF EnterAt
    <3>4. CASE i \notin DOMAIN queue'[y] /\ i \notin DOMAIN queue[y]
      BY <3>4 DEF EnterAt
    <3> QED BY <3>2, <3>3, <3>4
  <2> QED BY <2>1, <2>2
<1> QED BY <1>3 DEF EnterIn, EnterOnce, EnterAt

\* The HandleEnterZone of the player a thread sends on is then the only
\* one.
LEMMA AppendEnters ==
  ASSUME TypeOK, NEW z \in Threads, NEW task \in Task, EnqueueByZone(z, task),
         task.type = "enter", ~EnterPending(task.p)
  PROVE  /\ \A y \in Threads : EnterIn(y, task.p)' <=> y = z
         /\ \A y \in Threads : EnterOnce(y, task.p)'
<1>1. queue \in [Threads -> Seq(Task)]
  BY DEF TypeOK
<1>2. queue' = [queue EXCEPT ![z] = Append(queue[z], task)]
  BY <1>1 DEF EnqueueByZone
<1>3. ASSUME NEW y \in Threads, NEW i PROVE ~EnterAt(y, i, task.p)
  BY DEF EnterPending, EnterIn, EnterAt
<1>4. ASSUME NEW y \in Threads, y # z
      PROVE  ~EnterIn(y, task.p)' /\ EnterOnce(y, task.p)'
  BY <1>1, <1>2, <1>3, <1>4 DEF EnterIn, EnterOnce, EnterAt
<1>5. queue'[z] = Append(queue[z], task) /\ queue[z] \in Seq(Task)
  BY <1>1, <1>2
<1>6. ASSUME NEW i PROVE EnterAt(z, i, task.p)' <=> i = Len(queue[z]) + 1
  <2>1. CASE i \in DOMAIN queue[z]
    <3>1. queue'[z][i] = queue[z][i] /\ i # Len(queue[z]) + 1
      BY <1>5, <2>1
    <3> QED BY <1>3, <2>1, <3>1 DEF EnterAt
  <2>2. CASE i \notin DOMAIN queue[z]
    <3>1. i \in DOMAIN queue'[z] <=> i = Len(queue[z]) + 1
      BY <1>5, <2>2
    <3>2. queue'[z][Len(queue[z]) + 1] = task
      BY <1>5
    <3> QED BY <3>1, <3>2 DEF EnterAt
  <2> QED BY <2>1, <2>2
<1>7. EnterIn(z, task.p)' /\ EnterOnce(z, task.p)'
  BY <1>6 DEF EnterIn, EnterOnce, EnterAt
<1> QED BY <1>4, <1>7

\* After a pop, q's entries are those behind the head.
LEMMA PopShift ==
  ASSUME TypeOK, NEW t \in Threads, queue[t] # <<>>, Pop(t), NEW q
  PROVE  /\ \A y \in Threads \ {t} : \A i :
              EnterAt(y, i, q)' <=> EnterAt(y, i, q)
         /\ \A i \in Nat \ {0} :
              EnterAt(t, i, q)' <=> EnterAt(t, i + 1, q)
         /\ \A i : EnterAt(t, i, q) \/ EnterAt(t, i, q)' => i \in Nat \ {0}
         /\ EnterAt(t, 1, q) <=>
              Head(queue[t]).type = "enter" /\ Head(queue[t]).p = q
<1>1. queue \in [Threads -> Seq(Task)] /\ queue[t] \in Seq(Task)
  BY DEF TypeOK
<1>2. queue' = [queue EXCEPT ![t] = Tail(queue[t])]
  BY <1>1 DEF Pop
<1>3. queue'[t] = Tail(queue[t]) /\ Tail(queue[t]) \in Seq(Task)
  BY <1>1, <1>2
<1>4. \A y \in Threads \ {t} : \A i : EnterAt(y, i, q)' <=> EnterAt(y, i, q)
  BY <1>1, <1>2 DEF EnterAt
<1>5. ASSUME NEW i \in Nat \ {0}
      PROVE  EnterAt(t, i, q)' <=> EnterAt(t, i + 1, q)
  <2>1. i \in DOMAIN queue'[t] <=> i + 1 \in DOMAIN queue[t]
    BY <1>1, <1>3
  <2>2. i \in DOMAIN queue'[t] => queue'[t][i] = queue[t][i + 1]
    BY <1>1, <1>3
  <2> QED BY <2>1, <2>2 DEF EnterAt
<1>6. \A i : EnterAt(t, i, q) \/ EnterAt(t, i, q)' => i \in Nat \ {0}
  BY <1>1, <1>3 DEF EnterAt
<1>7. EnterAt(t, 1, q) <=>
        Head(queue[t]).type = "enter" /\ Head(queue[t]).p = q
  BY <1>1 DEF EnterAt
<1> QED BY <1>4, <1>5, <1>6, <1>7

\* A pop of a task that is not q's HandleEnterZone.
LEMMA PopStays ==
  ASSUME TypeOK, NEW t \in Threads, queue[t] # <<>>, Pop(t),
         NEW q, Head(queue[t]).type # "enter" \/ Head(queue[t]).p # q
  PROVE  EntersStay(q)
<1>1. ASSUME NEW y \in Threads \ {t}
      PROVE  /\ EnterIn(y, q)' <=> EnterIn(y, q)
             /\ EnterOnce(y, q) => EnterOnce(y, q)'
  BY PopShift DEF EnterIn, EnterOnce, EnterAt
<1>2. EnterIn(t, q)' => EnterIn(t, q)
  <2>1. ASSUME NEW i, EnterAt(t, i, q)' PROVE EnterAt(t, i + 1, q)
    BY <2>1, PopShift
  <2> QED BY <2>1 DEF EnterIn, EnterAt
<1>3. EnterIn(t, q) => EnterIn(t, q)'
  <2>1. ASSUME NEW i, EnterAt(t, i, q) PROVE EnterAt(t, i - 1, q)'
    <3>1. i \in Nat \ {0}
      BY <2>1, PopShift
    <3>2. ~EnterAt(t, 1, q)
      BY PopShift
    <3>3. i # 1
      BY <2>1, <3>2
    <3>4. PICK k \in Nat \ {0} : i = k + 1
      BY <3>1, <3>3
    <3>5. EnterAt(t, k, q)'
      BY <2>1, <3>4, PopShift
    <3>6. i - 1 = k
      BY <3>4
    <3> QED BY <3>5, <3>6
  <2> QED BY <2>1 DEF EnterIn, EnterAt
<1>4. EnterOnce(t, q) => EnterOnce(t, q)'
  <2> SUFFICES ASSUME EnterOnce(t, q), NEW i, NEW j,
                      EnterAt(t, i, q)', EnterAt(t, j, q)'
               PROVE  i = j
    BY DEF EnterOnce
  <2>1. i \in Nat \ {0} /\ j \in Nat \ {0}
    BY PopShift
  <2>2. EnterAt(t, i + 1, q) /\ EnterAt(t, j + 1, q)
    BY <2>1, PopShift
  <2>3. i + 1 = j + 1
    BY <2>2 DEF EnterOnce, EnterAt
  <2> QED BY <2>1, <2>3
<1> QED BY <1>1, <1>2, <1>3, <1>4 DEF EntersStay

\* A pop of the only HandleEnterZone of its player.
LEMMA PopEnters ==
  ASSUME TypeOK, NEW t \in Threads, queue[t] # <<>>, Pop(t),
         NEW q, Head(queue[t]).type = "enter", Head(queue[t]).p = q,
         EnterOnce(t, q)
  PROVE  /\ EnterIn(t, q) /\ ~EnterIn(t, q)'
         /\ \A y \in Threads \ {t} : EnterIn(y, q)' <=> EnterIn(y, q)
<1>1. EnterAt(t, 1, q)
  BY PopShift
<1>2. ASSUME NEW i, EnterAt(t, i, q)' PROVE FALSE
  <2>1. i \in Nat \ {0} /\ EnterAt(t, i + 1, q)
    BY <1>2, PopShift
  <2>2. i + 1 = 1
    BY <1>1, <2>1 DEF EnterOnce, EnterAt
  <2> QED BY <2>1, <2>2
<1>3. EnterIn(t, q)
  BY <1>1 DEF EnterIn, EnterAt
<1>4. ~EnterIn(t, q)'
  BY <1>2 DEF EnterIn
<1>5. \A y \in Threads \ {t} : EnterIn(y, q)' <=> EnterIn(y, q)
  BY PopShift DEF EnterIn, EnterAt
<1> QED BY <1>3, <1>4, <1>5

\* Nothing is posted or taken.
LEMMA QueueStays ==
  ASSUME UNCHANGED queue, NEW q
  PROVE  EntersStay(q) /\ (EnterPending(q)' <=> EnterPending(q))
BY DEF EntersStay, EnterPending, EnterIn, EnterOnce, EnterAt

-----------------------------------------------------------------------------
\* Running tasks and grids.

\* A step of the task thread t runs for p is no step of another player's
\* task.
LEMMA AdvanceOthers ==
  ASSUME ShapeInv, NEW t \in Threads, NEW op \in Ops \ {"idle"},
         NEW next \in Ops, Advance(t, op, next),
         NEW q \in Players, q # run[t].p
  PROVE  RunStays(q)
<1>1. run'[t].p # q
  BY AdvanceLemma, ConstantsAssumption
<1> QED BY <1>1, AdvanceLemma DEF RunStays

\* Where that step leaves its own player: no thread works on it when the
\* task ends, and thread t alone when it goes on.
LEMMA AdvanceOwn ==
  ASSUME ShapeInv, NEW t \in Threads, NEW op \in Ops \ {"idle"},
         NEW next \in Ops, Advance(t, op, next),
         NEW p, p = run[t].p, PlayerInv(p)
  PROVE  /\ p \in Players /\ AtOp(t, p)
         /\ next = "idle" => AtRest(p)'
         /\ next # "idle" => \A u \in Threads : run'[u].p = p <=> u = t
<1>1. p \in Players /\ p # None
  BY AdvanceLemma, ConstantsAssumption
<1>2. AtOp(t, p) /\ \A u \in Threads \ {t} : run[u].p # p
  BY DEF PlayerInv
<1>3. \A u \in Threads \ {t} : run'[u].p # p
  BY <1>2, AdvanceLemma
<1>4. next = "idle" => run'[t].p # p
  BY <1>1, AdvanceLemma
<1>5. next # "idle" => run'[t].p = p
  BY AdvanceLemma
<1> QED BY <1>1, <1>2, <1>3, <1>4, <1>5 DEF AtRest

\* A task that begins for p on an idle thread is none of another player.
LEMMA PopToOthers ==
  ASSUME ShapeInv, NEW t \in Threads, queue[t] # <<>>, run[t].op = "idle",
         NEW op \in Ops \ {"idle"}, PopTo(t, op),
         NEW q \in Players, q # Head(queue[t]).p
  PROVE  RunStays(q) /\ EntersStay(q)
<1>1. run[t].p = None
  BY DEF ShapeInv, RouteInv, RunFits
<1>2. RunStays(q)
  BY <1>1, PopToLemma, ConstantsAssumption DEF RunStays
<1>3. EntersStay(q)
  BY PopStays DEF PopTo, ShapeInv
<1> QED BY <1>2, <1>3

\* ... and of p it is the only one, if there was none.
LEMMA PopToOwn ==
  ASSUME ShapeInv, NEW t \in Threads, queue[t] # <<>>,
         NEW op \in Ops \ {"idle"}, PopTo(t, op),
         NEW p, p = Head(queue[t]).p, AtRest(p)
  PROVE  \A u \in Threads : run'[u].p = p <=> u = t
BY PopToLemma DEF AtRest

\* Sector::UpdateObjectSectorAndPosition and Sector::RemoveObject touch no
\* other player's cells.
LEMMA SectorOthers ==
  ASSUME UserOK, NEW t \in Threads, NEW p \in Players, NEW q \in Players,
         q # p,
         RemoveFromSector(t, p) \/ \E c \in Cells : UpdateSector(t, p, c)
  PROVE  /\ sector'[q] = sector[q]
         /\ \A d \in Cells : q \in grid'[d] <=> q \in grid[d]
<1>1. CASE RemoveFromSector(t, p)
  <2>1. CASE sector[p] # NoSector /\ ZoneOf[sector[p]] = t
    BY <1>1, <2>1 DEF UserOK, RemoveFromSector
  <2>2. CASE ~(sector[p] # NoSector /\ ZoneOf[sector[p]] = t)
    BY <1>1, <2>2 DEF UserOK, RemoveFromSector
  <2> QED BY <2>1, <2>2
<1>2. ASSUME NEW c \in Cells, UpdateSector(t, p, c)
      PROVE  /\ sector'[q] = sector[q]
             /\ \A d \in Cells : q \in grid'[d] <=> q \in grid[d]
  <2>1. CASE sector[p] = c
    BY <1>2, <2>1 DEF UpdateSector
  <2>2. CASE sector[p] # c
    <3>1. sector'[q] = sector[q]
      BY <1>2, <2>2 DEF UserOK, UpdateSector
    <3>2. grid' = [d \in Cells |->
                     IF d = c THEN grid[d] \cup {p}
                     ELSE IF d = sector[p] /\ ZoneOf[d] = t
                          THEN grid[d] \ {p} ELSE grid[d]]
      BY <1>2, <2>2 DEF UpdateSector
    <3> QED BY <3>1, <3>2
  <2> QED BY <2>1, <2>2
<1> QED BY <1>1, <1>2

\* On the grid of the zone p is in, or when p is in no grid, an update
\* puts p into the new cell and no other.
LEMMA UpdateOwn ==
  ASSUME UserOK, NEW t \in Threads, NEW p \in Players, NEW c \in Cells,
         UpdateSector(t, p, c), sector[p] = NoSector \/ InSector(p, t),
         \A d \in Cells : p \in grid[d] <=> sector[p] = d
  PROVE  sector'[p] = c /\ \A d \in Cells : p \in grid'[d] <=> sector'[p] = d
<1>1. CASE sector[p] = c
  BY <1>1 DEF UpdateSector
<1>2. CASE sector[p] # c
  <2>1. sector'[p] = c
    BY <1>2 DEF UserOK, UpdateSector
  <2>2. grid' = [d \in Cells |->
                   IF d = c THEN grid[d] \cup {p}
                   ELSE IF d = sector[p] /\ ZoneOf[d] = t
                        THEN grid[d] \ {p} ELSE grid[d]]
    BY <1>2 DEF UpdateSector
  <2>3. ASSUME NEW d \in Cells PROVE p \in grid'[d] <=> d = c
    <3>1. CASE d = c
      BY <2>2, <3>1
    <3>2. CASE d # c /\ d = sector[p]
      BY <2>2, <3>2, ConstantsAssumption DEF InSector, NoSector
    <3>3. CASE d # c /\ d # sector[p]
      BY <2>2, <3>3
    <3> QED BY <3>1, <3>2, <3>3
  <2> QED BY <2>1, <2>3
<1> QED BY <1>1, <1>2

\* On the grid of the zone p is in, a removal takes p out of its cell.
LEMMA RemoveOwn ==
  ASSUME UserOK, NEW t \in Threads, NEW p \in Players,
         RemoveFromSector(t, p), InSector(p, t),
         \A d \in Cells : p \in grid[d] <=> sector[p] = d
  PROVE  sector'[p] = NoSector /\ \A d \in Cells : p \notin grid'[d]
<1>1. sector[p] \in Cells /\ sector[p] # NoSector /\ ZoneOf[sector[p]] = t
  BY ConstantsAssumption DEF InSector, NoSector
<1>2. /\ grid' = [grid EXCEPT ![sector[p]] = @ \ {p}]
      /\ sector' = [sector EXCEPT ![p] = NoSector]
  BY <1>1 DEF RemoveFromSector
<1> QED BY <1>1, <1>2 DEF UserOK

-----------------------------------------------------------------------------
\* The login, store by store.

\* Binding the session to the new User.
LEMMA LoginBindPlayer ==
  ASSUME ShapeInv, NEW t \in Threads, LoginBind(t),
         NEW q \in Players, PlayerInv(q)
  PROVE  PlayerInv(q)'
<1>1. TypeOK /\ UNCHANGED queue /\ Advance(t, "login_bind", "login_place")
  BY DEF ShapeInv, LoginBind
<1>2. EntersStay(q) /\ (EnterPending(q)' <=> EnterPending(q))
  BY <1>1, QueueStays
<1>3. CASE q # run[t].p
  <2>1. RunStays(q)
    BY <1>1, <1>3, AdvanceOthers DEF Ops
  <2>2. SelfStays(q)
    BY <1>1, <1>3 DEF LoginBind, SelfStays, TypeOK, SessionOK, registry, user
  <2> QED BY <1>2, <2>1, <2>2, StaysLemma
<1>4. CASE q = run[t].p
  <2>1. AtOp(t, q) /\ \A u \in Threads : run'[u].p = q <=> u = t
    BY <1>1, <1>4, AdvanceOwn DEF Ops
  <2>2. run[t].op = "login_bind" /\ run'[t].op = "login_place"
    BY <1>1, AdvanceLemma DEF Ops
  <2>3. Fresh(q) /\ q \in objects
    BY <2>1, <2>2 DEF PlayerInv, AtOp
  <2>4. /\ state'[q] = "ST_INGAME" /\ routing'[q] = routing[q]
        /\ UNCHANGED registry /\ UNCHANGED user
    BY <1>1, <1>4 DEF LoginBind, TypeOK, SessionOK
  <2>5. AtOp(t, q)'
    BY <1>2, <2>1, <2>2, <2>3, <2>4
    DEF AtOp, Fresh, KnownIn, registry, user, TransferOps, EndingOps
  <2>6. \A c \in Cells : q \in grid'[c] <=> sector'[q] = c
    BY <2>4 DEF PlayerInv, user
  <2> QED BY <2>1, <2>4, <2>5, <2>6, WorkingLemma
<1> QED BY <1>3, <1>4

\* Placing the User: it was in no grid.
LEMMA LoginPlacePlayer ==
  ASSUME ShapeInv, NEW t \in Threads, LoginPlace(t),
         NEW q \in Players, PlayerInv(q)
  PROVE  PlayerInv(q)'
<1>1. TypeOK /\ UserOK /\ UNCHANGED queue
      /\ Advance(t, "login_place", "login_map")
  BY DEF ShapeInv, TypeOK, LoginPlace
<1>2. EntersStay(q) /\ (EnterPending(q)' <=> EnterPending(q))
  BY <1>1, QueueStays
<1>3. run[t].op = "login_place" /\ run'[t].op = "login_map"
      /\ run[t].p \in Players
  BY <1>1, AdvanceLemma DEF Ops
<1>4. run[t].c \in Cells /\ ZoneOf[run[t].c] = t
  BY <1>3 DEF ShapeInv, RouteInv, RunFits, LoginOps
<1>5. UpdateSector(t, run[t].p, run[t].c)
      /\ UNCHANGED <<session, registry, transferring>>
  BY DEF LoginPlace
<1>6. CASE q # run[t].p
  <2>1. RunStays(q)
    BY <1>1, <1>6, AdvanceOthers DEF Ops
  <2>2. /\ sector'[q] = sector[q]
        /\ \A d \in Cells : q \in grid'[d] <=> q \in grid[d]
    BY <1>1, <1>3, <1>4, <1>5, <1>6, SectorOthers
  <2>3. SelfStays(q)
    BY <1>1, <1>5, <1>6, <2>2
    DEF LoginPlace, SelfStays, UserOK, session, registry
  <2> QED BY <1>2, <2>1, <2>3, StaysLemma
<1>7. CASE q = run[t].p
  <2>1. AtOp(t, q) /\ \A u \in Threads : run'[u].p = q <=> u = t
    BY <1>1, <1>7, AdvanceOwn DEF Ops
  <2>2. /\ sector[q] = NoSector /\ ~transferring[q] /\ q \in objects
        /\ KnownIn(q, InvalidZoneId) /\ state[q] # "ST_ALLOC"
        /\ ~EnterPending(q)
    BY <1>3, <2>1 DEF AtOp
  <2>3. /\ sector'[q] = run[t].c
        /\ \A d \in Cells : q \in grid'[d] <=> sector'[q] = d
    BY <1>1, <1>4, <1>5, <1>7, <2>2, UpdateOwn DEF PlayerInv
  <2>4. zoneId'[q] = t
    BY <1>1, <1>4, <1>7 DEF LoginPlace, UserOK
  <2>5. InSector(q, t)' /\ state'[q] # "ST_ALLOC"
    BY <1>4, <1>5, <2>2, <2>3 DEF InSector, session
  <2>6. AtOp(t, q)'
    BY <1>2, <1>3, <1>5, <2>2, <2>4, <2>5
    DEF AtOp, KnownIn, session, registry, TransferOps, EndingOps
  <2> QED BY <2>1, <2>3, <2>5, <2>6, WorkingLemma
<1> QED BY <1>6, <1>7

\* A player the login cannot place is trusted no more; the others stay.
LEMMA LoginFallbackPlayer ==
  ASSUME ShapeInv, NEW t \in Threads, LoginFallback(t),
         NEW q \in Players \ stray', PlayerInv(q)
  PROVE  PlayerInv(q)'
<1>1. /\ Advance(t, "login_place", "login_ack") /\ q # run[t].p
      /\ UNCHANGED <<session, registry, user, queue>>
  BY DEF LoginFallback
<1>2. RunStays(q)
  BY <1>1, AdvanceOthers DEF Ops
<1>3. SelfStays(q) /\ EntersStay(q)
  BY <1>1, QueueStays DEF SelfStays, session, registry, user
<1> QED BY <1>2, <1>3, StaysLemma

\* Entering the User into the object map.
LEMMA LoginMapPlayer ==
  ASSUME ShapeInv, NEW t \in Threads, LoginMap(t),
         NEW q \in Players, PlayerInv(q)
  PROVE  PlayerInv(q)'
<1>1. TypeOK /\ UNCHANGED queue /\ Advance(t, "login_map", "login_route")
      /\ UNCHANGED <<session, user, objects>>
  BY DEF ShapeInv, LoginMap
<1>2. EntersStay(q) /\ (EnterPending(q)' <=> EnterPending(q))
  BY <1>1, QueueStays
<1>3. CASE q # run[t].p
  <2>1. RunStays(q)
    BY <1>1, <1>3, AdvanceOthers DEF Ops
  <2>2. SelfStays(q)
    BY <1>1, <1>3 DEF LoginMap, SelfStays, TypeOK, RegistryOK, session, user
  <2> QED BY <1>2, <2>1, <2>2, StaysLemma
<1>4. CASE q = run[t].p
  <2>1. AtOp(t, q) /\ \A u \in Threads : run'[u].p = q <=> u = t
    BY <1>1, <1>4, AdvanceOwn DEF Ops
  <2>2. run[t].op = "login_map" /\ run'[t].op = "login_route"
    BY <1>1, AdvanceLemma DEF Ops
  <2>3. /\ ~transferring[q] /\ InSector(q, t) /\ zoneId[q] = t
        /\ q \in objects /\ state[q] # "ST_ALLOC" /\ ~EnterPending(q)
    BY <2>1, <2>2 DEF AtOp
  <2>4. objectZones'[q] = t
    BY <1>1, <1>4, <2>3 DEF LoginMap, TypeOK, RegistryOK
  <2>5. AtOp(t, q)'
    BY <1>1, <1>2, <2>2, <2>3, <2>4
    DEF AtOp, InSector, session, user, TransferOps, EndingOps
  <2>6. \A c \in Cells : q \in grid'[c] <=> sector'[q] = c
    BY <1>1 DEF PlayerInv, user
  <2>7. state'[q] # "ST_ALLOC"
    BY <1>1, <2>3 DEF session
  <2> QED BY <2>1, <2>5, <2>6, <2>7, WorkingLemma
<1> QED BY <1>3, <1>4

\* Giving the session its route.
LEMMA LoginRoutePlayer ==
  ASSUME ShapeInv, NEW t \in Threads, LoginRoute(t),
         NEW q \in Players, PlayerInv(q)
  PROVE  PlayerInv(q)'
<1>1. TypeOK /\ UNCHANGED queue /\ Advance(t, "login_route", "login_ack")
      /\ UNCHANGED <<registry, user, state, bound>>
  BY DEF ShapeInv, LoginRoute
<1>2. EntersStay(q) /\ (EnterPending(q)' <=> EnterPending(q))
  BY <1>1, QueueStays
<1>3. CASE q # run[t].p
  <2>1. RunStays(q)
    BY <1>1, <1>3, AdvanceOthers DEF Ops
  <2>2. SelfStays(q)
    BY <1>1, <1>3 DEF LoginRoute, SelfStays, TypeOK, SessionOK, registry, user
  <2> QED BY <1>2, <2>1, <2>2, StaysLemma
<1>4. CASE q = run[t].p
  <2>1. AtOp(t, q) /\ \A u \in Threads : run'[u].p = q <=> u = t
    BY <1>1, <1>4, AdvanceOwn DEF Ops
  <2>2. run[t].op = "login_route" /\ run'[t].op = "login_ack"
    BY <1>1, AdvanceLemma DEF Ops
  <2>3. ZoneOf[run[t].c] = t
    BY <2>2 DEF ShapeInv, RouteInv, RunFits, LoginOps
  <2>4. /\ ~transferring[q] /\ InSector(q, t) /\ zoneId[q] = t
        /\ objectZones[q] = t
        /\ q \in objects /\ state[q] # "ST_ALLOC" /\ ~EnterPending(q)
    BY <2>1, <2>2 DEF AtOp
  <2>5. routing'[q] = t
    BY <1>1, <1>4, <2>3 DEF LoginRoute, TypeOK, SessionOK
  <2>6. AtOp(t, q)'
    BY <1>1, <1>2, <2>2, <2>4, <2>5
    DEF AtOp, InSector, registry, user, TransferOps, EndingOps
  <2>7. \A c \in Cells : q \in grid'[c] <=> sector'[q] = c
    BY <1>1 DEF PlayerInv, user
  <2>8. state'[q] # "ST_ALLOC"
    BY <1>1, <2>4
  <2> QED BY <2>1, <2>6, <2>7, <2>8, WorkingLemma
<1> QED BY <1>3, <1>4

\* The login answer: the player is at rest in its zone.
LEMMA LoginAckPlayer ==
  ASSUME ShapeInv, NEW t \in Threads, LoginAck(t),
         NEW q \in Players, PlayerInv(q)
  PROVE  PlayerInv(q)'
<1>1. UNCHANGED queue /\ Advance(t, "login_ack", "idle")
      /\ UNCHANGED <<session, registry, user>>
  BY DEF LoginAck
<1>2. EntersStay(q) /\ (EnterPending(q)' <=> EnterPending(q))
  BY <1>1, QueueStays
<1>3. SelfStays(q)
  BY <1>1 DEF SelfStays, session, registry, user
<1>4. CASE q # run[t].p
  BY <1>1, <1>2, <1>3, <1>4, AdvanceOthers, StaysLemma DEF Ops
<1>5. CASE q = run[t].p
  <2>1. AtOp(t, q) /\ AtRest(q)'
    BY <1>1, <1>5, AdvanceOwn DEF Ops
  <2>2. run[t].op = "login_ack"
    BY <1>1, AdvanceLemma DEF Ops
  <2>3. /\ ~transferring[q] /\ InSector(q, t) /\ KnownIn(q, t)
        /\ q \in objects /\ state[q] # "ST_ALLOC" /\ ~EnterPending(q)
    BY <2>1, <2>2 DEF AtOp, KnownIn
  <2>4. /\ q \in objects' /\ ~transferring'[q] /\ state'[q] # "ST_ALLOC"
        /\ InSector(q, zoneId[q])' /\ KnownIn(q, zoneId[q])'
    BY <1>3, <2>3 DEF SelfStays, InSector, KnownIn
  <2>5. \A c \in Cells : q \in grid'[c] <=> sector'[q] = c
    BY <1>3 DEF PlayerInv, SelfStays
  <2> QED BY <1>2, <2>1, <2>3, <2>4, <2>5, RestingLemma
<1> QED BY <1>4, <1>5

-----------------------------------------------------------------------------
\* Game packets and the transfer.

\* An inventory request.
LEMMA HandleItemPlayer ==
  ASSUME ShapeInv, NEW t \in Threads, HandleItem(t),
         NEW q \in Players, PlayerInv(q)
  PROVE  PlayerInv(q)'
<1>1. UNCHANGED queue /\ Advance(t, "item", "idle")
      /\ UNCHANGED <<session, registry, user>>
  BY DEF HandleItem
<1>2. EntersStay(q) /\ (EnterPending(q)' <=> EnterPending(q))
  BY <1>1, QueueStays
<1>3. SelfStays(q)
  BY <1>1 DEF SelfStays, session, registry, user
<1>4. CASE q # run[t].p
  BY <1>1, <1>2, <1>3, <1>4, AdvanceOthers, StaysLemma DEF Ops
<1>5. CASE q = run[t].p
  <2>1. AtOp(t, q) /\ AtRest(q)'
    BY <1>1, <1>5, AdvanceOwn DEF Ops
  <2>2. run[t].op = "item"
    BY <1>1, AdvanceLemma DEF Ops
  <2>3. /\ ~transferring[q] /\ InSector(q, t) /\ KnownIn(q, t)
        /\ q \in objects /\ state[q] # "ST_ALLOC" /\ ~EnterPending(q)
    BY <2>1, <2>2 DEF AtOp, KnownIn
  <2>4. /\ q \in objects' /\ ~transferring'[q] /\ state'[q] # "ST_ALLOC"
        /\ InSector(q, zoneId[q])' /\ KnownIn(q, zoneId[q])'
    BY <1>3, <2>3 DEF SelfStays, InSector, KnownIn
  <2>5. \A c \in Cells : q \in grid'[c] <=> sector'[q] = c
    BY <1>3 DEF PlayerInv, SelfStays
  <2> QED BY <1>2, <2>1, <2>3, <2>4, <2>5, RestingLemma
<1> QED BY <1>4, <1>5

\* A move inside the zone.
LEMMA HandlePlayerMovePlayer ==
  ASSUME ShapeInv, NEW t \in Threads, HandlePlayerMove(t),
         NEW q \in Players, PlayerInv(q)
  PROVE  PlayerInv(q)'
<1>1. /\ UserOK /\ SessionOK /\ UNCHANGED queue /\ Advance(t, "move", "idle")
      /\ UNCHANGED <<registry, state, bound, transferring, zoneId>>
  BY DEF ShapeInv, TypeOK, HandlePlayerMove
<1>2. EntersStay(q) /\ (EnterPending(q)' <=> EnterPending(q))
  BY <1>1, QueueStays
<1>3. run[t].op = "move" /\ run[t].p \in Players
  BY <1>1, AdvanceLemma DEF Ops
<1>4. run[t].c \in Cells
  BY <1>3 DEF ShapeInv, RouteInv, RunFits
<1>5. CASE q # run[t].p
  <2>1. RunStays(q)
    BY <1>1, <1>5, AdvanceOthers DEF Ops
  <2>2. /\ sector'[q] = sector[q] /\ routing'[q] = routing[q]
        /\ \A d \in Cells : q \in grid'[d] <=> q \in grid[d]
    <3>1. CASE UpdateSector(t, run[t].p, run[t].c)
               /\ routing' = [routing EXCEPT ![run[t].p] = t]
      BY <1>1, <1>3, <1>4, <1>5, <3>1, SectorOthers DEF SessionOK
    <3>2. CASE UNCHANGED <<grid, sector, routing>>
      BY <3>2
    <3> QED BY <3>1, <3>2 DEF HandlePlayerMove
  <2>3. SelfStays(q)
    BY <1>1, <2>2 DEF SelfStays, registry
  <2> QED BY <1>2, <2>1, <2>3, StaysLemma
<1>6. CASE q = run[t].p
  <2>1. AtOp(t, q) /\ AtRest(q)'
    BY <1>1, <1>6, AdvanceOwn DEF Ops
  <2>2. /\ ~transferring[q] /\ InSector(q, t) /\ KnownIn(q, t)
        /\ q \in objects /\ state[q] # "ST_ALLOC" /\ ~EnterPending(q)
    BY <1>3, <2>1 DEF AtOp, KnownIn
  <2>3. ZoneOf[run[t].c] = t
    BY <1>6, <2>2 DEF HandlePlayerMove, KnownIn
  <2>4. UpdateSector(t, q, run[t].c) /\ routing'[q] = t
    BY <1>1, <1>6, <2>2, <2>3 DEF HandlePlayerMove, SessionOK
  <2>5. /\ sector'[q] = run[t].c
        /\ \A d \in Cells : q \in grid'[d] <=> sector'[q] = d
    BY <1>1, <1>4, <2>2, <2>4, UpdateOwn DEF PlayerInv
  <2>6. /\ q \in objects' /\ ~transferring'[q] /\ state'[q] # "ST_ALLOC"
        /\ InSector(q, zoneId[q])' /\ KnownIn(q, zoneId[q])'
    BY <1>1, <1>4, <2>2, <2>3, <2>4, <2>5 DEF InSector, KnownIn, registry
  <2> QED BY <1>2, <2>1, <2>2, <2>5, <2>6, RestingLemma
<1> QED BY <1>5, <1>6

\* The transfer begins: the flag is up and the old grid is left.
LEMMA TransferLeavePlayer ==
  ASSUME ShapeInv, NEW t \in Threads, TransferLeave(t),
         NEW q \in Players, PlayerInv(q)
  PROVE  PlayerInv(q)'
<1>1. /\ UserOK /\ UNCHANGED queue /\ Advance(t, "move", "transfer_zone")
      /\ UNCHANGED <<session, registry, zoneId>>
      /\ RemoveFromSector(t, run[t].p)
      /\ transferring' = [transferring EXCEPT ![run[t].p] = TRUE]
  BY DEF ShapeInv, TypeOK, TransferLeave
<1>2. EntersStay(q) /\ (EnterPending(q)' <=> EnterPending(q))
  BY <1>1, QueueStays
<1>3. /\ run[t].op = "move" /\ run'[t].op = "transfer_zone"
      /\ run[t].p \in Players
  BY <1>1, AdvanceLemma DEF Ops
<1>4. CASE q # run[t].p
  <2>1. RunStays(q)
    BY <1>1, <1>4, AdvanceOthers DEF Ops
  <2>2. /\ sector'[q] = sector[q]
        /\ \A d \in Cells : q \in grid'[d] <=> q \in grid[d]
    BY <1>1, <1>3, <1>4, SectorOthers
  <2>3. SelfStays(q)
    BY <1>1, <1>4, <2>2 DEF SelfStays, UserOK, session, registry
  <2> QED BY <1>2, <2>1, <2>3, StaysLemma
<1>5. CASE q = run[t].p
  <2>1. AtOp(t, q) /\ \A u \in Threads : run'[u].p = q <=> u = t
    BY <1>1, <1>5, AdvanceOwn DEF Ops
  <2>2. /\ InSector(q, t) /\ objectZones[q] = t
        /\ q \in objects /\ state[q] # "ST_ALLOC" /\ ~EnterPending(q)
    BY <1>3, <2>1 DEF AtOp
  <2>3. sector'[q] = NoSector /\ \A d \in Cells : q \notin grid'[d]
    BY <1>1, <1>5, <2>2, RemoveOwn DEF PlayerInv
  <2>4. transferring'[q] /\ state'[q] # "ST_ALLOC"
    BY <1>1, <1>5, <2>2 DEF UserOK, session
  <2>5. AtOp(t, q)'
    BY <1>1, <1>2, <1>3, <2>2, <2>3, <2>4
    DEF AtOp, session, registry, TransferOps, EndingOps
  <2>6. \A c \in Cells : q \in grid'[c] <=> sector'[q] = c
    BY <2>3, ConstantsAssumption DEF NoSector
  <2> QED BY <2>1, <2>4, <2>5, <2>6, WorkingLemma
<1> QED BY <1>4, <1>5

\* The User's own zone id.
LEMMA TransferZonePlayer ==
  ASSUME ShapeInv, NEW t \in Threads, TransferZone(t),
         NEW q \in Players, PlayerInv(q)
  PROVE  PlayerInv(q)'
<1>1. /\ UserOK /\ UNCHANGED queue
      /\ Advance(t, "transfer_zone", "transfer_map")
      /\ UNCHANGED <<session, registry, transferring, sector, grid>>
      /\ zoneId' = [zoneId EXCEPT ![run[t].p] = ZoneOf[run[t].c]]
  BY DEF ShapeInv, TypeOK, TransferZone
<1>2. EntersStay(q) /\ (EnterPending(q)' <=> EnterPending(q))
  BY <1>1, QueueStays
<1>3. CASE q # run[t].p
  <2>1. RunStays(q)
    BY <1>1, <1>3, AdvanceOthers DEF Ops
  <2>2. SelfStays(q)
    BY <1>1, <1>3 DEF SelfStays, UserOK, session, registry
  <2> QED BY <1>2, <2>1, <2>2, StaysLemma
<1>4. CASE q = run[t].p
  <2>1. AtOp(t, q) /\ \A u \in Threads : run'[u].p = q <=> u = t
    BY <1>1, <1>4, AdvanceOwn DEF Ops
  <2>2. run[t].op = "transfer_zone" /\ run'[t].op = "transfer_map"
        /\ run'[t].c = run[t].c
    BY <1>1, AdvanceLemma DEF Ops
  <2>3. /\ transferring[q] /\ sector[q] = NoSector /\ objectZones[q] = t
        /\ q \in objects /\ state[q] # "ST_ALLOC" /\ ~EnterPending(q)
    BY <2>1, <2>2 DEF AtOp, TransferOps
  <2>4. zoneId'[q] = ZoneOf[run'[t].c]
    BY <1>1, <1>4, <2>2 DEF UserOK
  <2>5. AtOp(t, q)'
    BY <1>1, <1>2, <2>2, <2>3, <2>4
    DEF AtOp, session, registry, TransferOps, EndingOps
  <2>6. state'[q] # "ST_ALLOC" /\ \A c \in Cells : q \in grid'[c] <=> sector'[q] = c
    BY <1>1, <2>3 DEF PlayerInv, session
  <2> QED BY <2>1, <2>5, <2>6, WorkingLemma
<1> QED BY <1>3, <1>4

\* The object map.
LEMMA TransferMapPlayer ==
  ASSUME ShapeInv, NEW t \in Threads, TransferMap(t),
         NEW q \in Players, PlayerInv(q)
  PROVE  PlayerInv(q)'
<1>1. /\ RegistryOK /\ UNCHANGED queue
      /\ Advance(t, "transfer_map", "transfer_route")
      /\ UNCHANGED <<session, user, objects>>
      /\ objectZones' = [objectZones EXCEPT ![run[t].p] = ZoneOf[run[t].c]]
  BY DEF ShapeInv, TypeOK, TransferMap
<1>2. EntersStay(q) /\ (EnterPending(q)' <=> EnterPending(q))
  BY <1>1, QueueStays
<1>3. CASE q # run[t].p
  <2>1. RunStays(q)
    BY <1>1, <1>3, AdvanceOthers DEF Ops
  <2>2. SelfStays(q)
    BY <1>1, <1>3 DEF SelfStays, RegistryOK, session, user
  <2> QED BY <1>2, <2>1, <2>2, StaysLemma
<1>4. CASE q = run[t].p
  <2>1. AtOp(t, q) /\ \A u \in Threads : run'[u].p = q <=> u = t
    BY <1>1, <1>4, AdvanceOwn DEF Ops
  <2>2. run[t].op = "transfer_map" /\ run'[t].op = "transfer_route"
        /\ run'[t].c = run[t].c
    BY <1>1, AdvanceLemma DEF Ops
  <2>3. /\ transferring[q] /\ sector[q] = NoSector
        /\ zoneId[q] = ZoneOf[run[t].c]
        /\ q \in objects /\ state[q] # "ST_ALLOC" /\ ~EnterPending(q)
    BY <2>1, <2>2 DEF AtOp, TransferOps
  <2>4. objectZones'[q] = ZoneOf[run'[t].c]
    BY <1>1, <1>4, <2>2 DEF RegistryOK
  <2>5. AtOp(t, q)'
    BY <1>1, <1>2, <2>2, <2>3, <2>4
    DEF AtOp, session, user, TransferOps, EndingOps
  <2>6. state'[q] # "ST_ALLOC" /\ \A c \in Cells : q \in grid'[c] <=> sector'[q] = c
    BY <1>1, <2>3 DEF PlayerInv, session, user
  <2> QED BY <2>1, <2>5, <2>6, WorkingLemma
<1> QED BY <1>3, <1>4

\* The session's route.
LEMMA TransferRoutePlayer ==
  ASSUME ShapeInv, NEW t \in Threads, TransferRoute(t),
         NEW q \in Players, PlayerInv(q)
  PROVE  PlayerInv(q)'
<1>1. /\ SessionOK /\ UNCHANGED queue
      /\ Advance(t, "transfer_route", "transfer_post")
      /\ UNCHANGED <<registry, user, state, bound>>
      /\ routing' = [routing EXCEPT ![run[t].p] = ZoneOf[run[t].c]]
  BY DEF ShapeInv, TypeOK, TransferRoute
<1>2. EntersStay(q) /\ (EnterPending(q)' <=> EnterPending(q))
  BY <1>1, QueueStays
<1>3. CASE q # run[t].p
  <2>1. RunStays(q)
    BY <1>1, <1>3, AdvanceOthers DEF Ops
  <2>2. SelfStays(q)
    BY <1>1, <1>3 DEF SelfStays, SessionOK, registry, user
  <2> QED BY <1>2, <2>1, <2>2, StaysLemma
<1>4. CASE q = run[t].p
  <2>1. AtOp(t, q) /\ \A u \in Threads : run'[u].p = q <=> u = t
    BY <1>1, <1>4, AdvanceOwn DEF Ops
  <2>2. run[t].op = "transfer_route" /\ run'[t].op = "transfer_post"
        /\ run'[t].c = run[t].c
    BY <1>1, AdvanceLemma DEF Ops
  <2>3. /\ transferring[q] /\ sector[q] = NoSector
        /\ zoneId[q] = ZoneOf[run[t].c] /\ objectZones[q] = ZoneOf[run[t].c]
        /\ q \in objects /\ state[q] # "ST_ALLOC" /\ ~EnterPending(q)
    BY <2>1, <2>2 DEF AtOp, TransferOps
  <2>4. routing'[q] = ZoneOf[run'[t].c]
    BY <1>1, <1>4, <2>2 DEF SessionOK
  <2>5. AtOp(t, q)'
    BY <1>1, <1>2, <2>2, <2>3, <2>4
    DEF AtOp, KnownIn, registry, user, TransferOps, EndingOps
  <2>6. state'[q] # "ST_ALLOC" /\ \A c \in Cells : q \in grid'[c] <=> sector'[q] = c
    BY <1>1, <2>3 DEF PlayerInv, user
  <2> QED BY <2>1, <2>5, <2>6, WorkingLemma
<1> QED BY <1>3, <1>4

\* The new zone is asked to let the player in: the only HandleEnterZone.
LEMMA TransferPostPlayer ==
  ASSUME ShapeInv, NEW t \in Threads, TransferPost(t),
         NEW q \in Players, PlayerInv(q)
  PROVE  PlayerInv(q)'
<1>1. /\ TypeOK /\ Advance(t, "transfer_post", "idle")
      /\ UNCHANGED <<session, registry, user>>
  BY DEF ShapeInv, TransferPost
<1>2. SelfStays(q)
  BY <1>1 DEF SelfStays, session, registry, user
<1>3. run[t].op = "transfer_post" /\ run[t].p \in Players
  BY <1>1, AdvanceLemma DEF Ops
<1>4. run[t].c \in Cells
  BY <1>3 DEF ShapeInv, RouteInv, RunFits, TransferOps
<1>5. PICK task : task = MkTask("enter", run[t].p, run[t].c)
  OBVIOUS
<1>6. PICK z : z = ZoneOf[run[t].c]
  OBVIOUS
<1>7. /\ task \in Task /\ task.type = "enter" /\ task.p = run[t].p
      /\ z \in Threads
  BY <1>3, <1>4, <1>5, <1>6, ConstantsAssumption
  DEF MkTask, Task, TaskTypes, Threads
<1>8. EnqueueByZone(z, task)
  BY <1>5, <1>6 DEF TransferPost
<1>9. CASE q # run[t].p
  <2>1. EntersStay(q)
    BY <1>1, <1>7, <1>8, <1>9, AppendStays
  <2> QED BY <1>1, <1>2, <1>9, <2>1, AdvanceOthers, StaysLemma DEF Ops
<1>10. CASE q = run[t].p
  <2>1. AtOp(t, q) /\ AtRest(q)'
    BY <1>1, <1>10, AdvanceOwn DEF Ops
  <2>2. /\ transferring[q] /\ sector[q] = NoSector /\ KnownIn(q, z)
        /\ q \in objects /\ state[q] # "ST_ALLOC" /\ ~EnterPending(q)
    BY <1>3, <1>6, <2>1 DEF AtOp, TransferOps
  <2>3. /\ \A y \in Threads : EnterIn(y, q)' <=> y = z
        /\ \A y \in Threads : EnterOnce(y, q)'
    BY <1>1, <1>7, <1>8, <1>10, <2>2, AppendEnters
  <2>4. EnterPending(q)'
    BY <1>7, <2>3 DEF EnterPending
  <2>5. /\ transferring'[q] /\ sector'[q] = NoSector /\ KnownIn(q, z)'
        /\ q \in objects' /\ state'[q] # "ST_ALLOC"
    BY <1>2, <2>2 DEF SelfStays, KnownIn
  <2>6. \A c \in Cells : q \in grid'[c] <=> sector'[q] = c
    BY <1>2 DEF PlayerInv, SelfStays
  <2>7. \A u \in Threads : run'[u].p # q
    BY <2>1 DEF AtRest
  <2> QED BY <2>1, <2>3, <2>4, <2>5, <2>6, <2>7 DEF PlayerInv
<1> QED BY <1>9, <1>10

\* HandleEnterZone: the player waits for nothing else, and for no other
\* zone.
LEMMA EnterPlacePlayer ==
  ASSUME ShapeInv, NEW t \in Threads, EnterPlace(t),
         NEW q \in Players, PlayerInv(q)
  PROVE  PlayerInv(q)'
<1>1. /\ TypeOK /\ UserOK /\ queue[t] # <<>> /\ run[t].op = "idle"
      /\ Head(queue[t]).type = "enter" /\ Pop(t)
      /\ UNCHANGED <<session, registry, transferring, zoneId>>
  BY DEF ShapeInv, TypeOK, EnterPlace, Takes, PopTo
<1>2. PICK task : task = Head(queue[t])
  OBVIOUS
<1>3. /\ task.p \in Players /\ task.c \in Cells /\ ZoneOf[task.c] = t
  BY <1>1, <1>2, PopLemma DEF ShapeInv, RouteInv, TaskFits, Task
<1>4. CASE q # task.p
  <2>1. EntersStay(q)
    BY <1>1, <1>2, <1>4, PopStays
  <2>2. CASE task.p \in objects
    <3>1. PopTo(t, "enter_done") /\ UpdateSector(t, task.p, task.c)
      BY <1>2, <2>2 DEF EnterPlace
    <3>2. RunStays(q)
      BY <1>1, <1>2, <1>4, <3>1, PopToOthers DEF Ops
    <3>3. /\ sector'[q] = sector[q]
          /\ \A d \in Cells : q \in grid'[d] <=> q \in grid[d]
      BY <1>1, <1>3, <1>4, <3>1, SectorOthers
    <3>4. SelfStays(q)
      BY <1>1, <3>3 DEF SelfStays, session, registry
    <3> QED BY <2>1, <3>2, <3>4, StaysLemma
  <2>3. CASE task.p \notin objects
    <3>1. UNCHANGED <<run, grid, sector>>
      BY <1>2, <2>3 DEF EnterPlace
    <3>2. SelfStays(q) /\ RunStays(q)
      BY <1>1, <3>1 DEF SelfStays, RunStays, session, registry
    <3> QED BY <2>1, <3>2, StaysLemma
  <2> QED BY <2>2, <2>3
<1>5. CASE q = task.p
  <2>1. /\ EnterIn(t, q) /\ ~EnterIn(t, q)'
        /\ \A y \in Threads \ {t} : EnterIn(y, q)' <=> EnterIn(y, q)
    BY <1>1, <1>2, <1>5, PopEnters DEF PlayerInv
  <2>2. /\ AtRest(q) /\ q \in objects /\ transferring[q]
        /\ sector[q] = NoSector /\ KnownIn(q, t)
    BY <2>1 DEF PlayerInv
  <2>3. ~EnterPending(q)'
    BY <2>1, <2>2 DEF PlayerInv, KnownIn, EnterPending
  <2>4. PopTo(t, "enter_done") /\ UpdateSector(t, q, task.c)
    BY <1>2, <1>5, <2>2 DEF EnterPlace
  <2>5. /\ \A u \in Threads : run'[u].p = q <=> u = t
        /\ run'[t].op = "enter_done"
    BY <1>1, <1>2, <1>5, <2>2, <2>4, PopToOwn, PopToLemma DEF Ops
  <2>6. /\ sector'[q] = task.c
        /\ \A d \in Cells : q \in grid'[d] <=> sector'[q] = d
    BY <1>1, <1>3, <2>2, <2>4, UpdateOwn DEF PlayerInv
  <2>7. state[q] # "ST_ALLOC"
    BY <2>2 DEF PlayerInv, Fresh
  <2>8. AtOp(t, q)'
    BY <1>1, <1>3, <2>2, <2>3, <2>5, <2>6, <2>7
    DEF AtOp, KnownIn, InSector, session, registry, TransferOps, EndingOps
  <2>9. state'[q] # "ST_ALLOC"
    BY <1>1, <2>7 DEF session
  <2> QED BY <2>5, <2>6, <2>8, <2>9, WorkingLemma
<1> QED BY <1>4, <1>5

\* ... and its last store, the flag.
LEMMA EnterDonePlayer ==
  ASSUME ShapeInv, NEW t \in Threads, EnterDone(t),
         NEW q \in Players, PlayerInv(q)
  PROVE  PlayerInv(q)'
<1>1. /\ UserOK /\ UNCHANGED queue /\ Advance(t, "enter_done", "idle")
      /\ UNCHANGED <<session, registry, zoneId, sector, grid>>
      /\ transferring' = [transferring EXCEPT ![run[t].p] = FALSE]
  BY DEF ShapeInv, TypeOK, EnterDone
<1>2. EntersStay(q) /\ (EnterPending(q)' <=> EnterPending(q))
  BY <1>1, QueueStays
<1>3. CASE q # run[t].p
  <2>1. SelfStays(q)
    BY <1>1, <1>3 DEF SelfStays, UserOK, session, registry
  <2> QED BY <1>1, <1>2, <1>3, <2>1, AdvanceOthers, StaysLemma DEF Ops
<1>4. CASE q = run[t].p
  <2>1. AtOp(t, q) /\ AtRest(q)'
    BY <1>1, <1>4, AdvanceOwn DEF Ops
  <2>2. run[t].op = "enter_done"
    BY <1>1, AdvanceLemma DEF Ops
  <2>3. /\ InSector(q, t) /\ KnownIn(q, t)
        /\ q \in objects /\ state[q] # "ST_ALLOC" /\ ~EnterPending(q)
    BY <2>1, <2>2 DEF AtOp
  <2>4. /\ q \in objects' /\ ~transferring'[q] /\ state'[q] # "ST_ALLOC"
        /\ InSector(q, zoneId[q])' /\ KnownIn(q, zoneId[q])'
    BY <1>1, <1>4, <2>3 DEF UserOK, InSector, KnownIn, session, registry
  <2>5. \A c \in Cells : q \in grid'[c] <=> sector'[q] = c
    BY <1>1 DEF PlayerInv
  <2> QED BY <1>2, <2>1, <2>3, <2>4, <2>5, RestingLemma
<1> QED BY <1>3, <1>4

-----------------------------------------------------------------------------
\* Tasks that begin.

\* A thread drops a task that is no HandleEnterZone.
LEMMA DropPlayer ==
  ASSUME TypeOK, NEW t \in Threads, queue[t] # <<>>, Pop(t),
         Head(queue[t]).type # "enter", UNCHANGED run,
         NEW q \in Players, PlayerInv(q), SelfStays(q)
  PROVE  PlayerInv(q)'
<1>1. EntersStay(q) /\ RunStays(q)
  BY PopStays DEF RunStays
<1> QED BY <1>1, StaysLemma

\* The login of a session that is still in ST_ALLOC: no thread works on it.
LEMMA LoginInsertPlayer ==
  ASSUME ShapeInv, NEW t \in Threads, LoginInsert(t),
         NEW q \in Players, PlayerInv(q)
  PROVE  PlayerInv(q)'
<1>1. /\ TypeOK /\ RegistryOK /\ queue[t] # <<>> /\ run[t].op = "idle"
      /\ Head(queue[t]).type = "login" /\ Pop(t)
      /\ UNCHANGED <<session, user, objectZones>>
  BY DEF ShapeInv, TypeOK, LoginInsert, Takes, PopTo
<1>2. PICK p : p = Head(queue[t]).p
  OBVIOUS
<1>3. CASE state[p] = "ST_ALLOC" /\ p \notin objects
  <2>1. PopTo(t, "login_bind") /\ objects' = objects \cup {p}
    BY <1>2, <1>3 DEF LoginInsert
  <2>2. CASE q # p
    <3>1. SelfStays(q)
      BY <1>1, <2>1, <2>2 DEF SelfStays, session, user
    <3> QED BY <1>1, <1>2, <2>1, <2>2, <3>1, PopToOthers, StaysLemma DEF Ops
  <2>3. CASE q = p
    <3>1. Fresh(q) /\ AtRest(q)
      BY <1>3, <2>3 DEF PlayerInv, AtOp, AtRest
    <3>2. EntersStay(q)
      BY <1>1, PopStays
    <3>3. ~EnterPending(q)'
      BY <3>1, <3>2 DEF Fresh, EntersStay, EnterPending
    <3>4. /\ \A u \in Threads : run'[u].p = q <=> u = t
          /\ run'[t].op = "login_bind"
      BY <1>1, <1>2, <2>1, <2>3, <3>1, PopToOwn, PopToLemma DEF Ops
    <3>5. q \in objects' /\ state'[q] = "ST_ALLOC"
      BY <1>1, <1>3, <2>1, <2>3 DEF session
    <3>6. AtOp(t, q)'
      BY <3>3, <3>4, <3>5 DEF AtOp, TransferOps, EndingOps
    <3>7. ~AtRest(q)'
      BY <3>4 DEF AtRest
    <3>8. Fresh(q)'
      BY <1>1, <3>1, <3>3, <3>7 DEF Fresh, KnownIn, session, user
    <3>9. \A c \in Cells : q \in grid'[c] <=> sector'[q] = c
      BY <1>1 DEF PlayerInv, user
    <3> QED BY <3>4, <3>6, <3>8, <3>9, WorkingLemma
  <2> QED BY <2>2, <2>3
<1>4. CASE ~(state[p] = "ST_ALLOC" /\ p \notin objects)
  <2>1. UNCHANGED <<run, objects>>
    BY <1>2, <1>4 DEF LoginInsert
  <2>2. SelfStays(q)
    BY <1>1, <2>1 DEF SelfStays, session, user
  <2> QED BY <1>1, <2>1, <2>2, DropPlayer
<1> QED BY <1>3, <1>4

\* What the owner's thread knows of a player it begins to handle, when it
\* is idle and the player is not on its way to another zone: no thread is
\* at work on the player, and it is settled in the zone.
LEMMA OwnerLemma ==
  ASSUME ShapeInv, NEW t \in Threads, run[t].op = "idle", NEW p \in Players,
         PlayerInv(p), IsOwner(t, p),
         ~transferring[p] \/ (p \in objects /\ ~Busy(p))
  PROVE  /\ AtRest(p) /\ p \in objects /\ ~EnterPending(p)
         /\ ~transferring[p] /\ InSector(p, t) /\ KnownIn(p, t)
         /\ state[p] # "ST_ALLOC"
<1>1. objectZones[p] = t /\ t # InvalidZoneId /\ t \in Zones
  BY DEF IsOwner, DefaultThread, Threads
<1>2. transferring[p] => zoneId[p] \notin Zones
  BY DEF Busy
<1>3. run[t].p # p
  BY ConstantsAssumption DEF ShapeInv, RouteInv, RunFits
<1>4. state[p] # "ST_ALLOC"
  BY <1>1 DEF PlayerInv, Fresh, KnownIn
<1>5. ASSUME NEW u \in Threads, run[u].p = p PROVE FALSE
  <2>1. AtOp(u, p) /\ u # t /\ run[u].op \in Ops
    BY <1>3, <1>5 DEF PlayerInv, ShapeInv, TypeOK, RunStates
  <2>2. run[u].op # "idle" /\ run[u].op # "login_bind"
    BY <1>4, <1>5, <2>1, ConstantsAssumption
    DEF AtOp, ShapeInv, RouteInv, RunFits
  <2>3. run[u].op \in TransferOps => ZoneOf[run[u].c] \in Zones
    BY ConstantsAssumption DEF ShapeInv, RouteInv, RunFits
  <2>4. run[u].op \notin {"login_place", "login_map"}
    BY <1>1, <2>1 DEF AtOp, KnownIn
  <2>5. run[u].op \notin {"login_route", "login_ack", "move", "item"}
    BY <1>1, <2>1 DEF AtOp
  <2>6. run[u].op \notin EndingOps \cup {"transfer_zone", "transfer_map"}
    BY <1>1, <2>1 DEF AtOp
  <2>7. run[u].op \notin {"transfer_route", "transfer_post"}
    BY <1>2, <2>1, <2>3 DEF AtOp, KnownIn, TransferOps
  <2>8. run[u].op # "enter_done"
    BY <1>1, <2>1 DEF AtOp, KnownIn
  <2> QED BY <2>1, <2>2, <2>4, <2>5, <2>6, <2>7, <2>8 DEF Ops, EndingOps
<1>6. AtRest(p)
  BY <1>5 DEF AtRest
<1>7. p \in objects
  BY <1>1, <1>6 DEF PlayerInv, Gone
<1>8. ~EnterPending(p)
  BY <1>1, <1>2 DEF PlayerInv, EnterPending, KnownIn
<1>9. ~transferring[p] /\ InSector(p, zoneId[p]) /\ KnownIn(p, zoneId[p])
  BY <1>6, <1>7, <1>8 DEF PlayerInv
<1>10. zoneId[p] = t
  BY <1>1, <1>9 DEF KnownIn
<1> QED BY <1>4, <1>6, <1>7, <1>8, <1>9, <1>10

\* A game packet that passes the guards on the thread of the owner.
LEMMA DispatchGamePacketPlayer ==
  ASSUME ShapeInv, NEW t \in Threads, DispatchGamePacket(t),
         NEW q \in Players \ stray', PlayerInv(q)
  PROVE  PlayerInv(q)'
<1>1. /\ TypeOK /\ queue[t] # <<>> /\ run[t].op = "idle"
      /\ Head(queue[t]).type \in {"move", "item"} /\ Pop(t)
      /\ UNCHANGED <<session, registry, user>>
  BY DEF ShapeInv, TypeOK, DispatchGamePacket, Takes, PopTo
<1>2. PICK task : task = Head(queue[t])
  OBVIOUS
<1>3. SelfStays(q)
  BY <1>1 DEF SelfStays, session, registry, user
<1>4. CASE Accepts(task.p) /\ PopTo(t, task.type) /\ NoteHandling(t, task.p)
  <2>1. PopTo(t, "move") \/ PopTo(t, "item")
    BY <1>1, <1>2, <1>4
  <2>2. CASE q # task.p
    BY <1>1, <1>2, <1>3, <2>1, <2>2, PopToOthers, StaysLemma DEF Ops
  <2>3. CASE q = task.p
    <3>1. IsOwner(t, q) /\ ~transferring[q]
      BY <1>4, <2>3 DEF NoteHandling, Accepts
    <3>2. /\ AtRest(q) /\ q \in objects /\ ~EnterPending(q)
          /\ ~transferring[q] /\ InSector(q, t) /\ KnownIn(q, t)
          /\ state[q] # "ST_ALLOC"
      BY <1>1, <3>1, OwnerLemma
    <3>3. EntersStay(q)
      BY <1>1, PopStays
    <3>4. ~EnterPending(q)'
      BY <3>2, <3>3 DEF EntersStay, EnterPending
    <3>5. /\ \A u \in Threads : run'[u].p = q <=> u = t
          /\ run'[t].op \in {"move", "item"}
      BY <1>1, <1>2, <2>1, <2>3, <3>2, PopToOwn, PopToLemma DEF Ops
    <3>6. AtOp(t, q)'
      BY <1>3, <3>2, <3>4, <3>5
      DEF AtOp, SelfStays, KnownIn, InSector, TransferOps, EndingOps
    <3>7. /\ state'[q] # "ST_ALLOC"
          /\ \A c \in Cells : q \in grid'[c] <=> sector'[q] = c
      BY <1>3, <3>2 DEF PlayerInv, SelfStays
    <3> QED BY <3>5, <3>6, <3>7, WorkingLemma
  <2> QED BY <2>2, <2>3
<1>5. CASE UNCHANGED run
  BY <1>1, <1>3, <1>5, DropPlayer
<1> QED BY <1>2, <1>4, <1>5 DEF DispatchGamePacket

-----------------------------------------------------------------------------
\* WorkerThread::Disconnect.

\* The task goes on behind the HandleEnterZone it overtook: a pop and an
\* append of a task that is no HandleEnterZone.
LEMMA DisconnectBusyPlayer ==
  ASSUME ShapeInv, NEW t \in Threads, DisconnectBusy(t),
         NEW q \in Players, PlayerInv(q)
  PROVE  PlayerInv(q)'
<1>1. /\ TypeOK /\ queue[t] # <<>> /\ queue \in [Threads -> Seq(Task)]
      /\ Head(queue[t]).type = "disconnect"
      /\ zoneId[Head(queue[t]).p] \in Threads
      /\ UNCHANGED <<session, registry, user, run>>
  BY DEF ShapeInv, TypeOK, DisconnectBusy, Takes, Busy, Threads
<1>2. PICK task : task = Head(queue[t])
  OBVIOUS
<1>3. PICK z : z = zoneId[task.p]
  OBVIOUS
<1>4. PICK rest : rest = [queue EXCEPT ![t] = Tail(queue[t])]
  OBVIOUS
<1>5. /\ task \in Task /\ task.type = "disconnect" /\ z \in Threads
      /\ rest \in [Threads -> Seq(Task)]
      /\ queue[t] \in Seq(Task) /\ rest[t] = Tail(queue[t])
      /\ \A y \in Threads \ {t} : rest[y] = queue[y]
  BY <1>1, <1>2, <1>3, <1>4
<1>6. queue' = [rest EXCEPT ![z] = Append(rest[z], task)]
  BY <1>1, <1>2, <1>3, <1>4, <1>5 DEF DisconnectBusy
<1> DEFINE EnterOf(s, i) ==
             i \in DOMAIN s /\ s[i].type = "enter" /\ s[i].p = q
<1>7. ASSUME NEW y \in Threads, NEW i
      PROVE  EnterOf(queue'[y], i) <=> EnterOf(rest[y], i)
  <2>1. CASE y # z
    BY <1>5, <1>6, <2>1
  <2>2. CASE y = z
    <3>1. queue'[y] = Append(rest[y], task) /\ rest[y] \in Seq(Task)
      BY <1>5, <1>6, <2>2
    <3>2. CASE i \in DOMAIN rest[y]
      BY <3>1, <3>2
    <3>3. CASE i \in DOMAIN queue'[y] /\ i \notin DOMAIN rest[y]
      <4>1. queue'[y][i] = task
        BY <3>1, <3>3
      <4> QED BY <1>5, <3>3, <4>1
    <3>4. CASE i \notin DOMAIN queue'[y] /\ i \notin DOMAIN rest[y]
      BY <3>4
    <3> QED BY <3>2, <3>3, <3>4
  <2> QED BY <2>1, <2>2
<1>8. ASSUME NEW i \in Nat \ {0}
      PROVE  EnterOf(rest[t], i) <=> EnterOf(queue[t], i + 1)
  <2>1. i \in DOMAIN rest[t] <=> i + 1 \in DOMAIN queue[t]
    BY <1>1, <1>5
  <2>2. i \in DOMAIN rest[t] => rest[t][i] = queue[t][i + 1]
    BY <1>1, <1>5
  <2> QED BY <2>1, <2>2
<1>9. /\ ~EnterOf(queue[t], 1)
      /\ \A i : EnterOf(queue[t], i) => i \in Nat \ {0}
      /\ \A i : EnterOf(rest[t], i) => i \in Nat \ {0}
  BY <1>1, <1>5
<1>10. \A y \in Threads : \A i : EnterAt(y, i, q) <=> EnterOf(queue[y], i)
  BY DEF EnterAt
<1>11. \A y \in Threads : \A i : EnterAt(y, i, q)' <=> EnterOf(queue'[y], i)
  BY DEF EnterAt
<1>12. \A y \in Threads \ {t} : \A i : EnterOf(rest[y], i) <=> EnterOf(queue[y], i)
  BY <1>5
<1> HIDE DEF EnterOf
<1>13. ASSUME NEW y \in Threads \ {t}
       PROVE  /\ EnterIn(y, q)' <=> EnterIn(y, q)
              /\ EnterOnce(y, q) => EnterOnce(y, q)'
  <2>1. \A i : EnterAt(y, i, q)' <=> EnterAt(y, i, q)
    BY <1>7, <1>10, <1>11, <1>12
  <2> QED BY <2>1 DEF EnterIn, EnterOnce, EnterAt
<1>14. \A i \in Nat \ {0} : EnterAt(t, i, q)' <=> EnterAt(t, i + 1, q)
  BY <1>7, <1>8, <1>10, <1>11
<1>15. /\ ~EnterAt(t, 1, q)
       /\ \A i : EnterAt(t, i, q) \/ EnterAt(t, i, q)' => i \in Nat \ {0}
  BY <1>7, <1>9, <1>10, <1>11
<1>16. EntersStay(q)
  <2>1. EnterIn(t, q)' => EnterIn(t, q)
    BY <1>14, <1>15 DEF EnterIn, EnterAt
  <2>2. ASSUME NEW i, EnterAt(t, i, q) PROVE EnterIn(t, q)'
    <3>1. PICK k \in Nat \ {0} : i = k + 1
      BY <1>15, <2>2
    <3> QED BY <1>14, <2>2, <3>1 DEF EnterIn, EnterAt
  <2>3. EnterOnce(t, q) => EnterOnce(t, q)'
    <3> SUFFICES ASSUME EnterOnce(t, q), NEW i, NEW j,
                        EnterAt(t, i, q)', EnterAt(t, j, q)'
                 PROVE  i = j
      BY DEF EnterOnce
    <3>1. i \in Nat \ {0} /\ j \in Nat \ {0}
      BY <1>15
    <3>2. EnterAt(t, i + 1, q) /\ EnterAt(t, j + 1, q)
      BY <1>14, <3>1
    <3>3. i + 1 = j + 1
      BY <3>2 DEF EnterOnce, EnterAt
    <3> QED BY <3>1, <3>3
  <2> QED BY <1>13, <2>1, <2>2, <2>3 DEF EntersStay, EnterIn
<1>17. SelfStays(q) /\ RunStays(q)
  BY <1>1 DEF SelfStays, RunStays, session, registry, user
<1> QED BY <1>16, <1>17, StaysLemma

\* The owner's thread takes the User out of its grid.
LEMMA DisconnectLeavePlayer ==
  ASSUME ShapeInv, NEW t \in Threads, DisconnectLeave(t),
         NEW q \in Players \ stray', PlayerInv(q)
  PROVE  PlayerInv(q)'
<1>1. /\ TypeOK /\ UserOK /\ queue[t] # <<>> /\ run[t].op = "idle"
      /\ Head(queue[t]).type = "disconnect" /\ Pop(t)
      /\ UNCHANGED <<session, registry, transferring, zoneId>>
  BY DEF ShapeInv, TypeOK, DisconnectLeave, Takes, PopTo
<1>2. PICK p : p = Head(queue[t]).p
  OBVIOUS
<1>3. p \in Players /\ ~Busy(p)
  BY <1>1, <1>2, PopLemma DEF ShapeInv, RouteInv, Task, DisconnectLeave
<1>4. CASE p \in objects
  <2>1. /\ PopTo(t, "close_session") /\ NoteHandling(t, p)
        /\ RemoveFromSector(t, p)
    BY <1>2, <1>4 DEF DisconnectLeave
  <2>2. CASE q # p
    <3>1. RunStays(q) /\ EntersStay(q)
      BY <1>1, <1>2, <2>1, <2>2, PopToOthers DEF Ops
    <3>2. /\ sector'[q] = sector[q]
          /\ \A d \in Cells : q \in grid'[d] <=> q \in grid[d]
      BY <1>1, <1>3, <2>1, <2>2, SectorOthers
    <3>3. SelfStays(q)
      BY <1>1, <3>2 DEF SelfStays, session, registry
    <3> QED BY <3>1, <3>3, StaysLemma
  <2>3. CASE q = p
    <3>1. IsOwner(t, q)
      BY <2>1, <2>3 DEF NoteHandling
    <3>2. /\ AtRest(q) /\ q \in objects /\ ~EnterPending(q)
          /\ ~transferring[q] /\ InSector(q, t) /\ KnownIn(q, t)
          /\ state[q] # "ST_ALLOC"
      BY <1>1, <1>3, <1>4, <2>3, <3>1, OwnerLemma
    <3>3. EntersStay(q)
      BY <1>1, PopStays
    <3>4. ~EnterPending(q)'
      BY <3>2, <3>3 DEF EntersStay, EnterPending
    <3>5. /\ \A u \in Threads : run'[u].p = q <=> u = t
          /\ run'[t].op = "close_session"
      BY <1>1, <1>2, <2>1, <2>3, <3>2, PopToOwn, PopToLemma DEF Ops
    <3>6. sector'[q] = NoSector /\ \A d \in Cells : q \notin grid'[d]
      BY <1>1, <1>3, <2>1, <2>3, <3>2, RemoveOwn DEF PlayerInv
    <3>7. AtOp(t, q)'
      BY <1>1, <3>2, <3>4, <3>5, <3>6
      DEF AtOp, KnownIn, session, registry, TransferOps, EndingOps
    <3>8. state'[q] # "ST_ALLOC"
      BY <1>1, <3>2 DEF session
    <3>9. \A c \in Cells : q \in grid'[c] <=> sector'[q] = c
      BY <3>6, ConstantsAssumption DEF NoSector
    <3> QED BY <3>5, <3>7, <3>8, <3>9, WorkingLemma
  <2> QED BY <2>2, <2>3
<1>5. CASE p \notin objects
  <2>1. UNCHANGED <<run, sector, grid>>
    BY <1>2, <1>5 DEF DisconnectLeave
  <2>2. SelfStays(q)
    BY <1>1, <2>1 DEF SelfStays, session, registry
  <2> QED BY <1>1, <2>1, <2>2, DropPlayer
<1> QED BY <1>4, <1>5

\* Closing the session.
LEMMA DisconnectClosePlayer ==
  ASSUME ShapeInv, NEW t \in Threads, DisconnectClose(t),
         NEW q \in Players, PlayerInv(q)
  PROVE  PlayerInv(q)'
<1>1. /\ UNCHANGED queue /\ Advance(t, "close_session", "delete")
      /\ UNCHANGED <<registry, user, state, bound, routing>>
  BY DEF DisconnectClose
<1>2. EntersStay(q) /\ (EnterPending(q)' <=> EnterPending(q))
  BY <1>1, QueueStays
<1>3. SelfStays(q)
  BY <1>1 DEF SelfStays, registry, user
<1>4. CASE q # run[t].p
  BY <1>1, <1>2, <1>3, <1>4, AdvanceOthers, StaysLemma DEF Ops
<1>5. CASE q = run[t].p
  <2>1. AtOp(t, q) /\ \A u \in Threads : run'[u].p = q <=> u = t
    BY <1>1, <1>5, AdvanceOwn DEF Ops
  <2>2. run[t].op = "close_session" /\ run'[t].op = "delete"
    BY <1>1, AdvanceLemma DEF Ops
  <2>3. /\ ~transferring[q] /\ sector[q] = NoSector /\ objectZones[q] = t
        /\ q \in objects /\ state[q] # "ST_ALLOC" /\ ~EnterPending(q)
    BY <2>1, <2>2 DEF AtOp, EndingOps
  <2>4. AtOp(t, q)'
    BY <1>2, <1>3, <2>2, <2>3 DEF AtOp, SelfStays, TransferOps, EndingOps
  <2>5. /\ state'[q] # "ST_ALLOC"
        /\ \A c \in Cells : q \in grid'[c] <=> sector'[q] = c
    BY <1>3, <2>3 DEF PlayerInv, SelfStays
  <2> QED BY <2>1, <2>4, <2>5, WorkingLemma
<1> QED BY <1>4, <1>5

\* Deleting the User.
LEMMA DisconnectDeletePlayer ==
  ASSUME ShapeInv, NEW t \in Threads, DisconnectDelete(t),
         NEW q \in Players, PlayerInv(q)
  PROVE  PlayerInv(q)'
<1>1. /\ UNCHANGED queue /\ Advance(t, "delete", "unmap")
      /\ UNCHANGED <<session, user, objectZones>>
      /\ objects' = objects \ {run[t].p}
  BY DEF DisconnectDelete
<1>2. EntersStay(q) /\ (EnterPending(q)' <=> EnterPending(q))
  BY <1>1, QueueStays
<1>3. CASE q # run[t].p
  <2>1. SelfStays(q)
    BY <1>1, <1>3 DEF SelfStays, session, user
  <2> QED BY <1>1, <1>2, <1>3, <2>1, AdvanceOthers, StaysLemma DEF Ops
<1>4. CASE q = run[t].p
  <2>1. AtOp(t, q) /\ \A u \in Threads : run'[u].p = q <=> u = t
    BY <1>1, <1>4, AdvanceOwn DEF Ops
  <2>2. run[t].op = "delete" /\ run'[t].op = "unmap"
    BY <1>1, AdvanceLemma DEF Ops
  <2>3. /\ ~transferring[q] /\ sector[q] = NoSector /\ objectZones[q] = t
        /\ state[q] # "ST_ALLOC" /\ ~EnterPending(q)
    BY <2>1, <2>2 DEF AtOp, EndingOps
  <2>4. AtOp(t, q)'
    BY <1>1, <1>2, <1>4, <2>2, <2>3
    DEF AtOp, session, user, TransferOps, EndingOps
  <2>5. /\ state'[q] # "ST_ALLOC"
        /\ \A c \in Cells : q \in grid'[c] <=> sector'[q] = c
    BY <1>1, <2>3 DEF PlayerInv, session, user
  <2> QED BY <2>1, <2>4, <2>5, WorkingLemma
<1> QED BY <1>3, <1>4

\* Taking it out of the object map: nothing is left of the player.
LEMMA DisconnectUnmapPlayer ==
  ASSUME ShapeInv, NEW t \in Threads, DisconnectUnmap(t),
         NEW q \in Players, PlayerInv(q)
  PROVE  PlayerInv(q)'
<1>1. /\ RegistryOK /\ UNCHANGED queue /\ Advance(t, "unmap", "idle")
      /\ UNCHANGED <<session, user, objects>>
      /\ objectZones' = [objectZones EXCEPT ![run[t].p] = InvalidZoneId]
  BY DEF ShapeInv, TypeOK, DisconnectUnmap
<1>2. EntersStay(q) /\ (EnterPending(q)' <=> EnterPending(q))
  BY <1>1, QueueStays
<1>3. CASE q # run[t].p
  <2>1. SelfStays(q)
    BY <1>1, <1>3 DEF SelfStays, RegistryOK, session, user
  <2> QED BY <1>1, <1>2, <1>3, <2>1, AdvanceOthers, StaysLemma DEF Ops
<1>4. CASE q = run[t].p
  <2>1. AtOp(t, q) /\ AtRest(q)'
    BY <1>1, <1>4, AdvanceOwn DEF Ops
  <2>2. run[t].op = "unmap"
    BY <1>1, AdvanceLemma DEF Ops
  <2>3. /\ ~transferring[q] /\ sector[q] = NoSector /\ q \notin objects
        /\ state[q] # "ST_ALLOC" /\ ~EnterPending(q)
    BY <2>1, <2>2 DEF AtOp, EndingOps
  <2>4. objectZones'[q] = InvalidZoneId
    BY <1>1, <1>4 DEF RegistryOK
  <2>5. q \notin objects' /\ Gone(q)' /\ state'[q] # "ST_ALLOC"
    BY <1>1, <1>2, <2>3, <2>4 DEF Gone, session, user
  <2>6. \A c \in Cells : q \in grid'[c] <=> sector'[q] = c
    BY <1>1 DEF PlayerInv, user
  <2> QED BY <1>2, <2>1, <2>3, <2>5, <2>6, RestingLemma
<1> QED BY <1>3, <1>4

-----------------------------------------------------------------------------
\* IOCP workers and DB threads: tasks are posted, none is a HandleEnterZone.

\* A step that neither runs, takes nor posts a task.
LEMMA AsidePlayer ==
  ASSUME UNCHANGED <<registry, user, state, bound, routing, queue, run>>,
         NEW q \in Players, PlayerInv(q)
  PROVE  PlayerInv(q)'
<1>1. SelfStays(q) /\ RunStays(q)
  BY DEF SelfStays, RunStays, registry, user
<1>2. EntersStay(q)
  BY QueueStays
<1> QED BY <1>1, <1>2, StaysLemma

\* PostTask: EnqueueBySession and EnqueueDisconnect.
LEMMA PostTaskPlayer ==
  ASSUME ShapeInv, NEW p \in Players, NEW w \in Workers, PostTask(p, w),
         NEW q \in Players, PlayerInv(q)
  PROVE  PlayerInv(q)'
<1>1. PICK task, z : task = worker[p][w].task /\ z = worker[p][w].to
  OBVIOUS
<1>2. /\ TypeOK /\ task \in Task /\ task.type # "enter" /\ z \in Threads
      /\ EnqueueByZone(z, task)
  BY <1>1
  DEF PostTask, ShapeInv, RouteInv, WorkerFits, TypeOK, IoOK, WorkerStates
<1>3. EntersStay(q)
  BY <1>2, AppendStays
<1>4. SelfStays(q) /\ RunStays(q)
  BY DEF PostTask, SelfStays, RunStays, session, registry, user
<1> QED BY <1>3, <1>4, StaysLemma

\* The DB thread's answer.
LEMMA DBAnswersLoginPlayer ==
  ASSUME ShapeInv, NEW p \in Players, DBAnswersLogin(p),
         NEW q \in Players, PlayerInv(q)
  PROVE  PlayerInv(q)'
<1>1. PICK c \in Cells : EnqueueByZone(ZoneOf[c], MkTask("login", p, c))
  BY DEF DBAnswersLogin
<1>2. PICK task, z : task = MkTask("login", p, c) /\ z = ZoneOf[c]
  OBVIOUS
<1>3. /\ TypeOK /\ task \in Task /\ task.type # "enter" /\ z \in Threads
      /\ EnqueueByZone(z, task)
  BY <1>1, <1>2, ConstantsAssumption
  DEF ShapeInv, MkTask, Task, TaskTypes, Threads
<1>4. EntersStay(q)
  BY <1>3, AppendStays
<1>5. SelfStays(q) /\ RunStays(q)
  BY DEF DBAnswersLogin, SelfStays, RunStays, session, registry, user
<1> QED BY <1>4, <1>5, StaysLemma

\* Login requests and close tasks leave their queue.
LEMMA DispatchLoginPlayer ==
  ASSUME ShapeInv, NEW t \in Threads, DispatchLogin(t) \/ CloseSession(t),
         NEW q \in Players, PlayerInv(q)
  PROVE  PlayerInv(q)'
<1>1. /\ TypeOK /\ queue[t] # <<>> /\ Pop(t) /\ UNCHANGED run
      /\ Head(queue[t]).type # "enter"
  BY DEF ShapeInv, DispatchLogin, CloseSession, Takes
<1>2. SelfStays(q)
  BY DEF DispatchLogin, CloseSession, SelfStays, session, registry, user
<1> QED BY <1>1, <1>2, DropPlayer

\* A player that a thread has handled without owning it is never trusted
\* again.
LEMMA StrayStays == [Next]_vars => stray \subseteq stray'
<1> SUFFICES ASSUME [Next]_vars PROVE stray \subseteq stray'
  OBVIOUS
<1>1. CASE UNCHANGED vars
  BY <1>1 DEF vars, observed
<1>2. ASSUME NEW p \in Players, IoStep(p) PROVE stray \subseteq stray'
  BY <1>2
  DEF IoStep, RecvLogin, RecvGamePacket, RecvPacket, PostTask, IoFails,
      CloseSocket, LookupOwner, DBAnswersLogin, DBRefusesLogin, observed
<1>3. ASSUME NEW t \in Threads, ThreadStep(t) PROVE stray \subseteq stray'
  <2>1. CASE DispatchGamePacket(t)
    BY <2>1 DEF DispatchGamePacket, NoteHandling, observed
  <2>2. CASE DisconnectLeave(t)
    BY <2>2 DEF DisconnectLeave, NoteHandling, observed
  <2>3. CASE LoginFallback(t)
    BY <2>3 DEF LoginFallback
  <2>4. CASE ~DispatchGamePacket(t) /\ ~DisconnectLeave(t) /\ ~LoginFallback(t)
    <3>1. UNCHANGED observed
      BY <1>3, <2>4
      DEF ThreadStep, DispatchLogin, LoginInsert, LoginBind, LoginPlace,
          LoginMap, LoginRoute, LoginAck, HandleItem, HandlePlayerMove,
          TransferLeave, TransferZone, TransferMap, TransferRoute,
          TransferPost, EnterPlace, EnterDone, DisconnectBusy,
          DisconnectClose, DisconnectDelete, DisconnectUnmap, CloseSession
    <3> QED BY <3>1 DEF observed
  <2> QED BY <2>1, <2>2, <2>3, <2>4
<1> QED BY <1>1, <1>2, <1>3 DEF Next

\* Every step keeps the invariant of every player that is not stray after
\* it.
LEMMA PlayerStep ==
  ASSUME ShapeInv, [Next]_vars, NEW q \in Players \ stray', PlayerInv(q)
  PROVE  PlayerInv(q)'
<1>1. CASE UNCHANGED vars
  BY <1>1, AsidePlayer DEF vars, session
<1>2. ASSUME NEW p \in Players, IoStep(p) PROVE PlayerInv(q)'
  <2>1. CASE \E w \in Workers : PostTask(p, w)
    BY <2>1, PostTaskPlayer
  <2>2. CASE DBAnswersLogin(p)
    BY <2>2, DBAnswersLoginPlayer
  <2>3. CASE \/ RecvLogin(p) \/ RecvGamePacket(p) \/ DBRefusesLogin(p)
             \/ \E w \in Workers : \/ IoFails(p, w) \/ CloseSocket(p, w)
                                   \/ LookupOwner(p, w)
    <3>1. UNCHANGED <<registry, user, state, bound, routing, queue, run>>
      BY <2>3
      DEF RecvLogin, RecvGamePacket, RecvPacket, IoFails, CloseSocket,
          LookupOwner, DBRefusesLogin, session
    <3> QED BY <3>1, AsidePlayer
  <2> QED BY <1>2, <2>1, <2>2, <2>3 DEF IoStep
<1>3. ASSUME NEW t \in Threads, ThreadStep(t) PROVE PlayerInv(q)'
  BY <1>3, DispatchLoginPlayer, LoginInsertPlayer, LoginBindPlayer,
     LoginPlacePlayer, LoginFallbackPlayer, LoginMapPlayer,
     LoginRoutePlayer, LoginAckPlayer,
     DispatchGamePacketPlayer, HandleItemPlayer, HandlePlayerMovePlayer,
     TransferLeavePlayer, TransferZonePlayer, TransferMapPlayer,
     TransferRoutePlayer, TransferPostPlayer, EnterPlacePlayer,
     EnterDonePlayer, DisconnectBusyPlayer, DisconnectLeavePlayer,
     DisconnectClosePlayer, DisconnectDeletePlayer, DisconnectUnmapPlayer
  DEF ThreadStep
<1> QED BY <1>1, <1>2, <1>3 DEF Next

\* Server start: nobody has logged in.
LEMMA PlayerInit == ASSUME Init, NEW p \in Players PROVE PlayerInv(p)
<1>1. AtRest(p) /\ ~EnterPending(p) /\ \A z \in Threads : EnterOnce(z, p)
  BY ConstantsAssumption
  DEF Init, AtRest, EnterPending, EnterIn, EnterOnce, Idle, At
<1>2. Fresh(p) /\ Gone(p)
  BY <1>1 DEF Init, Fresh, Gone, KnownIn
<1>3. \A c \in Cells : p \in grid[c] <=> sector[p] = c
  BY ConstantsAssumption DEF Init, NoSector
<1>4. \A z \in Threads : ~EnterIn(z, p)
  BY <1>1 DEF EnterPending
<1>5. \A t \in Threads : run[t].p # p
  BY <1>1 DEF AtRest
<1> QED BY <1>1, <1>2, <1>3, <1>4, <1>5 DEF Init, PlayerInv

-----------------------------------------------------------------------------
\* The inductive invariant of the protocol holds in every reachable state,
\* for any number of players, zones, cells and packets.
THEOREM ProtocolCorrect == Spec => []ProtocolInv
<1>1. Init => ProtocolInv
  BY ShapeInit, PlayerInit DEF ProtocolInv, ShapeInv
<1>2. ProtocolInv /\ [Next]_vars => ProtocolInv'
  <2> SUFFICES ASSUME ProtocolInv, [Next]_vars PROVE ProtocolInv'
    OBVIOUS
  <2>1. ShapeInv
    BY DEF ProtocolInv, ShapeInv
  <2>2. ASSUME NEW q \in Players \ stray' PROVE PlayerInv(q)'
    <3>1. PlayerInv(q)
      BY StrayStays DEF ProtocolInv
    <3> QED BY <2>1, <3>1, PlayerStep
  <2> QED BY <2>1, <2>2, ShapeStep DEF ProtocolInv, ShapeInv
<1> QED BY <1>1, <1>2, PTL DEF Spec

\* A grid never holds a player that does not exist or that is recorded
\* elsewhere, and a recorded player is in its grid.
THEOREM SectorsCorrect == Spec => []SectorConsistent
<1>1. ProtocolInv => SectorConsistent
  <2> SUFFICES ASSUME ProtocolInv, NEW p \in Players \ stray, NEW c \in Cells
               PROVE  p \in grid[c] <=> p \in objects /\ sector[p] = c
    BY DEF SectorConsistent
  <2>1. PlayerInv(p)
    BY DEF ProtocolInv
  <2> QED BY <2>1, ConstantsAssumption DEF PlayerInv, Gone, NoSector
<1> QED BY <1>1, ProtocolCorrect, PTL

\* A player at rest and not between two zones is registered with one zone:
\* its grid, its own m_zoneId, the object map and the session's route.
THEOREM ZonesCorrect == Spec => []ZonesAgree
<1>1. ProtocolInv => ZonesAgree
  <2> SUFFICES ASSUME ProtocolInv, NEW p \in objects \ stray,
                      AtRest(p), ~transferring[p]
               PROVE  \E z \in Zones : KnownIn(p, z) /\ InSector(p, z)
    BY DEF ZonesAgree
  <2>1. p \in Players /\ PlayerInv(p)
    BY DEF ProtocolInv, TypeOK, RegistryOK
  <2>2. ~EnterPending(p)
    BY <2>1 DEF PlayerInv, EnterPending
  <2>3. KnownIn(p, zoneId[p]) /\ InSector(p, zoneId[p])
    BY <2>1, <2>2 DEF PlayerInv
  <2>4. zoneId[p] \in Zones
    BY <2>3, ConstantsAssumption DEF InSector
  <2> QED BY <2>3, <2>4
<1> QED BY <1>1, ProtocolCorrect, PTL

\* One thread at a time works on a player, and only the transfer's own
\* steps do while the transferring flag is up.
THEOREM OneHandlerCorrect == Spec => []OneHandler
<1>1. ProtocolInv => OneHandler
  <2> SUFFICES ASSUME ProtocolInv, NEW p \in Players \ stray,
                      NEW t \in Threads, run[t].p = p
               PROVE  /\ \A u \in Threads : run[u].p = p => u = t
                      /\ transferring[p] =>
                           run[t].op \in TransferOps \cup {"enter_done"}
    BY DEF OneHandler, TransferOps
  <2>1. PlayerInv(p)
    BY DEF ProtocolInv
  <2>2. AtOp(t, p) /\ \A u \in Threads : run[u].p = p => u = t
    BY <2>1 DEF PlayerInv
  <2>3. run[t].op = "login_bind" => ~transferring[p]
    BY <2>1, <2>2 DEF PlayerInv, AtOp, Fresh
  <2>4. run[t].op \in Ops /\ run[t].op # "idle"
    BY ConstantsAssumption
    DEF ProtocolInv, TypeOK, RunStates, RouteInv, RunFits
  <2>5. transferring[p] =>
          run[t].op \notin {"login_place", "login_map", "login_route",
                            "login_ack", "move", "item"} \cup EndingOps
    BY <2>2 DEF AtOp
  <2> QED BY <2>2, <2>3, <2>4, <2>5 DEF Ops, TransferOps, EndingOps
<1> QED BY <1>1, ProtocolCorrect, PTL

\* The transferring flag is never left up with nobody to take it down: a
\* thread is inside the transfer, or exactly one HandleEnterZone waits in
\* the queue of the zone all the registries name.
THEOREM TransferCorrect == Spec => []TransferInHand
<1>1. ProtocolInv => TransferInHand
  <2> SUFFICES ASSUME ProtocolInv, NEW p \in Players \ stray,
                      transferring[p], \A t \in Threads : run[t].p # p
               PROVE  \E z \in Zones : \E i \in DOMAIN queue[z] :
                        /\ EnterAt(z, i, p)
                        /\ KnownIn(p, z)
                        /\ \A y \in Threads : \A j \in DOMAIN queue[y] :
                             EnterAt(y, j, p) => y = z /\ j = i
    BY DEF TransferInHand
  <2>1. PlayerInv(p) /\ AtRest(p)
    BY DEF ProtocolInv, AtRest
  <2>2. p \in objects /\ EnterPending(p)
    BY <2>1 DEF PlayerInv, Gone
  <2>3. PICK z \in Threads : EnterIn(z, p)
    BY <2>2 DEF EnterPending
  <2>4. PICK i \in DOMAIN queue[z] : EnterAt(z, i, p)
    BY <2>3 DEF EnterIn
  <2>5. TaskFits(queue[z][i], z)
    BY <2>4 DEF ProtocolInv, RouteInv, QueuesFit
  <2>6. z \in Zones
    BY <2>4, <2>5, ConstantsAssumption DEF EnterAt, TaskFits
  <2>7. KnownIn(p, z)
    BY <2>1, <2>3 DEF PlayerInv
  <2>8. ASSUME NEW y \in Threads, NEW j \in DOMAIN queue[y], EnterAt(y, j, p)
        PROVE  y = z /\ j = i
    <3>1. KnownIn(p, y)
      BY <2>1, <2>8 DEF PlayerInv, EnterIn
    <3>2. y = z
      BY <2>7, <3>1 DEF KnownIn
    <3> QED BY <2>1, <2>4, <2>8, <3>2 DEF PlayerInv, EnterOnce
  <2> QED BY <2>4, <2>6, <2>7, <2>8
<1> QED BY <1>1, ProtocolCorrect, PTL

-----------------------------------------------------------------------------
(***************************************************************************)
(* A queued Disconnect is never lost: the safety half of                   *)
(* DisconnectCompletes.  Nothing here is needed of who handles whom, so it *)
(* holds for the stray players too.                                        *)
(***************************************************************************)

\* The task of q's Disconnect is among the tasks s.
DisconnectAmong(s, q) ==
  \E i \in DOMAIN s : s[i].type = "disconnect" /\ s[i].p = q

\* A thread has taken q's Disconnect and has not yet deleted the User.
Disconnecting(t, q) == run[t].p = q /\ run[t].op \in {"close_session", "delete"}

DisconnectInHand(q) ==
  DisconnectPending(q) \/ \E t \in Threads : Disconnecting(t, q)

\* A queue that grows at its end or loses another task at its front still
\* holds q's Disconnect, and an appended one is in it.
LEMMA AmongLemma ==
  ASSUME NEW s \in Seq(Task), NEW q
  PROVE  /\ \A task \in Task :
              /\ DisconnectAmong(s, q) => DisconnectAmong(Append(s, task), q)
              /\ task.type = "disconnect" /\ task.p = q
                   => DisconnectAmong(Append(s, task), q)
         /\ s # <<>> /\ DisconnectAmong(s, q)
              => \/ DisconnectAmong(Tail(s), q)
                 \/ Head(s).type = "disconnect" /\ Head(s).p = q
<1>1. ASSUME NEW task \in Task, DisconnectAmong(s, q)
      PROVE  DisconnectAmong(Append(s, task), q)
  <2>1. PICK i \in DOMAIN s : s[i].type = "disconnect" /\ s[i].p = q
    BY <1>1 DEF DisconnectAmong
  <2>2. i \in DOMAIN Append(s, task) /\ Append(s, task)[i] = s[i]
    OBVIOUS
  <2> QED BY <2>1, <2>2 DEF DisconnectAmong
<1>2. ASSUME NEW task \in Task, task.type = "disconnect", task.p = q
      PROVE  DisconnectAmong(Append(s, task), q)
  <2>1. /\ Len(s) + 1 \in DOMAIN Append(s, task)
        /\ Append(s, task)[Len(s) + 1] = task
    OBVIOUS
  <2> QED BY <1>2, <2>1 DEF DisconnectAmong
<1>3. ASSUME s # <<>>, DisconnectAmong(s, q),
             ~(Head(s).type = "disconnect" /\ Head(s).p = q)
      PROVE  DisconnectAmong(Tail(s), q)
  <2>1. PICK i \in DOMAIN s : s[i].type = "disconnect" /\ s[i].p = q
    BY <1>3 DEF DisconnectAmong
  <2>2. Head(s) = s[1]
    BY <1>3
  <2>3. i # 1
    BY <1>3, <2>1, <2>2
  <2>4. i - 1 \in DOMAIN Tail(s) /\ Tail(s)[i - 1] = s[i]
    BY <1>3, <2>3
  <2> QED BY <2>1, <2>4 DEF DisconnectAmong
<1> QED BY <1>1, <1>2, <1>3

\* The same of all the queues.
LEMMA PendingLemma ==
  ASSUME TypeOK, NEW q
  PROVE  /\ DisconnectPending(q) <=>
              \E z \in Threads : DisconnectAmong(queue[z], q)
         /\ DisconnectPending(q)' <=>
              \E z \in Threads : DisconnectAmong(queue'[z], q)
         /\ \A z \in Threads, task \in Task :
              EnqueueByZone(z, task) /\ DisconnectPending(q)
                => DisconnectPending(q)'
         /\ \A t \in Threads :
              queue[t] # <<>> /\ Pop(t) /\ DisconnectPending(q)
                => \/ DisconnectPending(q)'
                   \/ Head(queue[t]).type = "disconnect" /\ Head(queue[t]).p = q
         /\ UNCHANGED queue /\ DisconnectPending(q) => DisconnectPending(q)'
<1>1. /\ DisconnectPending(q) <=>
           \E z \in Threads : DisconnectAmong(queue[z], q)
      /\ DisconnectPending(q)' <=>
           \E z \in Threads : DisconnectAmong(queue'[z], q)
  BY DEF DisconnectPending, DisconnectAmong
<1>2. queue \in [Threads -> Seq(Task)]
  BY DEF TypeOK
<1>3. ASSUME NEW z \in Threads, NEW task \in Task, EnqueueByZone(z, task),
             DisconnectPending(q)
      PROVE  DisconnectPending(q)'
  <2>1. PICK y \in Threads : DisconnectAmong(queue[y], q)
    BY <1>1, <1>3
  <2>2. queue'[y] = IF y = z THEN Append(queue[y], task) ELSE queue[y]
    BY <1>2, <1>3 DEF EnqueueByZone
  <2>3. DisconnectAmong(queue'[y], q)
    BY <1>2, <2>1, <2>2, AmongLemma
  <2> QED BY <1>1, <2>3
<1>4. ASSUME NEW t \in Threads, queue[t] # <<>>, Pop(t), DisconnectPending(q),
             ~(Head(queue[t]).type = "disconnect" /\ Head(queue[t]).p = q)
      PROVE  DisconnectPending(q)'
  <2>1. PICK y \in Threads : DisconnectAmong(queue[y], q)
    BY <1>1, <1>4
  <2>2. queue'[y] = IF y = t THEN Tail(queue[y]) ELSE queue[y]
    BY <1>2, <1>4 DEF Pop
  <2>3. DisconnectAmong(queue'[y], q)
    BY <1>2, <1>4, <2>1, <2>2, AmongLemma
  <2> QED BY <1>1, <2>3
<1>5. UNCHANGED queue /\ DisconnectPending(q) => DisconnectPending(q)'
  BY <1>1
<1> QED BY <1>1, <1>3, <1>4, <1>5

\* A step that keeps q's Disconnect in the queues and takes no thread away
\* from it.
LEMMA HandLemma ==
  ASSUME NEW q, DisconnectInHand(q),
         DisconnectPending(q) => DisconnectInHand(q)',
         \A t \in Threads : Disconnecting(t, q) => run'[t] = run[t]
  PROVE  DisconnectInHand(q)'
BY DEF DisconnectInHand, Disconnecting

\* A running task of another kind makes a store, or ends.
LEMMA OtherOpKeeps ==
  ASSUME ShapeInv, NEW q, DisconnectInHand(q), NEW t \in Threads,
         NEW op \in Ops \ {"idle", "close_session", "delete"},
         NEW next \in Ops, Advance(t, op, next),
         DisconnectPending(q) => DisconnectPending(q)'
  PROVE  DisconnectInHand(q)'
<1>1. \A u \in Threads : Disconnecting(u, q) => run'[u] = run[u]
  BY AdvanceLemma DEF Disconnecting
<1> QED BY <1>1, HandLemma DEF DisconnectInHand

\* An idle thread takes a task of another kind, or q's neighbour's.
LEMMA OtherTaskKeeps ==
  ASSUME ShapeInv, NEW q, DisconnectInHand(q), NEW t \in Threads,
         run[t].op = "idle", queue[t] # <<>>, Pop(t),
         Head(queue[t]).type # "disconnect" \/ Head(queue[t]).p # q,
         \A u \in Threads \ {t} : run'[u] = run[u]
  PROVE  DisconnectInHand(q)'
<1>1. DisconnectPending(q) => DisconnectPending(q)'
  BY PendingLemma DEF ShapeInv
<1>2. \A u \in Threads : Disconnecting(u, q) => run'[u] = run[u]
  BY DEF Disconnecting
<1> QED BY <1>1, <1>2, HandLemma DEF DisconnectInHand

\* Steps that post a task or leave the queues alone, outside the threads.
LEMMA IoKeeps ==
  ASSUME ShapeInv, NEW q, DisconnectInHand(q), NEW p \in Players, IoStep(p)
  PROVE  DisconnectInHand(q)'
<1>1. run' = run
  BY DEF IoStep, RecvLogin, RecvGamePacket, RecvPacket, PostTask, IoFails,
         CloseSocket, LookupOwner, DBAnswersLogin, DBRefusesLogin
<1>2. DisconnectPending(q) => DisconnectPending(q)'
  <2>1. ASSUME NEW w \in Workers, PostTask(p, w), DisconnectPending(q)
        PROVE  DisconnectPending(q)'
    <3>1. worker[p][w] \in WorkerStates /\ WorkerFits(p, w)
          /\ worker[p][w].pc = "posting"
      BY <2>1 DEF PostTask, ShapeInv, TypeOK, IoOK, RouteInv
    <3>2. worker[p][w].task \in Task /\ worker[p][w].to \in Threads
      BY <3>1 DEF WorkerFits, WorkerStates
    <3> QED BY <2>1, <3>2, PendingLemma DEF PostTask, ShapeInv
  <2>2. ASSUME DBAnswersLogin(p), DisconnectPending(q)
        PROVE  DisconnectPending(q)'
    <3>1. PICK c \in Cells : EnqueueByZone(ZoneOf[c], MkTask("login", p, c))
      BY <2>2 DEF DBAnswersLogin
    <3>2. MkTask("login", p, c) \in Task /\ ZoneOf[c] \in Threads
      BY ConstantsAssumption DEF MkTask, Task, TaskTypes, PacketTypes, Threads
    <3> QED BY <2>2, <3>1, <3>2, PendingLemma DEF ShapeInv
  <2>3. CASE \/ RecvLogin(p) \/ RecvGamePacket(p) \/ DBRefusesLogin(p)
             \/ \E w \in Workers : \/ IoFails(p, w) \/ CloseSocket(p, w)
                                   \/ LookupOwner(p, w)
    <3>1. UNCHANGED queue
      BY <2>3 DEF RecvLogin, RecvGamePacket, RecvPacket, IoFails, CloseSocket,
                  LookupOwner, DBRefusesLogin
    <3> QED BY <3>1, PendingLemma DEF ShapeInv
  <2> QED BY <2>1, <2>2, <2>3 DEF IoStep
<1> QED BY <1>1, <1>2, HandLemma DEF DisconnectInHand

\* A store of a running task that is no Disconnect.
LEMMA StoreKeeps ==
  ASSUME ShapeInv, NEW q, DisconnectInHand(q), NEW t \in Threads,
         \/ LoginBind(t) \/ LoginPlace(t) \/ LoginFallback(t) \/ LoginMap(t)
         \/ LoginRoute(t) \/ LoginAck(t) \/ HandleItem(t) \/ HandlePlayerMove(t)
         \/ TransferLeave(t) \/ TransferZone(t) \/ TransferMap(t)
         \/ TransferRoute(t) \/ TransferPost(t) \/ EnterDone(t)
  PROVE  DisconnectInHand(q)'
<1>1. CASE TransferPost(t)
  <2>1. /\ Advance(t, "transfer_post", "idle")
        /\ EnqueueByZone(ZoneOf[run[t].c], MkTask("enter", run[t].p, run[t].c))
    BY <1>1 DEF TransferPost
  <2>2. run[t].op = "transfer_post" /\ run[t].p \in Players
    BY <2>1, AdvanceLemma DEF Ops
  <2>3. run[t].c \in Cells
    BY <2>2 DEF ShapeInv, RouteInv, RunFits, TransferOps
  <2>4. /\ MkTask("enter", run[t].p, run[t].c) \in Task
        /\ ZoneOf[run[t].c] \in Threads
    BY <2>2, <2>3, ConstantsAssumption DEF MkTask, Task, TaskTypes, Threads
  <2>5. DisconnectPending(q) => DisconnectPending(q)'
    BY <2>1, <2>4, PendingLemma DEF ShapeInv
  <2> QED BY <2>1, <2>5, OtherOpKeeps DEF Ops
<1>2. CASE ~TransferPost(t)
  <2>1. UNCHANGED queue
    BY <1>2
    DEF LoginBind, LoginPlace, LoginFallback, LoginMap, LoginRoute, LoginAck,
        HandleItem,
        HandlePlayerMove, TransferLeave, TransferZone, TransferMap,
        TransferRoute, EnterDone
  <2>2. DisconnectPending(q) => DisconnectPending(q)'
    BY <2>1, PendingLemma DEF ShapeInv
  <2>3. \E op \in Ops \ {"idle", "close_session", "delete"}, next \in Ops :
          Advance(t, op, next)
    <3>1. \/ Advance(t, "login_bind", "login_place")
          \/ Advance(t, "login_place", "login_map")
          \/ Advance(t, "login_place", "login_ack")
          \/ Advance(t, "login_map", "login_route")
          \/ Advance(t, "login_route", "login_ack")
          \/ Advance(t, "login_ack", "idle")
          \/ Advance(t, "item", "idle")
          \/ Advance(t, "move", "idle")
          \/ Advance(t, "move", "transfer_zone")
          \/ Advance(t, "transfer_zone", "transfer_map")
          \/ Advance(t, "transfer_map", "transfer_route")
          \/ Advance(t, "transfer_route", "transfer_post")
          \/ Advance(t, "enter_done", "idle")
      BY <1>2
      DEF LoginBind, LoginPlace, LoginFallback, LoginMap, LoginRoute, LoginAck,
        HandleItem,
          HandlePlayerMove, TransferLeave, TransferZone, TransferMap,
          TransferRoute, EnterDone
    <3> HIDE DEF Advance
    <3> QED BY <3>1 DEF Ops
  <2> QED BY <2>2, <2>3, OtherOpKeeps
<1> QED BY <1>1, <1>2

\* A task that is no Disconnect is taken.
LEMMA TakeKeeps ==
  ASSUME ShapeInv, NEW q, DisconnectInHand(q), NEW t \in Threads,
         \/ DispatchLogin(t) \/ LoginInsert(t) \/ DispatchGamePacket(t)
         \/ EnterPlace(t) \/ CloseSession(t)
  PROVE  DisconnectInHand(q)'
<1>1. /\ run[t].op = "idle" /\ queue[t] # <<>> /\ Pop(t)
      /\ Head(queue[t]).type # "disconnect"
  BY DEF DispatchLogin, LoginInsert, DispatchGamePacket, EnterPlace,
         CloseSession, Takes, PopTo
<1>2. run' = run \/ \E op : PopTo(t, op)
  BY DEF DispatchLogin, LoginInsert, DispatchGamePacket, EnterPlace,
         CloseSession
<1>3. \A u \in Threads \ {t} : run'[u] = run[u]
  BY <1>2 DEF PopTo, ShapeInv, TypeOK
<1> QED BY <1>1, <1>3, OtherTaskKeeps

\* The steps of a Disconnect itself: it is sent on, begun, or it ends with
\* the User out of the world.
LEMMA DisconnectKeeps ==
  ASSUME ShapeInv, NEW q \in Players, DisconnectInHand(q), NEW t \in Threads,
         \/ DisconnectBusy(t) \/ DisconnectLeave(t) \/ DisconnectClose(t)
         \/ DisconnectDelete(t) \/ DisconnectUnmap(t)
  PROVE  DisconnectInHand(q)' \/ q \notin objects'
<1>1. queue \in [Threads -> Seq(Task)] /\ run \in [Threads -> RunStates] /\ TypeOK
  BY DEF ShapeInv, TypeOK
<1>2. CASE DisconnectBusy(t)
  <2> DEFINE task == Head(queue[t])
             rest == [queue EXCEPT ![t] = Tail(queue[t])]
             z    == zoneId[task.p]
  <2>1. /\ queue[t] # <<>> /\ z \in Zones /\ UNCHANGED run
        /\ task.type = "disconnect"
        /\ queue' = [rest EXCEPT ![z] = Append(rest[z], task)]
    BY <1>1, <1>2 DEF DisconnectBusy, Takes, Busy
  <2>2. task \in Task /\ rest \in [Threads -> Seq(Task)] /\ z \in Threads
    <3>1. Tail(queue[t]) \in Seq(Task) BY <1>1, <2>1
    <3>2. task \in Task BY <2>1, PopLemma DEF ShapeInv, RouteInv
    <3> QED BY <1>1, <2>1, <3>1, <3>2 DEF Threads
  <2>3. /\ queue'[z] = Append(rest[z], task)
        /\ \A y \in Threads \ {z} : queue'[y] = rest[y]
        /\ \A y \in Threads : rest[y] \in Seq(Task)
    <3> HIDE DEF rest, task, z
    <3> QED BY <2>1, <2>2
  <2>4. ASSUME DisconnectPending(q) PROVE DisconnectPending(q)'
    <3>1. PICK y \in Threads : DisconnectAmong(queue[y], q)
      BY <1>1, <2>4, PendingLemma
    <3>2. CASE task.p = q
      <4>1. DisconnectAmong(queue'[z], q)
        <5> HIDE DEF rest, task, z
        <5>1. rest[z] \in Seq(Task) /\ task \in Task /\ task.type = "disconnect"
          BY <2>1, <2>2, <2>3
        <5>2. DisconnectAmong(Append(rest[z], task), q)
          BY <3>2, <5>1, AmongLemma
        <5> QED BY <2>3, <5>2
      <4> QED BY <1>1, <2>2, <4>1, PendingLemma
    <3>3. CASE task.p # q
      <4>1. DisconnectAmong(rest[y], q)
        <5>1. rest[y] = IF y = t THEN Tail(queue[y]) ELSE queue[y]
          BY <1>1
        <5> QED BY <1>1, <2>1, <3>1, <3>3, <5>1, AmongLemma
      <4>2. DisconnectAmong(queue'[y], q)
        <5> HIDE DEF rest, task, z
        <5>1. rest[y] \in Seq(Task) /\ task \in Task
          BY <2>2, <2>3
        <5>2. DisconnectAmong(Append(rest[y], task), q)
          BY <4>1, <5>1, AmongLemma
        <5>3. queue'[y] = Append(rest[y], task) \/ queue'[y] = rest[y]
          BY <2>3
        <5> QED BY <4>1, <5>2, <5>3
      <4> QED BY <1>1, <4>2, PendingLemma
    <3> QED BY <3>2, <3>3
  <2> QED BY <2>1, <2>4, HandLemma DEF DisconnectInHand
<1>3. CASE DisconnectLeave(t)
  <2>1. run[t].op = "idle" /\ queue[t] # <<>> /\ Pop(t)
    BY <1>3 DEF DisconnectLeave, Takes, PopTo
  <2>2. CASE Head(queue[t]).p # q
    <3>1. run' = run \/ \E op : PopTo(t, op)
      BY <1>3 DEF DisconnectLeave
    <3>2. \A u \in Threads \ {t} : run'[u] = run[u]
      BY <1>1, <3>1 DEF PopTo
    <3> QED BY <2>1, <2>2, <3>2, OtherTaskKeeps
  <2>3. CASE Head(queue[t]).p = q /\ q \in objects
    <3>1. PopTo(t, "close_session")
      BY <1>3, <2>3 DEF DisconnectLeave
    <3>2. run'[t].p = q /\ run'[t].op = "close_session"
      BY <2>1, <2>3, <3>1, PopToLemma DEF Ops
    <3> QED BY <3>2 DEF DisconnectInHand, Disconnecting
  <2>4. CASE q \notin objects
    BY <1>3, <2>4 DEF DisconnectLeave, registry
  <2> QED BY <2>2, <2>3, <2>4
<1>4. CASE DisconnectClose(t)
  <2>1. Advance(t, "close_session", "delete") /\ UNCHANGED queue
    BY <1>4 DEF DisconnectClose
  <2>2. /\ \A u \in Threads \ {t} : run'[u] = run[u]
        /\ run'[t].op = "delete" /\ run'[t].p = run[t].p
    BY <2>1, AdvanceLemma DEF Ops
  <2>3. DisconnectPending(q) => DisconnectPending(q)'
    BY <1>1, <2>1, PendingLemma
  <2> QED BY <2>2, <2>3 DEF DisconnectInHand, Disconnecting
<1>5. CASE DisconnectDelete(t)
  <2>1. /\ Advance(t, "delete", "unmap") /\ UNCHANGED queue
        /\ objects' = objects \ {run[t].p}
    BY <1>5 DEF DisconnectDelete
  <2>2. CASE run[t].p = q
    BY <2>1, <2>2
  <2>3. CASE run[t].p # q
    <3>1. \A u \in Threads \ {t} : run'[u] = run[u]
      BY <2>1, AdvanceLemma DEF Ops
    <3>2. \A u \in Threads : Disconnecting(u, q) => run'[u] = run[u]
      BY <2>3, <3>1 DEF Disconnecting
    <3>3. DisconnectPending(q) => DisconnectPending(q)'
      BY <1>1, <2>1, PendingLemma
    <3> QED BY <3>2, <3>3, HandLemma DEF DisconnectInHand
  <2> QED BY <2>2, <2>3
<1>6. CASE DisconnectUnmap(t)
  <2>1. Advance(t, "unmap", "idle") /\ UNCHANGED queue
    BY <1>6 DEF DisconnectUnmap
  <2>2. DisconnectPending(q) => DisconnectPending(q)'
    BY <1>1, <2>1, PendingLemma
  <2> QED BY <2>1, <2>2, OtherOpKeeps DEF Ops
<1> QED BY <1>2, <1>3, <1>4, <1>5, <1>6

\* No step loses the Disconnect of a User that is in the world: it waits in
\* a queue, is sent on behind a transfer, or a thread is in the middle of
\* it, until GameObjectManager has erased the User (WorkerThread::Disconnect).
DisconnectKept ==
  [][\A q \in Players :
       DisconnectInHand(q) => DisconnectInHand(q)' \/ q \notin objects']_vars

\* It holds of every step, whatever the other handlers are doing
\* (WorkerThread::Disconnect posts the task again behind a transfer).
THEOREM DisconnectKeptCorrect == Spec => DisconnectKept
<1> DEFINE A == \A q \in Players :
                  DisconnectInHand(q) => DisconnectInHand(q)' \/ q \notin objects'
<1>1. ASSUME ShapeInv, Next PROVE A
  <2> SUFFICES ASSUME NEW q \in Players, DisconnectInHand(q)
               PROVE  DisconnectInHand(q)' \/ q \notin objects'
    OBVIOUS
  <2>1. ASSUME NEW p \in Players, IoStep(p) PROVE DisconnectInHand(q)'
    BY <1>1, <2>1, IoKeeps
  <2>2. ASSUME NEW t \in Threads, ThreadStep(t)
        PROVE  DisconnectInHand(q)' \/ q \notin objects'
    BY <1>1, <2>2, StoreKeeps, TakeKeeps, DisconnectKeeps DEF ThreadStep
  <2> QED BY <1>1, <2>1, <2>2 DEF Next
<1>2. ShapeInv /\ [Next]_vars => [A]_vars
  BY <1>1
<1>3. [][A]_vars => DisconnectKept
  BY DEF DisconnectKept
<1> QED BY <1>2, <1>3, ShapeCorrect, PTL DEF Spec
=============================================================================
