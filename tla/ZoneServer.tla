------------------------------ MODULE ZoneServer ------------------------------
(***************************************************************************)
(* The zone-ownership protocol of the game server: which thread may touch  *)
(* a player, and how a player is handed from one zone thread to another.   *)
(*                                                                         *)
(* Every zone is one GameLogicThread with a FIFO task queue and a private  *)
(* Sector grid (the thread-local GSector); one default thread has a queue  *)
(* and no grid.  IOCP workers turn received packets and broken connections *)
(* into tasks: the destination is read first (the session's routing zone   *)
(* or the ZoneManager's object map) and the task is appended later, so the *)
(* destination can be stale by then.  A zone thread runs its tasks one by  *)
(* one, but other threads see every intermediate store of a running task:  *)
(* each store to state another thread reads is a step of its own here.     *)
(*                                                                         *)
(* Left out: coordinates inside a sector cell, the notifications sent to   *)
(* neighbours, combat and inventory contents.  A task that leaves no trace *)
(* but these is the "item" packet, which stands for every request guarded  *)
(* like the inventory ones.                                                *)
(***************************************************************************)
EXTENDS Naturals, Sequences

CONSTANTS
  Players,      \* sessions; session and User share one object id
  Zones,        \* ids of the zones
  Cells,        \* sector cells of the world
  ZoneOf,       \* the zone a cell lies in (ZoneLayout)
  None,         \* InvalidZoneId, "no sector" and "nobody"
  MaxPackets    \* bound: game packets one client sends

ASSUME ConstantsAssumption ==
  /\ None \notin Players \cup Zones \cup Cells
  /\ ZoneOf \in [Cells -> Zones]
  /\ MaxPackets \in Nat

InvalidZoneId == None
NoSector      == None

\* The default GameLogicThread takes the tasks of InvalidZoneId.
DefaultThread == InvalidZoneId
Threads       == Zones \cup {DefaultThread}

\* The two I/O chains of a session: at most one receive is posted, and at
\* most one send is in flight.
Workers == {"recv", "send"}

VARIABLES
  \* GameSession
  socketOpen,    \* m_socket is not INVALID_SOCKET
  state,         \* m_state
  bound,         \* m_owner has been bound to the User
  routing,       \* m_routingZoneId
  \* registries
  objects,       \* GameObjectManager: the Users that exist
  objectZones,   \* ZoneManager::_objectZones, InvalidZoneId when absent
  \* User
  transferring,  \* m_transferring
  zoneId,        \* Transform::m_zoneId
  sector,        \* Transform::m_sectorX/Y as a cell
  \* threads
  grid,          \* the cells of all the zones' Sector grids
  queue,         \* the task queue of every logic thread
  run,           \* what every logic thread is in the middle of
  worker,        \* what the IOCP worker of each I/O chain is doing
  dbLogin,       \* sessions whose login the DB threads have yet to answer
  client,        \* the client: "new", "asked" to log in, "playing"
  sent,          \* game packets the client has sent
  \* what went wrong, observed by the properties
  stray,         \* players some thread handled without being their owner
  unplaced,      \* players a login has answered but placed in no zone
  crashed        \* a task used GSector on the thread that has none

session  == <<socketOpen, state, bound, routing>>
registry == <<objects, objectZones>>
user     == <<transferring, zoneId, sector, grid>>
io       == <<worker, dbLogin, client, sent>>
observed == <<stray, unplaced, crashed>>
vars     == <<session, registry, user, io, observed, queue, run>>

PacketTypes == {"login_req", "move", "item"}
TaskTypes   == PacketTypes \cup {"login", "enter", "disconnect", "close"}
Task        == [type: TaskTypes, p: Players, c: Cells \cup {None}]

MkTask(type, p, c) == [type |-> type, p |-> p, c |-> c]

\* The point a running task has reached: the next store it will make.
Ops == {"idle", "move", "item",
        "transfer_zone", "transfer_map", "transfer_route", "transfer_post",
        "enter_done", "login_bind", "login_place", "login_map",
        "login_route", "login_ack", "close_session", "delete", "unmap"}

At(op, p, c) == [op |-> op, p |-> p, c |-> c]
Idle         == At("idle", None, None)

WorkerPcs == {"none", "waiting", "posting", "closing", "lookup", "done"}

\* What a worker is doing; for "posting", the task it holds and where to.
Doing(pc)          == [pc |-> pc, task |-> None, to |-> None]
Posting(task, to)  == [pc |-> "posting", task |-> task, to |-> to]

RunStates    == [op: Ops, p: Players \cup {None}, c: Cells \cup {None}]
WorkerStates == [pc: WorkerPcs, task: Task \cup {None}, to: Threads]

SessionOK ==
  /\ socketOpen \in [Players -> BOOLEAN]
  /\ state \in [Players -> {"ST_ALLOC", "ST_INGAME"}]
  /\ bound \in [Players -> BOOLEAN]
  /\ routing \in [Players -> Threads]

RegistryOK ==
  /\ objects \in SUBSET Players
  /\ objectZones \in [Players -> Threads]

UserOK ==
  /\ transferring \in [Players -> BOOLEAN]
  /\ zoneId \in [Players -> Threads]
  /\ sector \in [Players -> Cells \cup {NoSector}]
  /\ grid \in [Cells -> SUBSET Players]

IoOK ==
  /\ worker \in [Players -> [Workers -> WorkerStates]]
  /\ dbLogin \in SUBSET Players
  /\ client \in [Players -> {"new", "asked", "playing"}]
  /\ sent \in [Players -> Nat]

ObservedOK ==
  /\ stray \in SUBSET Players
  /\ unplaced \in SUBSET Players
  /\ crashed \in BOOLEAN

TypeOK ==
  /\ SessionOK /\ RegistryOK /\ UserOK /\ IoOK /\ ObservedOK
  /\ queue \in [Threads -> Seq(Task)]
  /\ run \in [Threads -> RunStates]

-----------------------------------------------------------------------------
\* Accepted sessions: socket attached, ST_ALLOC, first receive posted.

Init ==
  /\ socketOpen = [p \in Players |-> TRUE]
  /\ state = [p \in Players |-> "ST_ALLOC"]
  /\ bound = [p \in Players |-> FALSE]
  /\ routing = [p \in Players |-> InvalidZoneId]
  /\ objects = {}
  /\ objectZones = [p \in Players |-> InvalidZoneId]
  /\ transferring = [p \in Players |-> FALSE]
  /\ zoneId = [p \in Players |-> InvalidZoneId]
  /\ sector = [p \in Players |-> NoSector]
  /\ grid = [c \in Cells |-> {}]
  /\ queue = [t \in Threads |-> <<>>]
  /\ run = [t \in Threads |-> Idle]
  /\ worker = [p \in Players |-> [w \in Workers |->
                 Doing(IF w = "recv" THEN "waiting" ELSE "none")]]
  /\ dbLogin = {}
  /\ client = [p \in Players |-> "new"]
  /\ sent = [p \in Players |-> 0]
  /\ stray = {}
  /\ unplaced = {}
  /\ crashed = FALSE

-----------------------------------------------------------------------------
\* The pieces the handlers share.

\* EnqueueByZone: an invalid zone id falls to the default thread.
EnqueueByZone(z, task) == queue' = [queue EXCEPT ![z] = Append(@, task)]

\* A running task or a worker that has looked the owner up holds the User.
Held(p) ==
  \/ \E t \in Threads : run[t].p = p /\ run[t].op # "login_bind"
  \/ \E w \in Workers : /\ worker[p][w].pc = "posting"
                        /\ worker[p][w].task.type = "disconnect"

\* m_owner is a weak_ptr: it locks while the User is alive.
GetOwner(p) == bound[p] /\ (p \in objects \/ Held(p))

\* ZoneManager::IsCurrentThreadOwner
IsOwner(t, p) == t # DefaultThread /\ objectZones[p] = t

\* Bookkeeping for the properties: t begins to handle p.
NoteHandling(t, p) ==
  /\ stray' = IF IsOwner(t, p) THEN stray ELSE stray \cup {p}
  /\ UNCHANGED unplaced

\* ... and uses GSector, which is null on the default thread.
UseSector(t) == crashed' = (crashed \/ t = DefaultThread)

\* Sector::UpdateObjectSectorAndPosition on thread t's grid, for a cell
\* of t's zone: the old cell is left only when it is in this grid too.
UpdateSector(t, p, c) ==
  IF sector[p] = c
  THEN UNCHANGED <<grid, sector>>
  ELSE /\ grid' = [d \in Cells |->
                     IF d = c THEN grid[d] \cup {p}
                     ELSE IF d = sector[p] /\ ZoneOf[d] = t
                          THEN grid[d] \ {p} ELSE grid[d]]
       /\ sector' = [sector EXCEPT ![p] = c]

\* Sector::RemoveObject on thread t's grid: nothing happens when the
\* recorded cell is not in this grid.
RemoveFromSector(t, p) ==
  IF sector[p] # NoSector /\ ZoneOf[sector[p]] = t
  THEN /\ grid' = [grid EXCEPT ![sector[p]] = @ \ {p}]
       /\ sector' = [sector EXCEPT ![p] = NoSector]
  ELSE UNCHANGED <<grid, sector>>

\* Thread t, at op, makes its next store and goes on to `next`.
Advance(t, op, next) ==
  /\ run[t].op = op
  /\ run' = [run EXCEPT ![t] = IF next = "idle" THEN Idle
                               ELSE [@ EXCEPT !.op = next]]

\* Thread t, idle, pops a task of this type.
Takes(t, type) ==
  /\ run[t].op = "idle"
  /\ queue[t] # <<>>
  /\ Head(queue[t]).type = type

Pop(t) == queue' = [queue EXCEPT ![t] = Tail(@)]

\* ... and goes on with it at op.
PopTo(t, op) ==
  /\ Pop(t)
  /\ run' = [run EXCEPT ![t] = At(op, Head(queue[t]).p, Head(queue[t]).c)]

-----------------------------------------------------------------------------
\* IOCP workers: packets.

\* A completed receive carries a packet; EnqueueBySession reads the route.
RecvPacket(p, type, c) ==
  /\ worker[p]["recv"].pc = "waiting"
  /\ worker' = [worker EXCEPT ![p]["recv"] =
                  Posting(MkTask(type, p, c), routing[p])]
  /\ UNCHANGED <<session, registry, user, observed, dbLogin, queue, run>>

\* The client logs in once, and plays only after the server's answer.
RecvLogin(p) ==
  /\ client[p] = "new"
  /\ client' = [client EXCEPT ![p] = "asked"]
  /\ RecvPacket(p, "login_req", None)
  /\ UNCHANGED sent

RecvGamePacket(p) ==
  /\ client[p] = "playing"
  /\ sent[p] < MaxPackets
  /\ sent' = [sent EXCEPT ![p] = @ + 1]
  /\ \/ \E c \in Cells : RecvPacket(p, "move", c)
     \/ RecvPacket(p, "item", None)
  /\ UNCHANGED client

\* The task reaches the queue; the receive chain then goes on with the
\* packets left in its buffer and with the next receive.
PostTask(p, w) ==
  /\ worker[p][w].pc = "posting"
  /\ EnqueueByZone(worker[p][w].to, worker[p][w].task)
  /\ worker' = [worker EXCEPT ![p][w] =
                  Doing(IF worker[p][w].task.type \in {"disconnect", "close"}
                        THEN "done" ELSE "waiting")]
  /\ UNCHANGED <<session, registry, user, observed, dbLogin, client, sent,
                 run>>

-----------------------------------------------------------------------------
\* IOCP workers: giving a session up (EnqueueDisconnect).

\* A receive or a send fails, or the next receive cannot be posted.
IoFails(p, w) ==
  /\ worker[p][w].pc = "waiting"
  /\ worker' = [worker EXCEPT ![p][w] = Doing("closing")]
  /\ UNCHANGED <<session, registry, user, observed, dbLogin, client, sent,
                 queue, run>>

CloseSocket(p, w) ==
  /\ worker[p][w].pc = "closing"
  /\ worker' = [worker EXCEPT ![p][w] = Doing("lookup")]
  /\ socketOpen' = [socketOpen EXCEPT ![p] = FALSE]
  /\ UNCHANGED <<registry, user, observed, state, bound, routing, dbLogin,
                 client, sent, queue, run>>

\* With an owner the task goes where the object map says; without one the
\* default thread closes the session.
LookupOwner(p, w) ==
  /\ worker[p][w].pc = "lookup"
  /\ worker' = [worker EXCEPT ![p][w] =
                  IF GetOwner(p)
                  THEN Posting(MkTask("disconnect", p, None), objectZones[p])
                  ELSE Posting(MkTask("close", p, None), DefaultThread)]
  /\ UNCHANGED <<session, registry, user, observed, dbLogin, client, sent,
                 queue, run>>

CloseSession(t) ==
  /\ Takes(t, "close")
  /\ Pop(t)
  /\ socketOpen' = [socketOpen EXCEPT ![Head(queue[t]).p] = FALSE]
  /\ UNCHANGED <<registry, user, io, observed, state, bound, routing, run>>

-----------------------------------------------------------------------------
\* Login.  The request is answered by a DB thread.

DispatchLogin(t) ==
  /\ Takes(t, "login_req")
  /\ Pop(t)
  /\ dbLogin' = IF state[Head(queue[t]).p] = "ST_ALLOC"
                THEN dbLogin \cup {Head(queue[t]).p} ELSE dbLogin
  /\ UNCHANGED <<session, registry, user, observed, worker, client, sent,
                 run>>

\* The zone of the saved position, or one chosen for a new account.  Rows
\* hold positions inside the world only (SavePlayerInfo of setup.sql).
DBAnswersLogin(p) ==
  /\ p \in dbLogin
  /\ dbLogin' = dbLogin \ {p}
  /\ \E c \in Cells : EnqueueByZone(ZoneOf[c], MkTask("login", p, c))
  /\ UNCHANGED <<session, registry, user, observed, worker, client, sent,
                 run>>

\* A PostSend on an open socket leaves a send in flight.
SendInFlight(p) ==
  IF socketOpen[p] /\ worker[p]["send"].pc = "none"
  THEN [worker EXCEPT ![p]["send"] = Doing("waiting")]
  ELSE worker

\* The new account could not be inserted: HandleLoginFail answers from the
\* DB thread, and the client may try again.
DBRefusesLogin(p) ==
  /\ p \in dbLogin
  /\ dbLogin' = dbLogin \ {p}
  /\ worker' = SendInFlight(p)
  /\ client' = IF socketOpen[p] THEN [client EXCEPT ![p] = "new"] ELSE client
  /\ UNCHANGED <<session, registry, user, observed, sent, queue, run>>

\* HandleGetUserInfo / HandleAddUserInfo, up to GameObjectManager::Insert.
LoginInsert(t) ==
  LET p == Head(queue[t]).p IN
  /\ Takes(t, "login")
  /\ IF state[p] = "ST_ALLOC" /\ p \notin objects
     THEN PopTo(t, "login_bind") /\ objects' = objects \cup {p}
     ELSE Pop(t) /\ UNCHANGED <<run, objects>>
  /\ UNCHANGED <<session, user, io, observed, objectZones>>

\* BindOwner, SetGameSession, m_state = ST_INGAME
LoginBind(t) ==
  /\ Advance(t, "login_bind", "login_place")
  /\ bound' = [bound EXCEPT ![run[t].p] = TRUE]
  /\ state' = [state EXCEPT ![run[t].p] = "ST_INGAME"]
  /\ UNCHANGED <<registry, user, io, observed, socketOpen, routing, queue>>

\* UpdatePosition: the grid and the User's zone ...
LoginPlace(t) ==
  /\ Advance(t, "login_place", "login_map")
  /\ UpdateSector(t, run[t].p, run[t].c)
  /\ zoneId' = [zoneId EXCEPT ![run[t].p] = ZoneOf[run[t].c]]
  /\ UNCHANGED <<session, registry, io, observed, transferring, queue>>

\* HandleGetUserInfo with a saved position nobody may stand on: it takes a
\* random one of the whole world.  One in another zone is refused by t's Sector: UpdatePosition
\* returns before it has stored anything, and the login is answered all the
\* same.  (One in t's zone is placed like a saved one.)
LoginFallback(t) ==
  /\ Advance(t, "login_place", "login_ack")
  /\ \E c \in Cells : ZoneOf[c] # t
  /\ unplaced' = unplaced \cup {run[t].p}
  /\ stray' = stray \cup {run[t].p}
  /\ UNCHANGED <<session, registry, user, io, crashed, queue>>

\* ... then the object map ...
LoginMap(t) ==
  /\ Advance(t, "login_map", "login_route")
  /\ objectZones' = [objectZones EXCEPT ![run[t].p] = zoneId[run[t].p]]
  /\ UNCHANGED <<session, user, io, observed, objects, queue>>

\* Mutant: the route is left to the first move.
LoginRoute_Skipped(t) ==
  /\ Advance(t, "login_route", "login_ack")
  /\ UNCHANGED <<session, registry, user, io, observed, queue>>

\* ... then the session's route.
LoginRoute(t) ==
  /\ Advance(t, "login_route", "login_ack")
  /\ routing' = [routing EXCEPT ![run[t].p] = ZoneOf[run[t].c]]
  /\ UNCHANGED <<registry, user, io, observed, socketOpen, state, bound,
                 queue>>

\* SendUSER_LOGIN_ACK: if it can be sent, the client plays.
LoginAck(t) ==
  LET p == run[t].p IN
  /\ Advance(t, "login_ack", "idle")
  /\ worker' = SendInFlight(p)
  /\ client' = IF socketOpen[p] THEN [client EXCEPT ![p] = "playing"]
               ELSE client
  /\ UNCHANGED <<session, registry, user, observed, dbLogin, sent, queue>>

-----------------------------------------------------------------------------
\* Route::Dispatch of the game packets.

\* Mutant: the guard on the transferring flag is missing.
Accepts_WhileTransferring(p) == state[p] = "ST_INGAME" /\ GetOwner(p)

Accepts(p) == state[p] = "ST_INGAME" /\ GetOwner(p) /\ ~transferring[p]

\* A packet may also be dropped: the player is dead, or the cooldown of
\* the request has not passed.  Items are used and swapped without GSector;
\* every other request needs it.
DispatchGamePacket(t) ==
  LET task == Head(queue[t]) IN
  /\ Takes(t, "move") \/ Takes(t, "item")
  /\ \/ /\ Accepts(task.p)
        /\ PopTo(t, task.type)
        /\ NoteHandling(t, task.p)
        /\ UseSector(t) \/ (task.type = "item" /\ UNCHANGED crashed)
     \/ Pop(t) /\ UNCHANGED <<run, observed>>
  /\ UNCHANGED <<session, registry, user, io>>

\* The handler of an inventory request runs (its effect is not modelled
\* here; what matters is the thread it runs on).
HandleItem(t) ==
  /\ Advance(t, "item", "idle")
  /\ UNCHANGED <<session, registry, user, io, observed, queue>>

\* HandlePlayerMove to a cell of the zone the player is in: UpdatePosition,
\* which does nothing for a User that is gone or when that zone is not
\* thread t's.
HandlePlayerMove(t) ==
  LET p == run[t].p
      c == run[t].c IN
  /\ Advance(t, "move", "idle")
  /\ ZoneOf[c] = zoneId[p]
  /\ IF ZoneOf[c] = t /\ p \in objects
     THEN UpdateSector(t, p, c) /\ routing' = [routing EXCEPT ![p] = t]
     ELSE UNCHANGED <<grid, sector, routing>>
  /\ UNCHANGED <<registry, io, observed, socketOpen, state, bound,
                 transferring, zoneId, queue>>

\* Mutant: step 3 is missing, the old grid keeps the player.
TransferLeave_StaysInGrid(t) ==
  /\ Advance(t, "move", "transfer_zone")
  /\ ZoneOf[run[t].c] # zoneId[run[t].p]
  /\ transferring' = [transferring EXCEPT ![run[t].p] = TRUE]
  /\ UNCHANGED <<session, registry, io, observed, zoneId, sector, grid,
                 queue>>

\* HandleZoneTransfer, steps 1 to 5: flag, leave the grid, tell the others.
TransferLeave(t) ==
  LET p == run[t].p IN
  /\ Advance(t, "move", "transfer_zone")
  /\ ZoneOf[run[t].c] # zoneId[p]
  /\ transferring' = [transferring EXCEPT ![p] = TRUE]
  /\ RemoveFromSector(t, p)
  /\ UNCHANGED <<session, registry, io, observed, zoneId, queue>>

\* Step 6: the User's zone, the object map, the session's route.
TransferZone(t) ==
  /\ Advance(t, "transfer_zone", "transfer_map")
  /\ zoneId' = [zoneId EXCEPT ![run[t].p] = ZoneOf[run[t].c]]
  /\ UNCHANGED <<session, registry, io, observed, transferring, sector,
                 grid, queue>>

TransferMap(t) ==
  /\ Advance(t, "transfer_map", "transfer_route")
  /\ objectZones' = [objectZones EXCEPT ![run[t].p] = ZoneOf[run[t].c]]
  /\ UNCHANGED <<session, user, io, observed, objects, queue>>

\* Mutant: the session keeps its old route.
TransferRoute_Skipped(t) ==
  /\ Advance(t, "transfer_route", "transfer_post")
  /\ UNCHANGED <<session, registry, user, io, observed, queue>>

\* Mutant: the sector is stored where the zone id belongs.
TransferRoute_ToSector(t) ==
  /\ Advance(t, "transfer_route", "transfer_post")
  /\ routing' = [routing EXCEPT ![run[t].p] = run[t].c]
  /\ UNCHANGED <<registry, user, io, observed, socketOpen, state, bound,
                 queue>>

TransferRoute(t) ==
  /\ Advance(t, "transfer_route", "transfer_post")
  /\ routing' = [routing EXCEPT ![run[t].p] = ZoneOf[run[t].c]]
  /\ UNCHANGED <<registry, user, io, observed, socketOpen, state, bound,
                 queue>>

\* Mutant: a player whose connection is gone is not sent on.
TransferPost_IfConnected(t) ==
  /\ Advance(t, "transfer_post", "idle")
  /\ IF socketOpen[run[t].p]
     THEN EnqueueByZone(ZoneOf[run[t].c],
                        MkTask("enter", run[t].p, run[t].c))
     ELSE UNCHANGED queue
  /\ UNCHANGED <<session, registry, user, io, observed>>

\* Step 7: the new zone is asked to let the player in.
TransferPost(t) ==
  /\ Advance(t, "transfer_post", "idle")
  /\ EnqueueByZone(ZoneOf[run[t].c], MkTask("enter", run[t].p, run[t].c))
  /\ UNCHANGED <<session, registry, user, io, observed>>

\* HandleEnterZone: nothing for a User that is gone; otherwise the grid
\* first and the flag last.
EnterPlace(t) ==
  LET p == Head(queue[t]).p IN
  /\ Takes(t, "enter")
  /\ IF p \in objects
     THEN PopTo(t, "enter_done") /\ UpdateSector(t, p, Head(queue[t]).c)
     ELSE Pop(t) /\ UNCHANGED <<run, grid, sector>>
  /\ UNCHANGED <<session, registry, io, observed, transferring, zoneId>>

\* Mutant: the flag is taken down only for a connected player.
EnterDone_IfConnected(t) ==
  /\ Advance(t, "enter_done", "idle")
  /\ transferring' = [transferring EXCEPT ![run[t].p] = ~socketOpen[run[t].p]]
  /\ UNCHANGED <<session, registry, io, observed, zoneId, sector, grid,
                 queue>>

EnterDone(t) ==
  /\ Advance(t, "enter_done", "idle")
  /\ transferring' = [transferring EXCEPT ![run[t].p] = FALSE]
  /\ UNCHANGED <<session, registry, io, observed, zoneId, sector, grid,
                 queue>>

-----------------------------------------------------------------------------
\* WorkerThread::Disconnect.

\* While the player is between zones the task goes on to the new zone.
Busy(p) == p \in objects /\ transferring[p] /\ zoneId[p] \in Zones

\* Mutant: a disconnect that meets a transfer is dropped.
DisconnectBusy_Dropped(t) ==
  /\ Takes(t, "disconnect")
  /\ Busy(Head(queue[t]).p)
  /\ Pop(t)
  /\ UNCHANGED <<session, registry, user, io, observed, run>>

DisconnectBusy(t) ==
  LET p == Head(queue[t]).p IN
  /\ Takes(t, "disconnect")
  /\ Busy(p)
  /\ queue' = LET rest == [queue EXCEPT ![t] = Tail(@)]
              IN [rest EXCEPT ![zoneId[p]] = Append(@, Head(queue[t]))]
  /\ UNCHANGED <<session, registry, user, io, observed, run>>

\* Mutant: the User goes without leaving the grid.
DisconnectLeave_StaysInGrid(t) ==
  LET p == Head(queue[t]).p IN
  /\ Takes(t, "disconnect")
  /\ ~Busy(p)
  /\ IF p \in objects
     THEN PopTo(t, "close_session") /\ NoteHandling(t, p) /\ UseSector(t)
     ELSE Pop(t) /\ UNCHANGED <<observed, run>>
  /\ UNCHANGED <<session, registry, user, io>>

\* Otherwise: nothing for a User that is gone; leave the grid, save.
DisconnectLeave(t) ==
  LET p == Head(queue[t]).p IN
  /\ Takes(t, "disconnect")
  /\ ~Busy(p)
  /\ IF p \in objects
     THEN /\ PopTo(t, "close_session")
          /\ NoteHandling(t, p)
          /\ UseSector(t)
          /\ RemoveFromSector(t, p)
     ELSE Pop(t) /\ UNCHANGED <<observed, sector, grid, run>>
  /\ UNCHANGED <<session, registry, io, transferring, zoneId>>

DisconnectClose(t) ==
  /\ Advance(t, "close_session", "delete")
  /\ socketOpen' = [socketOpen EXCEPT ![run[t].p] = FALSE]
  /\ UNCHANGED <<registry, user, io, observed, state, bound, routing, queue>>

DisconnectDelete(t) ==
  /\ Advance(t, "delete", "unmap")
  /\ objects' = objects \ {run[t].p}
  /\ UNCHANGED <<session, user, io, observed, objectZones, queue>>

DisconnectUnmap(t) ==
  /\ Advance(t, "unmap", "idle")
  /\ objectZones' = [objectZones EXCEPT ![run[t].p] = InvalidZoneId]
  /\ UNCHANGED <<session, user, io, observed, objects, queue>>

-----------------------------------------------------------------------------
IoStep(p) ==
  \/ RecvLogin(p) \/ RecvGamePacket(p)
  \/ \E w \in Workers : \/ PostTask(p, w) \/ IoFails(p, w)
                        \/ CloseSocket(p, w) \/ LookupOwner(p, w)
  \/ DBAnswersLogin(p) \/ DBRefusesLogin(p)

ThreadStep(t) ==
  \/ DispatchLogin(t) \/ LoginInsert(t) \/ LoginBind(t) \/ LoginPlace(t)
  \/ LoginFallback(t) \/ LoginMap(t) \/ LoginRoute(t) \/ LoginAck(t)
  \/ DispatchGamePacket(t) \/ HandleItem(t) \/ HandlePlayerMove(t)
  \/ TransferLeave(t) \/ TransferZone(t) \/ TransferMap(t)
  \/ TransferRoute(t) \/ TransferPost(t)
  \/ EnterPlace(t) \/ EnterDone(t)
  \/ DisconnectBusy(t) \/ DisconnectLeave(t) \/ DisconnectClose(t)
  \/ DisconnectDelete(t) \/ DisconnectUnmap(t)
  \/ CloseSession(t)

Next ==
  /\ ~crashed
  /\ \/ \E p \in Players : IoStep(p)
     \/ \E t \in Threads : ThreadStep(t)

Spec == Init /\ [][Next]_vars

\* Every logic thread keeps running its tasks, a worker that has begun to
\* post a task or to give a session up finishes, and closesocket aborts the
\* I/O still pending on the socket.  Clients, live connections and the
\* database owe nothing.
Fairness ==
  /\ \A t \in Threads : WF_vars(~crashed /\ ThreadStep(t))
  /\ \A p \in Players : \A w \in Workers :
       /\ WF_vars(~crashed /\ (PostTask(p, w) \/ CloseSocket(p, w)
                               \/ LookupOwner(p, w)))
       /\ WF_vars(~crashed /\ ~socketOpen[p] /\ IoFails(p, w))

FairSpec == Spec /\ Fairness

-----------------------------------------------------------------------------
(***************************************************************************)
(* What the protocol guarantees.  A player is in `stray` once some thread  *)
(* has passed the guards of a handler for it without owning it, or once    *)
(* its login has left it without a zone (`unplaced`), so that no thread    *)
(* will ever own it; the invariants about one player speak of every other. *)
(***************************************************************************)

\* p's pending HandleEnterZone is the i-th task of thread z.
EnterAt(z, i, p) ==
  /\ i \in DOMAIN queue[z]
  /\ queue[z][i].type = "enter"
  /\ queue[z][i].p = p

EnterIn(z, p)   == \E i \in DOMAIN queue[z] : EnterAt(z, i, p)
EnterPending(p) == \E z \in Threads : EnterIn(z, p)

\* No thread is in the middle of a task for p.
AtRest(p) == \A t \in Threads : run[t].p # p

\* Everybody who is asked says that z is p's zone.
KnownIn(p, z) == zoneId[p] = z /\ objectZones[p] = z /\ routing[p] = z

InSector(p, z) == sector[p] \in Cells /\ ZoneOf[sector[p]] = z

\* A grid never holds a player that does not exist or that is recorded
\* elsewhere, and a recorded player is in the grid (Sector.cpp: the cell
\* sets and the coordinates in the Transform move together; a transfer and
\* a disconnect leave no id behind).
SectorConsistent ==
  \A p \in Players \ stray : \A c \in Cells :
    p \in grid[c] <=> p \in objects /\ sector[p] = c

\* A player no task is working on and that is not between two zones is
\* registered with one zone: the grid it is in, its own m_zoneId, the
\* object map and the session's route agree (the pairs of stores in
\* UpdatePosition and HandleZoneTransfer).
ZonesAgree ==
  \A p \in objects \ stray :
    AtRest(p) /\ ~transferring[p] =>
      \E z \in Zones : KnownIn(p, z) /\ InSector(p, z)

\* One thread at a time works on a player, and none but the two halves of
\* the transfer does while the transferring flag is up: packets that reach
\* the new zone before HandleEnterZone are ignored.
OneHandler ==
  \A p \in Players \ stray : \A t \in Threads : run[t].p = p =>
    /\ \A u \in Threads : run[u].p = p => u = t
    /\ transferring[p] =>
         run[t].op \in {"transfer_zone", "transfer_map", "transfer_route",
                        "transfer_post", "enter_done"}

\* The transferring flag is never left up with nobody to take it down:
\* either a thread is inside the transfer or exactly one HandleEnterZone
\* waits, in the queue of the zone all the registries name.
TransferInHand ==
  \A p \in Players \ stray : transferring[p] =>
    \/ \E t \in Threads : run[t].p = p
    \/ \E z \in Zones : \E i \in DOMAIN queue[z] :
         /\ EnterAt(z, i, p)
         /\ KnownIn(p, z)
         /\ \A y \in Threads : \A j \in DOMAIN queue[y] :
              EnterAt(y, j, p) => y = z /\ j = i

\* The thread without a Sector runs no game packet but that of a player the
\* login could not place: of every other player, strays included, the route
\* is stored before the login answer that lets the client play, and a packet
\* read, queued or run at any time after it finds a zone.  An unplaced
\* player's first move takes the server down (HandleGetUserInfo answers the
\* login without looking whether UpdatePosition has stored a route).
GamePacketsRunInZones ==
  run[DefaultThread].op \in {"move", "item"} =>
    run[DefaultThread].p \in unplaced

-----------------------------------------------------------------------------
\* What must eventually happen, for every player and whatever went wrong
\* before; a server that has crashed owes nothing.

DisconnectPending(p) ==
  \E z \in Threads : \E i \in DOMAIN queue[z] :
    queue[z][i].type = "disconnect" /\ queue[z][i].p = p

\* A player does not stay between two zones, deaf to its packets: the
\* flag HandleZoneTransfer raises is taken down by HandleEnterZone, even
\* when a disconnect overtakes it.
TransferCompletes ==
  \A p \in Players :
    transferring[p] ~> ~transferring[p] \/ p \notin objects \/ crashed

\* A queued Disconnect takes the User out of the world, however often it
\* is sent on from zone to zone behind a transfer.
DisconnectCompletes ==
  \A p \in Players :
    DisconnectPending(p) ~> p \notin objects \/ crashed

-----------------------------------------------------------------------------
(***************************************************************************)
(* What the code's comments and assertions claim, and the code does not    *)
(* keep: each of these is violated.                                        *)
(***************************************************************************)


\* A session that is closed does not stay in the world: a connection that
\* breaks before the login leaves no User.
ClosedSessionLeavesWorld ==
  \A p \in Players :
    ~socketOpen[p] ~> p \notin objects \/ crashed

-----------------------------------------------------------------------------
(***************************************************************************)
(* The inductive invariant.                                                *)
(***************************************************************************)

\* A task in the queue of thread z: a login or an entry is for a cell of
\* that zone, and the default thread is given no game packet but of an
\* unplaced player.
TaskFits(task, z) ==
  /\ task.type = "move" => task.c \in Cells
  /\ task.type \in {"login", "enter"} =>
       task.c \in Cells /\ ZoneOf[task.c] = z
  /\ z = DefaultThread /\ task.type \in {"move", "item"} =>
       task.p \in unplaced

QueuesFit ==
  \A z \in Threads : \A i \in DOMAIN queue[z] : TaskFits(queue[z][i], z)

\* A session has a route, unless the login could not place its player.
HasRoute(p) == routing[p] \in Zones \/ p \in unplaced

LoginOps    == {"login_bind", "login_place", "login_map", "login_route",
                "login_ack"}
TransferOps == {"transfer_zone", "transfer_map", "transfer_route",
                "transfer_post"}
EndingOps   == {"close_session", "delete", "unmap"}

\* What thread t is in the middle of.  The default thread runs no login and
\* no transfer, and of game packets only those of unplaced players, of which
\* it survives those that need no Sector.
RunFits(t) ==
  /\ run[t].op = "idle" <=> run[t].p = None
  /\ run[t].op \in TransferOps \cup {"move"} => run[t].c \in Cells
  /\ run[t].op \in LoginOps => run[t].c \in Cells /\ ZoneOf[run[t].c] = t
  /\ t = DefaultThread =>
       \/ run[t].op \in EndingOps \cup {"idle"}
       \/ /\ run[t].p \in unplaced
          /\ run[t].op = "item" \/ (run[t].op = "move" /\ crashed)
  /\ run[t].op = "login_ack" => HasRoute(run[t].p)

\* A task a worker holds, and where it is bound.
WorkerFits(p, w) ==
  worker[p][w].pc = "posting" =>
    /\ worker[p][w].task \in Task
    /\ worker[p][w].task.type \notin {"login", "enter"}
    /\ TaskFits(worker[p][w].task, worker[p][w].to)

\* A client that plays has a route.
RouteKnown(p) == client[p] = "playing" => HasRoute(p)

RouteInv ==
  /\ unplaced \subseteq stray
  /\ QueuesFit
  /\ \A t \in Threads : RunFits(t)
  /\ \A p \in Players : \A w \in Workers : WorkerFits(p, w)
  /\ \A p \in Players : RouteKnown(p)

\* A session that has not reached ST_INGAME, and a User that is gone.
Fresh(p) ==
  /\ ~bound[p] /\ ~transferring[p] /\ sector[p] = NoSector
  /\ KnownIn(p, InvalidZoneId)
  /\ p \in objects => ~AtRest(p)
  /\ ~EnterPending(p)

Gone(p) ==
  /\ ~transferring[p] /\ sector[p] = NoSector /\ ~EnterPending(p)
  /\ AtRest(p) => objectZones[p] = InvalidZoneId

\* What holds of p at every point of a task thread t runs for it.
AtOp(t, p) ==
  LET op == run[t].op
      to == ZoneOf[run[t].c] IN
  /\ ~EnterPending(p)
  /\ op # "unmap" => p \in objects
  /\ op = "login_bind" <=> state[p] = "ST_ALLOC"
  /\ op = "login_place" =>
       ~transferring[p] /\ sector[p] = NoSector /\ KnownIn(p, InvalidZoneId)
  /\ op \in {"login_map", "login_route", "login_ack", "move", "item"} =>
       ~transferring[p] /\ InSector(p, t) /\ zoneId[p] = t
  /\ op \in {"login_route", "login_ack", "move", "item"} => objectZones[p] = t
  /\ op = "login_map" => objectZones[p] = InvalidZoneId
  /\ op \in {"login_ack", "move", "item"} => routing[p] = t
  /\ op \in TransferOps => transferring[p] /\ sector[p] = NoSector
  /\ op \in {"transfer_zone", "transfer_map"} => objectZones[p] = t
  /\ op = "transfer_map" => zoneId[p] = to
  /\ op = "transfer_route" => zoneId[p] = to /\ objectZones[p] = to
  /\ op = "transfer_post" => KnownIn(p, to)
  /\ op = "enter_done" =>
       transferring[p] /\ InSector(p, t) /\ KnownIn(p, t)
  /\ op \in EndingOps =>
       ~transferring[p] /\ sector[p] = NoSector /\ objectZones[p] = t
  /\ op = "unmap" => p \notin objects

EnterOnce(z, p) ==
  \A i, j \in DOMAIN queue[z] : EnterAt(z, i, p) /\ EnterAt(z, j, p) => i = j

PlayerInv(p) ==
  /\ \A t, u \in Threads : run[t].p = p /\ run[u].p = p => t = u
  /\ \A z \in Threads : EnterOnce(z, p)
  /\ state[p] = "ST_ALLOC" => Fresh(p)
  /\ p \notin objects => Gone(p)
  /\ \A t \in Threads : run[t].p = p => AtOp(t, p)
  /\ \A z \in Threads : EnterIn(z, p) =>
       /\ AtRest(p) /\ p \in objects /\ transferring[p]
       /\ sector[p] = NoSector /\ KnownIn(p, z)
  /\ p \in objects /\ AtRest(p) /\ ~EnterPending(p) =>
       ~transferring[p] /\ InSector(p, zoneId[p]) /\ KnownIn(p, zoneId[p])
  /\ \A c \in Cells : p \in grid[c] <=> sector[p] = c

ProtocolInv ==
  /\ TypeOK
  /\ RouteInv
  /\ \A p \in Players \ stray : PlayerInv(p)
=============================================================================
