# A TLA+ model of the MMORPG game server

The repository is a Windows game server (`src/GameServer`, C++20, IOCP) with a
graphical client, a load generator, a SQL Server schema and a portfolio document.
This directory holds a verification project for the server and the picture its
clients have of it: TLA+ modules of the concurrent core, TLC configurations that check them on small instances, and TLAPS
proofs of the properties that matter most. `PROJECT.json` is the index: which
definition models which lines, what every run checks, which hazards of the code
each property is for.

Every definition follows the C++ code. Documents and comments are used only for
what the code is *supposed* to do; where the code does something else the project
has a run that shows it (`expect: violation`) and a finding that quotes both.

## 1. The system

### Parts, state and operations

| Part (under `src/GameServer`) | State | Operations |
|---|---|---|
| IOCP workers (`Thread/WorkerThread`) | none of their own | accept; turn a received packet into a task; handle send completions; give a session up (`EnqueueDisconnect`) |
| Session (`Network/GameSession`) | socket, `m_state`, owner, `m_routingZoneId`, receive buffer, send queue, send context, `m_sendInFlight` | `AttachSocket`, `PostRecv`, `PostSend`, `HandleSendCompletion`, `HandleSendFailure`, `CloseSocket` |
| Zone threads (`Thread/GameLogicThread`, `Zone/*`) | a FIFO task queue; a thread-local `Sector` grid; `ZoneManager::_objectZones` shared by all | run tasks; `EnqueueByZone`, `EnqueueByObject`, `EnqueueBySession` |
| Area (`Area/Sector`, `Area/SectorHelper`) | cells with the objects in them; cell, zone and position in each object's `Transform` | `UpdatePosition`, `HandlePlayerMove`, `HandleZoneTransfer`, `HandleEnterZone`, removal |
| Packet routing (`Route/Route`) | cooldown stamps in the `User` | guards on session state, death, transfer and cooldown; one handler per packet |
| Users (`User/*`, `Stat/*`) | level, experience, hit points, attack power, session, inventory | login, attack, skill, heal, respawn, save, chat |
| Monsters (`Monster/*`) | position, spawn, type, hit points, `m_Active`, `m_Attack`, path | wake up, wander, chase, return, attack, respawn |
| Timer (`Thread/TimerThread`) | a priority queue on (due time, sequence number) | `ScheduleAfter`; dispatch to the zone of the object |
| Inventory (`Item/Inventory`) | 30 slots; attack power cached in `Stat` | add, extract, use, equip, unequip, swap, load |
| Field items (`Item/ItemHelper`, `DropTable`) | items on the ground, loot priority | spawn, pick up, despawn, end of priority |
| Database threads (`Thread/DBThread`, `Core/DBConnection`, `Database/setup.sql`) | one event queue per shard; tables `Players`, `Inventory` | login query, new account, save/delete/exchange of rows |
| Registries (`GameObjectManager`, `GameSessionManager`) | maps from id to object or session | insert, find, erase |
| Start-up, pools, tables, geometry | static data | load; A*, collision, zone layout |
| Client (`src/Client`) | objects drawn (`players`), avatar, current zone, fade and its buffer `g_pendingObjects`, copy of the bag `g_inventory` | walk, teleport, use a slot; one handler per packet; render loop: fades, finished deaths |

### How they interact

A completed receive is cut into packets by an IOCP worker. For each one the worker
reads the session's routing zone and appends a task to that zone's queue; the zone
thread runs `Route::Dispatch`. The destination is read *before* the append and the
task waits in the queue, so it may be run by a zone the player has left. A broken
connection is handled the same way, by a look-up in the object map. A player that
walks over a zone boundary is handed over in two halves: `HandleZoneTransfer` on the
old thread (flag, grid, `m_zoneId`, object map, route, message) and
`HandleEnterZone` on the new one. Timer events are dispatched to the zone of their
object; logins are answered by a DB thread that posts a task to the zone of the
saved position. Inventory operations post row changes to the shard of the account.
Replies go through `PostSend`, which may be called by any thread.

A client is told only differences: each step of a user or a monster compares who saw
it before with who sees it after, and posts additions, moves and removals. What a
client draws is the sum of these, over zone changes during which it buffers a part of
them.

### What is hard here

- routes, zone ids and flags are read by one thread and used later, after another
  thread has changed them;
- a transfer is several stores on two threads, any of which a packet, a disconnect or
  a late login answer can fall between;
- a monster, a heal and a respawn are chains of self-scheduled events: a handler that
  forgets to schedule, or schedules twice, is noticed much later;
- rows are saved later, by other threads, by statements that may fail; the server may
  die between any two of them;
- partial sends, failing sends and closing meet `PostSend` from other threads;
- the server does not know what a client draws: one difference too few, or dropped
  during a fade, stays on screen until the next zone change;
- timers of a field item outlive it, and a client asks for the next operation by an
  old picture of its bag.

The list of hazards in `PROJECT.json` names each of these at its line.

### What makes each part correct

- *Zones*: one thread at a time handles a player; grid, `Transform`, object map and
  route agree when the player is at rest; a transfer and a disconnect come to an end
  and leave nothing behind; no game packet runs on the thread without a `Sector`, but for
  a player whose login has found no place for it.
- *Send path*: the client gets the accepted bytes, each once and in order; one send is
  outstanding; queued bytes are not forgotten.
- *Inventory and rows*: whenever the server dies the rows are an inventory the player
  really had; at most one item is equipped; units are neither made nor lost; the
  cached attack power is that of the equipped item.
- *Monsters and users*: the dead come back, once; heals run on one chain; an active
  monster has an event in the queue; a monster nobody sees falls asleep.
- *Client*: once it has caught up it draws what its user sees, nothing else, each in its
  place, and its avatar where the server has the user.
- *Field items*: no unit is made or lost between bags and ground; the killer's priority
  holds and ends; nothing lies on the ground for ever; a client's bag catches up.

## 2. Modules

| Module | Models | Proofs | MC module |
|---|---|---|---|
| `ZoneServer` | zone ownership, routing, transfer, login, disconnect | `ZoneServer_proofs` (types, routes, transfer and disconnect) | `MCZoneServer` |
| `InventoryStore` | one account's inventory, shard queue, rows, crashes | `InventoryStore_proofs`, on the sums of `FiniteSums_proofs` | `MCInventoryStore` |
| `SessionSend` | the send side of one session | `SessionSend_proofs` | `MCSessionSend` |
| `SendStream` | abstract: an ordered stream of bytes | (refined by `SessionSend`) | |
| `MonsterLife` | monsters, users' hit points and timers of one zone | `MonsterLife_proofs` | `MCMonsterLife` |
| `ClientView` | notifications of the zones and what clients make of them | `ClientView_proofs` (types, the avatar), `ClientPictures_proofs` (what is drawn) | `MCClientView` |
| `FieldItem` | items on the ground of a zone, bags, the client's copy of its bag; uses the operators of `InventoryStore` | `FieldItem_proofs`, on the lemmas of `InventoryStore_proofs` | `MCFieldItem` |

They divide the system by question. `ZoneServer` asks which thread handles a player and
takes each store for a step; `ClientView` takes the handlers for steps and asks what they
announce. `SessionSend` justifies the ordered, complete channel of `ClientView` and
`FieldItem`; `MonsterLife` says when a monster acts, `ClientView` what is seen of it.

### ZoneServer

State: per session `socketOpen`, `state`, `bound`, `routing`; the registries
`objects` and `objectZones`; per User `transferring`, `zoneId`, `sector`; the cells of
all grids; a task queue and a program point `run[t]` per logic thread; one worker per
I/O chain (`recv`, `send`) of a session. **Each store that another thread may read is
a step of its own**: `LoginInsert … LoginAck`, `TransferLeave … TransferPost`,
`EnterPlace`, `EnterDone`, `DisconnectLeave … DisconnectUnmap`. A worker's look-up
(`RecvPacket`, `LookupOwner`) and append (`PostTask`) are two steps.

The packet `item` stands for every request that is guarded like the inventory ones;
`move` carries the cell it leads to. `stray`, `unplaced` and `crashed` are history
variables: a player becomes a *stray* when some thread has passed the guards of a handler
for it without owning it, or when its login leaves it without a zone. The safety
invariants speak of all other players, and the violation runs show how strays come about.
The liveness properties speak of every player, as long as the server is up.

`LoginFallback` is the login with an invalid saved position
(`UserHelper.cpp:867`): the random position that replaces it may lie in another zone than
the one whose thread runs the login. `UpdatePosition` then stores neither cell nor zone nor
route, and the login is answered all the same: the player is `unplaced`, its game packets
go to the default thread, and the first one that needs a `Sector` takes the server down
(`UseSector`). `GamePacketsRunInZones` says that no other player's packet ever gets there,
not even that of a stray. A fallback position in the right zone is placed like a saved one.

Left out: coordinates inside a cell, notifications to neighbours, combat, timers, and a
third I/O failure on one session. Clients send game packets only after the answer to their login, as the
client of the repository does.

### InventoryStore

State: the slots and the cached attack power, slots the running `TryAddItem` has yet
to save (`toSave`), the account's events on its DB shard, the rows, and the phase of
the login. Operations are one action each, except `TryAddItem`, whose row saves are
queued one by one. `CommitEvent` runs an event; `CommitFails` and `ExtractFails` are
statements that fail, which nobody retries; `ServerCrash` loses all but the rows. The
order in which `TryAddItem` queues the slots is left open, which allows more than the
code does.

`mark`, `left`, `units`, `failures` and `stale` are history: the snapshot the rows
should show, the inventory at the last log-out, the units ever added less the ones
taken, failed statements, and whether a login has overtaken a save. Each queued event
carries the snapshot taken when it was queued.

Assumed: the operations of one account come from one thread at a time (run
`zone_owner` shows the exception), so its events reach the shard in order (they are
ordered by a steady clock and then a sequence number); one session per account at a
time. `TryRemoveItem` is left out since nothing calls it.

### SessionSend and SendStream

A byte is its position in the stream of accepted packets; `ends` has the positions
where packets end. The queue is the unsent bytes, `batch` the payload of the one send
context, `sends` what Winsock has, `wire` what TCP has taken. `PostSend`,
`HandleSendCompletion`, `HandleSendFailure` and `CloseSocket` are atomic, as
`m_sessionLock` makes them; a worker that gives a session up calls them one after the
other. Winsock (`SendDone`, `SendAborted`, `ConnectionLost`) is external, modelled from
how the code uses it: completions may be partial, and a `WSASend` fails when the
connection is down, and at most `MaxFaults` times when it is up (`WSAENOBUFS`).

`SendStream` promises only that accepted bytes appear on the wire in order, each
once. `SessionSend` implements it with `accepted <- posted`.

### MonsterLife

One zone as a strip of cells plus the first cell of the next zone. Monsters and users
have positions and hit points counted in blows; `timers` is the timer queue in
dispatch order with the ticks left. A `Tick` lets time pass even when an event is due
(the zone thread may lag); `RunTimer` runs the first due event. Each handler is one
action: within a zone handlers run one at a time. A path step leads nearer to the
goal or fails (walls). Cooldowns, notifications, drops and experience are left out:
packets may arrive at any time. A user with no lives left disconnects instead of
respawning (`MaxLives`).

### ClientView

The world is a strip of cells cut into zones; sight is a distance within one zone, as
each thread searches only its own grid. Server state: where each user is and whether it
is in a grid, in transfer, dead or gone; monsters with the cached `viewList`; field items.
`chan[u]` is what was posted to a client and not yet processed. A client is a record of
the variables of `client.cpp` that the packets change: `players` and `pendingObjects` (maps
from ids to place, look and weapon), `avatar`, `zone`, `trans`, `pendingPlayer`, `isDead`.

`Walk`, `Teleport`, `Login`, `HandleEnterZone`, `Disconnect`, `KillUser`, `HandleRespawn`,
`EquipChange`, `Discard`, `RemoveFieldItem`, `MonsterMove`, `KillMonster` and
`MonsterRespawn` are the handlers with all they post. `StrayMove`, `StrayDisconnect` and
`StrayEquip` are the same handlers run by the thread of a zone the user has left: a task
may have been sent there before the transfer and run after it (run `zone_owner`), at any
time, so they are possible for every user that has `crossed` a border. That thread's grid
has no sector around the user, so it tells nobody. `Receive` is `ProcessPacket` with one
operator per packet type; `Fade` and `DeathDone` are the render loop. LOADING and FADE_IN
differ on screen only and are one state.

Only some users have a client that is followed (`Viewers`), the others are what it sees.
With `Patient` the client has seen the answer to its last request, and its fade is over,
before the next one or a respawn. It walks at most every 500 ms and never in a fade, and a
respawn takes 30 s; a slower link, or a teleport typed within the 1.8 s of a fade, is outside
the claims (see section 5).

Five history variables record where the code cannot be right, and each property exempts
those it names: `late`, pictures from before the own death (a dead user is in no grid and
told nothing) and news about a buffered object that only looks into `players` (`NoGhosts`,
`PlacesRight`); `unsure`, weapons of users announced by a respawn (`SUBJECT_RESPAWN_NFY` has
no item) or changed in a fade (`WeaponsRight`); `untold`, users whose last change of weapon
was a `StrayEquip` (`WeaponsRight`); `struck`, users killed by the thread of a zone they have
left (`NoGhosts`, `AvatarRight`); `stray`, users such a thread has moved or disconnected
(`NoGhosts`). Entries of `late` and `unsure` end with the next news about the subject, those
of `untold` with the next announced change. `NothingMissing` exempts nobody.

Left out: names, hit points, animations, the avatar's own weapon, players the login places
in no zone (`ZoneServer`), and the id that a stray move or disconnect leaves in a grid: it
can only bring its user, while in the other zone, more notices than are modelled.

### FieldItem

One zone, one handler at a time. `bag[u]` follows `InventoryStore`: `Bag(u)` instantiates
that module on the user's slots, and `Placements`, `Filled`, `WithCount` are its operators,
so the rules for stacking are stated once. `ground` maps instance ids to item, units, cell
and priority; `timers` has the events yet to come, which fire in the order of their delays
for one item and as late as they like; nothing cancels them. Operations that fail change
nothing and are no steps, except that they take time. `chan` and `mirror` are the slot
updates on their way and `g_inventory`; `ActivateInventorySlot` chooses use, equip or
unequip by the mirror, and the server decides by the bag. The thread of the zone owns its
users: a discard run by the thread of a zone already left (run `zone_owner`) is outside the
module, and loses the units, since the grid refuses the item (`SectorHelper.cpp:31`) after
they have been taken from the bag.

`units` counts what came into the world less what was used or despawned, `killer` whose
ten seconds run. The database side of the operations is `InventoryStore`'s; a user that
disconnects is one that asks no more.

## 3. Runs

All bounds are constants of the modules.

| Run | Expect | What it shows | States |
|---|---|---|---|
| `zone_protocol` | pass | `TypeOK`, `SectorConsistent`, `ZonesAgree`, `OneHandler`, `TransferInHand`, `GamePacketsRunInZones`, the inductive `ProtocolInv`, and `TransferCompletes`, `DisconnectCompletes` | 269,547 |
| `zone_owner` | violation | a packet queued before a transfer is handled by the old zone's thread after it | |
| `zone_ghost` | violation | a login answered after the connection broke leaves a User for ever | |
| `inv_store` | pass | `RowsWereMemory`, `RowsCatchUp`, `NeverTwoEquipped`, `OffensiveIsCurrent`, `UnitsConserved`, `StacksFit`, the inductive `StoreInv` | 313,871 |
| `inv_relogin` | violation | a quick re-login loads rows older than the queued saves | |
| `send_stream` | pass | `OneSendOutstanding`, `NoStall`, `SendInv`, `EverythingSent`, refinement of `SendStream` | 26,437 |
| `send_one` | violation | a transient `WSASend` failure on completion leads to an overlapping send | |
| `monster_life` | pass | `MonsterComesBack`, `UserComesBack`, `OneHealChain`, `ChaseGoesOn`, `FallsAsleep`, `DeadComeBack` | 230,139 |
| `monster_frozen` | violation | a passive monster that struck back stays active with no event | |
| `view` | pass | `NothingMissing`, `NoGhosts`, `PlacesRight`, `WeaponsRight`, `AvatarRight` | 818,267 |
| `view_monsters` | violation | a monster that comes back into sight stays invisible: the cached list of viewers is old | |
| `items` | pass | `NothingDuplicated`, `MirrorRight`, `LootPriority`, `ItemLeaves` | 149,848 |

Why the bounds are enough to be interesting:

- *zone_*\*: two zones (one with two cells) let a player move within a zone, cross,
  and cross back; three packets are enough for two transfers with a packet or a
  disconnect between them. One player: the code of one player reads and writes no
  other player's state, others only delay the threads, and the theorems hold for any
  number.
- *inv_*\*: three slots, a stackable item and two swords; a stack of two, so that
  three units fill a stack and spill into an empty slot or do not fit; two operations
  between logins, crashes and one failure.
- *send_*\*: two workers, packets of up to three bytes in a batch of three, so that two
  packets fit or do not, partial sends end inside a packet, and a packet may be as large
  as the batch. Completions and failures of one session meet at most two workers.
- *monster_*\*: each monster type, a view range of two and a leash of one on a strip of
  four, so that a user can be seen, out of sight, adjacent, behind the leash and in the
  next zone; delays keep the order of the code's (move < attack < respawn, heal <
  respawn of a user). By hand, and not part of the runs, the safety properties were also
  checked with two users and with two monsters for one packet.
- *view*: two users, one of them followed, a monster and an item on four cells with the
  zone border before the last and a sight of one cell, so that everybody can be in sight,
  out of sight in the same zone and next to each other over the border. Two counted steps
  come on top of the logins (anywhere, in any order), deaths, respawns, transfers and
  pickups, with up to two notices under way when the next step is taken: a transfer that
  `HandlePlayerMove` begins is one of them, and a stray move, disconnect or change of
  weapon the other. By hand it was also checked with three counted steps and no deaths
  (254,434 states).
- *view_monsters*: one user and one monster in the zone of three cells.
- *items*: a bag that is full, so that a pickup may not fit, may fit after a use or a
  discard, and tops up a stack; two items on the ground at a time, one of which another
  user may take; two operations, so that an update can be on its way when the next request
  is chosen.

Deadlock checking is off where the system may come to rest: every session over, or no
user left and all monsters asleep. `InventoryStore` and `FieldItem` have no such state.

### Fairness

- `ZoneServer`: logic threads run their tasks, a worker that has begun finishes, and
  `closesocket` aborts pending I/O. Clients, live connections and the database owe
  nothing.
- `SessionSend`: a connected client keeps reading; the receive pending on a lost
  connection fails and its worker closes the session; workers do not stop.
- `MonsterLife`: time passes, and what is due is run. Users owe nothing.
- `FieldItem`: the timer thread delivers its events and the zone thread runs them. Users
  and clients owe nothing.
- `ClientView` claims no liveness and assumes no fairness.

### Mutants

For each property of a passing run `PROJECT.json` names a mutant: a definition next to
the one it mutates (`…_Skipped`, `…_StaysInGrid`, …) with a plausible bug, under which
TLC finds the property violated.

## 4. Proofs

All theorems hold for every value of the constants that satisfies the assumption of the
module (`ConstantsAssumption`, `StoreAssumption`, `SendAssumption`, `FieldAssumption`,
`LifeAssumption`, `ViewAssumption`), which TLC evaluates on every run. They say what the code's own
constants say: ids of different kinds differ, sets are finite, sizes are natural numbers,
a packet fits a batch, and the delays keep the order of the code's.

The proofs of a component are one lemma per action on top of lemmas about its operators,
and end in `Init => Inv`, `Inv /\ [Next]_vars => Inv'` and `Inv => P` for each property `P`.

**ZoneServer_proofs.** `ShapeCorrect`, `TypeCorrect`, `GamePacketsInZones`. The
invariant `ShapeInv` is `TypeOK /\ RouteInv`. `TypeOK` is not inductive: `LoginPlace`
writes `ZoneOf` of the cell of the running task, which is a zone only because a login
or an entry is queued with a cell of that thread's zone (`QueuesFit`, `RunFits`). That
the default thread runs no game packet but an unplaced player's needs the whole way of a
route: a client plays only after the login answer, the answer follows the store of the
route or a placing that was refused (`HasRoute`, `RunFits` at `login_ack`), a route never
becomes invalid again, and what a worker holds was addressed by such a route
(`WorkerFits`). One lemma per action, on top of
lemmas about appending, popping and advancing.

In the same module, on top of it: `ProtocolCorrect` and from it `SectorsCorrect`, `ZonesCorrect`,
`OneHandlerCorrect`, `TransferCorrect`. `ProtocolInv` adds to `ShapeInv`, for every player
that is no stray, where the player is in its life (`PlayerInv`): at each program point of a
login, a transfer, an entry or a disconnect it says which of grid, `sector`, `zoneId`,
object map and route have already been written, which task carries the player from one
thread to the next, and that no second task or thread does the same. None of the four
properties is inductive: each speaks of a player at rest or of one store, and the next
store of a running handler is right only because of those before it. The proof is player
by player: an action of one player changes only that player's part and the queues, so for
all others it is enough that appending and popping foreign tasks keeps the numbers of
their own. The exemption of strays is the one the run `zone_owner` shows to be needed.

`DisconnectKeptCorrect` is the safety half of `DisconnectCompletes`: while the User is in the
world no step loses its Disconnect. It needs the types only, and holds for strays too; the step
that could lose the task is the one that sends it on behind a transfer (`DisconnectBusy`).

**InventoryStore_proofs.** `StoreCorrect`, `CommitsFollowMemory`,
`DrainedRowsAreMemory`, `AtMostOneEquipped`. The invariant `StoreInv`
says that the rows, the snapshots of the queued events and memory form a chain: each
link changes only the slots its event saves, and equipped flags change only together
with a save. Properties of the rows alone are not inductive since the next commit
depends on what is queued. It is claimed while `Sound` holds: no statement has failed
and no login has overtaken a save. The run `inv_relogin` shows why the second is
needed; for the first, a save that fails goes unnoticed, and after it the table can keep
an equipped row that memory no longer has.

`ContentsCorrect`, `AttackPowerCorrect`, `NoUnitMadeOrLost`, `StacksCorrect`,
`StoreTypeCorrect` need no `Sound`: memory is right whatever happens to the statements. The
invariant `ContentsInv` carries the bound on stacks through memory, rows, the rows being
loaded and every queued snapshot, since each may become memory at the next login, and
counts the units of each item in memory.

**FiniteSums_proofs.** What the proofs about units need of sums over finite sets: a sum
is a natural number, changes with one summand by the difference, splits over disjoint
sets. The induction over the set is an argument by a minimal counterexample (`MinimalSubset`,
`LeastNatural`), as the induction theorems of the library cannot be instantiated here.

**SessionSend_proofs.** `SendCorrect`, `OneSendPerSession`, `NoBytesLeftBehind`,
`ImplementsStream`, all under `MaxFaults = 0` (the run `send_one` shows why). `SendInv`
is type correctness with three parts: `Turns` (a send or its completion is in one pair
of hands), `Positions` (where each byte is, including between a completion and its
handling) and `Boundaries` (from every queued byte the end of a packet is at most a
packet away, so a packet fits into an empty batch: this is where the `static_assert` on
the sizes is used).

**FieldItem_proofs.** `FieldCorrect`, `NothingDuplicatedCorrect`, `MirrorCorrect`,
`FieldTypeCorrect`, `LootPriorityCorrect`, `DespawnPendingCorrect`. `FieldInv` is type correctness, the count of
units over all bags and the ground, `MirrorInv` and `LootInv`. `MirrorRight` speaks of an
empty channel only; it is inductive once it says for every slot that the *last* update on
the way is the bag's content, and the client's copy is where none is on the way.
`LootPriority` is an action property: it follows from `LootInv` (an item with an owner has
the event that ends the priority still to come) for a step of any action.
`DespawnPendingCorrect` is the safety half of `ItemLeaves`: what is on the ground has its
despawn event still to come.

**MonsterLife_proofs.** `LifeCorrect`, `LifeTypeCorrect`, `MonsterComesBackCorrect`,
`UserComesBackCorrect`, `OneHealChainCorrect`, `ChaseGoesOnCorrect`. `LifeInv` adds to the four
properties that the queue is in the order of its due times, that a dead monster is not
active, and that of a user's heal and respawn the heal comes first (`HealsFirst`). The last
is the reason why heals run on one chain although dying does not cancel the running one:
the old heal event finds the user dead and ends before the respawn starts the next, because
`HealDelay < UserRespawnDelay` and the queue dispatches in order. The lemmas count the events
of one kind and object over `Tail`, insertion by due time, the scheduling of several events
in one handler (`ScheduleAll`) and the passing of time.

**ClientView_proofs.** `ViewTypeCorrect` and, for `Patient` users, `AvatarCorrect`.
`TypeOK` is not inductive: a client takes its place from a notice, which has a cell only
because of the handler that posted it. `ViewInv` says which notices are posted to whom
(those that place a subject name a cell, a login is answered to its user). `AvatarRight`
speaks of a client with an empty channel and no fade. `AvatarInv` speaks of every client of
a user that is in the world (`AvatarPlaced`): at most one notice that places the own user is
on the way, it names the right cell and no fade can swallow it; or there is none, and the
avatar is in place, or will be when the fade ends. Of the own death (`DeathKnown`): it comes
after the own respawn, and what the last of them says is true; users in `struck` are exempt
from this part only. Each step of the server concerns a viewer in one of six ways (it is away,
leaves, hears of others, moves, dies or arrives); for each way one lemma shows that
`AvatarInv` is kept, and for each handler one that it concerns every viewer so.

**ClientPictures_proofs.** `NothingMissingCorrect`, `NoGhostsCorrect`, `PlacesRightCorrect` and
`WeaponsRightCorrect`, for `Patient` users. The properties speak of a client that has caught up,
and nothing of them is left while notices are queued, so the invariant speaks of what the queue
will make of the screen (a client with its `late` and `unsure`). `Carries(F, u, q, G)` says that
a screen in `F` is in `G` once the notices `q` have been processed, however often the render loop
runs before, between and after them: there is a set of screens for each place in the queue,
which each step of the render loop stays in, and each notice leads from one to the next.
`PictureInv` says of every client whose user is in the world, and of every subject, that the
queue carries the screen into those that are right about the subject (`Right`: in `Seen` or in
`Unseen`, as the server has it). What the thread of a zone already left does to a user makes
the set of right screens larger and posts nothing about it: after a `StrayEquip` any weapon
will do (`Arms`) until the next announced change, and a picture of a `stray` or `struck` user
may stay when it is out of sight. While such a user is in sight its place is still claimed,
and what it must be shown always. The pieces:

- `Carries` is closed under what can happen to a queue: more is posted (`CarriesOn`), the head is
  processed (`CarriesTail`), the render loop runs (`CarriesIdle`); at its end it gives the
  property (`CarriesEnd`). These lemmas hold for any protocol of notices.
- What each type of notice does to the picture of its subject, and that it leaves the others
  alone, in every state of a fade (`HeardLemma`, `TellsPlace`, `TellsGone`, `TellsWeapon`, `OwnMove`,
  `OwnCrossing`): the picture that counts is the buffered one, if there is one.
- That sight is symmetric (`SightOfUsers`): the server tells the users its own query of a cell
  finds, and what must be told is what *they* see. `PictureInv` would be lost at this point if
  the two differed.
- For each handler one lemma (`PicturesOfWalk`, `PicturesOfTransfer`, ...): what it posts to a
  viewer carries the old right screens into the new ones.

`Patient` enters at one place: a user moves only when its client has seen its last place and is
in no fade, so the queue leads to screens on which the own move is not swallowed
(`SettledStill`). Of `AvatarInv` the proof needs that a client logs in fresh and that its own
notices only place or kill it; from that `SelfInv` says that it never draws itself as another,
and `ServerInv` that the dead are out of the grid unless another zone's monster struck. `Replace` trusts a
monster's cached list; the proof needs no claim about that list, for only the *places* of
monsters are promised, and whoever sees the new cell is told it.

### What stays with TLC

Liveness (`TransferCompletes`, `DisconnectCompletes`, `EverythingSent`, `FallsAsleep`,
`DeadComeBack`, `ItemLeaves`), since the prover handles neither fairness nor `ENABLED`. Every
other property of a passing run has a theorem.

## 5. Not modelled

- Accepting connections; cutting the received bytes into packets, on the server and in the
  client; packet layouts.
- Geometry, collision, A* (in `MonsterLife` a step of a path is one nearer to the goal or
  none, so a detour that leads away from the goal for a while, or out of the zone, is not
  followed), zone layout, experience and levels, cooldowns.
- Chat, damage, healing and level notices; drawing, animation and camera of the client.
- Item names, prices and effects; the weights of the drop table.
- Start-up, the connection pool (one connection per DB thread behind a scope guard), the
  load generator (a test tool in a process of its own).

Noted while modelling, without a run:

- a `Disconnect` that reaches the old zone's thread after a transfer deletes the User,
  leaves its id in the new zone's grid (such a player is a *stray* of `ZoneServer`) and is
  told to nobody, so that the others go on drawing the user (`stray` in `ClientView`); a
  move or a change of weapon run there is told to nobody either;
- a login whose invalid saved position is replaced by one of another zone leaves the User
  in no zone, and its first move, or its disconnect, takes the server down (`unplaced` in
  `ZoneServer`);
- a discard run by the old zone's thread lays its item in no grid, and the units are lost;
- a save that fails is not repeated and nobody is told (`DBThread.cpp:185`): after it a
  login can load two equipped items;
- a second change of zone that is answered within the fade of the first (a teleport typed
  in it, or a slow link) is ignored by the client: its avatar is drawn in the wrong zone
  until it moves again, and its new neighbours are then wiped from the screen (`AvatarRight`
  fails with `Patient = FALSE` in `ClientView`);
- the weapon of a respawned user is that of an old picture, or none, until it changes, and
  a client is not told its own weapon at login;
- the client says "Inventory full — lost" (`client.cpp:1388`) of an item that stays on the
  ground (`ItemHelper.cpp:124`); an ITEM_USE_REQ that fails starts the cooldown;
- the client makes no swap and no discard requests, though the server accepts them;
- a packet may precede `HandleEnterZone` in the new zone's queue; the transferring
  flag drops it;
- a monster can get a second chain of `EV_AGGRO_MOVE` after a kill;
- the portfolio says a chase returns to the spawn when its target changes zone; the code
  deactivates the monster where it stands;
- `HandleAttackToPlayer` does not compare zones, so it can kill a user of the next zone,
  who is then dead and still in that zone's grid (`struck` in `ClientView`);
- a respawned aggressive monster is not woken by a user who stands still next to it;
- cooldowns compare 32-bit milliseconds and stall when the clock wraps within one.

## 6. Plan

Done: the six modules above, in the order of importance, and the theorems listed.

1. *Model more.* Two sessions of one account in `InventoryStore`; the receive buffers of
   server and client (bytes to packets, refining an abstract stream of packets); cooldowns
   with a small integer width; operators for zone layout, sector coordinates, levels and A*,
   checked against reference definitions.
2. *Prove more.* Only the liveness properties are left, and they are out of the prover's reach.
   The safety half of their arguments is proved, that what must happen is always in somebody's
   hands: `TransferInHand`, `DisconnectKept`, `NoBytesLeftBehind`, `MonsterComesBack`,
   `UserComesBack`, `ChaseGoesOn` and `DespawnPending`.
