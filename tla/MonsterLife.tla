----------------------------- MODULE MonsterLife -----------------------------
(***************************************************************************)
(* The monsters of one zone, the users they meet, and the timer events     *)
(* that move them, make them attack, and bring both back to life.          *)
(*                                                                         *)
(* A handler schedules its own continuation, so what a monster does is a   *)
(* chain of events in the TimerThread's queue; the m_Active flag decides   *)
(* who may start one.  Handlers and packets of one zone run one at a time. *)
(* The zone is a strip of cells 0 .. Width - 1 and the cell Width is the   *)
(* first one of the next zone; hit points are counted in blows.            *)
(***************************************************************************)
EXTENDS Integers, Sequences, FiniteSets, SequencesExt

CONSTANTS
  Monsters, Users, None,
  Width,        \* cells of the zone
  VIEW_RANGE, WAKE_RANGE, ZONE_BOUNDARY_MARGIN,
  Leash,        \* how far from its spawn a monster chases
  MONSTER_MAX_HP, PLAYER_MAX_HP,
  SKILL_DAMAGE, HEAL_SIZE,  \* an attack and a monster's blow take 1
  \* delays in ticks: a chase or random step, a blow, a heal, the respawns
  MoveDelay, AttackDelay, HealDelay, RespawnDelay, UserRespawnDelay,
  MaxPackets,   \* bound: packets the users send
  MaxLives      \* bound: how often a user respawns before it disconnects

ASSUME LifeAssumption ==
  /\ Width \in Nat \ {0} /\ MONSTER_MAX_HP \in Nat \ {0}
  /\ PLAYER_MAX_HP \in Nat \ {0}
  /\ {SKILL_DAMAGE, HEAL_SIZE, VIEW_RANGE, MaxPackets, MaxLives} \subseteq Nat
  /\ {MoveDelay, AttackDelay, HealDelay, RespawnDelay, UserRespawnDelay} \subseteq Nat
  /\ 0 < MoveDelay /\ MoveDelay < AttackDelay
  /\ AttackDelay < RespawnDelay
  /\ HealDelay < UserRespawnDelay
  /\ IsFiniteSet(Monsters) /\ None \notin Monsters \cup Users
  /\ Monsters \cap Users = {}   \* the category in an ObjID

VARIABLES
  monster,   \* position, facing, spawn, type, hp (0: dead), m_Active, m_Attack
  user,      \* position, hp (0: dead), and whether the User exists
  timers,    \* TimerThread's queue in dispatch order, with the ticks left
  packets,   \* packets sent so far
  lives      \* respawns each user has had

vars == <<monster, user, timers, packets, lives>>

Zone  == 0 .. Width - 1
Cells == 0 .. Width
EventTypes == {"RANDOM_MOVE", "AGGRO_MOVE", "MONSTER_ATTACK", "MONSTER_RESPAWN",
               "HEAL", "USER_RESPAWN"}

MonsterStates ==
  [x: Zone, left: BOOLEAN, spawn: Zone, type: {"AGGRO", "PASSIVE"},
   hp: 0 .. MONSTER_MAX_HP, active: BOOLEAN, attack: BOOLEAN]
UserStates == [x: Cells, hp: 0 .. PLAYER_MAX_HP, at: {"new", "world", "gone"}]
Events == [ev: EventTypes, m: Monsters \cup {None}, u: Users \cup {None}, in: Nat]

TypeOK ==
  /\ monster \in [Monsters -> MonsterStates]
  /\ user \in [Users -> UserStates]
  /\ timers \in Seq(Events)
  /\ packets \in 0 .. MaxPackets
  /\ lives \in [Users -> 0 .. MaxLives]

-----------------------------------------------------------------------------
\* Geometry

Dist(a, b) == IF a < b THEN b - a ELSE a - b

CanSee(m, u)     == Dist(monster[m].x, user[u].x) <= VIEW_RANGE
IsAdjacent(m, u) == Dist(monster[m].x, user[u].x) = 1
CanAttack(m, u)  == IsAdjacent(m, u) /\ (monster[m].left <=> user[u].x < monster[m].x)

\* Only the side of the next zone is a zone boundary.
IsNearZoneBoundary(x) == x + ZONE_BOUNDARY_MARGIN >= Width

\* GameObjectManager still knows the user.
Exists(u) == user[u].at = "world"

\* The users in the zone's sector grid: death and disconnect remove one.
InSector(u) == Exists(u) /\ user[u].hp > 0 /\ user[u].x \in Zone

-----------------------------------------------------------------------------
\* TimerThread

MonsterEvent(ev, m, u) == [ev |-> ev, m |-> m, u |-> u, in |-> 0]
UserEvent(ev, u)       == [ev |-> ev, m |-> None, u |-> u, in |-> 0]

\* Ordered by wake-up time and, among equals, by sequence number: the events
\* scheduled in a row with the same delay follow each other.
ScheduleAll(queue, delay, events) ==
  LET before == Cardinality({i \in DOMAIN queue : queue[i].in <= delay})
  IN SubSeq(queue, 1, before)
       \o SetToSeq({[e EXCEPT !.in = delay] : e \in events})
       \o SubSeq(queue, before + 1, Len(queue))

ScheduleAfter(queue, delay, event) == ScheduleAll(queue, delay, {event})

\* Time passes; the zone thread may be late with events that are due.
Tick ==
  /\ \E i \in DOMAIN timers : timers[i].in > 0
  /\ timers' = [i \in DOMAIN timers |->
                  [timers[i] EXCEPT !.in = IF @ = 0 THEN 0 ELSE @ - 1]]
  /\ UNCHANGED <<monster, user, packets, lives>>

\* The zone thread runs the first event that is due.
Runs(ev) == timers # <<>> /\ Head(timers).in = 0 /\ Head(timers).ev = ev

-----------------------------------------------------------------------------
\* Waking monsters up

\* WakeUpMonster, for every monster that user u at x now sees.
Woken(x, force) ==
  {m \in Monsters :
     /\ x \in Zone /\ Dist(monster[m].x, x) <= VIEW_RANGE
     /\ monster[m].hp > 0
     /\ force \/ monster[m].type = "PASSIVE" \/ Dist(monster[m].x, x) <= WAKE_RANGE
     /\ ~monster[m].active}

FirstMove(m, u) ==
  IF monster[m].type = "PASSIVE" THEN MonsterEvent("RANDOM_MOVE", m, None)
                                 ELSE MonsterEvent("AGGRO_MOVE", m, u)

WithWoken(queue, woken, u) ==
  ScheduleAll(queue, MoveDelay, {FirstMove(m, u) : m \in woken})

Activated(woken) ==
  [m \in Monsters |-> IF m \in woken THEN [monster[m] EXCEPT !.active = TRUE]
                                     ELSE monster[m]]

-----------------------------------------------------------------------------
\* Packets of the users

Sends(u) ==
  /\ Exists(u) /\ user[u].hp > 0
  /\ packets < MaxPackets
  /\ packets' = packets + 1

\* HandleGetUserInfo: the heal chain starts, monsters wake up.
Login(u) ==
  /\ user[u].at = "new"
  /\ \E x \in Cells :
       LET woken == Woken(x, FALSE) IN
       /\ user' = [user EXCEPT ![u] = [x |-> x, hp |-> PLAYER_MAX_HP, at |-> "world"]]
       /\ monster' = Activated(woken)
       /\ timers' = WithWoken(ScheduleAfter(timers, HealDelay, UserEvent("HEAL", u)),
                              woken, u)
  /\ UNCHANGED <<packets, lives>>

\* USER_MOVE_REQ and USER_TELEPORT_REQ, into another zone and back included.
HandlePlayerMove(u) ==
  /\ Sends(u)
  /\ \E x \in Cells \ {user[u].x} :
       /\ user' = [user EXCEPT ![u].x = x]
       /\ monster' = Activated(Woken(x, FALSE))
       /\ timers' = WithWoken(timers, Woken(x, FALSE), u)
  /\ UNCHANGED lives

\* AttackMonster: blows on the targets; a dead monster respawns later.
AttackMonsters(targets, damage) ==
  LET hp(m)  == IF monster[m].hp > damage THEN monster[m].hp - damage ELSE 0
      killed == {m \in targets : hp(m) = 0}
  IN /\ monster' = [m \in Monsters |->
          IF m \in killed
          THEN [monster[m] EXCEPT !.hp = 0, !.active = FALSE, !.attack = FALSE]
          ELSE IF m \in targets THEN [monster[m] EXCEPT !.hp = hp(m)] ELSE monster[m]]
     /\ timers' = ScheduleAll(timers, RespawnDelay,
                    {MonsterEvent("MONSTER_RESPAWN", m, None) : m \in killed})

\* Mutant: the bodies stay in the grid and nobody asks whether they live.
Targets_WithDead(u) == {m \in Monsters : IsAdjacent(m, u)}

\* Dead monsters have left the grid and are passed over.
Targets(u) == {m \in Monsters : monster[m].hp > 0 /\ IsAdjacent(m, u)}

\* USER_ATTACK_REQ: the monsters on the side the user faces.
HandleAttack(u) ==
  /\ Sends(u) /\ InSector(u)
  /\ \E left \in BOOLEAN :
       AttackMonsters({m \in Targets(u) : left <=> monster[m].x < user[u].x}, 1)
  /\ UNCHANGED <<user, lives>>

\* USER_SKILL_REQ: the monsters on every side.
SkillAttack(u) ==
  /\ Sends(u) /\ InSector(u)
  /\ AttackMonsters(Targets(u), SKILL_DAMAGE)
  /\ UNCHANGED <<user, lives>>

Disconnect(u) ==
  /\ Exists(u)
  /\ user' = [user EXCEPT ![u].at = "gone"]
  /\ UNCHANGED <<monster, timers, packets, lives>>

-----------------------------------------------------------------------------
\* Monster handlers

\* Moving to x, with the facing that UpdateFacing gives.
At(m, x) ==
  [monster[m] EXCEPT !.x = x,
                     !.left = IF x < monster[m].x THEN TRUE
                              ELSE IF x > monster[m].x THEN FALSE ELSE @]

Asleep(m) == [monster[m] EXCEPT !.active = FALSE]
Quiet(m)  == [monster[m] EXCEPT !.attack = FALSE]

\* Mutant: the chase ends but the monster counts as active.
GivenUp_StaysActive(m) == [monster[m] EXCEPT !.attack = FALSE]

GivenUp(m) == [monster[m] EXCEPT !.active = FALSE, !.attack = FALSE]

\* What the handler of monster m leaves behind, with the given event in or
\* not in the queue.
Ends(m, state) ==
  /\ monster' = [monster EXCEPT ![m] = state]
  /\ timers' = Tail(timers)
Goes(m, state, delay, event) ==
  /\ monster' = [monster EXCEPT ![m] = state]
  /\ timers' = ScheduleAfter(Tail(timers), delay, event)

\* Mutant: a step may leave the zone.
RandomSteps_NoGuard(m) == {monster[m].x - 1, monster[m].x, monster[m].x + 1}

\* RandomMove: one cell in one of four directions, never out of the zone.
RandomSteps(m) == {monster[m].x - 1, monster[m].x, monster[m].x + 1} \cap Zone

HandleRandomMove ==
  LET m    == Head(timers).m
      seen == {u \in Users : InSector(u) /\ CanSee(m, u)}
      hits == {u \in seen : CanAttack(m, u)}
  IN
  /\ Runs("RANDOM_MOVE")
  /\ \/ /\ monster[m].hp = 0
        /\ Ends(m, monster[m])
     \/ /\ monster[m].hp > 0
        /\ \E u \in hits : Goes(m, monster[m], 0, MonsterEvent("MONSTER_ATTACK", m, u))
     \/ /\ monster[m].hp > 0 /\ hits = {} /\ seen # {}
        /\ \E x \in RandomSteps(m) :
             Goes(m, At(m, x), MoveDelay, MonsterEvent("RANDOM_MOVE", m, None))
     \/ /\ monster[m].hp > 0 /\ seen = {}
        /\ Ends(m, Asleep(m))
  /\ UNCHANGED <<user, packets, lives>>

\* TryAdvanceTowardGoal: a step closer, unless walls are in the way.
Advance(m, goal) ==
  IF monster[m].x = goal THEN {}
  ELSE {monster[m].x + (IF goal > monster[m].x THEN 1 ELSE -1)}

\* Mutant: the target is chased into another zone.
ValidTarget_AnyZone(u) == Exists(u)

\* The chase has a target: the user exists and is in the monster's zone.
ValidTarget(u) == Exists(u) /\ user[u].x \in Zone

MustReturn(m) ==
  IsNearZoneBoundary(monster[m].x) \/ Dist(monster[m].x, monster[m].spawn) > Leash

HandleAggroMove ==
  LET m    == Head(timers).m
      u    == Head(timers).u
      self == monster[m]
      next == MonsterEvent("AGGRO_MOVE", m, u)
  IN
  /\ Runs("AGGRO_MOVE")
  /\ \/ /\ self.hp = 0
        /\ Ends(m, self)
     \/ /\ self.hp > 0 /\ ~ValidTarget(u)
        /\ Ends(m, GivenUp(m))
     \* near the boundary or too far from the spawn: back, or to sleep
     \/ /\ self.hp > 0 /\ ValidTarget(u) /\ MustReturn(m)
        /\ IF IsNearZoneBoundary(self.x) /\ IsNearZoneBoundary(self.spawn)
           THEN Ends(m, GivenUp(m))
           ELSE \/ \E x \in Advance(m, self.spawn) :
                     Goes(m, [At(m, x) EXCEPT !.attack = FALSE], MoveDelay, next)
                \/ Ends(m, GivenUp(m))
     \* next to the target: a blow, unless one is under way
     \/ /\ self.hp > 0 /\ ValidTarget(u) /\ ~MustReturn(m) /\ CanAttack(m, u)
        /\ monster' = monster
        /\ timers' = LET hit == IF self.attack THEN Tail(timers)
                                ELSE ScheduleAfter(Tail(timers), 0,
                                       MonsterEvent("MONSTER_ATTACK", m, u))
                     IN ScheduleAfter(hit, MoveDelay, next)
     \* otherwise a step after it, as long as it is in sight
     \/ /\ self.hp > 0 /\ ValidTarget(u) /\ ~MustReturn(m) /\ ~CanAttack(m, u)
        /\ \E x \in Advance(m, user[u].x) \cup {self.x} :
             IF Dist(x, user[u].x) <= VIEW_RANGE
             THEN Goes(m, [At(m, x) EXCEPT !.active = TRUE], MoveDelay, next)
             ELSE Ends(m, [At(m, x) EXCEPT !.active = FALSE])
  /\ UNCHANGED <<user, packets, lives>>

\* Mutant: nobody asks whether the victim is already dead.
BlowLands_OnTheDead(m, u) == IsAdjacent(m, u) /\ monster[m].hp > 0

BlowLands(m, u) == user[u].hp > 0 /\ IsAdjacent(m, u) /\ monster[m].hp > 0

HandleAttackToPlayer ==
  LET m == Head(timers).m
      u == Head(timers).u
  IN
  /\ Runs("MONSTER_ATTACK")
  /\ \/ /\ ~Exists(u)
        /\ Ends(m, monster[m])
        /\ UNCHANGED user
     \/ /\ Exists(u) /\ ~BlowLands(m, u)
        /\ Ends(m, Quiet(m))
        /\ UNCHANGED user
     \/ /\ Exists(u) /\ BlowLands(m, u) /\ user[u].hp > 1
        /\ user' = [user EXCEPT ![u].hp = @ - 1]
        /\ IF CanAttack(m, u)
           THEN Goes(m, [monster[m] EXCEPT !.attack = TRUE], AttackDelay, Head(timers))
           ELSE Ends(m, Quiet(m))
     \/ /\ Exists(u) /\ BlowLands(m, u) /\ user[u].hp <= 1
        /\ user' = [user EXCEPT ![u].hp = 0]
        /\ Goes(m, GivenUp(m), UserRespawnDelay, UserEvent("USER_RESPAWN", u))
  /\ UNCHANGED <<packets, lives>>

\* Mutant: the respawned monster keeps its dead mark.
HandleMonsterRespawn_StaysDead ==
  LET m == Head(timers).m IN
  /\ Runs("MONSTER_RESPAWN")
  /\ \E x \in Zone : Ends(m, [monster[m] EXCEPT !.x = x, !.spawn = x])
  /\ UNCHANGED <<user, packets, lives>>

\* The monster comes back at a random place, asleep; nobody is told to wake it.
HandleMonsterRespawn ==
  LET m == Head(timers).m IN
  /\ Runs("MONSTER_RESPAWN")
  /\ \E x \in Zone :
       Ends(m, [monster[m] EXCEPT !.x = x, !.spawn = x, !.hp = MONSTER_MAX_HP,
                                  !.active = FALSE, !.attack = FALSE])
  /\ UNCHANGED <<user, packets, lives>>

-----------------------------------------------------------------------------
\* User handlers

HealHp(hp) == IF hp + HEAL_SIZE >= PLAYER_MAX_HP THEN PLAYER_MAX_HP
                                                 ELSE hp + HEAL_SIZE

\* Mutant: a dead user's chain goes on.
Heals_EvenDead(u) == Exists(u)

Heals(u) == Exists(u) /\ user[u].hp > 0

\* A dead user's chain of heals ends; the respawn starts another one.
HandleHeal ==
  LET u == Head(timers).u IN
  /\ Runs("HEAL")
  /\ IF Heals(u)
     THEN /\ user' = [user EXCEPT ![u].hp = HealHp(@)]
          /\ timers' = ScheduleAfter(Tail(timers), HealDelay, UserEvent("HEAL", u))
     ELSE /\ timers' = Tail(timers)
          /\ UNCHANGED user
  /\ UNCHANGED <<monster, packets, lives>>

\* At a random place of the user's zone, waking every monster in sight.
HandleRespawn ==
  LET u == Head(timers).u IN
  /\ Runs("USER_RESPAWN")
  /\ \/ /\ Exists(u) /\ lives[u] < MaxLives
        /\ \E x \in IF user[u].x \in Zone THEN Zone ELSE {Width} :
             LET woken == Woken(x, TRUE) IN
             /\ user' = [user EXCEPT ![u].x = x, ![u].hp = PLAYER_MAX_HP]
             /\ monster' = Activated(woken)
             /\ timers' = ScheduleAfter(WithWoken(Tail(timers), woken, u), HealDelay,
                                        UserEvent("HEAL", u))
        /\ lives' = [lives EXCEPT ![u] = @ + 1]
     \* the user has disconnected (with MaxLives, just before)
     \/ /\ Exists(u) => lives[u] = MaxLives
        /\ user' = [user EXCEPT ![u].at = "gone"]
        /\ timers' = Tail(timers)
        /\ UNCHANGED <<monster, lives>>
  /\ UNCHANGED packets

-----------------------------------------------------------------------------
\* InitForZone: every monster sleeps at its spawn.
Init ==
  /\ \E x \in [Monsters -> Zone], type \in [Monsters -> {"AGGRO", "PASSIVE"}] :
       monster = [m \in Monsters |->
                    [x |-> x[m], left |-> FALSE, spawn |-> x[m], type |-> type[m],
                     hp |-> MONSTER_MAX_HP, active |-> FALSE, attack |-> FALSE]]
  /\ user = [u \in Users |-> [x |-> 0, hp |-> PLAYER_MAX_HP, at |-> "new"]]
  /\ timers = <<>>
  /\ packets = 0
  /\ lives = [u \in Users |-> 0]

RunTimer ==
  \/ HandleRandomMove \/ HandleAggroMove \/ HandleAttackToPlayer
  \/ HandleMonsterRespawn \/ HandleHeal \/ HandleRespawn

Next ==
  \/ Tick
  \/ RunTimer
  \/ \E u \in Users : \/ Login(u) \/ HandlePlayerMove(u) \/ HandleAttack(u)
                      \/ SkillAttack(u) \/ Disconnect(u)

Spec == Init /\ [][Next]_vars

\* Time passes, and the timer and zone threads run what is due.
FairSpec == Spec /\ WF_vars(Tick) /\ WF_vars(RunTimer)

-----------------------------------------------------------------------------
Pending(ev, who) ==
  Cardinality({i \in DOMAIN timers :
                 timers[i].ev = ev /\ who \in {timers[i].m, timers[i].u}})

\* A killed monster has one respawn ahead of it and a living one none,
\* whoever hits it and however often (AttackMonster).
MonsterComesBack ==
  \A m \in Monsters :
    Pending("MONSTER_RESPAWN", m) = IF monster[m].hp = 0 THEN 1 ELSE 0

\* A killed user has one respawn ahead of it and a living one none
\* (HandleAttackToPlayer).
UserComesBack ==
  \A u \in Users : Exists(u) =>
    Pending("USER_RESPAWN", u) = IF user[u].hp = 0 THEN 1 ELSE 0

\* A living user heals on one chain of events: the one that death leaves
\* in the queue has ended before the respawn starts the next (HandleHeal).
OneHealChain ==
  \A u \in Users : Exists(u) =>
    /\ user[u].hp > 0 => Pending("HEAL", u) = 1
    /\ Pending("HEAL", u) <= 1

\* An aggressive monster that is active has its next step in the queue; if
\* not, TryActivate would keep it from ever moving again.
ChaseGoesOn ==
  \A m \in Monsters :
    monster[m].type = "AGGRO" /\ monster[m].active => Pending("AGGRO_MOVE", m) > 0

\* An awake monster is in the timer queue (WakeUpMonster).
AwakeIsScheduled ==
  \A m \in Monsters : monster[m].active => \E i \in DOMAIN timers : timers[i].m = m

\* No user of the zone, dead or alive, is in the monster's sight.
Unwatched(m) ==
  monster[m].type = "AGGRO"
    /\ \A u \in Users : Exists(u) /\ user[u].x \in Zone => ~CanSee(m, u)

\* An aggressive monster whom nobody in the zone sees any more goes back to
\* sleep and stays asleep.
FallsAsleep ==
  \A m \in Monsters : <>[]Unwatched(m) => <>[](~monster[m].active)

\* A killed monster comes back, and so does a user who stays.
DeadComeBack ==
  /\ \A m \in Monsters : monster[m].hp = 0 ~> monster[m].hp > 0
  /\ \A u \in Users : user[u].hp = 0 ~> user[u].hp > 0 \/ ~Exists(u)

-----------------------------------------------------------------------------
(***************************************************************************)
(* The inductive invariant.                                                *)
(***************************************************************************)

\* The events that handlers schedule, with what they are about.
QueuedEvents ==
  [ev: {"RANDOM_MOVE", "MONSTER_RESPAWN"}, m: Monsters, u: {None}, in: Nat]
    \cup [ev: {"AGGRO_MOVE", "MONSTER_ATTACK"}, m: Monsters, u: Users, in: Nat]
    \cup [ev: {"USER_RESPAWN"}, m: {None}, u: Users, in: Nat]
    \cup [ev: {"HEAL"}, m: {None}, u: Users, in: 0 .. HealDelay]

\* The queue is in the order in which the events come due.
InOrder(queue) ==
  \A i, j \in DOMAIN queue : i < j => queue[i].in <= queue[j].in

\* The heal of user u that is left in the queue runs before its respawn.
HealsFirst(queue, u) ==
  \A i, j \in DOMAIN queue :
    /\ queue[i].ev = "HEAL" /\ queue[i].u = u
    /\ queue[j].ev = "USER_RESPAWN" /\ queue[j].u = u
    => i < j

LifeInv ==
  /\ TypeOK
  /\ timers \in Seq(QueuedEvents) /\ InOrder(timers)
  /\ MonsterComesBack /\ ChaseGoesOn
  /\ \A m \in Monsters : monster[m].hp = 0 => ~monster[m].active
  /\ UserComesBack /\ OneHealChain
  /\ \A u \in Users : /\ Exists(u) => HealsFirst(timers, u)
                      /\ user[u].at = "new" => /\ user[u].hp > 0
                                               /\ Pending("HEAL", u) = 0
                                               /\ Pending("USER_RESPAWN", u) = 0
=============================================================================
