------------------------------- MODULE Combat --------------------------------
(***************************************************************************)
(* One hosted battle in detail (cloudflare/multiplayer/src/battle.ts): the *)
(* animals, energy and shields of both sides, the clock that offers each   *)
(* side something to collect, and the pause while a player reconnects.     *)
(* Handlers run one at a time in the Durable Object (module Pool).         *)
(***************************************************************************)
EXTENDS Integers, FiniteSets

CONSTANTS
  Sides,       \* the two players
  Fighters,    \* indices of a team: 1 .. 3 in the code
  MaxHealth,   \* maxHealthFor: health of each animal of each side at full
  MaxEnergy,   \* maxEnergy
  SwitchCost,  \* switchEnergyCost
  Abilities,   \* records [cost, damage, effect, amount]
  FirstDelay,  \* from the start to the first spawn
  Delays,      \* results of spawnDelay
  SpawnLife,   \* how long a spawn can be collected
  Grace,       \* reconnectGraceMs
  Horizon,     \* bound: the last instant a behaviour reaches
  None         \* undefined

Effects == {"damage", "shield", "heal", "drain"}

ASSUME CombatAssumption ==
  /\ IsFiniteSet(Sides) /\ Cardinality(Sides) = 2
  /\ Fighters \subseteq Nat /\ 1 \in Fighters
  /\ MaxHealth \in [Sides -> [Fighters -> Nat \ {0}]]
  /\ MaxEnergy \in Nat /\ SwitchCost \in Nat
  /\ \A a \in Abilities: /\ a.cost \in Nat /\ a.amount \in Nat
                         /\ a.damage \subseteq Nat \ {0}
                         /\ a.effect \in Effects
  /\ FirstDelay \in Nat /\ SpawnLife \in Nat /\ Grace \in Nat \ {0}
  /\ Horizon \in Nat
  /\ Delays \subseteq Nat \ {0}
  /\ None \notin Nat \cup Sides

VARIABLES
  now,        \* Date.now()
  started,    \* BattleSession.started
  finished,   \* BattleSession.finished
  winner,     \* BattleSession.winnerUid
  gone,       \* BattleSession.disconnectedUids
  pausedAt,   \* BattleSession.pausedAt
  deadline,   \* BattleSession.reconnectDeadline
  side        \* BattleSession.players

outcomeVars == <<started, finished, winner>>
pauseVars == <<gone, pausedAt, deadline>>
vars == <<now, outcomeVars, pauseVars, side>>

(* BattleCombatant, without its name and its combo statistics. *)
Combatant == [health: [Fighters -> Nat], active: Fighters,
              energy: Nat, shield: Nat, ready: BOOLEAN,
              hits: Nat, misses: Nat,
              lastSpawn: Nat,                 \* nextSpawnId
              nextSpawnAt: Nat \cup {None},
              spawn: Nat \cup {None},         \* activeSpawnId
              golden: BOOLEAN,
              expiresAt: Nat \cup {None}]

Least(x, y) == IF x < y THEN x ELSE y
Most(x, y) == IF x > y THEN x ELSE y
Other(u) == CHOOSE v \in Sides: v # u

Init ==
  /\ now = 0
  /\ started = FALSE
  /\ finished = FALSE
  /\ winner = None
  /\ gone = {}
  /\ pausedAt = None
  /\ deadline = None
  /\ side = [u \in Sides |->
       [health |-> MaxHealth[u], active |-> 1, energy |-> 0, shield |-> 0,
        ready |-> FALSE, hits |-> 0, misses |-> 0, lastSpawn |-> 0,
        nextSpawnAt |-> None, spawn |-> None, golden |-> FALSE,
        expiresAt |-> None]]

Tick ==
  /\ now < Horizon
  /\ now' = now + 1
  /\ UNCHANGED <<outcomeVars, pauseVars, side>>

Playing == started /\ ~finished /\ gone = {}

(* clearClock, on one side *)
Stopped(p) == [p EXCEPT !.nextSpawnAt = None, !.spawn = None,
                        !.golden = FALSE, !.expiresAt = None]

-----------------------------------------------------------------------------
(* markReady: the second player to be ready starts the battle. *)
MarkReady(u) ==
  LET ready == [side EXCEPT ![u].ready = TRUE]
      starts == ~started /\ \A v \in Sides: ready[v].ready
  IN
  /\ ~finished /\ gone = {}
  /\ started' = (started \/ starts)
  /\ side' = [v \in Sides |->
       IF starts THEN [ready[v] EXCEPT !.nextSpawnAt = now + FirstDelay]
       ELSE ready[v]]
  /\ UNCHANGED <<now, finished, winner, pauseVars>>

-----------------------------------------------------------------------------
(* The energy clock: processBattleClock and collectEnergy. *)

MissedUncounted(p, delay) ==
  [p EXCEPT !.spawn = None, !.golden = FALSE, !.expiresAt = None,
            !.nextSpawnAt = now + delay]

Missed(p, delay) ==
  [p EXCEPT !.spawn = None, !.golden = FALSE, !.expiresAt = None,
            !.misses = @ + 1, !.nextSpawnAt = now + delay]

Spawned(p, golden) ==
  [p EXCEPT !.lastSpawn = @ + 1, !.spawn = p.lastSpawn + 1,
            !.golden = golden, !.expiresAt = now + SpawnLife,
            !.nextSpawnAt = None]

Expires(p) == p.spawn # None /\ p.expiresAt <= now
Spawns(p) == p.spawn = None /\ p.nextSpawnAt # None /\ p.nextSpawnAt <= now

(* A spawn that expires is followed by a delay, so no pass does both. *)
Clocked(p, delay, golden) ==
  IF Expires(p) THEN Missed(p, delay)
  ELSE IF Spawns(p) THEN Spawned(p, golden)
  ELSE p

(* alarm, on a battle that is not paused *)
ProcessClock ==
  /\ Playing
  /\ \E u \in Sides: Expires(side[u]) \/ Spawns(side[u])
  /\ \E delay \in [Sides -> Delays], golden \in [Sides -> BOOLEAN]:
       side' = [u \in Sides |-> Clocked(side[u], delay[u], golden[u])]
  /\ UNCHANGED <<now, outcomeVars, pauseVars>>

Gain(p) == Least(MaxEnergy, p.energy + (IF p.golden THEN 2 ELSE 1))

Collected(p, delay) ==
  [p EXCEPT !.spawn = None, !.golden = FALSE, !.expiresAt = None,
            !.nextSpawnAt = now + delay, !.energy = Gain(p), !.hits = @ + 1]

(* An expired spawn counts until the alarm has taken it away. *)
CollectEnergy(u) ==
  /\ Playing
  /\ side[u].spawn # None
  /\ \E delay \in Delays: side' = [side EXCEPT ![u] = Collected(@, delay)]
  /\ UNCHANGED <<now, outcomeVars, pauseVars>>

-----------------------------------------------------------------------------
(* useAbility.  Rounding, variance and the matchup of the two powers are in
   the set of damages of an ability.                                         *)

Struck(p, damage) ==
  LET absorbed == Least(p.shield, damage) IN
  [p EXCEPT !.shield = @ - absorbed,
            !.health[p.active] = Most(0, @ - (damage - absorbed))]

(* applyEffect, on the attacker p whose victim is q *)
Empowered(u, p, q, a) ==
  CASE a.effect = "damage" -> p
    [] a.effect = "shield" -> [p EXCEPT !.shield = @ + a.amount]
    [] a.effect = "heal" ->
         [p EXCEPT !.health[p.active] =
            Least(MaxHealth[u][p.active], @ + a.amount)]
    [] a.effect = "drain" ->
         [p EXCEPT !.energy = Least(MaxEnergy, @ + Least(q.energy, a.amount))]

Drained(q, a) ==
  IF a.effect = "drain" THEN [q EXCEPT !.energy = @ - Least(@, a.amount)]
  ELSE q

HealthyAtZero(p) == {f \in Fighters: p.health[f] >= 0}

Healthy(p) == {f \in Fighters: p.health[f] > 0}
First(S) == CHOOSE f \in S: \A g \in S: f <= g

(* The next healthy animal comes in for one that has fallen. *)
Replaced(q) ==
  IF q.health[q.active] > 0 THEN q
  ELSE [q EXCEPT !.active = First(Healthy(q)), !.shield = 0]

UseAbility(u, a, damage) ==
  LET v == Other(u)
      paid == [side[u] EXCEPT !.energy = @ - a.cost]
      struck == Struck(side[v], damage)
      actor == Empowered(u, paid, struck, a)
      victim == Drained(struck, a)
      falls == Healthy(victim) = {}
  IN
  /\ Playing
  /\ side[u].energy >= a.cost
  /\ side' = [w \in Sides |->
       IF w = u THEN IF falls THEN Stopped(actor) ELSE actor
       ELSE IF falls THEN Stopped(victim) ELSE Replaced(victim)]
  /\ finished' = falls
  /\ winner' = IF falls THEN u ELSE None
  /\ UNCHANGED <<now, started, pauseVars>>

(* switchFighter *)
SwitchToFallen(u, f) ==
  /\ Playing
  /\ f # side[u].active
  /\ side[u].energy >= SwitchCost
  /\ side' = [side EXCEPT ![u].energy = @ - SwitchCost, ![u].active = f,
                          ![u].shield = 0]
  /\ UNCHANGED <<now, outcomeVars, pauseVars>>

SwitchFighter(u, f) ==
  /\ Playing
  /\ f # side[u].active
  /\ side[u].health[f] > 0
  /\ side[u].energy >= SwitchCost
  /\ side' = [side EXCEPT ![u].energy = @ - SwitchCost, ![u].active = f,
                          ![u].shield = 0]
  /\ UNCHANGED <<now, outcomeVars, pauseVars>>

(* forfeitBattle *)
ForfeitToLeaver(u) ==
  /\ ~finished
  /\ u \notin gone
  /\ finished' = TRUE
  /\ winner' = u
  /\ side' = [v \in Sides |-> Stopped(side[v])]
  /\ UNCHANGED <<now, started, pauseVars>>

Forfeit(u) ==
  /\ ~finished
  /\ u \notin gone
  /\ finished' = TRUE
  /\ winner' = Other(u)
  /\ side' = [v \in Sides |-> Stopped(side[v])]
  /\ UNCHANGED <<now, started, pauseVars>>

-----------------------------------------------------------------------------
(* pauseBattle *)
PauseRestarts(u) ==
  /\ ~finished
  /\ u \notin gone
  /\ gone' = gone \cup {u}
  /\ pausedAt' = now
  /\ deadline' = IF deadline = None THEN now + Grace
                 ELSE Least(deadline, now + Grace)
  /\ UNCHANGED <<now, outcomeVars, side>>

PauseBattle(u) ==
  /\ ~finished
  /\ u \notin gone
  /\ gone' = gone \cup {u}
  /\ pausedAt' = IF pausedAt = None THEN now ELSE pausedAt
  /\ deadline' = IF deadline = None THEN now + Grace
                 ELSE Least(deadline, now + Grace)
  /\ UNCHANGED <<now, outcomeVars, side>>

(* resumeBattle: the clocks of both sides move by the time that was lost. *)
Later(time, lost) == IF time = None THEN None ELSE time + lost

ResumedSpawnsOnly(p, lost) == [p EXCEPT !.nextSpawnAt = Later(@, lost)]

Resumed(p, lost) == [p EXCEPT !.nextSpawnAt = Later(@, lost),
                              !.expiresAt = Later(@, lost)]

ResumeBattle(u) ==
  /\ ~finished
  /\ u \in gone
  /\ deadline > now
  /\ gone' = gone \ {u}
  /\ IF gone' # {} THEN UNCHANGED <<pausedAt, deadline, side>>
     ELSE /\ pausedAt' = None
          /\ deadline' = None
          /\ side' = [v \in Sides |-> Resumed(side[v], now - pausedAt)]
  /\ UNCHANGED <<now, outcomeVars>>

(* expireReconnect *)
ExpireReconnect ==
  /\ ~finished
  /\ gone # {}
  /\ deadline <= now
  /\ finished' = TRUE
  /\ gone' = {}
  /\ pausedAt' = None
  /\ deadline' = None
  /\ side' = [u \in Sides |-> Stopped(side[u])]
  /\ UNCHANGED <<now, started, winner>>

Next ==
  \/ Tick \/ ProcessClock \/ ExpireReconnect
  \/ \E u \in Sides:
       \/ MarkReady(u) \/ CollectEnergy(u) \/ Forfeit(u)
       \/ PauseBattle(u) \/ ResumeBattle(u)
       \/ \E a \in Abilities: \E damage \in a.damage: UseAbility(u, a, damage)
       \/ \E f \in Fighters: SwitchFighter(u, f)

Spec == Init /\ [][Next]_vars

-----------------------------------------------------------------------------
(* Type invariant: the ranges of battle.ts, with energy below its cap and no
   animal above its full health.                                             *)
TypeOK ==
  /\ now \in Nat
  /\ started \in BOOLEAN /\ finished \in BOOLEAN
  /\ winner \in Sides \cup {None}
  /\ gone \subseteq Sides
  /\ pausedAt \in Nat \cup {None} /\ deadline \in Nat \cup {None}
  /\ side \in [Sides -> Combatant]
  /\ \A u \in Sides: side[u].energy <= MaxEnergy
  /\ \A u \in Sides, f \in Fighters: side[u].health[f] <= MaxHealth[u][f]

(* The animal in the arena is alive as long as the battle runs, whatever falls,
   heals and switches happen (useAbility, switchFighter).                    *)
ActiveFighterAlive ==
  ~finished => \A u \in Sides: side[u].health[side[u].active] > 0

(* A running battle keeps feeding both sides: each has either a spawn on the
   board with the instant it goes, or the instant of its next one, never both
   and never neither (processBattleClock, collectEnergy, resumeBattle).      *)
EnergyFlows ==
  started /\ ~finished => \A u \in Sides:
    /\ side[u].spawn # None <=> side[u].nextSpawnAt = None
    /\ side[u].spawn # None <=> side[u].expiresAt # None

(* Each spawn a side was offered was collected, missed, or is on the board:
   a collection and an expiry of the same spawn never both count.            *)
SpawnsAccounted == \A u \in Sides:
  LET p == side[u] IN
  /\ p.spawn # None => p.lastSpawn = p.hits + p.misses + 1 /\ p.spawn = p.lastSpawn
  /\ p.spawn = None => p.lastSpawn - (p.hits + p.misses)
                         \in (IF finished THEN {0, 1} ELSE {0})

(* A side without a living animal has lost the battle (useAbility). *)
FallenHasLost == \A u \in Sides:
  (\A f \in Fighters: side[u].health[f] = 0) => finished /\ winner = Other(u)

(* The grace period runs from the moment the first player was lost, and only
   while somebody is missing (pauseBattle, resumeBattle, expireReconnect).   *)
GraceFromFirstLoss ==
  /\ gone # {} => pausedAt # None /\ deadline = pausedAt + Grace
  /\ gone = {} => pausedAt = None /\ deadline = None

(* Players who drop in and out cannot prolong a pause: while anybody is missing
   the deadline stands (pauseBattle).                                        *)
DeadlineStands == [][gone # {} /\ gone' # {} => deadline' = deadline]_vars

(* A pause costs nobody time: when play goes on, every clock has as long to run
   as it had when play stopped (resumeBattle).                               *)
TimeLeft(time, since) == IF time = None THEN None ELSE time - since

PauseStopsClocks ==
  [][gone # {} /\ gone' = {} /\ ~finished' =>
       \A u \in Sides:
         /\ TimeLeft(side'[u].nextSpawnAt, now')
              = TimeLeft(side[u].nextSpawnAt, pausedAt)
         /\ TimeLeft(side'[u].expiresAt, now')
              = TimeLeft(side[u].expiresAt, pausedAt)]_vars

-----------------------------------------------------------------------------
(* The battle as its players and the Pool see it. *)
LifeOfBattle ==
  [players |-> Sides,
   ready |-> {u \in Sides: side[u].ready},
   gone |-> gone,
   outcome |-> IF ~finished THEN "open"
               ELSE IF winner = None THEN "interrupted" ELSE "won",
   winner |-> winner]

Contract == INSTANCE BattleLife
              WITH Uids <- Sides, Ids <- {0}, life <- [m \in {0} |-> LifeOfBattle]

(* The detailed battle keeps the contract of BattleLife: nobody falls while a
   player is missing, a missing player never loses by a forfeit, and the first
   outcome is the last.                                                      *)
KeepsContract == Contract!Spec
=============================================================================
