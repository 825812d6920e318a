---------------------------- MODULE CombatProofs -----------------------------
(***************************************************************************)
(* Proofs about Combat for every team size, catalogue of abilities, delay  *)
(* and horizon: its type invariant, and that a running battle always has a *)
(* living animal in the arena of each side.                                *)
(***************************************************************************)
EXTENDS Combat, FiniteSetTheorems, NaturalsInduction, WellFoundedInduction, TLAPS

(* The two players: everybody has exactly one opponent (opponentFor). *)
LEMMA OtherSide ==
  ASSUME NEW u \in Sides
  PROVE  /\ Other(u) \in Sides /\ Other(u) # u
         /\ \A w \in Sides: w = u \/ w = Other(u)
<1>1. IsFiniteSet(Sides) /\ Cardinality(Sides) = 2  BY CombatAssumption
<1>2. /\ IsFiniteSet(Sides \ {u})
      /\ Cardinality(Sides \ {u}) = 1
  BY <1>1, FS_RemoveElement
<1>3. PICK v: Sides \ {u} = {v}  BY <1>2, FS_Singleton
<1>4. v \in Sides /\ v # u  BY <1>3
<1>5. Other(u) \in Sides /\ Other(u) # u  BY <1>4 DEF Other
<1>6. Other(u) = v  BY <1>3, <1>5
<1> QED  BY <1>3, <1>5, <1>6

(* findIndex returns an index of the array when there is a match. *)
LEMMA FirstOfSet ==
  ASSUME NEW S, S \subseteq Nat, S # {}
  PROVE  First(S) \in S
<1>1. PICK f \in S: \A g \in S: <<g, f>> \notin OpToRel(<, Nat)
  BY WFMin, NatLessThanWellFounded, Zenon
<1>2. \A g \in S: g \in Nat /\ f \in Nat  OBVIOUS
<1>3. \A g \in S: ~(g < f)  BY <1>1, <1>2, Zenon DEF OpToRel
<1>4. \A g \in S: f <= g  BY <1>2, <1>3
<1> QED  BY <1>4 DEF First

-----------------------------------------------------------------------------
(* The inductive invariant.  An open battle is described side by side, which
   is what the operators on one combatant preserve; a finished one keeps only
   the count of its spawns and who has won.                                  *)

Fit(u, p) ==
  /\ p \in Combatant
  /\ p.energy <= MaxEnergy
  /\ \A f \in Fighters: p.health[f] <= MaxHealth[u][f]

Standing(p) == p.health[p.active] > 0

Counted(p) ==
  /\ p.spawn # None => p.lastSpawn = p.hits + p.misses + 1 /\ p.spawn = p.lastSpawn
  /\ p.spawn = None => p.lastSpawn = p.hits + p.misses

Fed(p) == /\ p.spawn # None <=> p.nextSpawnAt = None
          /\ p.spawn # None <=> p.expiresAt # None

Idle(p) == p.spawn = None /\ p.nextSpawnAt = None /\ p.expiresAt = None

(* A side of an open battle, "on" when the battle has started. *)
Sound(u, p, on) ==
  /\ Fit(u, p) /\ Standing(p) /\ Counted(p)
  /\ on => Fed(p)
  /\ ~on => Idle(p)

(* A side of a finished battle: its last spawn may have been called off. *)
Ended(u, p) ==
  /\ Fit(u, p)
  /\ p.spawn = None
  /\ p.lastSpawn - (p.hits + p.misses) \in {0, 1}

ScalarsOK ==
  /\ now \in Nat
  /\ started \in BOOLEAN /\ finished \in BOOLEAN
  /\ winner \in Sides \cup {None}
  /\ gone \subseteq Sides
  /\ pausedAt \in Nat \cup {None} /\ deadline \in Nat \cup {None}
  /\ side \in [Sides -> Combatant]

IInv ==
  /\ ScalarsOK
  /\ GraceFromFirstLoss
  /\ pausedAt # None => pausedAt <= now
  /\ winner # None => finished
  /\ started => \A u \in Sides: side[u].ready
  /\ ~finished => \A u \in Sides: Sound(u, side[u], started)
  /\ finished => \A u \in Sides: Ended(u, side[u])
  /\ FallenHasLost

(* The invariant implies every property of a state that the runs check. *)
LEMMA InvImplies ==
  IInv => /\ TypeOK /\ ActiveFighterAlive /\ EnergyFlows
          /\ SpawnsAccounted /\ FallenHasLost /\ GraceFromFirstLoss
<1> SUFFICES ASSUME IInv
             PROVE  /\ TypeOK /\ ActiveFighterAlive /\ EnergyFlows
                    /\ SpawnsAccounted /\ FallenHasLost /\ GraceFromFirstLoss
  OBVIOUS
<1>1. \A u \in Sides: Fit(u, side[u])
  BY DEF IInv, ScalarsOK, Sound, Ended
<1>2. TypeOK  BY <1>1 DEF IInv, ScalarsOK, Fit, TypeOK
<1>3. ActiveFighterAlive  BY DEF IInv, ActiveFighterAlive, Sound, Standing
<1>4. EnergyFlows  BY DEF IInv, EnergyFlows, Sound, Fed
<1>5. SpawnsAccounted
  <2> SUFFICES ASSUME NEW u \in Sides
      PROVE /\ side[u].spawn # None =>
                 /\ side[u].lastSpawn = side[u].hits + side[u].misses + 1
                 /\ side[u].spawn = side[u].lastSpawn
            /\ side[u].spawn = None =>
                 side[u].lastSpawn - (side[u].hits + side[u].misses)
                   \in (IF finished THEN {0, 1} ELSE {0})
    BY DEF SpawnsAccounted
  <2>1. side[u] \in Combatant  BY DEF IInv, ScalarsOK
  <2>2. CASE finished  BY <2>1, <2>2 DEF IInv, Ended
  <2>3. CASE ~finished
    BY <2>1, <2>3 DEF IInv, Sound, Counted, Combatant
  <2> QED  BY <2>2, <2>3 DEF IInv, ScalarsOK
<1> QED  BY <1>2, <1>3, <1>4, <1>5 DEF IInv

LEMMA InitInv == Init => IInv
<1> SUFFICES ASSUME Init PROVE IInv  OBVIOUS
<1> USE CombatAssumption
<1>1. \A u \in Sides: Sound(u, side[u], FALSE)
  <2> SUFFICES ASSUME NEW u \in Sides PROVE Sound(u, side[u], FALSE)
    OBVIOUS
  <2>1. side[u] = [health |-> MaxHealth[u], active |-> 1, energy |-> 0,
        shield |-> 0, ready |-> FALSE, hits |-> 0, misses |-> 0,
        lastSpawn |-> 0, nextSpawnAt |-> None, spawn |-> None,
        golden |-> FALSE, expiresAt |-> None]  BY DEF Init
  <2>2. MaxHealth[u] \in [Fighters -> Nat] /\ \A f \in Fighters: MaxHealth[u][f] > 0 /\ MaxHealth[u][f] \in Nat
    OBVIOUS
  <2>3. side[u] \in Combatant  BY <2>1, <2>2 DEF Combatant
  <2>4. Fit(u, side[u])  BY <2>1, <2>2, <2>3 DEF Fit
  <2>5. Standing(side[u])  BY <2>1, <2>2 DEF Standing
  <2> QED  BY <2>1, <2>4, <2>5 DEF Sound, Counted, Idle
<1>2. ScalarsOK
  <2>1. \A u \in Sides: side[u] \in Combatant  BY <1>1 DEF Sound, Fit
  <2>2. side \in [Sides -> Combatant]  BY <2>1 DEF Init
  <2> QED  BY <2>2 DEF Init, ScalarsOK
<1>3. FallenHasLost
  <2>1. \A u \in Sides: \E f \in Fighters: side[u].health[f] # 0
    BY DEF Init
  <2> QED  BY <2>1 DEF FallenHasLost
<1> QED  BY <1>1, <1>2, <1>3 DEF IInv, Init, GraceFromFirstLoss

-----------------------------------------------------------------------------
(* What the operators on one combatant preserve. *)

(* processBattleClock *)
LEMMA ClockedSound ==
  ASSUME now \in Nat, NEW u \in Sides, NEW p, Sound(u, p, TRUE),
         NEW delay \in Delays, NEW golden \in BOOLEAN
  PROVE  Sound(u, Clocked(p, delay, golden), TRUE)
         /\ Clocked(p, delay, golden).ready = p.ready
<1> DEFINE q == Clocked(p, delay, golden)
<1>1. p \in Combatant /\ delay \in Nat  BY CombatAssumption DEF Sound, Fit
<1>2. CASE Expires(p)
  <2>1. q = Missed(p, delay)  BY <1>2 DEF Clocked
  <2>2. q \in Combatant
    <3>1. p.misses + 1 \in Nat /\ now + delay \in Nat
      BY <1>1 DEF Combatant
    <3> QED  BY <1>1, <2>1, <3>1, Zenon DEF Missed, Combatant
  <2>3. Fit(u, q) /\ Standing(q)
    BY <1>1, <2>1, <2>2 DEF Missed, Sound, Fit, Standing, Combatant
  <2>4. Counted(q) /\ Fed(q) /\ q.ready = p.ready
    BY <1>1, <1>2, <2>1, CombatAssumption
    DEF Missed, Sound, Counted, Fed, Combatant, Expires
  <2> QED  BY <2>3, <2>4 DEF Sound
<1>3. CASE ~Expires(p) /\ Spawns(p)
  <2>1. q = Spawned(p, golden)  BY <1>3 DEF Clocked
  <2>2. q \in Combatant
    <3>1. p.lastSpawn + 1 \in Nat /\ now + SpawnLife \in Nat
      BY <1>1, CombatAssumption DEF Combatant
    <3> QED  BY <1>1, <2>1, <3>1, Zenon DEF Spawned, Combatant
  <2>3. Fit(u, q) /\ Standing(q)
    BY <1>1, <2>1, <2>2 DEF Spawned, Sound, Fit, Standing, Combatant
  <2>4. Counted(q) /\ Fed(q) /\ q.ready = p.ready
    BY <1>1, <1>3, <2>1, CombatAssumption
    DEF Spawned, Sound, Counted, Fed, Combatant, Spawns
  <2> QED  BY <2>3, <2>4 DEF Sound
<1>4. CASE ~Expires(p) /\ ~Spawns(p)  BY <1>4 DEF Clocked
<1> QED  BY <1>2, <1>3, <1>4

(* markReady *)
LEMMA ReadySound ==
  ASSUME NEW u \in Sides, NEW p, NEW on, Sound(u, p, on)
  PROVE  LET q == [p EXCEPT !.ready = TRUE]
         IN  Sound(u, q, on) /\ q.ready /\ q \in Combatant
<1> DEFINE q == [p EXCEPT !.ready = TRUE]
<1>1. p \in Combatant  BY DEF Sound, Fit
<1>2. q \in Combatant
  <2>1. TRUE \in BOOLEAN  OBVIOUS
  <2> QED  BY <1>1, <2>1, Zenon DEF Combatant
<1>3. Fit(u, q) /\ Standing(q)
  BY <1>1, <1>2 DEF Sound, Fit, Standing, Combatant
<1>4. Counted(q) /\ (Fed(p) => Fed(q)) /\ (Idle(p) => Idle(q)) /\ q.ready
  BY <1>1 DEF Sound, Counted, Fed, Idle, Combatant
<1> QED  BY <1>2, <1>3, <1>4 DEF Sound

LEMMA ArmedSound ==
  ASSUME NEW u \in Sides, NEW p, Sound(u, p, FALSE), NEW time \in Nat
  PROVE  LET q == [p EXCEPT !.nextSpawnAt = time]
         IN  Sound(u, q, TRUE) /\ q.ready = p.ready
<1> DEFINE q == [p EXCEPT !.nextSpawnAt = time]
<1>1. p \in Combatant /\ time # None  BY CombatAssumption DEF Sound, Fit
<1>2. q \in Combatant  BY <1>1 DEF Combatant
<1>3. Fit(u, q) /\ Standing(q)
  BY <1>1, <1>2 DEF Sound, Fit, Standing, Combatant
<1>4. Counted(q) /\ Fed(q) /\ q.ready = p.ready
  BY <1>1 DEF Sound, Counted, Fed, Idle, Combatant
<1> QED  BY <1>3, <1>4 DEF Sound

(* collectEnergy *)
LEMMA CollectedSound ==
  ASSUME now \in Nat, NEW u \in Sides, NEW p, Sound(u, p, TRUE),
         p.spawn # None, NEW delay \in Delays
  PROVE  Sound(u, Collected(p, delay), TRUE) /\ Collected(p, delay).ready = p.ready
<1> DEFINE q == Collected(p, delay)
<1>1. p \in Combatant /\ delay \in Nat  BY CombatAssumption DEF Sound, Fit
<1>2. p.energy \in Nat /\ MaxEnergy \in Nat  BY <1>1, CombatAssumption DEF Combatant
<1>3. Gain(p) \in Nat /\ Gain(p) <= MaxEnergy  BY <1>2 DEF Gain, Least
<1>4. q \in Combatant /\ q.energy = Gain(p)
  <2>1. p.hits + 1 \in Nat /\ now + delay \in Nat  BY <1>1 DEF Combatant
  <2>2. q \in Combatant  BY <1>1, <1>3, <2>1, Zenon DEF Collected, Combatant
  <2>3. q.energy = Gain(p)  BY <1>1 DEF Collected, Combatant
  <2> QED  BY <2>2, <2>3
<1>5. Fit(u, q) /\ Standing(q)
  BY <1>1, <1>3, <1>4 DEF Collected, Sound, Fit, Standing, Combatant
<1>6. Counted(q) /\ Fed(q) /\ q.ready = p.ready
  BY <1>1, CombatAssumption DEF Collected, Sound, Counted, Fed, Combatant
<1> QED  BY <1>5, <1>6 DEF Sound

(* clearClock, at the end of a battle *)
LEMMA StoppedEnded ==
  ASSUME NEW u \in Sides, NEW p, Fit(u, p), Counted(p)
  PROVE  Ended(u, Stopped(p)) /\ Stopped(p).ready = p.ready
         /\ Stopped(p).health = p.health
<1> DEFINE q == Stopped(p)
<1>1. p \in Combatant  BY DEF Fit
<1>2. q \in Combatant  BY <1>1 DEF Stopped, Combatant
<1>3. Fit(u, q)  BY <1>1, <1>2 DEF Stopped, Fit, Combatant
<1>4. q.spawn = None /\ q.lastSpawn - (q.hits + q.misses) \in {0, 1}
  BY <1>1 DEF Stopped, Counted, Combatant
<1>5. q.ready = p.ready /\ q.health = p.health  BY <1>1 DEF Stopped, Combatant
<1> QED  BY <1>3, <1>4, <1>5 DEF Ended

(* resumeBattle *)
LEMMA ResumedSound ==
  ASSUME NEW u \in Sides, NEW p, NEW on \in BOOLEAN, Sound(u, p, on),
         NEW lost \in Nat
  PROVE  Sound(u, Resumed(p, lost), on) /\ Resumed(p, lost).ready = p.ready
<1> DEFINE q == Resumed(p, lost)
<1>1. p \in Combatant  BY DEF Sound, Fit
<1>2. /\ Later(p.nextSpawnAt, lost) \in Nat \cup {None}
      /\ Later(p.nextSpawnAt, lost) = None <=> p.nextSpawnAt = None
      /\ Later(p.expiresAt, lost) \in Nat \cup {None}
      /\ Later(p.expiresAt, lost) = None <=> p.expiresAt = None
  BY <1>1, CombatAssumption DEF Later, Combatant
<1>3. q = [p EXCEPT !.nextSpawnAt = Later(p.nextSpawnAt, lost),
                    !.expiresAt = Later(p.expiresAt, lost)]
  BY DEF Resumed
<1>4. q \in Combatant  BY <1>1, <1>2, <1>3 DEF Combatant
<1>5. Fit(u, q) /\ Standing(q)
  BY <1>1, <1>3, <1>4 DEF Sound, Fit, Standing, Combatant
<1>6. Counted(q) /\ q.ready = p.ready
  BY <1>1, <1>3 DEF Sound, Counted, Combatant
<1>7. (on => Fed(q)) /\ (~on => Idle(q))
  BY <1>1, <1>2, <1>3 DEF Sound, Fed, Idle, Combatant
<1> QED  BY <1>5, <1>6, <1>7 DEF Sound

(* useAbility.  Between the blow and the change of animals a side may have a
   fallen animal in the arena.                                               *)
Whole(u, p) == Fit(u, p) /\ Counted(p) /\ Fed(p) /\ p.ready

LEMMA PaidWhole ==
  ASSUME NEW u \in Sides, NEW p, Whole(u, p), NEW cost \in Nat,
         p.energy >= cost
  PROVE  LET q == [p EXCEPT !.energy = @ - cost]
         IN  Whole(u, q) /\ q.health = p.health /\ q.active = p.active
<1> DEFINE q == [p EXCEPT !.energy = @ - cost]
<1>1. p \in Combatant  BY DEF Whole, Fit
<1>2. p.energy - cost \in Nat /\ p.energy - cost <= MaxEnergy
  BY <1>1, CombatAssumption DEF Combatant, Whole, Fit
<1>3. q \in Combatant /\ q.energy = p.energy - cost
  BY <1>1, <1>2 DEF Combatant
<1>4. Fit(u, q)  BY <1>1, <1>2, <1>3 DEF Whole, Fit, Combatant
<1>5. Counted(q) /\ Fed(q) /\ q.ready
      /\ q.health = p.health /\ q.active = p.active
  BY <1>1 DEF Whole, Counted, Fed, Combatant
<1> QED  BY <1>4, <1>5 DEF Whole

LEMMA StruckWhole ==
  ASSUME NEW u \in Sides, NEW p, Whole(u, p), NEW damage \in Nat
  PROVE  Whole(u, Struck(p, damage))
<1> DEFINE absorbed == Least(p.shield, damage)
           left == Most(0, p.health[p.active] - (damage - absorbed))
           q == Struck(p, damage)
<1>1. p \in Combatant  BY DEF Whole, Fit
<1>2. p.health \in [Fighters -> Nat] /\ p.active \in Fighters
      /\ p.shield \in Nat /\ p.health[p.active] \in Nat
  BY <1>1 DEF Combatant
<1>3. absorbed \in Nat /\ absorbed <= p.shield /\ absorbed <= damage
  BY <1>2 DEF Least
<1>4. left \in Nat /\ left <= p.health[p.active]
  BY <1>2, <1>3 DEF Most
<1>5. q = [p EXCEPT !.shield = p.shield - absorbed,
                    !.health = [p.health EXCEPT ![p.active] = left]]
  BY <1>1, <1>2 DEF Struck, Combatant
<1>6. /\ p.shield - absorbed \in Nat
      /\ [p.health EXCEPT ![p.active] = left] \in [Fighters -> Nat]
  BY <1>2, <1>3, <1>4
<1>7. q \in Combatant  BY <1>1, <1>5, <1>6, Zenon DEF Combatant
<1>8. q.health = [p.health EXCEPT ![p.active] = left]
  BY <1>1, <1>5 DEF Combatant
<1>9. \A f \in Fighters: MaxHealth[u][f] \in Nat /\ p.health[f] \in Nat
                        /\ p.health[f] <= MaxHealth[u][f]
  BY <1>2, CombatAssumption DEF Whole, Fit
<1>10. \A f \in Fighters: q.health[f] <= MaxHealth[u][f]
  BY <1>2, <1>4, <1>8, <1>9
<1>11. q.energy = p.energy /\ Counted(q) /\ Fed(q) /\ q.ready
  BY <1>1, <1>5 DEF Whole, Counted, Fed, Combatant
<1> QED  BY <1>7, <1>10, <1>11 DEF Whole, Fit

LEMMA DrainedWhole ==
  ASSUME NEW u \in Sides, NEW q, Whole(u, q), NEW a \in Abilities
  PROVE  Whole(u, Drained(q, a))
<1> DEFINE cost == Least(q.energy, a.amount)
<1>1. q.energy \in Nat /\ a.amount \in Nat
  BY CombatAssumption DEF Whole, Fit, Combatant
<1>2. cost \in Nat /\ q.energy >= cost  BY <1>1 DEF Least
<1>3. Whole(u, [q EXCEPT !.energy = @ - cost])  BY <1>2, PaidWhole
<1>4. [q EXCEPT !.energy = @ - cost] = [q EXCEPT !.energy = @ - Least(@, a.amount)]
  OBVIOUS
<1> QED  BY <1>3, <1>4 DEF Drained

LEMMA EmpoweredWhole ==
  ASSUME NEW u \in Sides, NEW p, Whole(u, p), Standing(p),
         NEW v \in Sides, NEW q, Whole(v, q), NEW a \in Abilities
  PROVE  Whole(u, Empowered(u, p, q, a)) /\ Standing(Empowered(u, p, q, a))
<1> DEFINE r == Empowered(u, p, q, a)
<1>1. p \in Combatant /\ a.amount \in Nat /\ a.effect \in Effects
  BY CombatAssumption DEF Whole, Fit
<1>2. CASE a.effect = "damage"  BY <1>2 DEF Empowered
<1>3. CASE a.effect = "shield"
  <2>1. r = [p EXCEPT !.shield = @ + a.amount]  BY <1>3 DEF Empowered
  <2>2. p.shield + a.amount \in Nat  BY <1>1 DEF Combatant
  <2>3. r \in Combatant  BY <1>1, <2>1, <2>2 DEF Combatant
  <2>4. Fit(u, r)  BY <1>1, <2>1, <2>3 DEF Fit, Whole, Combatant
  <2>5. Counted(r) /\ Fed(r) /\ r.ready /\ Standing(r)
    BY <1>1, <2>1 DEF Whole, Counted, Fed, Standing, Combatant
  <2> QED  BY <2>4, <2>5 DEF Whole
<1>4. CASE a.effect = "heal"
  <2> DEFINE full == MaxHealth[u][p.active]
             well == Least(full, p.health[p.active] + a.amount)
  <2>1. r = [p EXCEPT !.health[p.active] = Least(MaxHealth[u][p.active], @ + a.amount)]
    BY <1>4 DEF Empowered
  <2>2. p.health \in [Fighters -> Nat] /\ p.active \in Fighters
        /\ p.health[p.active] \in Nat /\ p.health[p.active] > 0
    BY <1>1 DEF Combatant, Standing
  <2>3. full \in Nat /\ full > 0
    <3>1. MaxHealth[u] \in [Fighters -> Nat \ {0}]  BY CombatAssumption
    <3> QED  BY <2>2, <3>1
  <2>4. well \in Nat /\ well <= full /\ well > 0  BY <1>1, <2>2, <2>3 DEF Least
  <2>5. r = [p EXCEPT !.health = [p.health EXCEPT ![p.active] = well]]
    BY <1>1, <2>1, <2>2 DEF Combatant
  <2>6. [p.health EXCEPT ![p.active] = well] \in [Fighters -> Nat]
    BY <2>2, <2>4
  <2>7. r \in Combatant  BY <1>1, <2>5, <2>6, Zenon DEF Combatant
  <2>8. r.health = [p.health EXCEPT ![p.active] = well] /\ r.active = p.active
    BY <1>1, <2>5 DEF Combatant
  <2>9. \A f \in Fighters: r.health[f] <= MaxHealth[u][f]
    BY <2>2, <2>4, <2>8 DEF Whole, Fit
  <2>10. Standing(r)  BY <2>2, <2>4, <2>8 DEF Standing
  <2>11. r.energy = p.energy /\ Counted(r) /\ Fed(r) /\ r.ready
    BY <1>1, <2>5 DEF Whole, Counted, Fed, Combatant
  <2> QED  BY <2>7, <2>9, <2>10, <2>11 DEF Whole, Fit
<1>5. CASE a.effect = "drain"
  <2> DEFINE energy == Least(MaxEnergy, p.energy + Least(q.energy, a.amount))
  <2>1. r = [p EXCEPT !.energy = energy]  BY <1>1, <1>5 DEF Empowered, Combatant
  <2>2. p.energy \in Nat /\ q.energy \in Nat /\ MaxEnergy \in Nat
    BY <1>1, CombatAssumption DEF Combatant, Whole, Fit
  <2>3. energy \in Nat /\ energy <= MaxEnergy  BY <1>1, <2>2 DEF Least
  <2>4. r \in Combatant /\ r.energy = energy  BY <1>1, <2>1, <2>3 DEF Combatant
  <2>5. Fit(u, r)  BY <1>1, <2>1, <2>3, <2>4 DEF Fit, Whole, Combatant
  <2>6. Counted(r) /\ Fed(r) /\ r.ready /\ Standing(r)
    BY <1>1, <2>1 DEF Whole, Counted, Fed, Standing, Combatant
  <2> QED  BY <2>5, <2>6 DEF Whole
<1> QED  BY <1>1, <1>2, <1>3, <1>4, <1>5 DEF Effects

LEMMA ReplacedWhole ==
  ASSUME NEW u \in Sides, NEW q, Whole(u, q), Healthy(q) # {}
  PROVE  Whole(u, Replaced(q)) /\ Standing(Replaced(q))
<1> DEFINE r == Replaced(q)
           f == First(Healthy(q))
<1>1. q \in Combatant  BY DEF Whole, Fit
<1>2. CASE q.health[q.active] > 0  BY <1>2 DEF Replaced, Standing
<1>3. CASE ~(q.health[q.active] > 0)
  <2>1. Healthy(q) \subseteq Nat  BY CombatAssumption DEF Healthy
  <2>2. f \in Healthy(q)  BY <2>1, FirstOfSet
  <2>3. f \in Fighters /\ q.health[f] > 0  BY <2>2 DEF Healthy
  <2>4. r = [q EXCEPT !.active = f, !.shield = 0]  BY <1>3 DEF Replaced
  <2>5. r \in Combatant
    <3>1. 0 \in Nat  OBVIOUS
    <3> QED  BY <1>1, <2>3, <2>4, <3>1, Zenon DEF Combatant
  <2>6. Fit(u, r) /\ Standing(r)
    BY <1>1, <2>3, <2>4, <2>5 DEF Fit, Whole, Standing, Combatant
  <2>7. Counted(r) /\ Fed(r) /\ r.ready
    BY <1>1, <2>4 DEF Whole, Counted, Fed, Combatant
  <2> QED  BY <2>6, <2>7 DEF Whole
<1> QED  BY <1>2, <1>3

(* switchFighter *)
LEMMA SwitchedWhole ==
  ASSUME NEW u \in Sides, NEW p, Whole(u, p), p.energy >= SwitchCost,
         NEW f \in Fighters, p.health[f] > 0
  PROVE  LET q == [p EXCEPT !.energy = @ - SwitchCost, !.active = f, !.shield = 0]
         IN  Whole(u, q) /\ Standing(q)
<1> DEFINE q == [p EXCEPT !.energy = @ - SwitchCost, !.active = f, !.shield = 0]
<1>1. p \in Combatant  BY DEF Whole, Fit
<1>2. p.energy - SwitchCost \in Nat /\ p.energy - SwitchCost <= MaxEnergy
  BY <1>1, CombatAssumption DEF Combatant, Whole, Fit
<1>3. q \in Combatant /\ q.energy = p.energy - SwitchCost
  <2>1. q = [p EXCEPT !.energy = p.energy - SwitchCost, !.active = f,
                      !.shield = 0]  OBVIOUS
  <2>2. q \in Combatant  BY <1>1, <1>2, <2>1, Zenon DEF Combatant
  <2>3. q.energy = p.energy - SwitchCost  BY <1>1, <2>1 DEF Combatant
  <2> QED  BY <2>2, <2>3
<1>4. Fit(u, q) /\ Standing(q)
  BY <1>1, <1>2, <1>3 DEF Whole, Fit, Standing, Combatant
<1>5. Counted(q) /\ Fed(q) /\ q.ready
  BY <1>1 DEF Whole, Counted, Fed, Combatant
<1> QED  BY <1>4, <1>5 DEF Whole

-----------------------------------------------------------------------------
(* The invariant is inductive: one lemma per action of Next. *)

(* While both arenas hold a living animal nobody has fallen. *)
LEMMA StandingNotFallen ==
  ASSUME NEW u \in Sides, NEW p, NEW on, Sound(u, p, on)
  PROVE  ~ \A f \in Fighters: p.health[f] = 0
<1>1. p.active \in Fighters /\ p.health[p.active] > 0
      /\ p.health[p.active] \in Nat
  BY DEF Sound, Fit, Standing, Combatant
<1> QED  BY <1>1

(* A running battle, side by side. *)
LEMMA PlayingWhole ==
  ASSUME IInv, Playing
  PROVE  /\ started = TRUE
         /\ \A u \in Sides: Whole(u, side[u]) /\ Standing(side[u])
                          /\ Sound(u, side[u], TRUE)
  BY DEF IInv, ScalarsOK, Playing, Sound, Whole

LEMMA WholeSound ==
  ASSUME NEW u, NEW p, Whole(u, p), Standing(p)
  PROVE  Sound(u, p, TRUE)
  BY DEF Whole, Sound

LEMMA TickInv == IInv /\ Tick => IInv'
<1> SUFFICES ASSUME IInv, Tick PROVE IInv'  OBVIOUS
<1>1. now' \in Nat /\ now' = now + 1  BY DEF IInv, ScalarsOK, Tick
<1>2. UNCHANGED <<started, finished, winner, gone, pausedAt, deadline, side>>
  BY DEF Tick, outcomeVars, pauseVars
<1>3. ScalarsOK'  BY <1>1, <1>2 DEF IInv, ScalarsOK
<1>4. (pausedAt # None => pausedAt <= now)'
  BY <1>1, <1>2 DEF IInv, ScalarsOK
<1>5. FallenHasLost' /\ GraceFromFirstLoss'
  BY <1>2 DEF IInv, FallenHasLost, GraceFromFirstLoss
<1> QED  BY <1>2, <1>3, <1>4, <1>5 DEF IInv

(* A step that only changes the sides, or starts the battle, keeps the
   invariant when it leaves both sides sound.                                *)
LEMMA StaysOpen ==
  ASSUME IInv, ~finished,
         UNCHANGED <<now, finished, winner, gone, pausedAt, deadline>>,
         started' \in BOOLEAN,
         DOMAIN side' = Sides, side' = [u \in Sides |-> side'[u]],
         \A u \in Sides: /\ Sound(u, side'[u], started')
                         /\ started' => side'[u].ready
  PROVE  IInv'
<1>1. \A u \in Sides: side'[u] \in Combatant  BY DEF Sound, Fit
<1>2. side' \in [Sides -> Combatant]  BY <1>1
<1>3. ScalarsOK'  BY <1>2 DEF IInv, ScalarsOK
<1>4. FallenHasLost'  BY StandingNotFallen DEF FallenHasLost
<1>5. GraceFromFirstLoss'  BY DEF IInv, GraceFromFirstLoss
<1> QED  BY <1>3, <1>4, <1>5 DEF IInv

LEMMA ProcessClockInv ==
  ASSUME IInv, ProcessClock
  PROVE  IInv'
<1>1. /\ Playing
      /\ UNCHANGED <<now, started, finished, winner, gone, pausedAt, deadline>>
  BY DEF ProcessClock, outcomeVars, pauseVars
<1>2. PICK delay \in [Sides -> Delays], golden \in [Sides -> BOOLEAN]:
        side' = [u \in Sides |-> Clocked(side[u], delay[u], golden[u])]
  BY DEF ProcessClock
<1>3. now \in Nat /\ started = TRUE
      /\ \A u \in Sides: Sound(u, side[u], TRUE) /\ side[u].ready
  BY <1>1, PlayingWhole DEF IInv, ScalarsOK
<1>4. \A u \in Sides: Sound(u, side'[u], TRUE) /\ side'[u].ready
  <2> TAKE u \in Sides
  <2>1. delay[u] \in Delays /\ golden[u] \in BOOLEAN  OBVIOUS
  <2>2. Sound(u, side[u], TRUE) /\ side[u].ready  BY <1>3
  <2>3. Sound(u, Clocked(side[u], delay[u], golden[u]), TRUE)
        /\ Clocked(side[u], delay[u], golden[u]).ready = side[u].ready
    BY <1>3, <2>1, <2>2, ClockedSound
  <2> QED  BY <1>2, <2>2, <2>3
<1>5. DOMAIN side' = Sides /\ side' = [u \in Sides |-> side'[u]]  BY <1>2
<1> QED  BY <1>1, <1>3, <1>4, <1>5, StaysOpen DEF Playing

LEMMA MarkReadyInv ==
  ASSUME IInv, NEW u \in Sides, MarkReady(u)
  PROVE  IInv'
<1> DEFINE ready == [side EXCEPT ![u].ready = TRUE]
           starts == ~started /\ \A v \in Sides: ready[v].ready
<1>1. /\ ~finished
      /\ started' = (started \/ starts)
      /\ side' = [v \in Sides |->
           IF starts THEN [ready[v] EXCEPT !.nextSpawnAt = now + FirstDelay]
           ELSE ready[v]]
      /\ UNCHANGED <<now, finished, winner, gone, pausedAt, deadline>>
  BY DEF MarkReady, pauseVars
<1>2. /\ now + FirstDelay \in Nat /\ started \in BOOLEAN
      /\ side \in [Sides -> Combatant]
      /\ \A v \in Sides: Sound(v, side[v], started)
      /\ started => \A v \in Sides: side[v].ready
  BY <1>1, CombatAssumption DEF IInv, ScalarsOK
<1>3. /\ \A v \in Sides: Sound(v, ready[v], started)
      /\ started => \A v \in Sides: ready[v].ready
  <2>1. ready[u] = [side[u] EXCEPT !.ready = TRUE]
        /\ \A v \in Sides \ {u}: ready[v] = side[v]
    BY <1>2
  <2>2. Sound(u, side[u], started)  BY <1>2
  <2> DEFINE q == [side[u] EXCEPT !.ready = TRUE]
  <2> HIDE DEF ready
  <2>3. Sound(u, ready[u], started) /\ ready[u].ready
    <3>1. Sound(u, q, started) /\ q.ready  BY <2>2, ReadySound, Zenon
    <3> QED  BY <2>1, <3>1, Zenon
  <2>4. ASSUME NEW v \in Sides, v # u PROVE Sound(v, ready[v], started)
    <3>1. ready[v] = side[v]  BY <2>1, <2>4
    <3>2. Sound(v, side[v], started)  BY <1>2
    <3> QED  BY <3>1, <3>2, Zenon
  <2>5. ASSUME started, NEW v \in Sides PROVE ready[v].ready
    BY <1>2, <2>1, <2>3, <2>5
  <2> QED  BY <2>3, <2>4, <2>5, Zenon
<1>4. DOMAIN side' = Sides /\ side' = [v \in Sides |-> side'[v]]  BY <1>1
<1> HIDE DEF ready
<1>5. CASE starts
  <2>1. started = FALSE /\ started' = TRUE  BY <1>1, <1>2, <1>5
  <2>2. \A v \in Sides: ready[v].ready  BY <1>5
  <2>3. \A v \in Sides: side'[v] = [ready[v] EXCEPT !.nextSpawnAt = now + FirstDelay]
    BY <1>1, <1>5, Zenon
  <2>4. \A v \in Sides: Sound(v, ready[v], FALSE)  BY <1>3, <2>1, Zenon
  <2>5. \A v \in Sides: Sound(v, side'[v], TRUE) /\ side'[v].ready = ready[v].ready
    <3> TAKE v \in Sides
    <3>1. Sound(v, ready[v], FALSE) /\ now + FirstDelay \in Nat
      BY <1>2, <2>4
    <3>2. side'[v] = [ready[v] EXCEPT !.nextSpawnAt = now + FirstDelay]
      BY <2>3
    <3> DEFINE q == [ready[v] EXCEPT !.nextSpawnAt = now + FirstDelay]
    <3>3. Sound(v, q, TRUE) /\ q.ready = ready[v].ready
      BY <3>1, ArmedSound
    <3> QED  BY <3>2, <3>3, Zenon
  <2>6. \A v \in Sides: Sound(v, side'[v], started') /\ (started' => side'[v].ready)
    BY <2>1, <2>2, <2>5
  <2>7. started' \in BOOLEAN  BY <2>1
  <2> QED  BY <1>1, <1>4, <2>6, <2>7, StaysOpen
<1>6. CASE ~starts
  <2>1. started' = started  BY <1>1, <1>2, <1>6
  <2>2. \A v \in Sides: side'[v] = ready[v]  BY <1>1, <1>6, Zenon
  <2>3. \A v \in Sides: Sound(v, side'[v], started') /\ (started' => side'[v].ready)
    BY <1>3, <2>1, <2>2, Zenon
  <2>4. started' \in BOOLEAN  BY <1>2, <2>1
  <2> QED  BY <1>1, <1>4, <2>3, <2>4, StaysOpen
<1> QED  BY <1>5, <1>6

LEMMA CollectEnergyInv ==
  ASSUME IInv, NEW u \in Sides, CollectEnergy(u)
  PROVE  IInv'
<1>1. /\ Playing /\ side[u].spawn # None
      /\ UNCHANGED <<now, started, finished, winner, gone, pausedAt, deadline>>
  BY DEF CollectEnergy, outcomeVars, pauseVars
<1>2. PICK delay \in Delays: side' = [side EXCEPT ![u] = Collected(@, delay)]
  BY DEF CollectEnergy
<1>3. /\ now \in Nat /\ started = TRUE /\ side \in [Sides -> Combatant]
      /\ \A v \in Sides: Sound(v, side[v], TRUE) /\ side[v].ready
  BY <1>1, PlayingWhole DEF IInv, ScalarsOK
<1>4. Sound(u, Collected(side[u], delay), TRUE)
      /\ Collected(side[u], delay).ready = side[u].ready
  BY <1>1, <1>3, CollectedSound
<1>5. /\ side'[u] = Collected(side[u], delay)
      /\ \A v \in Sides \ {u}: side'[v] = side[v]
      /\ DOMAIN side' = Sides /\ side' = [v \in Sides |-> side'[v]]
  BY <1>2, <1>3
<1>6. \A v \in Sides: Sound(v, side'[v], TRUE) /\ side'[v].ready
  BY <1>3, <1>4, <1>5
<1> QED  BY <1>1, <1>3, <1>5, <1>6, StaysOpen DEF Playing

LEMMA SwitchFighterInv ==
  ASSUME IInv, NEW u \in Sides, NEW f \in Fighters, SwitchFighter(u, f)
  PROVE  IInv'
<1> DEFINE q == [side[u] EXCEPT !.energy = @ - SwitchCost, !.active = f,
                                !.shield = 0]
<1>1. /\ Playing /\ side[u].health[f] > 0 /\ side[u].energy >= SwitchCost
      /\ UNCHANGED <<now, started, finished, winner, gone, pausedAt, deadline>>
  BY DEF SwitchFighter, outcomeVars, pauseVars
<1>2. /\ started = TRUE /\ side \in [Sides -> Combatant]
      /\ \A v \in Sides: /\ Whole(v, side[v])
                         /\ Sound(v, side[v], TRUE) /\ side[v].ready
  BY <1>1, PlayingWhole DEF IInv, ScalarsOK, Whole
<1>3. Whole(u, q) /\ Standing(q)
  <2>1. Whole(u, side[u])  BY <1>2
  <2> QED  BY <1>1, <2>1, SwitchedWhole
<1>4. side' = [side EXCEPT ![u] = q]  BY <1>2 DEF SwitchFighter
<1> HIDE DEF q
<1>5. /\ side'[u] = q
      /\ \A v \in Sides \ {u}: side'[v] = side[v]
      /\ DOMAIN side' = Sides /\ side' = [v \in Sides |-> side'[v]]
  BY <1>2, <1>4
<1>6. Sound(u, q, TRUE) /\ q.ready  BY <1>3, WholeSound DEF Whole
<1>7. \A v \in Sides: Sound(v, side'[v], TRUE) /\ side'[v].ready
  BY <1>2, <1>5, <1>6
<1> QED  BY <1>1, <1>2, <1>5, <1>7, StaysOpen DEF Playing

(* A step that ends the battle keeps the invariant when both clocks are
   stopped and whoever has no animal left has lost.                          *)
LEMMA Closes ==
  ASSUME IInv, ~finished, finished' = TRUE, UNCHANGED <<now, started>>,
         winner' \in Sides \cup {None}, gone' \subseteq Sides,
         pausedAt' = pausedAt \/ pausedAt' = None,
         deadline' = deadline \/ deadline' = None,
         GraceFromFirstLoss', FallenHasLost',
         DOMAIN side' = Sides, side' = [u \in Sides |-> side'[u]],
         \A u \in Sides: /\ Ended(u, side'[u])
                         /\ started => side'[u].ready
  PROVE  IInv'
<1>1. \A u \in Sides: side'[u] \in Combatant  BY DEF Ended, Fit
<1>2. side' \in [Sides -> Combatant]  BY <1>1
<1>3. ScalarsOK'  BY <1>2 DEF IInv, ScalarsOK
<1>4. (pausedAt # None => pausedAt <= now)'  BY DEF IInv
<1> QED  BY <1>3, <1>4 DEF IInv

(* Both clocks of an open battle are stopped: forfeitBattle, expireReconnect. *)
LEMMA BothStopped ==
  ASSUME IInv, ~finished, side' = [u \in Sides |-> Stopped(side[u])]
  PROVE  /\ DOMAIN side' = Sides /\ side' = [u \in Sides |-> side'[u]]
         /\ \A u \in Sides: /\ Ended(u, side'[u])
                            /\ started => side'[u].ready
                            /\ ~ \A f \in Fighters: side'[u].health[f] = 0
<1>1. DOMAIN side' = Sides /\ side' = [u \in Sides |-> side'[u]]  OBVIOUS
<1>2. ASSUME NEW u \in Sides
      PROVE  /\ Ended(u, side'[u])
             /\ started => side'[u].ready
             /\ ~ \A f \in Fighters: side'[u].health[f] = 0
  <2>1. Sound(u, side[u], started) /\ (started => side[u].ready)  BY DEF IInv
  <2>2. side'[u] = Stopped(side[u])  OBVIOUS
  <2>3. Fit(u, side[u]) /\ Counted(side[u])  BY <2>1 DEF Sound
  <2>4. Ended(u, side'[u]) /\ side'[u].ready = side[u].ready
        /\ side'[u].health = side[u].health
    BY <2>2, <2>3, StoppedEnded
  <2>5. ~ \A f \in Fighters: side[u].health[f] = 0
    BY <2>1, StandingNotFallen
  <2> QED  BY <2>1, <2>4, <2>5
<1> QED  BY <1>1, <1>2

LEMMA ForfeitInv ==
  ASSUME IInv, NEW u \in Sides, Forfeit(u)
  PROVE  IInv'
<1>1. /\ ~finished /\ finished' = TRUE /\ winner' = Other(u)
      /\ side' = [v \in Sides |-> Stopped(side[v])]
      /\ UNCHANGED <<now, started, gone, pausedAt, deadline>>
  BY DEF Forfeit, pauseVars
<1>2. winner' \in Sides \cup {None} /\ gone' \subseteq Sides
  BY <1>1, OtherSide DEF IInv, ScalarsOK
<1>3. FallenHasLost'  BY <1>1, BothStopped DEF FallenHasLost
<1>4. GraceFromFirstLoss'  BY <1>1 DEF IInv, GraceFromFirstLoss
<1> QED  BY <1>1, <1>2, <1>3, <1>4, BothStopped, Closes

LEMMA ExpireReconnectInv ==
  ASSUME IInv, ExpireReconnect
  PROVE  IInv'
<1>1. /\ ~finished /\ finished' = TRUE /\ gone' = {}
      /\ pausedAt' = None /\ deadline' = None
      /\ side' = [v \in Sides |-> Stopped(side[v])]
      /\ UNCHANGED <<now, started, winner>>
  BY DEF ExpireReconnect
<1>2. winner' \in Sides \cup {None} /\ gone' \subseteq Sides
  BY <1>1 DEF IInv, ScalarsOK
<1>3. FallenHasLost'  BY <1>1, BothStopped DEF FallenHasLost
<1>4. GraceFromFirstLoss'  BY <1>1 DEF GraceFromFirstLoss
<1> QED  BY <1>1, <1>2, <1>3, <1>4, BothStopped, Closes

LEMMA PauseBattleInv ==
  ASSUME IInv, NEW u \in Sides, PauseBattle(u)
  PROVE  IInv'
<1>1. /\ ~finished /\ u \notin gone /\ gone' = gone \cup {u}
      /\ pausedAt' = IF pausedAt = None THEN now ELSE pausedAt
      /\ deadline' = IF deadline = None THEN now + Grace
                     ELSE Least(deadline, now + Grace)
      /\ UNCHANGED <<now, started, finished, winner, side>>
  BY DEF PauseBattle, outcomeVars
<1>2. /\ now \in Nat /\ Grace \in Nat /\ None \notin Nat
      /\ pausedAt \in Nat \cup {None} /\ deadline \in Nat \cup {None}
      /\ gone # {} => pausedAt # None /\ deadline = pausedAt + Grace
      /\ gone = {} => pausedAt = None /\ deadline = None
      /\ pausedAt # None => pausedAt <= now
  BY CombatAssumption DEF IInv, ScalarsOK, GraceFromFirstLoss
<1>3. /\ pausedAt' \in Nat /\ pausedAt' <= now
      /\ deadline' = pausedAt' + Grace
  <2>1. CASE gone = {}  BY <1>1, <1>2, <2>1
  <2>2. CASE gone # {}  BY <1>1, <1>2, <2>2 DEF Least
  <2> QED  BY <2>1, <2>2
<1>4. GraceFromFirstLoss'  BY <1>1, <1>2, <1>3 DEF GraceFromFirstLoss
<1>5. ScalarsOK'  BY <1>1, <1>2, <1>3 DEF IInv, ScalarsOK
<1>6. FallenHasLost'  BY <1>1 DEF IInv, FallenHasLost
<1> QED  BY <1>1, <1>2, <1>3, <1>4, <1>5, <1>6 DEF IInv

LEMMA ResumeBattleInv ==
  ASSUME IInv, NEW u \in Sides, ResumeBattle(u)
  PROVE  IInv'
<1>1. /\ ~finished /\ u \in gone /\ gone' = gone \ {u}
      /\ UNCHANGED <<now, started, finished, winner>>
  BY DEF ResumeBattle, outcomeVars
<1>2. CASE gone' # {}
  <2>1. UNCHANGED <<pausedAt, deadline, side>>  BY <1>2 DEF ResumeBattle
  <2>2. GraceFromFirstLoss'  BY <1>1, <1>2, <2>1 DEF IInv, GraceFromFirstLoss
  <2>3. ScalarsOK'  BY <1>1, <2>1 DEF IInv, ScalarsOK
  <2>4. FallenHasLost'  BY <1>1, <2>1 DEF IInv, FallenHasLost
  <2> QED  BY <1>1, <2>1, <2>2, <2>3, <2>4 DEF IInv
<1>3. CASE gone' = {}
  <2>1. /\ pausedAt' = None /\ deadline' = None
        /\ side' = [v \in Sides |-> Resumed(side[v], now - pausedAt)]
    BY <1>3 DEF ResumeBattle
  <2>2. now - pausedAt \in Nat
    BY <1>1 DEF IInv, ScalarsOK, GraceFromFirstLoss
  <2>3. \A v \in Sides: /\ Sound(v, side'[v], started)
                        /\ started => side'[v].ready
    <3> TAKE v \in Sides
    <3>1. /\ Sound(v, side[v], started) /\ started \in BOOLEAN
          /\ started => side[v].ready
      BY <1>1 DEF IInv, ScalarsOK
    <3>2. /\ Sound(v, Resumed(side[v], now - pausedAt), started)
          /\ Resumed(side[v], now - pausedAt).ready = side[v].ready
      BY <2>2, <3>1, ResumedSound
    <3>3. side'[v] = Resumed(side[v], now - pausedAt)  BY <2>1
    <3> QED  BY <3>1, <3>2, <3>3, Zenon
  <2>4. \A v \in Sides: side'[v] \in Combatant  BY <2>3 DEF Sound, Fit
  <2>5. side' \in [Sides -> Combatant]  BY <2>1, <2>4
  <2>6. ScalarsOK'  BY <1>1, <1>3, <2>1, <2>5 DEF IInv, ScalarsOK
  <2>7. FallenHasLost'  BY <2>3, StandingNotFallen DEF FallenHasLost
  <2>8. GraceFromFirstLoss'  BY <1>3, <2>1 DEF GraceFromFirstLoss
  <2> QED  BY <1>1, <2>1, <2>3, <2>6, <2>7, <2>8 DEF IInv
<1> QED  BY <1>2, <1>3

LEMMA UseAbilityInv ==
  ASSUME IInv, NEW u \in Sides, NEW a \in Abilities, NEW damage \in a.damage,
         UseAbility(u, a, damage)
  PROVE  IInv'
<1> DEFINE v == Other(u)
           paid == [side[u] EXCEPT !.energy = @ - a.cost]
           struck == Struck(side[v], damage)
           actor == Empowered(u, paid, struck, a)
           victim == Drained(struck, a)
           falls == Healthy(victim) = {}
<1>1. /\ Playing /\ side[u].energy >= a.cost
      /\ side' = [w \in Sides |->
           IF w = u THEN IF falls THEN Stopped(actor) ELSE actor
           ELSE IF falls THEN Stopped(victim) ELSE Replaced(victim)]
      /\ finished' = falls
      /\ winner' = IF falls THEN u ELSE None
      /\ UNCHANGED <<now, started, gone, pausedAt, deadline>>
  BY DEF UseAbility, pauseVars
<1>2. /\ v \in Sides /\ v # u /\ \A w \in Sides: w = u \/ w = v
      /\ Other(v) = u
  <2>1. v \in Sides /\ v # u /\ \A w \in Sides: w = u \/ w = v  BY OtherSide
  <2>2. Other(v) \in Sides /\ Other(v) # v  BY <2>1, OtherSide
  <2> QED  BY <2>1, <2>2
<1>3. a.cost \in Nat /\ damage \in Nat  BY CombatAssumption
<1>4. started = TRUE /\ \A w \in Sides: Whole(w, side[w]) /\ Standing(side[w])
  BY <1>1, PlayingWhole
<1>5. Whole(u, paid) /\ Standing(paid)
  <2>1. Whole(u, side[u]) /\ Standing(side[u])  BY <1>4
  <2>2. Whole(u, paid) /\ paid.health = side[u].health
        /\ paid.active = side[u].active
    BY <1>1, <1>3, <2>1, PaidWhole
  <2> QED  BY <2>1, <2>2 DEF Standing
<1>6. Whole(v, struck)  BY <1>2, <1>3, <1>4, StruckWhole
<1>7. Whole(v, victim)  BY <1>2, <1>6, DrainedWhole
<1>8. Whole(u, actor) /\ Standing(actor)
  BY <1>2, <1>5, <1>6, EmpoweredWhole
<1> HIDE DEF v, paid, struck, actor, victim
<1>9. DOMAIN side' = Sides /\ side' = [w \in Sides |-> side'[w]]  BY <1>1
<1>10. CASE falls
  <2>1. side'[u] = Stopped(actor) /\ side'[v] = Stopped(victim)
        /\ finished' = TRUE /\ winner' = u
    BY <1>1, <1>2, <1>10
  <2>2. Ended(u, side'[u]) /\ side'[u].ready /\ side'[u].health = actor.health
    BY <1>8, <2>1, StoppedEnded DEF Whole
  <2>3. Ended(v, side'[v]) /\ side'[v].ready
    BY <1>2, <1>7, <2>1, StoppedEnded DEF Whole
  <2>4. ~ \A f \in Fighters: side'[u].health[f] = 0
    <3>1. Sound(u, actor, TRUE)  BY <1>8, WholeSound
    <3> QED  BY <2>2, <3>1, StandingNotFallen
  <2>5. FallenHasLost'
    <3> SUFFICES ASSUME NEW w \in Sides,
                        \A f \in Fighters: side'[w].health[f] = 0
                 PROVE  finished' /\ winner' = Other(w)
      BY DEF FallenHasLost
    <3>1. w = v  BY <1>2, <2>4
    <3> QED  BY <1>2, <2>1, <3>1
  <2>6. GraceFromFirstLoss'  BY <1>1 DEF IInv, GraceFromFirstLoss
  <2>7. gone' \subseteq Sides  BY <1>1 DEF IInv, ScalarsOK
  <2>8. \A w \in Sides: Ended(w, side'[w]) /\ side'[w].ready
    BY <1>2, <2>2, <2>3
  <2>9. ~finished  BY <1>1 DEF Playing
  <2> QED  BY <1>1, <1>9, <2>1, <2>5, <2>6, <2>7, <2>8, <2>9, Closes
<1>11. CASE ~falls
  <2>1. side'[u] = actor /\ side'[v] = Replaced(victim)
        /\ finished' = FALSE /\ winner' = None
    BY <1>1, <1>2, <1>11
  <2>2. Whole(v, side'[v]) /\ Standing(side'[v])
    BY <1>2, <1>7, <1>11, <2>1, ReplacedWhole
  <2>3. Sound(u, side'[u], TRUE) /\ side'[u].ready
    BY <1>8, <2>1, WholeSound DEF Whole
  <2>4. Sound(v, side'[v], TRUE) /\ side'[v].ready
    BY <2>2, WholeSound DEF Whole
  <2>5. \A w \in Sides: Sound(w, side'[w], TRUE) /\ side'[w].ready
    BY <1>2, <2>3, <2>4
  <2>6. finished' = finished /\ winner' = winner
    BY <1>1, <2>1 DEF Playing, IInv, ScalarsOK
  <2>7. started' = TRUE  BY <1>1, <1>4
  <2>8. ~finished  BY <1>1 DEF Playing
  <2> QED  BY <1>1, <1>9, <2>5, <2>6, <2>7, <2>8, StaysOpen
<1> QED  BY <1>10, <1>11

LEMMA NextInv == IInv /\ [Next]_vars => IInv'
<1> SUFFICES ASSUME IInv, [Next]_vars PROVE IInv'  OBVIOUS
<1>1. CASE Tick  BY <1>1, TickInv
<1>2. CASE ProcessClock  BY <1>2, ProcessClockInv
<1>3. CASE ExpireReconnect  BY <1>3, ExpireReconnectInv
<1>4. ASSUME NEW u \in Sides, MarkReady(u) PROVE IInv'
  BY <1>4, MarkReadyInv
<1>5. ASSUME NEW u \in Sides, CollectEnergy(u) PROVE IInv'
  BY <1>5, CollectEnergyInv
<1>6. ASSUME NEW u \in Sides, Forfeit(u) PROVE IInv'
  BY <1>6, ForfeitInv
<1>7. ASSUME NEW u \in Sides, PauseBattle(u) PROVE IInv'
  BY <1>7, PauseBattleInv
<1>8. ASSUME NEW u \in Sides, ResumeBattle(u) PROVE IInv'
  BY <1>8, ResumeBattleInv
<1>9. ASSUME NEW u \in Sides, NEW a \in Abilities, NEW damage \in a.damage,
             UseAbility(u, a, damage)
      PROVE  IInv'
  BY <1>9, UseAbilityInv
<1>10. ASSUME NEW u \in Sides, NEW f \in Fighters, SwitchFighter(u, f)
       PROVE  IInv'
  BY <1>10, SwitchFighterInv
<1>11. CASE UNCHANGED vars
  BY <1>11 DEF IInv, ScalarsOK, GraceFromFirstLoss, FallenHasLost, vars,
               outcomeVars, pauseVars
<1> QED
  BY <1>1, <1>2, <1>3, <1>4, <1>5, <1>6, <1>7, <1>8, <1>9, <1>10, <1>11
  DEF Next

THEOREM Inductive == Spec => []IInv
<1> QED  BY InitInv, NextInv, PTL DEF Spec

-----------------------------------------------------------------------------
(* Energy never exceeds its cap and no animal its full health, for every team
   and every catalogue of abilities.                                         *)
THEOREM TypeCorrect == Spec => []TypeOK
<1> QED  BY Inductive, InvImplies, PTL

(* As long as a battle runs, the animal in each arena is alive. *)
THEOREM ArenaAlive == Spec => []ActiveFighterAlive
<1> QED  BY Inductive, InvImplies, PTL

(* A running battle always has a next event for each side. *)
THEOREM EnergyKeepsFlowing == Spec => []EnergyFlows
<1> QED  BY Inductive, InvImplies, PTL

(* No spawn counts twice, or not at all. *)
THEOREM EverySpawnAccounted == Spec => []SpawnsAccounted
<1> QED  BY Inductive, InvImplies, PTL

(* Whoever has no living animal has lost the battle. *)
THEOREM FallenLoses == Spec => []FallenHasLost
<1> QED  BY Inductive, InvImplies, PTL

(* The grace period is measured from the first loss. *)
THEOREM GraceIsFixed == Spec => []GraceFromFirstLoss
<1> QED  BY Inductive, InvImplies, PTL

-----------------------------------------------------------------------------
(* Properties of steps. *)

(* Only these actions touch the pause. *)
LEMMA PauseSteps ==
  ASSUME [Next]_vars
  PROVE  \/ UNCHANGED pauseVars
         \/ ExpireReconnect
         \/ \E u \in Sides: PauseBattle(u) \/ ResumeBattle(u)
<1>1. CASE Tick  BY <1>1 DEF Tick
<1>2. CASE ProcessClock  BY <1>2 DEF ProcessClock
<1>3. CASE ExpireReconnect  BY <1>3
<1>4. ASSUME NEW u \in Sides, MarkReady(u) PROVE UNCHANGED pauseVars
  BY <1>4 DEF MarkReady
<1>5. ASSUME NEW u \in Sides, CollectEnergy(u) PROVE UNCHANGED pauseVars
  BY <1>5 DEF CollectEnergy
<1>6. ASSUME NEW u \in Sides, Forfeit(u) PROVE UNCHANGED pauseVars
  BY <1>6 DEF Forfeit
<1>7. ASSUME NEW u \in Sides, NEW a \in Abilities, NEW damage \in a.damage,
             UseAbility(u, a, damage)
      PROVE  UNCHANGED pauseVars
  BY <1>7 DEF UseAbility
<1>8. ASSUME NEW u \in Sides, NEW f \in Fighters, SwitchFighter(u, f)
      PROVE  UNCHANGED pauseVars
  BY <1>8 DEF SwitchFighter
<1>9. CASE UNCHANGED vars  BY <1>9 DEF vars
<1> QED
  BY <1>1, <1>2, <1>3, <1>4, <1>5, <1>6, <1>7, <1>8, <1>9 DEF Next

(* However players drop in and out, the deadline of a pause never moves. *)
THEOREM DeadlineNeverMoves == Spec => DeadlineStands
<1>1. ASSUME IInv, [Next]_vars
      PROVE  gone # {} /\ gone' # {} => deadline' = deadline
  <2> SUFFICES ASSUME gone # {}, gone' # {} PROVE deadline' = deadline
    OBVIOUS
  <2>1. CASE UNCHANGED pauseVars  BY <2>1 DEF pauseVars
  <2>2. CASE ExpireReconnect  BY <2>2 DEF ExpireReconnect
  <2>3. ASSUME NEW u \in Sides, PauseBattle(u) PROVE deadline' = deadline
    <3>1. /\ now \in Nat /\ Grace \in Nat /\ None \notin Nat
          /\ pausedAt \in Nat /\ pausedAt <= now
          /\ deadline = pausedAt + Grace
      BY <1>1, CombatAssumption DEF IInv, ScalarsOK, GraceFromFirstLoss
    <3>2. deadline' = Least(deadline, now + Grace)
      BY <2>3, <3>1 DEF PauseBattle
    <3> QED  BY <3>1, <3>2 DEF Least
  <2>4. ASSUME NEW u \in Sides, ResumeBattle(u) PROVE deadline' = deadline
    BY <2>4 DEF ResumeBattle
  <2>5. \/ UNCHANGED pauseVars
        \/ ExpireReconnect
        \/ \E u \in Sides: PauseBattle(u) \/ ResumeBattle(u)
    BY <1>1, PauseSteps
  <2> QED  BY <2>1, <2>2, <2>3, <2>4, <2>5
<1> QED  BY <1>1, Inductive, PTL DEF Spec, DeadlineStands

(* A pause takes no time from any clock. *)
THEOREM PauseCostsNoTime == Spec => PauseStopsClocks
<1> DEFINE Kept == \A u \in Sides:
      /\ TimeLeft(side'[u].nextSpawnAt, now')
           = TimeLeft(side[u].nextSpawnAt, pausedAt)
      /\ TimeLeft(side'[u].expiresAt, now') = TimeLeft(side[u].expiresAt, pausedAt)
<1>1. ASSUME IInv, [Next]_vars
      PROVE  gone # {} /\ gone' = {} /\ ~finished' => Kept
  <2> SUFFICES ASSUME gone # {}, gone' = {}, ~finished' PROVE Kept
    OBVIOUS
  <2>1. CASE UNCHANGED pauseVars  BY <2>1 DEF pauseVars
  <2>2. CASE ExpireReconnect  BY <2>2 DEF ExpireReconnect
  <2>3. ASSUME NEW u \in Sides, PauseBattle(u) PROVE Kept
    BY <2>3 DEF PauseBattle
  <2>4. ASSUME NEW u \in Sides, ResumeBattle(u) PROVE Kept
    <3>1. /\ side' = [v \in Sides |-> Resumed(side[v], now - pausedAt)]
          /\ now' = now
      BY <2>4 DEF ResumeBattle
    <3>2. /\ now \in Nat /\ pausedAt \in Nat /\ None \notin Nat
          /\ pausedAt <= now /\ side \in [Sides -> Combatant]
      BY <1>1, CombatAssumption DEF IInv, ScalarsOK, GraceFromFirstLoss
    <3> SUFFICES ASSUME NEW v \in Sides
        PROVE /\ TimeLeft(side'[v].nextSpawnAt, now')
                   = TimeLeft(side[v].nextSpawnAt, pausedAt)
              /\ TimeLeft(side'[v].expiresAt, now')
                   = TimeLeft(side[v].expiresAt, pausedAt)
      OBVIOUS
    <3>3. side[v] \in Combatant  BY <3>2
    <3>4. /\ side'[v].nextSpawnAt = Later(side[v].nextSpawnAt, now - pausedAt)
          /\ side'[v].expiresAt = Later(side[v].expiresAt, now - pausedAt)
      BY <3>1, <3>3 DEF Resumed, Combatant
    <3>5. \A t \in Nat \cup {None}:
            TimeLeft(Later(t, now - pausedAt), now) = TimeLeft(t, pausedAt)
      BY <3>2 DEF TimeLeft, Later
    <3>6. /\ side[v].nextSpawnAt \in Nat \cup {None}
          /\ side[v].expiresAt \in Nat \cup {None}
      BY <3>3 DEF Combatant
    <3> QED  BY <3>1, <3>4, <3>5, <3>6
  <2>5. \/ UNCHANGED pauseVars
        \/ ExpireReconnect
        \/ \E u \in Sides: PauseBattle(u) \/ ResumeBattle(u)
    BY <1>1, PauseSteps
  <2> QED  BY <2>1, <2>2, <2>3, <2>4, <2>5
<1> QED  BY <1>1, Inductive, PTL DEF Spec, PauseStopsClocks

-----------------------------------------------------------------------------
(* The refinement: the detailed battle implements BattleLife. *)

(* A life, field by field. *)
LifeRow(P, R, G, o, w) ==
  [players |-> P, ready |-> R, gone |-> G, outcome |-> o, winner |-> w]

LEMMA LifeRowFields ==
  ASSUME NEW P, NEW R, NEW G, NEW o, NEW w
  PROVE  LET b == LifeRow(P, R, G, o, w)
         IN  /\ b.players = P /\ b.ready = R /\ b.gone = G
             /\ b.outcome = o /\ b.winner = w
  BY DEF LifeRow

LEMMA ContractInit == Init => Contract!Init
<1> SUFFICES ASSUME Init PROVE Contract!Init  OBVIOUS
<1>1. PICK u \in Sides: TRUE
  <2>1. IsFiniteSet(Sides) /\ Cardinality(Sides) = 2  BY CombatAssumption
  <2>2. Sides # {}  BY <2>1, FS_EmptySet
  <2> QED  BY <2>2
<1>2. Other(u) \in Sides /\ Other(u) # u /\ Sides = {u, Other(u)}
  BY OtherSide
<1>3. LifeOfBattle = LifeRow({u, Other(u)}, {}, {}, "open", None)
  <2>1. {v \in Sides: side[v].ready} = {}  BY DEF Init
  <2> QED  BY <1>2, <2>1 DEF Init, LifeOfBattle, LifeRow
<1>4. LifeOfBattle = Contract!Opened(u, Other(u))
  <2>1. Contract!Unborn = LifeRow({}, {}, {}, "none", None)
    BY DEF Contract!Unborn, LifeRow
  <2> DEFINE b == [Contract!Unborn EXCEPT !.players = {u, Other(u)}]
  <2>2. b = LifeRow({u, Other(u)}, {}, {}, "none", None)
    BY <2>1 DEF LifeRow
  <2>3. Contract!Opened(u, Other(u)) = [b EXCEPT !.outcome = "open"]
    BY Zenon DEF Contract!Opened
  <2> HIDE DEF b
  <2>4. [b EXCEPT !.outcome = "open"]
          = LifeRow({u, Other(u)}, {}, {}, "open", None)
    BY <2>2 DEF LifeRow
  <2> QED  BY <1>3, <2>3, <2>4
<1> QED  BY <1>2, <1>4 DEF Contract!Init

(* The life of an open and of a finished battle. *)
Readied == {u \in Sides: side[u].ready}

LEMMA LifeOpen ==
  ASSUME ~finished
  PROVE  LifeOfBattle = LifeRow(Sides, Readied, gone, "open", winner)
  BY DEF LifeOfBattle, LifeRow, Readied

Seen == UNCHANGED LifeOfBattle \/ Contract!Step(LifeOfBattle, LifeOfBattle')

(* A step that the players of a battle do not see. *)
LEMMA Unseen ==
  ASSUME UNCHANGED <<finished, winner, gone>>,
         \A u \in Sides: side'[u].ready <=> side[u].ready
  PROVE  Seen
<1>1. Readied' = Readied  BY DEF Readied
<1> QED  BY <1>1 DEF LifeOfBattle, Readied, Seen

LEMMA ContractMarkReady ==
  ASSUME IInv, NEW u \in Sides, MarkReady(u)
  PROVE  Seen
<1>1. /\ ~finished /\ gone = {} /\ ~finished' /\ UNCHANGED <<winner, gone>>
  BY DEF MarkReady, pauseVars
<1>2. \A v \in Sides: side'[v].ready <=> v = u \/ side[v].ready
  <2> DEFINE ready == [side EXCEPT ![u].ready = TRUE]
  <2> TAKE v \in Sides
  <2>1. side \in [Sides -> Combatant] /\ side[v] \in Combatant
    BY DEF IInv, ScalarsOK
  <2>2. ready[v] \in Combatant /\ (ready[v].ready <=> v = u \/ side[v].ready)
    <3>1. CASE v = u
      <4>1. ready[v] = [side[v] EXCEPT !.ready = TRUE]  BY <2>1, <3>1
      <4>2. TRUE \in BOOLEAN  OBVIOUS
      <4>3. [side[v] EXCEPT !.ready = TRUE] \in Combatant
        BY <2>1, <4>2, Zenon DEF Combatant
      <4>4. [side[v] EXCEPT !.ready = TRUE].ready = TRUE
        BY <2>1 DEF Combatant
      <4> HIDE DEF ready
      <4> QED  BY <3>1, <4>1, <4>3, <4>4
    <3>2. CASE v # u  BY <2>1, <3>2
    <3> QED  BY <3>1, <3>2
  <2>3. \/ side'[v] = ready[v]
        \/ side'[v] = [ready[v] EXCEPT !.nextSpawnAt = now + FirstDelay]
    BY DEF MarkReady
  <2> HIDE DEF ready
  <2>4. [ready[v] EXCEPT !.nextSpawnAt = now + FirstDelay].ready = ready[v].ready
    BY <2>2 DEF Combatant
  <2> QED  BY <2>2, <2>3, <2>4
<1>3. Readied' = Readied \cup {u}  BY <1>2 DEF Readied
<1>4. LifeOfBattle = LifeRow(Sides, Readied, gone, "open", winner)
  BY <1>1 DEF LifeOfBattle, LifeRow, Readied
<1>5. LifeOfBattle' = LifeRow(Sides, Readied \cup {u}, gone, "open", winner)
  BY <1>1, <1>3 DEF LifeOfBattle, LifeRow, Readied
<1>6. /\ LifeOfBattle.gone = {} /\ LifeOfBattle.players = Sides
      /\ LifeOfBattle.outcome = "open" /\ LifeOfBattle.ready = Readied
  BY <1>1, <1>4, LifeRowFields
<1>7. LifeOfBattle' = [LifeOfBattle EXCEPT !.ready = @ \cup {u}]
  <2>1. \A R, S: [LifeRow(Sides, R, gone, "open", winner) EXCEPT !.ready = S]
                 = LifeRow(Sides, S, gone, "open", winner)
    BY DEF LifeRow
  <2> QED  BY <1>4, <1>5, <1>6, <2>1, Zenon
<1>8. Contract!GetsReady(LifeOfBattle, LifeOfBattle')
  BY <1>6, <1>7 DEF Contract!GetsReady
<1> QED  BY <1>6, <1>8 DEF Seen, Contract!Step

LEMMA ContractPause ==
  ASSUME IInv, NEW u \in Sides, PauseBattle(u)
  PROVE  Seen
<1>1. ~finished /\ gone' = gone \cup {u} /\ UNCHANGED <<finished, winner, side>>
  BY DEF PauseBattle, outcomeVars
<1>2. LifeOfBattle = LifeRow(Sides, Readied, gone, "open", winner)
  BY <1>1 DEF LifeOfBattle, LifeRow, Readied
<1>3. LifeOfBattle' = LifeRow(Sides, Readied, gone \cup {u}, "open", winner)
  BY <1>1 DEF LifeOfBattle, LifeRow, Readied
<1>4. /\ LifeOfBattle.players = Sides /\ LifeOfBattle.outcome = "open"
      /\ LifeOfBattle.gone = gone
  BY <1>2, LifeRowFields
<1>5. LifeOfBattle' = [LifeOfBattle EXCEPT !.gone = @ \cup {u}]
  <2>1. [LifeOfBattle EXCEPT !.gone = gone \cup {u}] = LifeRow(Sides, Readied, gone \cup {u}, "open", winner)
    BY <1>2 DEF LifeRow
  <2> QED  BY <1>3, <1>4, <2>1, Zenon
<1>6. Contract!Leaves(LifeOfBattle, LifeOfBattle')
  BY <1>4, <1>5 DEF Contract!Leaves
<1> QED  BY <1>4, <1>6 DEF Seen, Contract!Step

LEMMA ContractResume ==
  ASSUME IInv, NEW u \in Sides, ResumeBattle(u)
  PROVE  Seen
<1>1. /\ ~finished /\ u \in gone /\ gone' = gone \ {u}
      /\ UNCHANGED <<finished, winner>>
  BY DEF ResumeBattle, outcomeVars
<1>2. Readied' = Readied
  <2>1. \A v \in Sides: side[v] \in Combatant  BY DEF IInv, ScalarsOK
  <2>2. \A v \in Sides: \/ side'[v] = side[v]
                        \/ side'[v] = Resumed(side[v], now - pausedAt)
    BY DEF ResumeBattle
  <2>3. \A v \in Sides: Resumed(side[v], now - pausedAt).ready = side[v].ready
    BY <2>1 DEF Resumed, Combatant
  <2>4. \A v \in Sides: side'[v].ready = side[v].ready  BY <2>2, <2>3, Zenon
  <2> QED  BY <2>4 DEF Readied
<1>3. LifeOfBattle = LifeRow(Sides, Readied, gone, "open", winner)
  BY <1>1 DEF LifeOfBattle, LifeRow, Readied
<1>4. LifeOfBattle' = LifeRow(Sides, Readied, gone \ {u}, "open", winner)
  BY <1>1, <1>2 DEF LifeOfBattle, LifeRow, Readied
<1>5. LifeOfBattle.outcome = "open" /\ LifeOfBattle.gone = gone
  BY <1>3, LifeRowFields
<1>6. LifeOfBattle' = [LifeOfBattle EXCEPT !.gone = @ \ {u}]
  <2>1. [LifeOfBattle EXCEPT !.gone = gone \ {u}] = LifeRow(Sides, Readied, gone \ {u}, "open", winner)
    BY <1>3 DEF LifeRow
  <2> QED  BY <1>4, <1>5, <2>1, Zenon
<1>7. Contract!Returns(LifeOfBattle, LifeOfBattle')
  BY <1>1, <1>5, <1>6 DEF Contract!Returns
<1> QED  BY <1>5, <1>7 DEF Seen, Contract!Step

(* How the end of a battle is seen. *)
LEMMA LifeWon ==
  ASSUME ~finished, finished' = TRUE, winner' \in Sides, Readied' = Readied,
         UNCHANGED gone
  PROVE  LifeOfBattle'
           = [LifeOfBattle EXCEPT !.outcome = "won", !.winner = winner']
<1> DEFINE b == [LifeOfBattle EXCEPT !.outcome = "won"]
<1>1. LifeOfBattle = LifeRow(Sides, Readied, gone, "open", winner)  BY LifeOpen
<1>2. LifeOfBattle' = LifeRow(Sides, Readied, gone, "won", winner')
  BY CombatAssumption DEF LifeOfBattle, LifeRow, Readied
<1>3. b = LifeRow(Sides, Readied, gone, "won", winner)
  BY <1>1 DEF LifeRow
<1>4. [LifeOfBattle EXCEPT !.outcome = "won", !.winner = winner']
        = [b EXCEPT !.winner = winner']
  OBVIOUS
<1> HIDE DEF b
<1>5. [b EXCEPT !.winner = winner'] = LifeRow(Sides, Readied, gone, "won", winner')
  BY <1>3 DEF LifeRow
<1> QED  BY <1>2, <1>4, <1>5

LEMMA ReadyStays ==
  ASSUME side \in [Sides -> Combatant],
         side' = [u \in Sides |-> Stopped(side[u])]
  PROVE  Readied' = Readied
<1>1. \A u \in Sides: side[u] \in Combatant  OBVIOUS
<1>2. \A u \in Sides: side'[u].ready = side[u].ready
  BY <1>1 DEF Stopped, Combatant
<1> QED  BY <1>2 DEF Readied

LEMMA ContractForfeit ==
  ASSUME IInv, NEW u \in Sides, Forfeit(u)
  PROVE  Seen
<1>1. /\ ~finished /\ finished' = TRUE /\ winner' = Other(u) /\ u \notin gone
      /\ side' = [v \in Sides |-> Stopped(side[v])] /\ UNCHANGED gone
  BY DEF Forfeit, pauseVars
<1>2. Other(u) \in Sides /\ Other(u) # u  BY OtherSide
<1>3. Readied' = Readied  BY <1>1, ReadyStays DEF IInv, ScalarsOK
<1>4. LifeOfBattle' = [LifeOfBattle EXCEPT !.outcome = "won", !.winner = Other(u)]
  BY <1>1, <1>2, <1>3, LifeWon
<1>5. LifeOfBattle = LifeRow(Sides, Readied, gone, "open", winner)
  BY <1>1, LifeOpen
<1>6. /\ LifeOfBattle.players = Sides /\ LifeOfBattle.outcome = "open"
      /\ LifeOfBattle.gone = gone
  BY <1>5, LifeRowFields
<1>7. Contract!GivesUp(LifeOfBattle, LifeOfBattle')
  BY <1>1, <1>2, <1>4, <1>6 DEF Contract!GivesUp
<1> QED  BY <1>6, <1>7 DEF Seen, Contract!Step

LEMMA ContractExpire ==
  ASSUME IInv, ExpireReconnect
  PROVE  Seen
<1>1. /\ ~finished /\ finished' = TRUE /\ gone # {} /\ gone' = {}
      /\ side' = [v \in Sides |-> Stopped(side[v])] /\ UNCHANGED winner
  BY DEF ExpireReconnect
<1>2. winner = None  BY <1>1 DEF IInv
<1>3. Readied' = Readied  BY <1>1, ReadyStays DEF IInv, ScalarsOK
<1>4. LifeOfBattle = LifeRow(Sides, Readied, gone, "open", winner)
  BY <1>1, LifeOpen
<1>5. LifeOfBattle' = LifeRow(Sides, Readied, {}, "interrupted", winner)
  BY <1>1, <1>2, <1>3 DEF LifeOfBattle, LifeRow, Readied
<1>6. LifeOfBattle.outcome = "open" /\ LifeOfBattle.gone = gone
  BY <1>4, LifeRowFields
<1> DEFINE b == [LifeOfBattle EXCEPT !.outcome = "interrupted"]
<1>7. b = LifeRow(Sides, Readied, gone, "interrupted", winner)
  BY <1>4 DEF LifeRow
<1>8. [LifeOfBattle EXCEPT !.outcome = "interrupted", !.gone = {}]
        = [b EXCEPT !.gone = {}]
  OBVIOUS
<1> HIDE DEF b
<1>9. [b EXCEPT !.gone = {}] = LifeRow(Sides, Readied, {}, "interrupted", winner)
  BY <1>7 DEF LifeRow
<1>10. Contract!BreaksOff(LifeOfBattle, LifeOfBattle')
  BY <1>1, <1>5, <1>6, <1>8, <1>9 DEF Contract!BreaksOff
<1> QED  BY <1>6, <1>10 DEF Seen, Contract!Step

(* Both players of a battle that runs on are ready, before and after. *)
LEMMA BothReady ==
  ASSUME IInv, IInv', Playing, UNCHANGED started
  PROVE  Readied = Sides /\ Readied' = Sides
  BY DEF IInv, Playing, Readied

LEMMA UnseenPlaying ==
  ASSUME IInv, IInv', Playing, UNCHANGED <<started, finished, winner, gone>>
  PROVE  Seen
<1>1. Readied' = Readied  BY BothReady
<1> QED  BY <1>1 DEF LifeOfBattle, Readied, Seen

LEMMA ContractAbility ==
  ASSUME IInv, NEW u \in Sides, NEW a \in Abilities, NEW damage \in a.damage,
         UseAbility(u, a, damage)
  PROVE  Seen
<1>1. IInv'  BY UseAbilityInv
<1>2. /\ Playing /\ UNCHANGED <<started, gone>>
      /\ \/ finished' = TRUE /\ winner' = u
         \/ finished' = FALSE /\ winner' = None
  BY DEF UseAbility, pauseVars
<1>3. Readied = Sides /\ Readied' = Readied  BY <1>1, <1>2, BothReady
<1>4. CASE finished' = FALSE /\ winner' = None
  <2>1. UNCHANGED <<finished, winner>>
    BY <1>2, <1>4 DEF IInv, ScalarsOK, Playing
  <2> QED  BY <1>1, <1>2, <2>1, UnseenPlaying
<1>5. CASE finished' = TRUE /\ winner' = u
  <2>1. ~finished /\ gone = {}  BY <1>2 DEF Playing
  <2>2. LifeOfBattle' = [LifeOfBattle EXCEPT !.outcome = "won", !.winner = u]
    BY <1>2, <1>3, <1>5, <2>1, LifeWon
  <2>3. LifeOfBattle = LifeRow(Sides, Readied, gone, "open", winner)
    BY <2>1, LifeOpen
  <2>4. /\ LifeOfBattle.players = Sides /\ LifeOfBattle.outcome = "open"
        /\ LifeOfBattle.gone = {} /\ LifeOfBattle.ready = Sides
    BY <1>3, <2>1, <2>3, LifeRowFields
  <2>5. Contract!Wins(LifeOfBattle, LifeOfBattle')
    BY <2>2, <2>4 DEF Contract!Wins
  <2> QED  BY <2>4, <2>5 DEF Seen, Contract!Step
<1> QED  BY <1>2, <1>4, <1>5

LEMMA ContractNext == IInv /\ IInv' /\ [Next]_vars => Seen
<1> SUFFICES ASSUME IInv, IInv', [Next]_vars PROVE Seen  OBVIOUS
<1>1. CASE Tick  BY <1>1, Unseen DEF Tick, outcomeVars, pauseVars
<1>2. CASE ProcessClock
  BY <1>2, UnseenPlaying DEF ProcessClock, outcomeVars, pauseVars
<1>3. CASE ExpireReconnect  BY <1>3, ContractExpire
<1>4. ASSUME NEW u \in Sides, MarkReady(u) PROVE Seen
  BY <1>4, ContractMarkReady
<1>5. ASSUME NEW u \in Sides, CollectEnergy(u) PROVE Seen
  BY <1>5, UnseenPlaying DEF CollectEnergy, outcomeVars, pauseVars
<1>6. ASSUME NEW u \in Sides, Forfeit(u) PROVE Seen  BY <1>6, ContractForfeit
<1>7. ASSUME NEW u \in Sides, PauseBattle(u) PROVE Seen  BY <1>7, ContractPause
<1>8. ASSUME NEW u \in Sides, ResumeBattle(u) PROVE Seen
  BY <1>8, ContractResume
<1>9. ASSUME NEW u \in Sides, NEW a \in Abilities, NEW damage \in a.damage,
             UseAbility(u, a, damage)
      PROVE  Seen
  BY <1>9, ContractAbility
<1>10. ASSUME NEW u \in Sides, NEW f \in Fighters, SwitchFighter(u, f)
       PROVE  Seen
  BY <1>10, UnseenPlaying DEF SwitchFighter, outcomeVars, pauseVars
<1>11. CASE UNCHANGED vars  BY <1>11, Unseen DEF vars, outcomeVars, pauseVars
<1> QED
  BY <1>1, <1>2, <1>3, <1>4, <1>5, <1>6, <1>7, <1>8, <1>9, <1>10, <1>11
  DEF Next

(* The detailed battle implements its contract: nobody falls while a player is
   missing or before both have started, a missing player never loses by a
   forfeit, and the first outcome is the last.                               *)
THEOREM ContractKept == Spec => KeepsContract
<1>1. IInv /\ IInv' /\ [Next]_vars
        => [Contract!Next]_[m \in {0} |-> LifeOfBattle]
  BY ContractNext DEF Contract!Next, Seen
<1> QED
  BY <1>1, ContractInit, Inductive, PTL DEF Spec, KeepsContract, Contract!Spec
=============================================================================
