--------------------------- MODULE MigrationProofs ---------------------------
(***************************************************************************)
(* Moving a generation: what a frozen pool owns stays, the pages of an     *)
(* export miss nobody, and whoever is connected finds the latest of what   *)
(* he has reached, whatever dies, is run again or arrives late.            *)
(***************************************************************************)
EXTENDS Migration, FiniteSetTheorems, WellFoundedInduction, TLAPS

-----------------------------------------------------------------------------
(* Numbers *)

LEMMA LeastNatural ==
  ASSUME NEW T \in SUBSET Nat, T # {}
  PROVE  \E m \in T: \A k \in T: m <= k
<1>1. \E m \in T: \A k \in T: ~(<<k, m>> \in OpToRel(<, Nat))
  BY NatLessThanWellFounded, WFMin
<1>2. \A m, k \in Nat: k < m => <<k, m>> \in OpToRel(<, Nat)
  BY Zenon DEF OpToRel
<1>3. \E m \in T: \A k \in T: ~(k < m)
  BY <1>1, <1>2, Zenon
<1> QED BY <1>3

(* A finite set of numbers has a largest one: of the positions at which the
   first m elements of a listing have none, there is no least.               *)
LEMMA MaxOfNumbers ==
  ASSUME NEW T \in SUBSET Nat, T # {}, IsFiniteSet(T)
  PROVE  Max(T) \in T /\ \A k \in T: k <= Max(T)
<1>1. PICK n \in Nat: ExistsBijection(1 .. n, T)
  BY FS_CardinalityType
<1>2. PICK f \in [1 .. n -> T]: \A x \in T: \E i \in 1 .. n: f[i] = x
  BY <1>1 DEF ExistsBijection, Bijection, Surjection
<1>3. n # 0 /\ \A i \in 1 .. n: f[i] \in T /\ f[i] \in Nat
  <2>1. n # 0
    <3>1. PICK x \in T: TRUE
      OBVIOUS
    <3>2. PICK i \in 1 .. n: f[i] = x
      BY <1>2
    <3> QED BY <3>2, <1>1
  <2>2. \A i \in 1 .. n: f[i] \in T /\ f[i] \in Nat
    BY <1>2
  <2> QED BY <2>1, <2>2
<1> DEFINE Largest(m, i) == i \in 1 .. m /\ \A j \in 1 .. m: f[j] <= f[i]
           Bad == {m \in 1 .. n: \A i \in 1 .. n: ~Largest(m, i)}
<1>4. Bad = {}
  <2> SUFFICES ASSUME Bad # {} PROVE FALSE
    OBVIOUS
  <2>1. PICK m \in Bad: \A k \in Bad: m <= k
    <3> Bad \in SUBSET Nat
      BY <1>1
    <3> HIDE DEF Bad
    <3> QED BY LeastNatural
  <2>2. m \in 1 .. n /\ m # 1
    <3>1. 1 \in 1 .. n => Largest(1, 1)
      BY <1>3
    <3> QED BY <3>1
  <2>3. m - 1 \in 1 .. n /\ m - 1 \notin Bad
    <3>1. m - 1 \in 1 .. n /\ ~(m <= m - 1)
      BY <2>2, <1>1
    <3> HIDE DEF Bad
    <3> QED BY <3>1, <2>1
  <2>4. PICK i \in 1 .. n: Largest(m - 1, i)
    BY <2>3
  <2>5. /\ \A j \in 1 .. m: j \in 1 .. n /\ (j = m \/ j \in 1 .. m - 1)
        /\ i \in 1 .. m
    BY <2>2, <2>4, <1>1
  <2>6. Largest(m, i) \/ Largest(m, m)
    <3>1. /\ f[m] \in Nat /\ f[i] \in Nat /\ m \in 1 .. m
          /\ \A j \in 1 .. m: f[j] \in Nat
      BY <2>2, <2>5, <1>1, <1>3
    <3>2. \A j \in 1 .. m: j = m \/ f[j] <= f[i]
      BY <2>4, <2>5
    <3>3. CASE f[m] <= f[i]
      BY <3>2, <3>3, <2>5
    <3>4. CASE f[i] < f[m]
      <4>1. \A j \in 1 .. m: f[j] <= f[m]
        BY <3>1, <3>2, <3>4
      <4> QED BY <4>1, <3>1
    <3> QED BY <3>1, <3>3, <3>4
  <2> QED BY <2>1, <2>2, <2>6
<1>5. \E z \in T: \A y \in T: z >= y
  <2>1. n \in 1 .. n
    BY <1>1, <1>3
  <2>2. PICK i \in 1 .. n: Largest(n, i)
    BY <2>1, <1>4
  <2>3. \A y \in T: f[i] >= y
    BY <2>2, <1>2, <1>3
  <2> QED BY <2>3, <1>3
<1>6. Max(T) \in T /\ \A y \in T: Max(T) >= y
  BY <1>5, Zenon DEF Max
<1>7. Max(T) \in Nat /\ \A y \in T: y \in Nat
  BY <1>6
<1> QED BY <1>6, <1>7

-----------------------------------------------------------------------------
(* Pages of a listing *)

Below(T, x) == {v \in T: v < x}

LEMMA FirstOfSet ==
  ASSUME NEW T \in SUBSET Nat, IsFiniteSet(T), NEW n \in Nat
  PROVE  LET F == FirstOf(T, n) IN
         /\ F \subseteq T
         /\ F # T => n <= Cardinality(F)
         /\ n # 0 /\ T # {} => F # {}
         /\ \A x \in T \ F, y \in F: y < x
<1> DEFINE F == FirstOf(T, n)
<1>0. \A x \in T: x \in Nat
  OBVIOUS
<1>1. F = {x \in T: Cardinality(Below(T, x)) < n}
  BY DEF FirstOf, Below
<1>2. F \subseteq T /\ IsFiniteSet(F)
  BY <1>1, FS_Subset
<1>3. \A x: IsFiniteSet(Below(T, x)) /\ Cardinality(Below(T, x)) \in Nat
  BY FS_Subset, FS_CardinalityType DEF Below
<1> HIDE DEF F
<1>4. ASSUME NEW x \in T \ F, NEW y \in F
      PROVE  y < x
  <2> SUFFICES ASSUME x <= y PROVE FALSE
    BY <1>2
  <2>1. Below(T, x) \subseteq Below(T, y)
    <3>1. \A v \in T: v < x => v < y
      BY <1>0, <1>2
    <3> QED BY <3>1 DEF Below
  <2>2. Cardinality(Below(T, x)) <= Cardinality(Below(T, y))
    BY <2>1, <1>3, FS_Subset
  <2> QED BY <2>2, <1>1, <1>3
<1>5. F # T => n <= Cardinality(F)
  <2> SUFFICES ASSUME F # T PROVE n <= Cardinality(F)
    OBVIOUS
  <2>1. PICK x \in T \ F: \A y \in T \ F: x <= y
    BY <1>2, LeastNatural
  <2>2. Below(T, x) \subseteq F
    <3>1. \A v \in T: v < x => v \in F
      BY <2>1, <1>0
    <3> QED BY <3>1 DEF Below
  <2>3. Cardinality(Below(T, x)) <= Cardinality(F) /\ Cardinality(F) \in Nat
    BY <2>2, <1>2, FS_Subset, FS_CardinalityType
  <2> QED BY <2>1, <2>3, <1>1, <1>3
<1>6. n # 0 /\ T # {} => F # {}
  <2> SUFFICES ASSUME n # 0, T # {} PROVE F # {}
    OBVIOUS
  <2>1. PICK x \in T: \A y \in T: x <= y
    BY LeastNatural
  <2>2. Below(T, x) = {}
    <3>1. \A v \in T: ~(v < x)
      BY <2>1, <1>0
    <3> QED BY <3>1 DEF Below
  <2> QED BY <2>2, <1>1, FS_EmptySet
<1> QED BY <1>2, <1>4, <1>5, <1>6 DEF F

Owners(p) == {u \in Uids: owned[<<p, u>>] # None}

(* A page holds the next owners; the last one holds the rest of them, and
   another one ends at its cursor and misses nobody up to there, although the
   tables it is put together from do not name the same players.              *)
LEMMA PageIsComplete ==
  ASSUME NEW p, NEW after \in Nat
  PROVE  LET rest == {u \in Owners(p): u > after}
             next == NextCursor(p, after)
         IN /\ next = None => Page(p, after) = rest
            /\ next # None =>
                 /\ next \in Nat /\ next > after
                 /\ Page(p, after) = {u \in rest: u <= next}
<1> DEFINE rest == {u \in Owners(p): u > after}
           busy == {u \in {v \in Uids: owned[<<p, v>>] # None
                                       /\ owned[<<p, v>>] > 1}: u > after}
           n == PageSize
           F == FirstOf(rest, n + 1)
           C == Candidates(p, after)
           P == Page(p, after)
<1>1. n \in Nat \ {0} /\ n + 1 \in Nat
  BY MigrationAssumption
<1>2. rest \in SUBSET Nat /\ busy \subseteq rest /\ IsFiniteSet(rest)
  BY MigrationAssumption, FS_Subset DEF Owners
<1>3. C = F \cup FirstOf(busy, n + 1)
  BY DEF Candidates, Tables, Owners
<1>4. F \subseteq C /\ C \subseteq rest
  BY <1>3, <1>2 DEF FirstOf
<1>5. IsFiniteSet(C) /\ C \in SUBSET Nat /\ IsFiniteSet(F)
      /\ Cardinality(C) \in Nat /\ Cardinality(F) \in Nat
      /\ Cardinality(F) <= Cardinality(C)
  BY <1>2, <1>4, FS_Subset, FS_CardinalityType
<1>6. P = FirstOf(C, n)
  BY DEF Page
<1> HIDE DEF rest, busy, F, C
<1>7. /\ F # rest => n + 1 <= Cardinality(F)
      /\ \A x \in rest \ F, y \in F: y < x
  BY <1>1, <1>2, FirstOfSet DEF F
<1>8. /\ P \subseteq C /\ (P # C => n <= Cardinality(P))
      /\ (C # {} => P # {})
      /\ \A x \in C \ P, y \in P: y < x
  BY <1>1, <1>5, <1>6, FirstOfSet
<1>9. /\ NextCursor(p, after) = IF Cardinality(C) > n THEN Max(P) ELSE None
  BY DEF NextCursor, C
<1> HIDE DEF P
<1>10. CASE Cardinality(C) <= n
  <2>1. F = rest /\ C = rest
    <3>1. F = rest
      BY <1>1, <1>5, <1>7, <1>10
    <3> QED BY <3>1, <1>4
  <2>2. P = C
    <3> SUFFICES ASSUME P # C PROVE FALSE
      OBVIOUS
    <3>1. /\ Cardinality(P) <= Cardinality(C) /\ Cardinality(P) \in Nat
          /\ Cardinality(P) # Cardinality(C)
      BY <1>5, <1>8, FS_Subset, FS_CardinalityType
    <3> QED BY <3>1, <1>1, <1>5, <1>8, <1>10
  <2> QED BY <2>1, <2>2, <1>1, <1>5, <1>9, <1>10 DEF rest, P
<1>11. CASE Cardinality(C) > n
  <2> DEFINE x == Max(P)
  <2>1. P \in SUBSET Nat /\ P # {} /\ IsFiniteSet(P)
    <3>1. C # {}
      BY <1>1, <1>11, FS_EmptySet
    <3> QED BY <3>1, <1>5, <1>8, FS_Subset
  <2>2. x \in P /\ \A k \in P: k <= x
    BY <2>1, MaxOfNumbers
  <2> HIDE DEF x
  <2>3. x \in Nat /\ x > after
    BY <2>1, <2>2, <1>4, <1>8 DEF rest
  <2>4. \A u \in C: u <= x => u \in P
    BY <2>2, <1>8, <1>5
  <2>5. ASSUME NEW u \in rest, u <= x PROVE u \in C
    <3> SUFFICES ASSUME u \notin C PROVE FALSE
      OBVIOUS
    <3>1. F # rest /\ \A y \in F: y < x
      BY <2>5, <2>3, <1>2, <1>4, <1>5, <1>7
    <3>2. F \subseteq Below(C, x)
      BY <3>1, <1>4 DEF Below
    <3>3. /\ IsFiniteSet(Below(C, x)) /\ Cardinality(Below(C, x)) \in Nat
          /\ Cardinality(F) <= Cardinality(Below(C, x))
      BY <3>2, <1>5, FS_Subset, FS_CardinalityType DEF Below
    <3>4. Cardinality(Below(C, x)) < n
      BY <2>2, <1>6 DEF FirstOf, Below, P
    <3> QED BY <3>1, <3>3, <3>4, <1>1, <1>5, <1>7
  <2>6. P = {u \in rest: u <= x}
    BY <2>2, <2>4, <2>5, <1>4, <1>8
  <2>7. NextCursor(p, after) = x
    BY <1>9, <1>11 DEF x
  <2>8. x # None
    BY <2>3, MigrationAssumption
  <2> QED BY <2>3, <2>6, <2>7, <2>8 DEF rest, P
<1> QED BY <1>1, <1>5, <1>10, <1>11

-----------------------------------------------------------------------------
(* What is true of the move at every moment *)

Modes == {"active", "draining", "read_only"}
Manifests == UNION {[us -> Nat]: us \in SUBSET Uids}
Call == [pool: Shards, manifest: Manifests, uid: Uids, checked: BOOLEAN]
Exporting == [task: {"export"}, cursor: Nat, entries: Manifests]
Importing == [task: {"import"}, pool: Shards, left: SUBSET Uids,
              waits: BOOLEAN]

MoveTyped ==
  /\ mode \in [Pools -> Modes]
  /\ presence \in [Pools \X Uids -> {"away", "idle", "busy"}]
  /\ owned \in [Pools \X Uids -> Nat \cup {None}]
  /\ imports \in [Pools -> SUBSET (Manifests \X Uids)]
  /\ calls \in SUBSET Call
  /\ program \in {NoRun} \cup Exporting \cup Importing
  /\ manifest \in Manifests \cup {None}
  /\ verified \in SUBSET Shards
  /\ latest \in [Uids -> Nat \cup {None}]

(* The shard of a player, and the shards that are open for good. *)
Home(u) == <<"public-v1", Hash[u] % Count>>
Opened == {p \in verified: mode[p] = "active"}

(* Nobody is connected to a frozen pool. *)
Frozen == \A p \in Pools: mode[p] = "read_only" => Drained(p)

(* Whoever is connected owns something and is on the source or on his open
   shard, and no configuration sends him to another one.                     *)
Seated ==
  /\ \A p \in Pools, u \in Uids:
       presence[<<p, u>>] # "away" =>
         /\ owned[<<p, u>>] # None
         /\ p = Source \/ (p = Home(u) /\ p \in Opened)
  /\ config.generation = "public-v1" =>
       \A p \in Shards: mode[p] = "read_only" \/ p \in verified
  /\ \/ config \in Deployments
     \/ config.generation = "protected-v1" /\ config.count = 1

(* A manifest, whole or in the making, is what the frozen source owns. *)
Faithful(entries, us) ==
  DOMAIN entries = us /\ \A u \in us: entries[u] = owned[<<Source, u>>]

SourceShut ==
  /\ manifest # None \/ program # NoRun => mode[Source] = "read_only"
  /\ manifest # None => Faithful(manifest, Owners(Source))
  /\ program.task = "export" =>
       /\ manifest = None
       /\ Faithful(program.entries, {u \in Owners(Source): u <= program.cursor})

(* Every manifest there ever was names only owners of the source. *)
Names(entries) == DOMAIN entries \subseteq Owners(Source)

History ==
  /\ \A call \in calls: call.uid \in DOMAIN call.manifest /\ Names(call.manifest)
  /\ \A p \in Shards: \A row \in imports[p]:
       row[2] \in DOMAIN row[1] /\ Names(row[1])

(* A shard that is not open holds what was imported and nothing else. *)
AsImported ==
  \A p \in Shards \ Opened:
    /\ \A row \in imports[p]: owned[<<p, row[2]>>] = row[1][row[2]]
    /\ \A u \in Uids: owned[<<p, u>>] # None =>
         \E row \in imports[p]: row[2] = u

(* A shard is verified when it holds every entry of the manifest. *)
Holds(p, us) == \A u \in us: <<manifest, u>> \in imports[p]

ShardsVerified ==
  /\ verified # {} => manifest # None
  /\ \A p \in verified:
       /\ Holds(p, DOMAIN manifest)
       /\ \A u \in DOMAIN manifest: owned[<<p, u>>] # None
  /\ program.task = "import" =>
       /\ manifest # None /\ mode[program.pool] = "read_only"
       /\ program.left \subseteq DOMAIN manifest
       /\ Holds(program.pool, DOMAIN manifest \ program.left)

(* The latest is on the source until the shard of the player opens. *)
LatestAt ==
  \A u \in Uids:
    latest[u] = IF Home(u) \in Opened THEN owned[<<Home(u), u>>]
                ELSE owned[<<Source, u>>]

MoveInv ==
  /\ MoveTyped /\ Frozen /\ Seated /\ SourceShut /\ History /\ AsImported
  /\ ShardsVerified /\ LatestAt

LEMMA PoolsAre ==
  /\ Source \in Pools /\ Source \notin Shards /\ Shards \subseteq Pools
  /\ \A u \in Uids: Home(u) \in Shards
  /\ None \notin Nat
<1>1. \A u \in Uids: Hash[u] \in Nat
  BY MigrationAssumption
<1>2. Count \in Nat /\ Count >= 2
  BY MigrationAssumption
<1>3. \A h \in Nat: h % Count \in 0 .. Count - 1
  BY <1>2
<1>4. \A u \in Uids: Home(u) \in Shards
  BY <1>1, <1>3 DEF Home, Shards
<1> QED BY <1>4, MigrationAssumption DEF Source, Shards, Pools, Generations

LEMMA ManifestOf ==
  ASSUME NEW m \in Manifests
  PROVE  DOMAIN m \subseteq Uids /\ \A u \in DOMAIN m: m[u] \in Nat
BY DEF Manifests

LEMMA Programs ==
  ASSUME MoveTyped
  PROVE  /\ program.task = "export" => program \in Exporting
         /\ program.task = "import" => program \in Importing
         /\ program.task \in {"none", "export", "import"}
         /\ NoRun.task = "none"
         /\ program # NoRun => program.task # "none"
BY DEF MoveTyped, NoRun, Exporting, Importing

LEMMA MoveInit == Init => MoveInv
<1> SUFFICES ASSUME Init PROVE MoveInv
  OBVIOUS
<1> USE PoolsAre
<1>1. MoveTyped
  BY DEF Init, MoveTyped, Modes
<1>2. Frozen /\ Seated
  BY DEF Init, Frozen, Seated
<1>3. SourceShut /\ History /\ AsImported
  BY DEF Init, SourceShut, History, AsImported, NoRun
<1>4. ShardsVerified /\ LatestAt
  BY DEF Init, ShardsVerified, LatestAt, NoRun, Opened
<1> QED BY <1>1, <1>2, <1>3, <1>4 DEF MoveInv

(* While the source is not frozen there is no manifest, and no shard is open. *)
LEMMA SourceOpen ==
  ASSUME MoveInv, mode[Source] # "read_only"
  PROVE  manifest = None /\ program = NoRun /\ verified = {} /\ Opened = {}
BY DEF MoveInv, SourceShut, ShardsVerified, Opened

(* Connecting, starting, finishing and leaving, on the source or on a shard
   that is open: all of it moves one player on one pool.                     *)
LEMMA PlayerHolds ==
  ASSUME MoveInv, NEW p \in Pools, NEW u \in Uids, mode[p] # "read_only",
         p = Source \/ (p = Home(u) /\ p \in Opened),
         NEW s \in {"away", "idle", "busy"}, NEW n \in Nat,
         presence' = [presence EXCEPT ![<<p, u>>] = s],
         owned' = [owned EXCEPT ![<<p, u>>] = n],
         latest' = [latest EXCEPT ![u] = n],
         UNCHANGED <<mode, imports, operatorVars, config>>
  PROVE  MoveInv'
<1> USE PoolsAre
<1>1. UNCHANGED <<mode, imports, calls, program, manifest, verified, config>>
  BY DEF operatorVars
<1>2. /\ MoveTyped /\ Frozen /\ Seated /\ SourceShut /\ History /\ AsImported
      /\ ShardsVerified /\ LatestAt
  BY DEF MoveInv
<1>3. /\ \A q \in Pools, v \in Uids: <<q, v>> # <<p, u>> =>
           presence'[<<q, v>>] = presence[<<q, v>>] /\ owned'[<<q, v>>] = owned[<<q, v>>]
      /\ presence'[<<p, u>>] = s /\ owned'[<<p, u>>] = n /\ n # None
      /\ \A v \in Uids: latest'[v] = IF v = u THEN n ELSE latest[v]
  BY <1>2 DEF MoveTyped
<1>4. MoveTyped'
  BY <1>1, <1>2 DEF MoveTyped
<1>5. Frozen'
  BY <1>1, <1>2, <1>3 DEF Frozen, Drained
<1>6. Opened' = Opened
  BY <1>1 DEF Opened
<1>7. Seated'
  <2>1. \A q \in Pools, v \in Uids:
          presence'[<<q, v>>] # "away" =>
            /\ owned'[<<q, v>>] # None
            /\ q = Source \/ (q = Home(v) /\ q \in Opened)
    BY <1>2, <1>3 DEF Seated
  <2> QED BY <2>1, <1>1, <1>2, <1>6 DEF Seated, Home
<1>8. Owners(Source) \subseteq Owners(Source)'
  BY <1>3 DEF Owners
<1>9. History'
  BY <1>1, <1>2, <1>8 DEF History, Names
<1>10. CASE p = Source
  <2>1. manifest = None /\ program = NoRun /\ verified = {} /\ Opened = {}
    BY <1>10, SourceOpen
  <2>2. SourceShut' /\ ShardsVerified'
    BY <2>1, <1>1 DEF SourceShut, ShardsVerified, NoRun
  <2>3. \A q \in Shards, v \in Uids: owned'[<<q, v>>] = owned[<<q, v>>]
    BY <1>3, <1>10
  <2>4. AsImported'
    <3>1. \A q \in Shards: \A row \in imports[q]: row[2] \in Uids
      BY <1>2 DEF MoveTyped
    <3> QED BY <3>1, <2>3, <1>1, <1>2, <1>6 DEF AsImported
  <2>5. LatestAt'
    BY <2>1, <1>2, <1>3, <1>6, <1>10 DEF LatestAt, Home
  <2> QED BY <1>4, <1>5, <1>7, <1>9, <2>2, <2>4, <2>5 DEF MoveInv
<1>11. CASE p = Home(u) /\ p \in Opened
  <2>1. p \in Shards /\ p # Source
    BY <1>11
  <2>2. \A v \in Uids: owned'[<<Source, v>>] = owned[<<Source, v>>]
    BY <2>1, <1>3
  <2>3. Owners(Source)' = Owners(Source)
    BY <2>2 DEF Owners
  <2>4. SourceShut'
    <3>1. Owners(Source) \subseteq Uids
      BY DEF Owners
    <3> QED BY <3>1, <2>2, <2>3, <1>1, <1>2 DEF SourceShut, Faithful
  <2>5. AsImported'
    <3>1. \A q \in Shards: \A row \in imports[q]: row[2] \in Uids
      BY <1>2 DEF MoveTyped
    <3>2. \A q \in Shards \ Opened, v \in Uids:
            owned'[<<q, v>>] = owned[<<q, v>>]
      BY <1>3, <1>11
    <3> QED BY <3>1, <3>2, <1>1, <1>2, <1>6 DEF AsImported
  <2>6. ShardsVerified'
    <3>1. manifest # None => DOMAIN manifest \subseteq Uids
      BY <1>2, ManifestOf DEF MoveTyped
    <3>2. verified # {} => DOMAIN manifest \subseteq Uids
      BY <3>1, <1>2 DEF ShardsVerified
    <3>3. verified \subseteq Pools
      BY <1>2 DEF MoveTyped
    <3>4. \A q \in verified, v \in DOMAIN manifest: owned'[<<q, v>>] # None
      <4> SUFFICES ASSUME NEW q \in verified, NEW v \in DOMAIN manifest
                   PROVE  owned'[<<q, v>>] # None
        OBVIOUS
      <4>1. q \in Pools /\ v \in Uids /\ owned[<<q, v>>] # None
        BY <3>2, <3>3, <1>2 DEF ShardsVerified
      <4>2. CASE <<q, v>> = <<p, u>>
        BY <4>2, <1>3
      <4>3. CASE <<q, v>> # <<p, u>>
        BY <4>1, <4>3, <1>3
      <4> QED BY <4>2, <4>3
    <3> QED BY <3>4, <1>1, <1>2 DEF ShardsVerified, Holds
  <2>7. LatestAt'
    <3>1. \A v \in Uids: latest'[v] = IF Home(v) \in Opened
                                      THEN owned'[<<Home(v), v>>]
                                      ELSE owned'[<<Source, v>>]
      BY <2>2, <1>2, <1>3, <1>11 DEF LatestAt
    <3> QED BY <3>1, <1>6 DEF LatestAt, Home
  <2> QED BY <1>4, <1>5, <1>7, <1>9, <2>4, <2>5, <2>6, <2>7 DEF MoveInv
<1> QED BY <1>10, <1>11

LEMMA ConnectHolds ==
  ASSUME MoveInv, NEW u \in Uids, Connect(u)
  PROVE  MoveInv'
<1>1. PICK p \in {Route(u, config), Source} \cap (Pools \ {None}):
        /\ mode[p] = "active" /\ presence[<<p, u>>] = "away"
        /\ presence' = [presence EXCEPT ![<<p, u>>] = "idle"]
        /\ owned' = [owned EXCEPT ![<<p, u>>] = IF @ = None THEN 1 ELSE @]
        /\ latest' = [latest EXCEPT ![u] = IF @ = None THEN 1 ELSE @]
        /\ UNCHANGED <<mode, imports, operatorVars, config>>
  BY DEF Connect
<1>2. MoveTyped /\ Seated /\ LatestAt
  BY DEF MoveInv
<1>3. p \in Pools /\ p # None /\ mode[p] # "read_only"
  BY <1>1
<1>4. p = Source \/ (p = Home(u) /\ p \in Opened)
  <2> SUFFICES ASSUME p # Source PROVE p = Home(u) /\ p \in Opened
    OBVIOUS
  <2>1. p = Route(u, config)
    BY <1>1
  <2>2. config.count \in {1, Count} /\ Count # 1
    BY <1>2, MigrationAssumption DEF Seated
  <2>3. CASE config.count = 1
    <3>1. /\ config.routing = "single_compatibility"
          /\ p = <<config.generation, None>>
      BY <2>1, <2>3, PoolsAre, <1>3 DEF Route, Pools, Generations
    <3>2. config.generation # "protected-v1"
      BY <3>1 DEF Source
    <3>3. config.generation = "public-v1" /\ config \in Deployments
      BY <3>1, <3>2, <1>2, <1>3 DEF Pools, Generations, Seated
    <3> QED BY <3>1, <3>3, <2>3, MigrationAssumption
  <2>4. CASE config.count = Count
    <3>1. /\ config.generation # "protected-v1"
          /\ p = <<config.generation, Hash[u] % Count>>
      BY <2>1, <2>2, <2>4, PoolsAre, <1>3 DEF Route, Pools, Generations
    <3>2. config.generation = "public-v1"
      BY <3>1, <1>3 DEF Pools, Generations
    <3>3. p = Home(u)
      BY <3>1, <3>2 DEF Home
    <3>4. p \in verified
      BY <3>2, <3>3, <1>1, <1>2, PoolsAre DEF Seated
    <3> QED BY <3>3, <3>4, <1>1 DEF Opened
  <2> QED BY <2>2, <2>3, <2>4
<1>5. owned[<<p, u>>] = latest[u]
  <2>1. CASE p = Source
    <3>1. Opened = {}
      BY <2>1, <1>3, SourceOpen
    <3> QED BY <2>1, <3>1, <1>2 DEF LatestAt
  <2>2. CASE p = Home(u) /\ p \in Opened
    BY <2>2, <1>2 DEF LatestAt
  <2> QED BY <1>4, <2>1, <2>2
<1> DEFINE n == IF owned[<<p, u>>] = None THEN 1 ELSE owned[<<p, u>>]
<1>6. n \in Nat
  BY <1>2, <1>3 DEF MoveTyped
<1>7. /\ owned' = [owned EXCEPT ![<<p, u>>] = n]
      /\ latest' = [latest EXCEPT ![u] = n]
  BY <1>1, <1>5
<1> HIDE DEF n
<1> DEFINE s == "idle"
<1>8. /\ presence' = [presence EXCEPT ![<<p, u>>] = s]
      /\ UNCHANGED <<mode, imports, operatorVars, config>>
      /\ s \in {"away", "idle", "busy"}
  BY <1>1
<1> HIDE DEF s
<1> QED BY <1>3, <1>4, <1>6, <1>7, <1>8, PlayerHolds

LEMMA PlayHolds ==
  ASSUME MoveInv, NEW u \in Uids, Engage(u) \/ Finish(u) \/ Leave(u)
  PROVE  MoveInv'
<1> DEFINE Plays(p, s, won) ==
      /\ presence[<<p, u>>] # "away"
      /\ presence' = [presence EXCEPT ![<<p, u>>] = s]
      /\ won = 0 => UNCHANGED <<owned, latest>>
      /\ won = 1 => /\ owned' = [owned EXCEPT ![<<p, u>>] = @ + 1]
                    /\ latest' = [latest EXCEPT ![u] = owned[<<p, u>>] + 1]
      /\ UNCHANGED <<mode, imports, operatorVars, config>>
<1>1. PICK p \in Pools, s \in {"away", "idle", "busy"}, won \in {0, 1}:
        Plays(p, s, won)
  <2>1. CASE Engage(u)
    <3>1. PICK p \in Pools:
             /\ presence[<<p, u>>] = "idle"
             /\ presence' = [presence EXCEPT ![<<p, u>>] = "busy"]
             /\ UNCHANGED <<mode, owned, latest, imports, operatorVars, config>>
      BY <2>1 DEF Engage
    <3>2. Plays(p, "busy", 0)
      BY <3>1
    <3> QED BY <3>2, Zenon
  <2>2. CASE Finish(u)
    <3>1. PICK p \in Pools:
             /\ presence[<<p, u>>] = "busy"
             /\ presence' = [presence EXCEPT ![<<p, u>>] = "idle"]
             /\ owned' = [owned EXCEPT ![<<p, u>>] = @ + 1]
             /\ latest' = [latest EXCEPT ![u] = owned[<<p, u>>] + 1]
             /\ UNCHANGED <<mode, imports, operatorVars, config>>
      BY <2>2 DEF Finish
    <3>2. Plays(p, "idle", 1)
      BY <3>1
    <3> QED BY <3>2, Zenon
  <2>3. CASE Leave(u)
    <3>1. PICK p \in Pools:
             /\ presence[<<p, u>>] = "idle"
             /\ presence' = [presence EXCEPT ![<<p, u>>] = "away"]
             /\ UNCHANGED <<mode, owned, latest, imports, operatorVars, config>>
      BY <2>3 DEF Leave
    <3>2. Plays(p, "away", 0)
      BY <3>1
    <3> QED BY <3>2, Zenon
  <2> QED BY <2>1, <2>2, <2>3
<1>2. MoveTyped /\ Seated /\ Frozen /\ LatestAt
  BY DEF MoveInv
<1>3. mode[p] # "read_only"
  BY <1>1, <1>2 DEF Frozen, Drained
<1>4. /\ p = Source \/ (p = Home(u) /\ p \in Opened)
      /\ owned[<<p, u>>] # None
  BY <1>1, <1>2 DEF Seated
<1>5. owned[<<p, u>>] = latest[u]
  <2>1. CASE p = Source
    <3>1. Opened = {}
      BY <2>1, <1>3, SourceOpen
    <3> QED BY <2>1, <3>1, <1>2 DEF LatestAt
  <2>2. CASE p = Home(u) /\ p \in Opened
    BY <2>2, <1>2 DEF LatestAt
  <2> QED BY <1>4, <2>1, <2>2
<1>6. owned[<<p, u>>] \in Nat
  BY <1>2, <1>4 DEF MoveTyped
<1> DEFINE n == owned[<<p, u>>] + won
<1>7. n \in Nat
  BY <1>6
<1>8. /\ owned' = [owned EXCEPT ![<<p, u>>] = n]
      /\ latest' = [latest EXCEPT ![u] = n]
  <2>1. CASE won = 0
    BY <2>1, <1>1, <1>2, <1>5, <1>6 DEF MoveTyped
  <2>2. CASE won = 1
    BY <2>2, <1>1
  <2> QED BY <2>1, <2>2
<1> HIDE DEF n
<1> QED BY <1>1, <1>3, <1>4, <1>7, <1>8, PlayerHolds

(* A change of mode disconnects whom it freezes and touches no other pool. *)
LEMMA ModeChanges ==
  ASSUME MoveTyped, Frozen, NEW p \in Pools, NEW to \in Modes, SetMode(p, to)
  PROVE  /\ mode' \in [Pools -> Modes]
         /\ presence' \in [Pools \X Uids -> {"away", "idle", "busy"}]
         /\ \A q \in Pools: q # p => mode'[q] = mode[q]
         /\ mode'[p] \in {mode[p], to}
         /\ to # "read_only" => mode'[p] = to
         /\ \A q \in Pools, u \in Uids:
              presence'[<<q, u>>] \in {presence[<<q, u>>], "away"}
         /\ Frozen'
<1>1. /\ mode \in [Pools -> Modes]
      /\ presence \in [Pools \X Uids -> {"away", "idle", "busy"}]
  BY DEF MoveTyped
<1>2. /\ IdleClosed(p) \in [Pools \X Uids -> {"away", "idle", "busy"}]
      /\ \A q \in Pools, u \in Uids:
           IdleClosed(p)[<<q, u>>] =
             IF q = p /\ presence[<<q, u>>] = "idle" THEN "away"
             ELSE presence[<<q, u>>]
  BY <1>1 DEF IdleClosed
<1>3. /\ presence' = IF to = "active" THEN presence ELSE IdleClosed(p)
      /\ mode' = IF to = "read_only" /\ ~MayFreeze(p) THEN mode
                 ELSE [mode EXCEPT ![p] = to]
      /\ mode[p] # to /\ (to = "draining" => mode[p] # "read_only")
  BY DEF SetMode
<1> DEFINE closed == IdleClosed(p)
<1> HIDE DEF closed
<1>4. /\ mode' \in [Pools -> Modes]
      /\ presence' \in [Pools \X Uids -> {"away", "idle", "busy"}]
      /\ \A q \in Pools: q # p => mode'[q] = mode[q]
      /\ mode'[p] \in {mode[p], to}
      /\ to # "read_only" => mode'[p] = to
      /\ \A q \in Pools, u \in Uids:
           presence'[<<q, u>>] \in {presence[<<q, u>>], "away"}
  BY <1>1, <1>2, <1>3
<1>5. Frozen'
  <2> SUFFICES ASSUME NEW q \in Pools, mode'[q] = "read_only", NEW u \in Uids
               PROVE  presence'[<<q, u>>] = "away"
    BY DEF Frozen, Drained
  <2>1. CASE mode[q] = "read_only"
    BY <2>1, <1>4 DEF Frozen, Drained
  <2>2. CASE mode[q] # "read_only"
    <3>1. q = p /\ to = "read_only" /\ MayFreeze(p)
      BY <2>2, <1>1, <1>3
    <3>2. presence[<<q, u>>] # "busy"
      BY <3>1 DEF MayFreeze
    <3> QED BY <3>1, <3>2, <1>1, <1>2, <1>3
  <2> QED BY <2>1, <2>2
<1> QED BY <1>4, <1>5

(* Nothing that is owned or under way changes with the mode. *)
LEMMA ModeHolds ==
  ASSUME MoveInv, program = NoRun, NEW p \in Pools, NEW to \in Modes,
         SetMode(p, to),
         UNCHANGED <<owned, imports, calls, program, config, latest>>
  PROVE  /\ History'
         /\ \A q \in Pools, u \in Uids:
              presence'[<<q, u>>] # "away" =>
                /\ owned'[<<q, u>>] # None
                /\ q = Source \/ (q = Home(u) /\ q \in Opened)
<1>1. /\ MoveTyped /\ Frozen /\ Seated /\ History
  BY DEF MoveInv
<1>2. \A q \in Pools, u \in Uids:
        presence'[<<q, u>>] \in {presence[<<q, u>>], "away"}
  BY <1>1, ModeChanges
<1>3. History'
  BY <1>1 DEF History, Names, Owners
<1> QED BY <1>1, <1>2, <1>3 DEF Seated

LEMMA CommandHolds ==
  ASSUME MoveInv, NEW p \in {Source} \cup Shards, NEW to \in Modes,
         Command(p, to)
  PROVE  MoveInv'
<1> USE PoolsAre
<1>1. /\ MoveTyped /\ Frozen /\ Seated /\ SourceShut /\ History /\ AsImported
      /\ ShardsVerified /\ LatestAt
  BY DEF MoveInv
<1>2. /\ program = NoRun /\ SetMode(p, to) /\ p \in Pools
      /\ to = "active" <=> p \in verified
      /\ p \in verified => mode[Source] = "read_only"
      /\ mode[p] # to /\ (to = "draining" => mode[p] # "read_only")
      /\ UNCHANGED <<owned, imports, calls, program, manifest, verified,
                     config, latest>>
  BY DEF Command, Idle, SetMode, operatorVars
<1>3. /\ mode' \in [Pools -> Modes]
      /\ presence' \in [Pools \X Uids -> {"away", "idle", "busy"}]
      /\ \A q \in Pools: q # p => mode'[q] = mode[q]
      /\ mode'[p] \in {mode[p], to}
      /\ to # "read_only" => mode'[p] = to
      /\ Frozen'
  BY <1>1, <1>2, ModeChanges
<1>4. /\ History'
      /\ \A q \in Pools, u \in Uids:
           presence'[<<q, u>>] # "away" =>
             /\ owned'[<<q, u>>] # None
             /\ q = Source \/ (q = Home(u) /\ q \in Opened)
  BY <1>2, ModeHolds
<1>5. MoveTyped'
  BY <1>1, <1>2, <1>3 DEF MoveTyped
<1>6. verified \subseteq Pools /\ verified \subseteq Shards /\ Source \notin verified
  BY <1>1 DEF MoveTyped
<1>7. Opened' = IF p \in verified THEN Opened \cup {p} ELSE Opened
  BY <1>2, <1>3, <1>6 DEF Opened
<1>8. mode[Source] = "read_only" => mode'[Source] = "read_only"
  BY <1>2, <1>3, <1>6 DEF Modes
<1>9. SourceShut'
  BY <1>1, <1>2, <1>8 DEF SourceShut, Faithful, Owners, NoRun
<1>10. ShardsVerified'
  BY <1>1, <1>2 DEF ShardsVerified, Holds, NoRun
<1>11. Seated'
  <2>1. config.generation = "public-v1" =>
          \A q \in Shards: mode'[q] = "read_only" \/ q \in verified
    <3> SUFFICES ASSUME config.generation = "public-v1", NEW q \in Shards,
                        q \notin verified
                 PROVE  mode'[q] = "read_only"
      OBVIOUS
    <3>1. mode[q] = "read_only"
      BY <1>1 DEF Seated
    <3> QED BY <3>1, <1>2, <1>3 DEF Modes
  <2> QED BY <2>1, <1>1, <1>2, <1>4, <1>7 DEF Seated, Home
<1>12. AsImported'
  BY <1>1, <1>2, <1>7 DEF AsImported
<1>13. LatestAt'
  <2> SUFFICES ASSUME NEW u \in Uids
               PROVE  latest[u] = IF Home(u) \in Opened' THEN owned[<<Home(u), u>>]
                                  ELSE owned[<<Source, u>>]
    BY <1>2 DEF LatestAt, Home
  <2>1. CASE Home(u) \in Opened \/ Home(u) \notin Opened'
    BY <2>1, <1>1, <1>7 DEF LatestAt
  <2>2. CASE Home(u) \notin Opened /\ Home(u) \in Opened'
    <3>1. p = Home(u) /\ p \in verified /\ p \in Shards \ Opened
      BY <2>2, <1>6, <1>7
    <3>2. latest[u] = owned[<<Source, u>>]
      BY <2>2, <1>1 DEF LatestAt
    <3>3. /\ manifest # None /\ Faithful(manifest, Owners(Source))
          /\ Holds(p, DOMAIN manifest)
      BY <3>1, <1>1 DEF ShardsVerified, SourceShut
    <3>4. CASE u \in Owners(Source)
      <4>1. <<manifest, u>> \in imports[p] /\ manifest[u] = owned[<<Source, u>>]
        BY <3>3, <3>4 DEF Faithful, Holds
      <4>2. owned[<<p, u>>] = manifest[u]
        BY <4>1, <3>1, <1>1 DEF AsImported
      <4> QED BY <4>1, <4>2, <3>1, <3>2, <2>2
    <3>5. CASE u \notin Owners(Source)
      <4>1. owned[<<Source, u>>] = None
        BY <3>5 DEF Owners
      <4>2. \A row \in imports[p]: row[2] # u
        BY <3>1, <3>5, <1>1 DEF History, Names
      <4>3. owned[<<p, u>>] = None
        BY <4>2, <3>1, <1>1 DEF AsImported
      <4> QED BY <4>1, <4>3, <3>1, <3>2, <2>2
    <3> QED BY <3>4, <3>5
  <2> QED BY <2>1, <2>2
<1> QED BY <1>3, <1>4, <1>5, <1>9, <1>10, <1>11, <1>12, <1>13 DEF MoveInv

(* The source opens again only while no shard is open. *)
LEMMA ReturnHolds == MoveInv /\ Return => MoveInv'
<1> SUFFICES ASSUME MoveInv, Return PROVE MoveInv'
  OBVIOUS
<1> USE PoolsAre
<1> DEFINE to == "active"
<1>1. /\ MoveTyped /\ Frozen /\ Seated /\ SourceShut /\ History /\ AsImported
      /\ ShardsVerified /\ LatestAt
  BY DEF MoveInv
<1>2. /\ program = NoRun /\ SetMode(Source, to) /\ to \in Modes
      /\ \A p \in verified: mode[p] = "read_only"
      /\ verified' = {} /\ manifest' = None
      /\ UNCHANGED <<owned, imports, calls, program, config, latest>>
  BY DEF Return, Idle, Modes
<1> HIDE DEF to
<1>3. /\ mode' \in [Pools -> Modes]
      /\ presence' \in [Pools \X Uids -> {"away", "idle", "busy"}]
      /\ \A q \in Pools: q # Source => mode'[q] = mode[q]
      /\ Frozen'
  BY <1>1, <1>2, ModeChanges
<1>4. /\ History'
      /\ \A q \in Pools, u \in Uids:
           presence'[<<q, u>>] # "away" =>
             /\ owned'[<<q, u>>] # None
             /\ q = Source \/ (q = Home(u) /\ q \in Opened)
  BY <1>2, ModeHolds
<1>5. Opened = {} /\ Opened' = {}
  BY <1>2 DEF Opened
<1>6. MoveTyped'
  BY <1>1, <1>2, <1>3 DEF MoveTyped
<1>7. Seated'
  <2>1. config.generation = "public-v1" =>
          \A q \in Shards: mode'[q] = "read_only"
    BY <1>1, <1>2, <1>3 DEF Seated
  <2> QED BY <2>1, <1>1, <1>2, <1>4, <1>5 DEF Seated
<1>8. SourceShut' /\ ShardsVerified'
  BY <1>2 DEF SourceShut, ShardsVerified, NoRun
<1>9. AsImported' /\ LatestAt'
  BY <1>1, <1>2, <1>5 DEF AsImported, LatestAt, Home
<1> QED BY <1>3, <1>4, <1>6, <1>7, <1>8, <1>9 DEF MoveInv

LEMMA DeployHolds ==
  ASSUME MoveInv, NEW c \in Deployments, Deploy(c)
  PROVE  MoveInv'
<1>1. /\ config' = c
      /\ c.generation = "public-v1" =>
           \A p \in Shards: mode[p] = "read_only" \/ p \in verified
      /\ UNCHANGED <<mode, presence, owned, imports, calls, program, manifest,
                     verified, latest>>
  BY DEF Deploy, poolVars, operatorVars
<1>2. Opened' = Opened /\ Owners(Source)' = Owners(Source)
  BY <1>1 DEF Opened, Owners
<1>3. Seated'
  BY <1>1, <1>2 DEF MoveInv, Seated, Home
<1>4. MoveTyped' /\ Frozen' /\ AsImported' /\ LatestAt'
  <2>1. MoveTyped'
    BY <1>1 DEF MoveInv, MoveTyped
  <2>2. Frozen'
    BY <1>1 DEF MoveInv, Frozen, Drained
  <2>3. AsImported' /\ LatestAt'
    BY <1>1, <1>2 DEF MoveInv, AsImported, LatestAt, Home
  <2> QED BY <2>1, <2>2, <2>3
<1>5. SourceShut' /\ History' /\ ShardsVerified'
  BY <1>1, <1>2 DEF MoveInv, SourceShut, Faithful, History, Names,
                    ShardsVerified, Holds
<1> QED BY <1>3, <1>4, <1>5 DEF MoveInv

-----------------------------------------------------------------------------
(* The program *)

(* A step of the program reads the pools; what it verifies is still frozen. *)
LEMMA RunHolds ==
  ASSUME MoveInv, UNCHANGED <<poolVars, config, latest>>,
         MoveTyped', SourceShut', ShardsVerified',
         verified \subseteq verified',
         \A p \in verified' \ verified: mode[p] = "read_only",
         \A call \in calls': call.uid \in DOMAIN call.manifest
                             /\ Names(call.manifest)
  PROVE  MoveInv'
<1>1. UNCHANGED <<mode, presence, owned, imports, config, latest>>
  BY DEF poolVars
<1>2. Opened' = Opened /\ Owners(Source)' = Owners(Source)
  BY <1>1 DEF Opened, Owners
<1>3. Frozen' /\ Seated'
  BY <1>1, <1>2 DEF MoveInv, Frozen, Drained, Seated, Home
<1>4. AsImported' /\ LatestAt'
  BY <1>1, <1>2 DEF MoveInv, AsImported, LatestAt, Home
<1>5. History'
  BY <1>1, <1>2 DEF MoveInv, History, Names
<1> QED BY <1>3, <1>4, <1>5 DEF MoveInv

LEMMA StartExportHolds == MoveInv /\ StartExport => MoveInv'
<1> SUFFICES ASSUME MoveInv, StartExport PROVE MoveInv'
  OBVIOUS
<1> DEFINE run == [task |-> "export", cursor |-> 0, entries |-> EmptyManifest]
<1>1. /\ MoveTyped /\ SourceShut /\ History /\ ShardsVerified
  BY DEF MoveInv
<1>2. /\ manifest = None /\ mode[Source] = "read_only" /\ program' = run
      /\ UNCHANGED <<poolVars, calls, manifest, verified, config, latest>>
  BY DEF StartExport, Exportable
<1>3. EmptyManifest \in Manifests /\ DOMAIN EmptyManifest = {}
  BY DEF EmptyManifest, Manifests
<1>4. run \in Exporting /\ run.task = "export" /\ run.cursor = 0
      /\ run.entries = EmptyManifest
  BY <1>3 DEF Exporting
<1> HIDE DEF run
<1>5. \A u \in Uids: ~(u <= 0)
  BY MigrationAssumption
<1>6. MoveTyped'
  BY <1>1, <1>2, <1>4 DEF MoveTyped, poolVars
<1>7. SourceShut'
  BY <1>2, <1>3, <1>4, <1>5 DEF SourceShut, Faithful, Owners, poolVars
<1>8. ShardsVerified'
  BY <1>1, <1>2, <1>4 DEF ShardsVerified, Holds, poolVars
<1> QED BY <1>1, <1>2, <1>6, <1>7, <1>8, RunHolds DEF History

(* Each page adds the players it names; the last one makes the manifest. *)
LEMMA ExportPageHolds == MoveInv /\ ExportPage => MoveInv'
<1> SUFFICES ASSUME MoveInv, ExportPage PROVE MoveInv'
  OBVIOUS
<1> DEFINE after == program.cursor
           page == Page(Source, after)
           next == NextCursor(Source, after)
           old == program.entries
           entries == [u \in DOMAIN old \cup page |->
                         IF u \in page THEN Payload(Source, u) ELSE old[u]]
           run == [program EXCEPT !.cursor = next, !.entries = entries]
           owners == Owners(Source)
<1>1. /\ MoveTyped /\ SourceShut /\ History /\ ShardsVerified
  BY DEF MoveInv
<1>2. /\ program.task = "export"
      /\ next = None => program' = NoRun /\ manifest' = entries
      /\ next # None => program' = run /\ manifest' = manifest
      /\ UNCHANGED <<poolVars, calls, verified, config, latest>>
  BY DEF ExportPage
<1>3. /\ program \in Exporting /\ after \in Nat /\ old \in Manifests
      /\ manifest = None /\ verified = {} /\ mode[Source] = "read_only"
      /\ program # NoRun
      /\ Faithful(old, {u \in owners: u <= after})
  BY <1>1, <1>2, Programs DEF SourceShut, ShardsVerified, Exporting
<1>4. /\ next = None => page = {u \in owners: u > after}
      /\ next # None => /\ next \in Nat /\ next > after
                        /\ page = {u \in {v \in owners: v > after}: u <= next}
  BY <1>3, PageIsComplete
<1>5. \A u \in owners: u \in Uids /\ u \in Nat /\ owned[<<Source, u>>] \in Nat
  BY <1>1, PoolsAre, MigrationAssumption DEF Owners, MoveTyped
<1> DEFINE all == IF next = None THEN owners ELSE {u \in owners: u <= next}
<1> HIDE DEF page, next
<1>6. DOMAIN old \cup page = all
  <2>1. DOMAIN old = {u \in owners: u <= after}
    BY <1>3 DEF Faithful
  <2>2. \A u \in owners: u \in Nat
    BY <1>5
  <2> HIDE DEF owners, old, after
  <2>3. CASE next = None
    <3>1. \A u \in owners: u <= after \/ u > after
      BY <2>2, <1>3
    <3> QED BY <2>1, <2>3, <3>1, <1>4
  <2>4. CASE next # None
    <3>1. \A u \in owners: u <= next <=> (u <= after \/ (u > after /\ u <= next))
      BY <2>2, <2>4, <1>3, <1>4
    <3> QED BY <2>1, <2>4, <3>1, <1>4
  <2> QED BY <2>3, <2>4
<1>7. DOMAIN entries = all
      /\ \A u \in all: entries[u] = owned[<<Source, u>>]
  BY <1>3, <1>6 DEF Faithful, Payload
<1>8. entries \in [all -> Nat]
  <2>1. entries = [u \in all |-> IF u \in page THEN Payload(Source, u) ELSE old[u]]
    BY <1>6
  <2>2. \A u \in all: entries[u] \in Nat
    BY <1>5, <1>7
  <2> QED BY <2>1, <2>2
<1>9. all \subseteq Uids
  BY <1>5
<1> HIDE DEF entries, all, old
<1>10. entries \in Manifests
  BY <1>8, <1>9 DEF Manifests
<1>11. Faithful(entries, all)
  BY <1>7 DEF Faithful
<1>12. next # None => /\ run \in Exporting /\ run.task = "export"
                      /\ run.cursor = next /\ run.entries = entries
  BY <1>3, <1>4, <1>10 DEF Exporting
<1> HIDE DEF run
<1>13. MoveTyped'
  BY <1>1, <1>2, <1>10, <1>12 DEF MoveTyped, poolVars
<1>14. SourceShut'
  <2>1. UNCHANGED <<mode, owned>> /\ Owners(Source)' = owners
    BY <1>2 DEF poolVars, Owners
  <2>2. CASE next = None
    BY <2>1, <2>2, <1>2, <1>3, <1>11 DEF SourceShut, Faithful, NoRun, all
  <2>3. CASE next # None
    BY <2>1, <2>3, <1>2, <1>3, <1>11, <1>12 DEF SourceShut, Faithful, all
  <2> QED BY <2>2, <2>3
<1>15. ShardsVerified'
  BY <1>2, <1>3, <1>12 DEF ShardsVerified, NoRun
<1> QED BY <1>1, <1>2, <1>13, <1>14, <1>15, RunHolds DEF History

LEMMA StartImportHolds ==
  ASSUME MoveInv, NEW p \in Shards, StartImport(p)
  PROVE  MoveInv'
<1> DEFINE run == [task |-> "import", pool |-> p, left |-> DOMAIN manifest,
                   waits |-> FALSE]
<1>1. /\ MoveTyped /\ SourceShut /\ History /\ ShardsVerified
  BY DEF MoveInv
<1>2. /\ manifest # None /\ mode[p] = "read_only" /\ program' = run
      /\ UNCHANGED <<poolVars, calls, manifest, verified, config, latest>>
  BY DEF StartImport, Exportable
<1>3. DOMAIN manifest \subseteq Uids
  BY <1>1, <1>2, ManifestOf DEF MoveTyped
<1>4. run \in Importing /\ run.task = "import" /\ run.pool = p
      /\ run.left = DOMAIN manifest
  BY <1>3 DEF Importing
<1> HIDE DEF run
<1>5. MoveTyped'
  BY <1>1, <1>2, <1>4 DEF MoveTyped, poolVars
<1>6. SourceShut'
  BY <1>1, <1>2, <1>4 DEF SourceShut, Faithful, Owners, poolVars
<1>7. ShardsVerified'
  BY <1>1, <1>2, <1>4 DEF ShardsVerified, Holds, poolVars
<1> QED BY <1>1, <1>2, <1>5, <1>6, <1>7, RunHolds DEF History

LEMMA SendImportHolds == MoveInv /\ SendImport => MoveInv'
<1> SUFFICES ASSUME MoveInv, SendImport PROVE MoveInv'
  OBVIOUS
<1> DEFINE run == [program EXCEPT !.waits = TRUE]
           call == NextCall
<1>1. /\ MoveTyped /\ SourceShut /\ History /\ ShardsVerified
  BY DEF MoveInv
<1>2. /\ program.task = "import" /\ program.left # {}
      /\ calls' = calls \cup {call} /\ program' = run
      /\ UNCHANGED <<poolVars, manifest, verified, config, latest>>
  BY DEF SendImport
<1>3. /\ program \in Importing /\ program # NoRun /\ manifest # None
      /\ manifest \in Manifests
      /\ program.left \subseteq DOMAIN manifest
      /\ Faithful(manifest, Owners(Source))
  BY <1>1, <1>2, Programs DEF SourceShut, ShardsVerified, MoveTyped
<1>4. DOMAIN manifest \subseteq Uids
  BY <1>3, ManifestOf
<1>5. Min(program.left) \in program.left
  <2>1. program.left \in SUBSET Nat
    BY <1>3, <1>4, MigrationAssumption
  <2> DEFINE left == program.left
  <2> HIDE DEF left
  <2>2. \E m \in left: \A k \in left: m <= k
    BY <2>1, <1>2, LeastNatural DEF left
  <2>3. Min(left) \in left
    BY <2>2, Zenon DEF Min
  <2> QED BY <2>3 DEF left
<1>6. /\ call \in Call /\ call.uid = Min(program.left)
      /\ call.manifest = manifest
  BY <1>3, <1>4, <1>5 DEF NextCall, Call, Importing
<1>7. run \in Importing /\ run.task = "import" /\ run.pool = program.pool
      /\ run.left = program.left
  BY <1>3 DEF Importing
<1> HIDE DEF run, call
<1>8. MoveTyped'
  BY <1>1, <1>2, <1>6, <1>7 DEF MoveTyped, poolVars
<1>9. SourceShut'
  BY <1>1, <1>2, <1>3, <1>7 DEF SourceShut, Faithful, Owners, poolVars
<1>10. ShardsVerified'
  BY <1>1, <1>2, <1>7 DEF ShardsVerified, Holds, poolVars
<1>11. \A c \in calls': c.uid \in DOMAIN c.manifest /\ Names(c.manifest)
  BY <1>1, <1>2, <1>3, <1>5, <1>6 DEF History, Names, Faithful
<1> QED BY <1>2, <1>8, <1>9, <1>10, <1>11, RunHolds

LEMMA FinishImportHolds == MoveInv /\ FinishImport => MoveInv'
<1> SUFFICES ASSUME MoveInv, FinishImport PROVE MoveInv'
  OBVIOUS
<1> DEFINE p == program.pool
<1>1. /\ MoveTyped /\ SourceShut /\ History /\ AsImported /\ ShardsVerified
  BY DEF MoveInv
<1>2. /\ program.task = "import" /\ program.left = {}
      /\ verified' = verified \cup {p} /\ program' = NoRun
      /\ UNCHANGED <<poolVars, calls, manifest, config, latest>>
  BY DEF FinishImport
<1>3. /\ p \in Shards /\ mode[p] = "read_only" /\ manifest # None
      /\ manifest \in Manifests /\ Holds(p, DOMAIN manifest)
  BY <1>1, <1>2, Programs DEF ShardsVerified, Importing, MoveTyped
<1> HIDE DEF p
<1>4. \A u \in DOMAIN manifest: owned[<<p, u>>] # None
  <2> SUFFICES ASSUME NEW u \in DOMAIN manifest PROVE owned[<<p, u>>] # None
    OBVIOUS
  <2>1. <<manifest, u>> \in imports[p] /\ p \in Shards \ Opened
    BY <1>3 DEF Holds, Opened
  <2>2. owned[<<p, u>>] = manifest[u] /\ manifest[u] \in Nat
    BY <2>1, <1>1, <1>3, ManifestOf DEF AsImported
  <2> QED BY <2>2, PoolsAre
<1>5. MoveTyped'
  BY <1>1, <1>2, <1>3 DEF MoveTyped, poolVars
<1>6. SourceShut'
  BY <1>1, <1>2, <1>3 DEF SourceShut, Faithful, Owners, NoRun, poolVars
<1>7. ShardsVerified'
  BY <1>1, <1>2, <1>3, <1>4 DEF ShardsVerified, Holds, NoRun, poolVars
<1> QED BY <1>1, <1>2, <1>3, <1>5, <1>6, <1>7, RunHolds DEF History

LEMMA CrashHolds == MoveInv /\ Crash => MoveInv'
<1> SUFFICES ASSUME MoveInv, Crash PROVE MoveInv'
  OBVIOUS
<1>1. /\ MoveTyped /\ SourceShut /\ History /\ ShardsVerified
  BY DEF MoveInv
<1>2. /\ program' = NoRun
      /\ UNCHANGED <<poolVars, calls, manifest, verified, config, latest>>
  BY DEF Crash
<1>3. MoveTyped'
  BY <1>1, <1>2 DEF MoveTyped, poolVars
<1>4. SourceShut' /\ ShardsVerified'
  BY <1>1, <1>2 DEF SourceShut, Faithful, Owners, ShardsVerified, Holds, NoRun,
                    poolVars
<1> QED BY <1>1, <1>2, <1>3, <1>4, RunHolds DEF History

-----------------------------------------------------------------------------
(* The calls of a pool *)

(* An answer ends the run, or takes the entry of the call off its list. *)
LEMMA AnswerGiven ==
  ASSUME MoveTyped, NEW call, NEW ok \in BOOLEAN, Answered(call, ok)
  PROVE  \/ program' = program \/ program' = NoRun
         \/ /\ ok /\ program.task = "import" /\ program' \in Importing
            /\ program'.task = "import" /\ program'.pool = program.pool
            /\ program'.left = program.left \ {call.uid}
            /\ program.pool = call.pool /\ manifest = call.manifest
<1> DEFINE run == [program EXCEPT !.left = @ \ {call.uid}, !.waits = FALSE]
<1>1. CASE program' = run /\ program.task = "import" /\ ok
           /\ program.pool = call.pool /\ manifest = call.manifest
  <2>1. program \in Importing
    BY <1>1, Programs
  <2>2. run \in Importing /\ run.task = "import" /\ run.pool = program.pool
        /\ run.left = program.left \ {call.uid}
    BY <2>1 DEF Importing
  <2> HIDE DEF run
  <2> QED BY <1>1, <2>2
<1>2. CASE program' = program \/ program' = NoRun
  BY <1>2
<1>3. \/ program' = run /\ program.task = "import" /\ ok
         /\ program.pool = call.pool /\ manifest = call.manifest
      \/ program' = program \/ program' = NoRun
  BY DEF Answered
<1> QED BY <1>1, <1>2, <1>3

(* An answer keeps what the source and the verified shards promise, when an
   entry that is taken off the list has been imported.                       *)
LEMMA AnswerHolds ==
  ASSUME MoveInv, NEW call, NEW ok \in BOOLEAN, Answered(call, ok),
         ok /\ manifest = call.manifest
           => <<call.manifest, call.uid>> \in imports'[call.pool],
         \A p \in Shards: imports[p] \subseteq imports'[p],
         \A p \in verified, u \in DOMAIN manifest:
           owned[<<p, u>>] # None => owned'[<<p, u>>] # None,
         UNCHANGED <<mode, manifest, verified>>,
         \A u \in Uids: owned'[<<Source, u>>] = owned[<<Source, u>>]
  PROVE  /\ SourceShut' /\ ShardsVerified'
         /\ program' \in {NoRun} \cup Exporting \cup Importing
<1>1. MoveTyped /\ SourceShut /\ ShardsVerified
  BY DEF MoveInv
<1>2. \/ program' = program \/ program' = NoRun
      \/ /\ ok /\ program.task = "import" /\ program' \in Importing
         /\ program'.task = "import" /\ program'.pool = program.pool
         /\ program'.left = program.left \ {call.uid}
         /\ program.pool = call.pool /\ manifest = call.manifest
  BY <1>1, AnswerGiven
<1>3. Owners(Source)' = Owners(Source) /\ Owners(Source) \subseteq Uids
  BY DEF Owners
<1>4. verified \subseteq Shards
      /\ (program.task = "import" => program.pool \in Shards)
  BY <1>1, Programs DEF MoveTyped, Importing
<1>5. SourceShut'
  <2>1. program' # NoRun => program # NoRun
    BY <1>1, <1>2, Programs
  <2>2. program'.task = "export" => program' = program
    BY <1>2 DEF NoRun
  <2> QED BY <2>1, <2>2, <1>1, <1>3 DEF SourceShut, Faithful
<1>6. ShardsVerified'
  <2>1. \A p \in verified:
          /\ \A u \in DOMAIN manifest: <<manifest, u>> \in imports'[p]
          /\ \A u \in DOMAIN manifest: owned'[<<p, u>>] # None
    BY <1>1, <1>4 DEF ShardsVerified, Holds
  <2>2. program'.task = "import" =>
          /\ manifest # None /\ mode[program'.pool] = "read_only"
          /\ program'.left \subseteq DOMAIN manifest
          /\ \A u \in DOMAIN manifest \ program'.left:
               <<manifest, u>> \in imports'[program'.pool]
    <3>1. CASE program' = program
      BY <3>1, <1>1, <1>4 DEF ShardsVerified, Holds
    <3>2. CASE program' = NoRun
      BY <3>2 DEF NoRun
    <3>3. CASE program' # program /\ program' # NoRun
      BY <3>3, <1>1, <1>2, <1>4 DEF ShardsVerified, Holds
    <3> QED BY <3>1, <3>2, <3>3
  <2> QED BY <2>1, <2>2, <1>1 DEF ShardsVerified, Holds
<1> QED BY <1>1, <1>2, <1>5, <1>6 DEF MoveTyped

LEMMA CheckImportHolds ==
  ASSUME MoveInv, NEW call \in calls, CheckImport(call)
  PROVE  MoveInv'
<1> DEFINE checked == [call EXCEPT !.checked = TRUE]
<1>1. /\ MoveTyped /\ SourceShut /\ History /\ ShardsVerified /\ call \in Call
  BY DEF MoveInv, MoveTyped
<1>2. UNCHANGED <<poolVars, manifest, verified, config, latest>>
  BY DEF CheckImport
<1>3. checked \in Call /\ checked.uid = call.uid
      /\ checked.manifest = call.manifest
  BY <1>1 DEF Call
<1> HIDE DEF checked
<1>4. CASE Exportable(call.pool)
  <2>1. calls' = (calls \ {call}) \cup {checked} /\ UNCHANGED program
    BY <1>4 DEF CheckImport, checked
  <2>2. MoveTyped'
    BY <2>1, <1>1, <1>2, <1>3 DEF MoveTyped, poolVars
  <2>3. SourceShut' /\ ShardsVerified'
    BY <2>1, <1>1, <1>2
       DEF SourceShut, Faithful, Owners, ShardsVerified, Holds, poolVars
  <2>4. \A c \in calls': c.uid \in DOMAIN c.manifest /\ Names(c.manifest)
    BY <2>1, <1>1, <1>3 DEF History
  <2> QED BY <2>2, <2>3, <2>4, <1>2, RunHolds
<1>5. CASE ~Exportable(call.pool)
  <2> DEFINE ok == FALSE
  <2>1. calls' = calls \ {call} /\ Answered(call, ok) /\ ok \in BOOLEAN /\ ~ok
    BY <1>5 DEF CheckImport, Refused
  <2> HIDE DEF ok
  <2>2. UNCHANGED <<mode, presence, owned, imports>>
    BY <1>2 DEF poolVars
  <2>3. /\ SourceShut' /\ ShardsVerified'
        /\ program' \in {NoRun} \cup Exporting \cup Importing
    BY <2>1, <2>2, <1>2, AnswerHolds
  <2>4. MoveTyped'
    BY <2>1, <2>2, <2>3, <1>1, <1>2 DEF MoveTyped
  <2>5. \A c \in calls': c.uid \in DOMAIN c.manifest /\ Names(c.manifest)
    BY <2>1, <1>1 DEF History
  <2> QED BY <2>3, <2>4, <2>5, <1>2, RunHolds
<1> QED BY <1>4, <1>5

(* The transaction writes only what a shard that is not open lacks: an open
   one owns something for everybody any manifest has ever named.             *)
LEMMA CommitImportHolds ==
  ASSUME MoveInv, NEW call \in calls, CommitImport(call)
  PROVE  MoveInv'
<1> USE PoolsAre
<1> DEFINE p == call.pool
           u == call.uid
           m == call.manifest
           ok == Succeeds(call)
<1>1. /\ MoveTyped /\ Frozen /\ Seated /\ SourceShut /\ History /\ AsImported
      /\ ShardsVerified /\ LatestAt
  BY DEF MoveInv
<1>2. /\ call \in Call /\ p \in Shards /\ u \in Uids /\ m \in Manifests
      /\ u \in DOMAIN m /\ Names(m)
  BY <1>1 DEF MoveTyped, Call, History
<1>3. /\ Imported(call) /\ calls' = calls \ {call} /\ Answered(call, ok)
      /\ UNCHANGED <<mode, presence, manifest, verified, config, latest>>
  BY DEF CommitImport
<1>4. ok \in BOOLEAN /\ AlreadyImported(call) \in BOOLEAN
  BY DEF Succeeds, AlreadyImported
<1>5. Opened' = Opened
  BY <1>3 DEF Opened
<1>6. CASE AlreadyImported(call) \/ HasAuthority(call)
  <2>1. UNCHANGED <<owned, imports>>
    BY <1>3, <1>6 DEF Imported
  <2>2. ok => <<m, u>> \in imports'[p]
    BY <2>1, <1>6 DEF Succeeds, AlreadyImported, ManifestId
  <2> HIDE DEF ok
  <2>3. /\ SourceShut' /\ ShardsVerified'
        /\ program' \in {NoRun} \cup Exporting \cup Importing
    BY <2>1, <2>2, <1>3, <1>4, AnswerHolds
  <2>4. MoveTyped'
    BY <2>1, <2>3, <1>1, <1>3 DEF MoveTyped
  <2>5. \A c \in calls': c.uid \in DOMAIN c.manifest /\ Names(c.manifest)
    BY <1>1, <1>3 DEF History
  <2>6. UNCHANGED <<poolVars, config, latest>>
    BY <2>1, <1>3 DEF poolVars
  <2> QED BY <2>3, <2>4, <2>5, <2>6, <1>3, RunHolds
<1>7. CASE ~AlreadyImported(call) /\ ~HasAuthority(call)
  <2> DEFINE n == m[u]
  <2>1. n \in Nat
    BY <1>2, ManifestOf
  <2>2. /\ owned[<<p, u>>] = None
        /\ owned' = [owned EXCEPT ![<<p, u>>] = n]
        /\ imports' = [imports EXCEPT ![p] = @ \cup {<<m, u>>}]
    BY <1>3, <1>7 DEF Imported, HasAuthority, ManifestId
  <2> HIDE DEF p, u, m, n, ok
  <2>3. /\ \A q \in Pools, v \in Uids: <<q, v>> # <<p, u>> =>
             owned'[<<q, v>>] = owned[<<q, v>>]
        /\ owned'[<<p, u>>] = n /\ n # None
        /\ \A q \in Shards:
             imports'[q] = IF q = p THEN imports[q] \cup {<<m, u>>}
                           ELSE imports[q]
    BY <2>1, <2>2, <1>1, <1>2 DEF MoveTyped
  <2>4. p \notin verified
    <3> SUFFICES ASSUME p \in verified PROVE FALSE
      OBVIOUS
    <3>1. manifest # None /\ Faithful(manifest, Owners(Source))
      BY <1>1 DEF ShardsVerified, SourceShut
    <3>2. u \in DOMAIN manifest
      BY <3>1, <1>2 DEF Names, Faithful
    <3> QED BY <3>2, <2>2, <1>1 DEF ShardsVerified
  <2>5. p \notin Opened /\ p # Source
    BY <2>4, <1>2 DEF Opened
  <2>6. /\ \A v \in Uids: owned'[<<Source, v>>] = owned[<<Source, v>>]
        /\ Owners(Source)' = Owners(Source)
    BY <2>3, <2>5 DEF Owners
  <2>7. MoveTyped' \/ program' \notin {NoRun} \cup Exporting \cup Importing
    BY <2>1, <2>2, <1>1, <1>2, <1>3 DEF MoveTyped
  <2>8. /\ SourceShut' /\ ShardsVerified'
        /\ program' \in {NoRun} \cup Exporting \cup Importing
    <3>1. \A q \in verified, v \in DOMAIN manifest:
            owned[<<q, v>>] # None => owned'[<<q, v>>] # None
      <4> SUFFICES ASSUME NEW q \in verified, NEW v \in DOMAIN manifest
                   PROVE  owned'[<<q, v>>] = owned[<<q, v>>]
        OBVIOUS
      <4>1. verified \subseteq Pools /\ manifest # None
        BY <1>1 DEF MoveTyped, ShardsVerified
      <4>2. v \in Uids
        BY <4>1, <1>1, ManifestOf DEF MoveTyped
      <4> QED BY <4>1, <4>2, <2>3, <2>4
    <3>2. \A q \in Shards: imports[q] \subseteq imports'[q]
      BY <2>3
    <3>3. <<m, u>> \in imports'[p]
      BY <2>3, <1>2
    <3> QED BY <3>1, <3>2, <3>3, <2>6, <1>3, <1>4, AnswerHolds DEF p, u, m
  <2>9. Frozen'
    BY <1>1, <1>3 DEF Frozen, Drained
  <2>10. Seated'
    <3>1. \A q \in Pools, v \in Uids:
            presence[<<q, v>>] # "away" => owned'[<<q, v>>] # None
      BY <2>3, <1>1 DEF Seated
    <3> QED BY <3>1, <1>1, <1>3, <1>5 DEF Seated, Home
  <2>11. History'
    <3>1. \A c \in calls': c.uid \in DOMAIN c.manifest /\ Names(c.manifest)
      BY <1>1, <1>3 DEF History
    <3>2. \A q \in Shards: \A row \in imports'[q]:
            row[2] \in DOMAIN row[1] /\ Names(row[1])
      <4> SUFFICES ASSUME NEW q \in Shards, NEW row \in imports'[q]
                   PROVE  row[2] \in DOMAIN row[1] /\ Names(row[1])
        OBVIOUS
      <4>1. row \in imports[q] \/ row = <<m, u>>
        BY <2>3
      <4> QED BY <4>1, <1>1, <1>2 DEF History
    <3> QED BY <3>1, <3>2, <2>6 DEF History, Names
  <2>12. AsImported'
    <3>1. \A q \in Shards: \A row \in imports[q]:
            row[1] \in Manifests /\ row[2] \in Uids
      BY <1>1 DEF MoveTyped
    <3>2. \A row \in imports[p]: row[2] # u
      <4> SUFFICES ASSUME NEW row \in imports[p], row[2] = u PROVE FALSE
        OBVIOUS
      <4>1. owned[<<p, u>>] = row[1][u] /\ u \in DOMAIN row[1]
            /\ row[1] \in Manifests
        BY <3>1, <2>5, <1>1, <1>2 DEF AsImported, History
      <4> QED BY <4>1, <2>2, ManifestOf
    <3>3. \A q \in Shards \ Opened: \A row \in imports'[q]:
            owned'[<<q, row[2]>>] = row[1][row[2]]
      <4> SUFFICES ASSUME NEW q \in Shards \ Opened, NEW row \in imports'[q]
                   PROVE  owned'[<<q, row[2]>>] = row[1][row[2]]
        OBVIOUS
      <4>1. CASE row \in imports[q]
        <5>1. <<q, row[2]>> # <<p, u>>
          BY <4>1, <3>2
        <5>2. owned'[<<q, row[2]>>] = owned[<<q, row[2]>>]
          BY <4>1, <5>1, <3>1, <2>3
        <5> QED BY <4>1, <5>2, <1>1 DEF AsImported
      <4>2. CASE row \notin imports[q]
        <5>1. q = p /\ row = <<m, u>>
          BY <4>2, <2>3
        <5> QED BY <5>1, <2>3 DEF n
      <4> QED BY <4>1, <4>2
    <3>4. \A q \in Shards \ Opened, v \in Uids: owned'[<<q, v>>] # None =>
            \E row \in imports'[q]: row[2] = v
      <4> SUFFICES ASSUME NEW q \in Shards \ Opened, NEW v \in Uids,
                          owned'[<<q, v>>] # None
                   PROVE  \E row \in imports'[q]: row[2] = v
        OBVIOUS
      <4>1. CASE <<q, v>> = <<p, u>>
        <5>1. <<m, u>> \in imports'[q] /\ <<m, u>>[2] = v
          BY <4>1, <2>3
        <5> QED BY <5>1
      <4>2. CASE <<q, v>> # <<p, u>>
        <5>1. owned[<<q, v>>] # None
          BY <4>2, <2>3
        <5>2. PICK row \in imports[q]: row[2] = v
          BY <5>1, <1>1 DEF AsImported
        <5>3. row \in imports'[q]
          BY <2>3, <5>2
        <5> QED BY <5>2, <5>3
      <4> QED BY <4>1, <4>2
    <3> QED BY <3>3, <3>4, <1>5 DEF AsImported
  <2>13. LatestAt'
    <3>1. \A v \in Uids: Home(v) \in Opened =>
            owned'[<<Home(v), v>>] = owned[<<Home(v), v>>]
      BY <2>3, <2>5
    <3> QED BY <3>1, <2>6, <1>1, <1>3, <1>5 DEF LatestAt, Home
  <2> QED BY <2>7, <2>8, <2>9, <2>10, <2>11, <2>12, <2>13 DEF MoveInv
<1> QED BY <1>6, <1>7

-----------------------------------------------------------------------------
(* The invariant of the move, for any number of players, shards and pages and
   any hash: what the source, the manifest, the imports and the shards that
   are open say of a player fits together at every step, whichever run dies,
   is repeated, or has its calls finished late.                              *)
THEOREM MoveHolds == Spec => []MoveInv
<1>1. Init => MoveInv
  BY MoveInit
<1>2. MoveInv /\ [Next]_vars => MoveInv'
  <2> SUFFICES ASSUME MoveInv, [Next]_vars PROVE MoveInv'
    OBVIOUS
  <2>1. ASSUME NEW u \in Uids, Connect(u) \/ Engage(u) \/ Finish(u) \/ Leave(u)
        PROVE  MoveInv'
    BY <2>1, ConnectHolds, PlayHolds
  <2>2. CASE Commands
    <3>1. PICK p \in {Source} \cup Shards, to \in Modes: Command(p, to)
      BY <2>2 DEF Commands, Modes
    <3> QED BY <3>1, CommandHolds
  <2>3. CASE Return
    BY <2>3, ReturnHolds
  <2>4. ASSUME NEW c \in Deployments, Deploy(c) PROVE MoveInv'
    BY <2>4, DeployHolds
  <2>5. CASE Program \/ Crash
    BY <2>5, StartExportHolds, ExportPageHolds, StartImportHolds,
       SendImportHolds, FinishImportHolds, CrashHolds DEF Program
  <2>6. CASE PoolCalls
    BY <2>6, CheckImportHolds, CommitImportHolds DEF PoolCalls
  <2>7. CASE UNCHANGED vars
    <3>1. UNCHANGED <<mode, presence, owned, imports, calls, program, manifest,
                      verified, config, latest>>
      BY <2>7 DEF vars, poolVars, operatorVars
    <3>2. MoveTyped' /\ SourceShut' /\ ShardsVerified'
      BY <3>1 DEF MoveInv, MoveTyped, SourceShut, Faithful, Owners,
                  ShardsVerified, Holds
    <3>3. History
      BY DEF MoveInv
    <3> QED BY <3>1, <3>2, <3>3, RunHolds DEF poolVars, History
  <2> QED BY <2>1, <2>2, <2>3, <2>4, <2>5, <2>6, <2>7 DEF Next
<1> QED BY <1>1, <1>2, PTL DEF Spec

(* Whoever is connected finds the latest of what he has reached
   (routeMatchmakingPool, exportPlayerAuthority, importPlayerAuthority).     *)
THEOREM LatestHolds == Spec => []LatestIsServed
<1>1. MoveInv => LatestIsServed
  <2> SUFFICES ASSUME MoveInv, NEW p \in Pools, NEW u \in Uids,
                      presence[<<p, u>>] # "away"
               PROVE  owned[<<p, u>>] = latest[u]
    BY DEF LatestIsServed
  <2>1. /\ p = Source \/ (p = Home(u) /\ p \in Opened)
        /\ mode[p] # "read_only" /\ LatestAt
    BY DEF MoveInv, Seated, Frozen, Drained
  <2>2. CASE p = Source
    <3>1. Opened = {}
      BY <2>1, <2>2, SourceOpen
    <3> QED BY <2>1, <2>2, <3>1 DEF LatestAt
  <2>3. CASE p = Home(u) /\ p \in Opened
    BY <2>1, <2>3 DEF LatestAt
  <2> QED BY <2>1, <2>2, <2>3
<1> QED BY <1>1, MoveHolds, PTL

(* What a frozen pool owns for a player does not change any more, whatever
   calls are still under way (importPlayerAuthority, playerHasAuthority).    *)
THEOREM FrozenHolds == Spec => FrozenStays
<1> DEFINE Stays == \A p \in Pools, u \in Uids:
                      mode[p] = "read_only" /\ owned[<<p, u>>] # None =>
                        owned'[<<p, u>>] = owned[<<p, u>>]
<1>1. MoveInv /\ [Next]_vars => [Stays]_vars
  <2> SUFFICES ASSUME MoveInv, [Next]_vars,
                      NEW p \in Pools, NEW u \in Uids,
                      mode[p] = "read_only", owned[<<p, u>>] # None
               PROVE  owned'[<<p, u>>] = owned[<<p, u>>]
    OBVIOUS
  <2>1. MoveTyped /\ Frozen
    BY DEF MoveInv
  <2>2. ASSUME NEW v \in Uids, Connect(v) \/ Engage(v) \/ Finish(v) \/ Leave(v)
        PROVE  owned'[<<p, u>>] = owned[<<p, u>>]
    <3>1. CASE Connect(v)
      BY <3>1, <2>1 DEF Connect, MoveTyped
    <3>2. CASE Finish(v)
      BY <3>2, <2>1 DEF Finish, Frozen, Drained, MoveTyped
    <3>3. CASE Engage(v) \/ Leave(v)
      BY <3>3 DEF Engage, Leave
    <3> QED BY <2>2, <3>1, <3>2, <3>3
  <2>3. ASSUME NEW call \in calls, CommitImport(call)
        PROVE  owned'[<<p, u>>] = owned[<<p, u>>]
    BY <2>3, <2>1 DEF CommitImport, Imported, HasAuthority, MoveTyped
  <2>4. CASE \/ Commands \/ Return \/ Program \/ Crash
             \/ \E c \in Deployments: Deploy(c)
             \/ \E call \in calls: CheckImport(call)
             \/ UNCHANGED vars
    <3>1. UNCHANGED owned
      BY <2>4 DEF Commands, Command, Return, Program, StartExport, ExportPage,
                  StartImport, SendImport, FinishImport, Crash, Deploy,
                  CheckImport, vars, poolVars
    <3> QED BY <3>1
  <2> QED BY <2>2, <2>3, <2>4 DEF Next, PoolCalls
<1> QED BY <1>1, MoveHolds, PTL DEF Spec, FrozenStays

=============================================================================
