------------------------------ MODULE Migration ------------------------------
(***************************************************************************)
(* Moving the players of the pool protected-v1 into a sharded generation:  *)
(* the routing of a uid to a pool (pool_routing.ts), the private calls of  *)
(* the MatchmakingPool that change its mode, list, export and import       *)
(* players (index.ts, migration.ts), and the program the operator runs     *)
(* (migration_operator.mjs), which may die or lose an answer at any step   *)
(* and be run again.  A pool is reduced to its mode, to who is connected   *)
(* and to the revision of what it owns for each player; Pool has the rest. *)
(***************************************************************************)
EXTENDS Integers, FiniteSets, FiniteSetsExt

CONSTANTS
  Uids,      \* verified identities, numbered in their string order
  Hash,      \* the FNV-1a hash of each
  Count,     \* shards of the new generation
  PageSize,  \* the limit of a listing: 100 in the operator's program
  Deployments, \* settings that may be deployed, wrong ones among them
  Battles,   \* bound: results one player can have
  Crashes,   \* bound: runs of the program that die or lose an answer
  Returns,   \* bound: how often the old generation is opened again
  None       \* undefined

(* Nobody deploys an unsharded public-v1: it is no destination of the move
   (docs/MULTIPLAYER_SHARD_MIGRATION.md), and its pool would be open and empty. *)
ASSUME MigrationAssumption ==
  /\ Uids \subseteq Nat \ {0} /\ IsFiniteSet(Uids)
  /\ Hash \in [Uids -> Nat]
  /\ Count \in 2 .. 256
  /\ PageSize \in 1 .. 500
  /\ \A c \in Deployments:
       /\ c.count \in {1, Count}
       /\ c.generation = "public-v1" /\ c.count = 1
            => c.routing # "single_compatibility"
  /\ Battles \in Nat /\ Crashes \in Nat /\ Returns \in Nat
  /\ None \notin Nat

VARIABLES
  mode,       \* generation_control of every pool
  presence,   \* sockets: who is away, idle, or in a battle or trade
  owned,      \* revision of what a pool owns for a player, None if nothing
  imports,    \* rows of migration_imports: manifest and uid
  calls,      \* importPlayer calls a pool has not finished
  config,     \* the deployed MATCHMAKING_POOL, _SHARD_COUNT, _ROUTING_MODE
  program,    \* the running migration_operator.mjs
  manifest,   \* the artifact of the last export, None before it
  verified,   \* shards that hold all of it
  latest,     \* what each player has reached, on whatever pool
  crashes, returns

poolVars == <<mode, presence, owned, imports>>
operatorVars == <<calls, program, manifest, verified>>
vars == <<poolVars, operatorVars, config, latest, crashes, returns>>

-----------------------------------------------------------------------------
(* Routing.  A pool is a generation by itself or one of its shards. *)

Generations == {"protected-v1", "public-v1"}
Pools == Generations \X ({None} \cup 0 .. Count - 1)
Source == <<"protected-v1", None>>
Shards == {"public-v1"} \X (0 .. Count - 1)

(* routeMatchmakingPool; None when it throws and the Worker answers 503. *)
Route(u, c) ==
  IF c.count = 1
  THEN IF c.routing = "single_compatibility" THEN <<c.generation, None>>
       ELSE None
  ELSE IF c.routing = "sharded_migration_ready"
          /\ c.generation # "protected-v1"
       THEN <<c.generation, Hash[u] % c.count>> ELSE None

-----------------------------------------------------------------------------
(* Players *)

(* The first message of a connection makes a starter roster when there is no
   account (ensureOnlineInventory).  A Worker that has not seen the newest
   deployment still routes to the old generation.                            *)
Connect(u) ==
  \E p \in {Route(u, config), Source} \cap (Pools \ {None}):
    /\ mode[p] = "active" /\ presence[<<p, u>>] = "away"
    /\ presence' = [presence EXCEPT ![<<p, u>>] = "idle"]
    /\ owned' = [owned EXCEPT ![<<p, u>>] = IF @ = None THEN 1 ELSE @]
    /\ latest' = [latest EXCEPT ![u] = IF @ = None THEN 1 ELSE @]
    /\ UNCHANGED <<mode, imports, operatorVars, config, crashes, returns>>

(* queue, queueTrade *)
Engage(u) ==
  \E p \in Pools:
    /\ mode[p] = "active" /\ presence[<<p, u>>] = "idle"
    /\ owned[<<p, u>>] <= Battles
    /\ presence' = [presence EXCEPT ![<<p, u>>] = "busy"]
    /\ UNCHANGED <<mode, owned, imports, operatorVars, config, latest,
                   crashes, returns>>

(* The battle is settled or the trade executed, in any mode. *)
Finish(u) ==
  \E p \in Pools:
    /\ presence[<<p, u>>] = "busy"
    /\ presence' = [presence EXCEPT ![<<p, u>>] = "idle"]
    /\ owned' = [owned EXCEPT ![<<p, u>>] = @ + 1]
    /\ latest' = [latest EXCEPT ![u] = owned[<<p, u>>] + 1]
    /\ UNCHANGED <<mode, imports, operatorVars, config, crashes, returns>>

Leave(u) ==
  \E p \in Pools:
    /\ presence[<<p, u>>] = "idle"
    /\ presence' = [presence EXCEPT ![<<p, u>>] = "away"]
    /\ UNCHANGED <<mode, owned, imports, operatorVars, config, latest,
                   crashes, returns>>

-----------------------------------------------------------------------------
(* The private calls of a pool *)

(* drained of getGenerationMigrationStatus: no socket, battle or trade. *)
Drained(p) == \A u \in Uids: presence[<<p, u>>] = "away"
Exportable(p) == mode[p] = "read_only" /\ Drained(p)

(* closeIdleSocketsForMigration *)
IdleClosed(p) ==
  [q \in Pools \X Uids |->
    IF q[1] = p /\ presence[q] = "idle" THEN "away" ELSE presence[q]]

(* Nobody is left once the idle sockets are closed. *)
MayFreeze(p) == \A u \in Uids: presence[<<p, u>>] # "busy"

(* setGenerationMigrationMode; a refused freeze has closed the idle sockets. *)
SetMode(p, to) ==
  /\ mode[p] # to
  /\ to = "read_only" => mode[p] # "active"
  /\ to = "draining" => mode[p] # "read_only"
  /\ mode' = IF to = "read_only" /\ ~MayFreeze(p) THEN mode
             ELSE [mode EXCEPT ![p] = to]
  /\ presence' = IF to = "active" THEN presence ELSE IdleClosed(p)

(* The tables a uid is looked for in: an inventory from the first connection,
   accounts, grants and settlements from the first result.                   *)
Tables(p) == { {u \in Uids: owned[<<p, u>>] # None},
               {u \in Uids: owned[<<p, u>>] # None /\ owned[<<p, u>>] > 1} }

FirstOf(us, n) == {u \in us: Cardinality({v \in us: v < u}) < n}

CandidatesOfPage(p, after) ==
  UNION {FirstOf({u \in table: u > after}, PageSize): table \in Tables(p)}

(* listPlayerAuthorityUids: one row more than the page from each table. *)
Candidates(p, after) ==
  UNION {FirstOf({u \in table: u > after}, PageSize + 1): table \in Tables(p)}

Page(p, after) == FirstOf(Candidates(p, after), PageSize)

NextCursor(p, after) ==
  IF Cardinality(Candidates(p, after)) > PageSize THEN Max(Page(p, after))
  ELSE None

(* The rows a pool owns for a player, all of one revision. *)
Payload(p, u) == owned[<<p, u>>]

(* manifestChecksum: the same contents are the same manifest, whichever run
   exported them.                                                            *)
ManifestId(entries) == entries

(* The transaction of importPlayerAuthority. *)
NeverImported(call) == FALSE

AlreadyImported(call) ==
  <<ManifestId(call.manifest), call.uid>> \in imports[call.pool]

HasAuthorityIgnored(call) == FALSE

(* playerHasAuthority *)
HasAuthority(call) == owned[<<call.pool, call.uid>>] # None

Succeeds(call) == AlreadyImported(call) \/ ~HasAuthority(call)

Imported(call) ==
  IF AlreadyImported(call) \/ HasAuthority(call)
  THEN UNCHANGED <<owned, imports>>
  ELSE /\ owned' = [owned EXCEPT
            ![<<call.pool, call.uid>>] = call.manifest[call.uid]]
       /\ imports' = [imports EXCEPT
            ![call.pool] = @ \cup {<<ManifestId(call.manifest), call.uid>>}]

-----------------------------------------------------------------------------
(* The operator's program: one run at a time.  A manifest is the function from
   the exported uids to what they own.                                       *)

NoRun == [task |-> "none"]
Idle == program = NoRun

EmptyManifest == [u \in {} |-> 0]

(* begin-drain, freeze and activate, as the cutover sequence of
   docs/MULTIPLAYER_SHARD_MIGRATION.md orders them: a shard is opened only
   when it is verified and the source still closed, ...                      *)
Command(p, to) ==
  /\ Idle
  /\ to = "active" <=> p \in verified
  /\ p \in verified => mode[Source] = "read_only"
  /\ SetMode(p, to)
  /\ UNCHANGED <<owned, imports, operatorVars, config, latest, crashes,
                 returns>>

(* ... and the source is opened again only before the destination is. *)
Return ==
  /\ Idle /\ returns < Returns
  /\ mode[Source] = "read_only"
  /\ \A p \in verified: mode[p] = "read_only"
  /\ SetMode(Source, "active")
  /\ verified' = {} /\ manifest' = None
  /\ returns' = returns + 1
  /\ UNCHANGED <<owned, imports, calls, program, config, latest, crashes>>

(* A deployment.  The settings may be wrong in any way the Worker refuses, but
   players are not sent to shards that are open and not verified.            *)
Deploy(c) ==
  /\ c # config
  /\ c.generation = "public-v1" =>
       \A p \in Shards: mode[p] = "read_only" \/ p \in verified
  /\ config' = c
  /\ UNCHANGED <<poolVars, operatorVars, latest, crashes, returns>>

StartExport ==
  /\ Idle /\ manifest = None
  /\ Exportable(Source)
  /\ program' = [task |-> "export", cursor |-> 0, entries |-> EmptyManifest]
  /\ UNCHANGED <<poolVars, calls, manifest, verified, config, latest, crashes,
                 returns>>

(* One page and the players on it.  The artifact is written after the last. *)
ExportPage ==
  LET page == Page(Source, program.cursor)
      next == NextCursor(Source, program.cursor)
      entries == [u \in DOMAIN program.entries \cup page |->
                    IF u \in page THEN Payload(Source, u)
                    ELSE program.entries[u]]
  IN /\ program.task = "export"
     /\ Exportable(Source)
     /\ IF next = None
        THEN program' = NoRun /\ manifest' = entries
        ELSE /\ program' = [program EXCEPT !.cursor = next,
                                           !.entries = entries]
             /\ UNCHANGED manifest
     /\ UNCHANGED <<poolVars, calls, verified, config, latest, crashes,
                    returns>>

(* importManifest checks the status once and then sends one entry after the
   other, every one of them to the pool the operator has named.              *)
StartImport(p) ==
  /\ Idle /\ manifest # None
  /\ Exportable(p) /\ p \notin verified
  /\ program' = [task |-> "import", pool |-> p, left |-> DOMAIN manifest,
                 waits |-> FALSE]
  /\ UNCHANGED <<poolVars, calls, manifest, verified, config, latest, crashes,
                 returns>>

NextCall == [pool |-> program.pool, manifest |-> manifest,
             uid |-> Min(program.left), checked |-> FALSE]

SendImport ==
  /\ program.task = "import" /\ ~program.waits /\ program.left # {}
  /\ calls' = calls \cup {NextCall}
  /\ program' = [program EXCEPT !.waits = TRUE]
  /\ UNCHANGED <<poolVars, manifest, verified, config, latest, crashes,
                 returns>>

FinishImport ==
  /\ program.task = "import" /\ program.left = {}
  /\ verified' = verified \cup {program.pool}
  /\ program' = NoRun
  /\ UNCHANGED <<poolVars, calls, manifest, config, latest, crashes, returns>>

(* The answer to a call, if the run that made it still waits: the program goes
   on with the next entry or ends with the error.                            *)
Answered(call, ok) ==
  program' = IF /\ program.task = "import" /\ program.waits
                /\ program.pool = call.pool /\ manifest = call.manifest
                /\ Min(program.left) = call.uid
             THEN IF ok THEN [program EXCEPT !.left = @ \ {call.uid},
                                             !.waits = FALSE]
                  ELSE NoRun
             ELSE program

(* What a pool throws comes back to the program as an error. *)
Refused(call) == calls' = calls \ {call} /\ Answered(call, FALSE)

(* importPlayerAuthority up to the await of the digest: the status. *)
CheckImport(call) ==
  /\ ~call.checked
  /\ IF Exportable(call.pool)
     THEN /\ calls' = (calls \ {call}) \cup {[call EXCEPT !.checked = TRUE]}
          /\ UNCHANGED program
     ELSE Refused(call)
  /\ UNCHANGED <<poolVars, manifest, verified, config, latest, crashes,
                 returns>>

(* From there on: the transaction, which does not look at the mode again. *)
CommitImport(call) ==
  /\ call.checked
  /\ Imported(call)
  /\ calls' = calls \ {call}
  /\ Answered(call, Succeeds(call))
  /\ UNCHANGED <<mode, presence, manifest, verified, config, latest, crashes,
                 returns>>

(* The run dies, or gives up on an answer; its call goes on. *)
Crash ==
  /\ ~Idle /\ crashes < Crashes
  /\ program' = NoRun
  /\ crashes' = crashes + 1
  /\ UNCHANGED <<poolVars, calls, manifest, verified, config, latest, returns>>

-----------------------------------------------------------------------------
Init ==
  /\ mode = [p \in Pools |-> "active"]
  /\ presence = [q \in Pools \X Uids |-> "away"]
  /\ owned = [q \in Pools \X Uids |-> None]
  /\ imports = [p \in Pools |-> {}]
  /\ calls = {}
  /\ config = [generation |-> "protected-v1", count |-> 1,
               routing |-> "single_compatibility"]
  /\ program = NoRun /\ manifest = None /\ verified = {}
  /\ latest = [u \in Uids |-> None]
  /\ crashes = 0 /\ returns = 0

Commands == \E p \in {Source} \cup Shards:
              \E to \in {"draining", "read_only", "active"}: Command(p, to)

Program == StartExport \/ ExportPage \/ SendImport \/ FinishImport
             \/ \E p \in Shards: StartImport(p)

PoolCalls == \E call \in calls: CheckImport(call) \/ CommitImport(call)

Next ==
  \/ \E u \in Uids: Connect(u) \/ Engage(u) \/ Finish(u) \/ Leave(u)
  \/ Commands \/ Return \/ \E c \in Deployments: Deploy(c)
  \/ Program \/ Crash \/ PoolCalls

Spec == Init /\ [][Next]_vars

(* The operator carries on with the sequence and runs the program again after
   a fault, battles end, and calls are answered.                             *)
FairSpec ==
  /\ Spec
  /\ WF_vars(Commands \/ Program)
  /\ WF_vars(\E u \in Uids: Finish(u))
  /\ WF_vars(PoolCalls)

-----------------------------------------------------------------------------
(* Whoever is connected finds the latest of what he has reached, on the old
   generation, on his shard, and after every fault and return between them:
   no result is left behind, taken from an old export, or replaced by a
   starter roster (index.ts 2369-2576, pool_routing.ts).                     *)
LatestIsServed ==
  \A p \in Pools, u \in Uids:
    presence[<<p, u>>] # "away" => owned[<<p, u>>] = latest[u]

(* What a frozen pool owns for a player does not change any more, whatever
   calls are still under way or made again (index.ts 2490-2576).             *)
FrozenStays ==
  [][\A p \in Pools, u \in Uids:
       mode[p] = "read_only" /\ owned[<<p, u>>] # None =>
         owned'[<<p, u>>] = owned[<<p, u>>]]_vars

(* If the source stays closed once it is frozen, running the program again
   after each fault opens every shard in the end: an entry that is already
   there is no error (index.ts 2482-2489).                                   *)
RerunCompletes ==
  [](returns = 0) => <>(\A p \in Shards: p \in verified /\ mode[p] = "active")

=============================================================================
