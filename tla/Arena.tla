-------------------------------- MODULE Arena --------------------------------
(***************************************************************************)
(* The way of a battle result from the rating queue to the save of the     *)
(* player: matchmaking.ts and arena_balance.ts, the settlement rows of the *)
(* MatchmakingPool (index.ts), which are sent again on a new connection    *)
(* until they are acknowledged, and the client that puts them into the     *)
(* save (multiplayer_service.dart, multiplayer_battle_screen.dart,         *)
(* game_service.dart).  What happens inside a battle is Combat's, what     *)
(* sockets do to its row is Pool's.                                        *)
(***************************************************************************)
EXTENDS Integers, Sequences, FiniteSets, SequencesExt

CONSTANTS
  Uids,        \* verified identities
  Players,     \* those whose app is modelled; the others only play
  Matches,     \* bound: ids of the matches one behaviour may create
  Accounts,    \* rating and winning streak each identity starts with
  Limit,       \* receipts sent on one connection: 20 in the code
  LedgerSize,  \* receipts a save remembers: 100 in the code
  Horizon,     \* bound: the last instant, in steps of ratingWindowStepMs
  Kills,       \* bound: how often an app is killed or a save fails
  None         \* undefined

MaxRating == 10000

ASSUME ArenaAssumption ==
  /\ Players \subseteq Uids
  /\ Matches \subseteq Nat /\ IsFiniteSet(Matches)
  /\ Accounts \in [Uids -> [rating: 0 .. MaxRating, streak: Nat]]
  /\ Limit \in Nat \ {0} /\ LedgerSize \in Nat \ {0}
  /\ Horizon \in Nat /\ Kills \in Nat
  /\ None \notin Nat \cup Uids

VARIABLES
  now,       \* Date.now(), in steps of ratingWindowStepMs
  account,   \* rows of arena_accounts
  queued,    \* queuedAt and player.rating of the attachments that wait
  match,     \* rows of sessions: the two players and how it ended
  row,       \* rows of settlements
  wire,      \* messages on the way to each player, None without a socket
  client,    \* MultiplayerService and the screens of each app
  memory,    \* what GameService holds of the results
  disk,      \* what it has saved of them
  kills      \* faults so far

serverVars == <<account, queued, match, row>>
saveVars == <<memory, disk>>
vars == <<now, serverVars, wire, client, saveVars, kills>>

-----------------------------------------------------------------------------
(* matchmaking.ts *)

Least(a, b) == IF a < b THEN a ELSE b
Most(a, b) == IF a < b THEN b ELSE a
Distance(a, b) == Most(a - b, b - a)

(* matchmakingRatingWindow: 100, and 50 more for each full step of waiting. *)
RatingWindow(queuedAt, t) == Least(400, 100 + 50 * Most(0, t - queuedAt))

FairByShorterWait(a, b, t) ==
  Distance(a.rating, b.rating) <=
    Least(RatingWindow(a.queuedAt, t), RatingWindow(b.queuedAt, t))

(* isFairMatch: the wider of the two windows counts. *)
IsFairMatch(a, b, t) ==
  Distance(a.rating, b.rating) <=
    Most(RatingWindow(a.queuedAt, t), RatingWindow(b.queuedAt, t))

(* compareFairCandidates <= 0: the nearer one first, then the longer wait. *)
NotAfter(seeker, a, b) ==
  LET da == Distance(seeker.rating, a.rating)
      db == Distance(seeker.rating, b.rating)
  IN da < db \/ (da = db /\ a.queuedAt <= b.queuedAt)

(* waitingSocket: the best candidates of u, who has just sent queue. *)
Waiting == {u \in Uids: queued[u] # None}

FairCandidates(u, entry) ==
  {v \in Waiting \ {u}: IsFairMatch(entry, queued[v], now)}

BestCandidates(u, entry) ==
  LET fair == FairCandidates(u, entry) IN
  {v \in fair: \A w \in fair: NotAfter(entry, queued[v], queued[w])}

-----------------------------------------------------------------------------
(* arena_balance.ts *)

Clamp(n, low, high) == Most(low, Least(high, n))

(* Math.trunc of a quotient rounds towards zero. *)
Truncated(n, d) == IF n >= 0 THEN n \div d ELSE -((-n) \div d)

(* hostedArenaReward.  The coins of a victory are always 250. *)
RatingChange(won, mine, theirs) ==
  LET edge == Truncated(theirs - mine, 25) IN
  IF won THEN Clamp(18 + edge, 12, 28) ELSE -Clamp(12 - edge, 6, 18)

BattleTokens(won, theirs, streak) ==
  IF ~won THEN 0
  ELSE 1 + (IF theirs >= 1250 THEN 1 ELSE 0)
         + (IF (streak + 1) % 5 = 0 THEN 1 ELSE 0)

(* onlineRosterRewardPool: which list the daily animal is taken from. *)
RewardPool(rating) ==
  IF rating >= 1600 THEN "advanced"
  ELSE IF rating >= 1250 THEN "established" ELSE "early"

-----------------------------------------------------------------------------
(* Rows, messages and the client *)

Match == [first: Uids \cup {None}, second: Uids \cup {None},
          status: {"none", "live", "interrupted", "settled"}]
NoMatch == [first |-> None, second |-> None, status |-> "none"]

Sides(m) == {match[m].first, match[m].second} \ {None}
Opponent(m, u) == IF u = match[m].first THEN match[m].second
                  ELSE match[m].first
LiveMatch(u) == {m \in Matches: match[m].status = "live" /\ u \in Sides(m)}

Row == [won: BOOLEAN, change: Int, tokens: Nat, rating: Int,
        animal: {"early", "established", "advanced", None},
        acknowledged: BOOLEAN]

(* The service (phase, matchId, over, slot) and the screens above it: shown is
   the match the lobby has announced, screen the battle screen that is open,
   done its _rewardApplied, and saving the receipt whose save is awaited.    *)
Client == [phase: {"offline", "ready", "searching", "matched"},
           matchId: Matches \cup {None}, over: BOOLEAN,
           slot: Matches \cup {None}, shown: Matches \cup {None},
           screen: Matches \cup {None}, done: BOOLEAN,
           saving: Matches \cup {None}]

NewClient == [phase |-> "offline", matchId |-> None, over |-> FALSE,
              slot |-> None, shown |-> None, screen |-> None, done |-> FALSE,
              saving |-> None]

Open(u) == wire[u] # None

Message(type, m) == [type |-> type, id |-> m]

(* send: a message to a player without a socket is dropped. *)
Sends(texts) ==
  [u \in Uids |-> IF u \in Players /\ Open(u) THEN wire[u] \o texts[u]
                  ELSE wire[u]]

Nothing == [u \in Uids |-> <<>>]

-----------------------------------------------------------------------------
(* The save of a player *)

(* The receipts it remembers and how often each match has paid. *)
NewSave == [ledger |-> <<>>, paid |-> [m \in Matches |-> 0]]

Remembered(save, m) == m \in Range(save.ledger)

(* applyHostedArenaSettlement, when the receipt is new to the save. *)
AppliedUnremembered(save, m) ==
  [save EXCEPT !.paid[m] = @ + 1]

Applied(save, m) ==
  [ledger |-> LET all == Append(save.ledger, m)
              IN SubSeq(all, Most(1, Len(all) - LedgerSize + 1), Len(all)),
   paid |-> [save.paid EXCEPT ![m] = @ + 1]]

(* _applyHostedSettlementIfReady: the slot is for the match of the screen, and
   no earlier save is waiting or has failed (saveNeedsAttention).            *)
AppliesNow(u, c) ==
  /\ c.screen # None /\ ~c.done /\ c.saving = None
  /\ c.slot # None /\ c.slot = c.matchId
  /\ memory[u] = disk[u]

(* The service changes and notifies the screen, which looks at the slot. *)
ClientBecomes(u, c) ==
  /\ client' = [client EXCEPT ![u] =
       IF AppliesNow(u, c) THEN [c EXCEPT !.saving = c.slot] ELSE c]
  /\ memory' = [memory EXCEPT ![u] =
       IF AppliesNow(u, c) /\ ~Remembered(@, c.slot) THEN Applied(@, c.slot)
       ELSE @]

-----------------------------------------------------------------------------
(* Connections *)

(* sendPendingSettlements: the oldest ones, ORDER BY created_at LIMIT 20.
   The ids of the model grow with the time of the match.                     *)
Pending(u) ==
  {m \in Matches: row[<<u, m>>] # None /\ ~row[<<u, m>>].acknowledged}
Oldest(ms) == {m \in ms: Cardinality({k \in ms: k < m}) < Limit}

InOrder(ms) ==
  {ids \in SetToSeqs(ms): \A i, j \in DOMAIN ids: i < j => ids[i] < ids[j]}

PendingMessages(u) ==
  {[i \in DOMAIN ids |-> Message("settlement", ids[i])]:
     ids \in InOrder(Oldest(Pending(u)))}

(* connect on both sides: a battle that still runs is resumed; only when there
   is none are the pending receipts sent.                                    *)
Connect(u) ==
  /\ ~Open(u) /\ client[u].phase = "offline"
  /\ \E texts \in IF LiveMatch(u) # {}
                   THEN {<< Message("matched", m) >>: m \in LiveMatch(u)}
                   ELSE PendingMessages(u):
       wire' = [wire EXCEPT ![u] = texts]
  /\ ClientBecomes(u, [client[u] EXCEPT !.phase = "ready"])
  /\ UNCHANGED <<now, serverVars, disk, kills>>

(* _handleDisconnect: what belongs to a battle is kept, to be resumed. *)
Disconnected(c) ==
  IF c.matchId # None THEN [c EXCEPT !.phase = "offline"]
  ELSE [c EXCEPT !.phase = "offline", !.over = FALSE]

Lose(u) ==
  /\ Open(u) /\ kills < Kills
  /\ wire' = [wire EXCEPT ![u] = None]
  /\ queued' = [queued EXCEPT ![u] = None]
  /\ client' = [client EXCEPT ![u] = Disconnected(@)]
  /\ kills' = kills + 1
  /\ UNCHANGED <<now, account, match, row, saveVars>>

(* The player leaves the lobby, which disposes of the service. *)
CloseLobby(u) ==
  /\ client[u].screen = None /\ client[u].saving = None
  /\ client[u] # NewClient
  /\ wire' = [wire EXCEPT ![u] = None]
  /\ queued' = [queued EXCEPT ![u] = None]
  /\ client' = [client EXCEPT ![u] = NewClient]
  /\ UNCHANGED <<now, account, match, row, saveVars, kills>>

(* The app is killed and started again: the save is what the disk holds. *)
Kill(u) ==
  /\ kills < Kills
  /\ wire' = [wire EXCEPT ![u] = None]
  /\ queued' = [queued EXCEPT ![u] = None]
  /\ client' = [client EXCEPT ![u] = NewClient]
  /\ memory' = [memory EXCEPT ![u] = disk[u]]
  /\ kills' = kills + 1
  /\ UNCHANGED <<now, account, match, row, disk>>

-----------------------------------------------------------------------------
(* The queue and the end of a battle *)

(* findMatch: the service forgets its last match before it sends queue. *)
Searching(c) ==
  [c EXCEPT !.phase = "searching", !.matchId = None, !.over = FALSE]

MayQueue(u) ==
  /\ LiveMatch(u) = {}
  /\ u \in Players => Open(u) /\ client[u].phase = "ready"
                              /\ client[u].screen = None

ServiceSearches(u) ==
  IF u \in Players THEN ClientBecomes(u, Searching(client[u]))
  ELSE UNCHANGED <<client, memory>>

(* queue without a fair candidate: the player waits. *)
Enqueue(u) ==
  LET entry == [rating |-> account[u].rating, queuedAt |-> now] IN
  /\ MayQueue(u)
  /\ BestCandidates(u, entry) = {}
  /\ queued' = [queued EXCEPT ![u] = entry]
  /\ ServiceSearches(u)
  /\ UNCHANGED <<now, account, match, row, wire, disk, kills>>

(* queue with one: createMatch, under the next id. *)
Pair(u) ==
  LET entry == [rating |-> account[u].rating, queuedAt |-> now] IN
  /\ MayQueue(u)
  /\ \E v \in BestCandidates(u, entry):
     \E m \in {n \in Matches: match[n].status = "none"}:
       /\ \A k \in Matches: k < m => match[k].status # "none"
       /\ match' = [match EXCEPT ![m] =
            [first |-> u, second |-> v, status |-> "live"]]
       /\ queued' = [queued EXCEPT ![u] = None, ![v] = None]
       /\ wire' = Sends([w \in Uids |->
            IF w \in {u, v} THEN << Message("matched", m) >> ELSE <<>>])
  /\ ServiceSearches(u)
  /\ UNCHANGED <<now, account, row, disk, kills>>

(* cancelSearch *)
Cancel(u) ==
  /\ Open(u) /\ client[u].phase = "searching"
  /\ queued' = [queued EXCEPT ![u] = None]
  /\ ClientBecomes(u, [client[u] EXCEPT !.phase = "ready"])
  /\ UNCHANGED <<now, account, match, row, wire, disk, kills>>

(* settleBattle: both rewards are computed from both accounts as they were,
   and the rows are written once.  The first row of a day brings an animal
   (one day is modelled).                                                    *)
SettledRow(m, u, winner) ==
  LET mine == account[u]
      theirs == account[Opponent(m, u)]
      change == RatingChange(u = winner, mine.rating, theirs.rating)
  IN [won |-> u = winner, change |-> change,
      tokens |-> BattleTokens(u = winner, theirs.rating, mine.streak),
      rating |-> Clamp(mine.rating + change, 0, MaxRating),
      animal |-> IF \A k \in Matches: row[<<u, k>>] = None
                 THEN RewardPool(mine.rating) ELSE None,
      acknowledged |-> FALSE]

Settle(m, winner) ==
  /\ row' = [p \in Uids \X Matches |->
       IF p[2] = m /\ p[1] \in Sides(m) THEN SettledRow(m, p[1], winner)
       ELSE row[p]]
  /\ account' = [u \in Uids |->
       IF u \notin Sides(m) THEN account[u]
       ELSE [rating |-> SettledRow(m, u, winner).rating,
             streak |-> IF u = winner THEN account[u].streak + 1 ELSE 0]]

(* The last animal falls or a player forfeits; nobody loses who is away. *)
BattleEnds(m) ==
  /\ match[m].status = "live"
  /\ \E winner \in Sides(m):
       /\ Opponent(m, winner) \in Players => Open(Opponent(m, winner))
       /\ Settle(m, winner)
  /\ match' = [match EXCEPT ![m].status = "settled"]
  /\ wire' = Sends([u \in Uids |->
       IF u \in Sides(m)
       THEN << Message("finished", m), Message("settlement", m) >> ELSE <<>>])
  /\ UNCHANGED <<now, queued, client, saveVars, kills>>

(* interruptBattle: the grace of a player who is away has run out. *)
Interrupt(m) ==
  /\ match[m].status = "live"
  /\ \E u \in Sides(m): u \in Players => ~Open(u)
  /\ match' = [match EXCEPT ![m].status = "interrupted"]
  /\ wire' = Sends([u \in Uids |->
       IF u \in Sides(m) THEN << Message("interrupted", m) >> ELSE <<>>])
  /\ UNCHANGED <<now, account, queued, row, client, saveVars, kills>>

Tick ==
  /\ now < Horizon /\ Waiting # {}
  /\ now' = now + 1
  /\ UNCHANGED <<serverVars, wire, client, saveVars, kills>>

-----------------------------------------------------------------------------
(* The app *)

(* _handleMessage *)
AfterMessage(c, text) ==
  CASE text.type = "matched" ->
         [c EXCEPT !.phase = "matched", !.matchId = text.id]
    [] text.type = "finished" -> [c EXCEPT !.over = TRUE]
    [] text.type = "settlement" -> [c EXCEPT !.slot = text.id]
    [] text.type = "interrupted" ->
         [c EXCEPT !.phase = "ready", !.matchId = None, !.over = FALSE]
    [] text.type = "error" -> [c EXCEPT !.phase = "ready"]

Deliver(u) ==
  /\ Open(u) /\ wire[u] # <<>>
  /\ wire' = [wire EXCEPT ![u] = Tail(@)]
  /\ ClientBecomes(u, AfterMessage(client[u], Head(wire[u])))
  /\ UNCHANGED <<now, serverVars, disk, kills>>

Opened(c) == [c EXCEPT !.shown = c.matchId, !.screen = c.matchId,
                       !.done = FALSE]

(* clearMatch *)
Cleared(c, open) ==
  [c EXCEPT !.screen = None, !.matchId = None, !.over = FALSE,
            !.phase = IF open THEN "ready" ELSE @]

AfterSave(c, open) ==
  [c EXCEPT !.saving = None,
            !.slot = IF open /\ @ = c.saving THEN None ELSE @,
            !.done = @ \/ c.screen # None]

(* The lobby opens the battle of a match it has not shown yet; the screen
   sends ready, which is an error once the battle is over.                   *)
OpenScreen(u) ==
  LET m == client[u].matchId IN
  /\ client[u].phase = "matched" /\ client[u].screen = None
  /\ m # None /\ m # client[u].shown
  /\ client' = [client EXCEPT ![u] = Opened(@)]
  /\ wire' = Sends([w \in Uids |->
       IF w = u /\ match[m].status # "live" THEN << Message("error", m) >>
       ELSE <<>>])
  /\ UNCHANGED <<now, serverVars, saveVars, kills>>

(* CONTINUE, offered once the reward is applied, or RETURN after an
   interruption.                                                             *)
Continue(u) ==
  /\ client[u].screen # None
  /\ (client[u].over /\ client[u].done) \/ client[u].matchId = None
  /\ client' = [client EXCEPT ![u] = Cleared(@, Open(u))]
  /\ UNCHANGED <<now, serverVars, wire, saveVars, kills>>

(* Back, which a finished battle allows at once: the match is not cleared. *)
Back(u) ==
  /\ client[u].screen # None /\ client[u].over
  /\ client' = [client EXCEPT ![u].screen = None]
  /\ UNCHANGED <<now, serverVars, wire, saveVars, kills>>

(* The awaited save succeeds and the receipt is acknowledged, which a closed
   channel drops.                                                            *)
Acknowledges(u, m) ==
  row' = IF Open(u) THEN [row EXCEPT ![<<u, m>>].acknowledged = TRUE] ELSE row

Saved(u) ==
  LET m == client[u].saving IN
  /\ m # None
  /\ disk' = [disk EXCEPT ![u] = memory[u]]
  /\ Acknowledges(u, m)
  /\ client' = [client EXCEPT ![u] = AfterSave(@, Open(u))]
  /\ UNCHANGED <<now, account, queued, match, wire, memory, kills>>

(* It fails: the save needs attention and nothing is acknowledged. *)
SaveFailsAcknowledged(u) ==
  /\ client[u].saving # None /\ kills < Kills
  /\ client' = [client EXCEPT ![u].saving = None]
  /\ Acknowledges(u, client[u].saving)
  /\ kills' = kills + 1
  /\ UNCHANGED <<now, account, queued, match, wire, saveVars>>

SaveFails(u) ==
  /\ client[u].saving # None /\ kills < Kills
  /\ client' = [client EXCEPT ![u].saving = None]
  /\ kills' = kills + 1
  /\ UNCHANGED <<now, serverVars, wire, saveVars>>

(* The player retries the save; the screen looks again when it is notified. *)
RetrySave(u) ==
  /\ client[u].saving = None /\ memory[u] # disk[u]
  /\ disk' = [disk EXCEPT ![u] = memory[u]]
  /\ UNCHANGED <<now, serverVars, wire, client, memory, kills>>

-----------------------------------------------------------------------------
Init ==
  /\ now = 0 /\ kills = 0
  /\ account = Accounts
  /\ queued = [u \in Uids |-> None]
  /\ match = [m \in Matches |-> NoMatch]
  /\ row = [p \in Uids \X Matches |-> None]
  /\ wire = [u \in Uids |-> None]
  /\ client = [u \in Players |-> NewClient]
  /\ memory = [u \in Players |-> NewSave]
  /\ disk = [u \in Players |-> NewSave]

Next ==
  \/ Tick
  \/ \E u \in Uids: Enqueue(u) \/ Pair(u)
  \/ \E m \in Matches: BattleEnds(m) \/ Interrupt(m)
  \/ \E u \in Players:
       \/ Connect(u) \/ Lose(u) \/ CloseLobby(u) \/ Kill(u) \/ Cancel(u)
       \/ Deliver(u) \/ OpenScreen(u) \/ Continue(u) \/ Back(u)
       \/ Saved(u) \/ SaveFails(u) \/ RetrySave(u)

Spec == Init /\ [][Next]_vars

(* A player keeps connecting, lets messages arrive and saves finish, opens the
   battles that are found and leaves those that are over; battles end.       *)
FairSpec ==
  /\ Spec
  /\ \A m \in Matches: WF_vars(BattleEnds(m))
  /\ \A u \in Players:
       /\ WF_vars(Connect(u)) /\ WF_vars(Deliver(u)) /\ WF_vars(OpenScreen(u))
       /\ WF_vars(Continue(u)) /\ WF_vars(Saved(u)) /\ WF_vars(RetrySave(u))

-----------------------------------------------------------------------------
(* A result pays into a save at most once, although receipts come again, saves
   fail, and the save forgets old receipts (index.ts 1458-1460,
   game_service.dart 2019-2027).                                             *)
AppliedOnce == \A u \in Players, m \in Matches: memory[u].paid[m] <= 1

(* A receipt the server will not send again has been paid on the disk: the app
   acknowledges after the save, so no crash can lose a reward between the two
   (multiplayer_battle_screen.dart 249-256).                                 *)
AckedIsSaved ==
  \A u \in Players, m \in Matches:
    row[<<u, m>>] # None /\ row[<<u, m>>].acknowledged => disk[u].paid[m] = 1

(* Two players wait beside each other only when they were too far apart at the
   moment the later of them joined, measured by the longer wait.  The window
   that opens while both wait pairs nobody (index.ts 869-912).               *)
WaitersWereApart ==
  \A u, v \in Waiting:
    u # v /\ queued[u].queuedAt <= queued[v].queuedAt =>
      Distance(queued[u].rating, queued[v].rating) >
        RatingWindow(queued[u].queuedAt, queued[v].queuedAt)

(* "redelivers them until acknowledgement": every receipt of a player who keeps
   connecting is acknowledged in the end.                                    *)
EveryReceiptAcknowledged ==
  \A u \in Players, m \in Matches:
    row[<<u, m>>] # None ~> row[<<u, m>>] # None /\ row[<<u, m>>].acknowledged

=============================================================================
