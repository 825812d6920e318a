--------------------------- MODULE PoolResultProofs ---------------------------
(***************************************************************************)
(* What the rows of the MatchmakingPool say is what the accounts hold:     *)
(* results, rewards and inventory.  And what no step of it does: move an   *)
(* offer under its confirmation, beat a player who is away, bring together *)
(* two players of whom one has blocked the other, change what a read-only  *)
(* generation holds.  The latter rest on the life of the rows: BattleMoves *)
(* and TradeMoves say how a step may move one battle or one trade, and     *)
(* which steps may; each battle row implements BattleLife by the same two. *)
(***************************************************************************)
EXTENDS PoolAttendanceProofs, FiniteSetTheorems

(* A result, once there, stays. *)
SameResult(b, c) ==
  /\ c.winner = b.winner
  /\ b.winner # None => c.first = b.first /\ c.second = b.second

(* A completed trade stays, and no other row becomes one. *)
SameExchange(row, new) ==
  /\ new.status = "completed" <=> row.status = "completed"
  /\ row.status = "completed" => new = row

-----------------------------------------------------------------------------
(* The three kinds of step *)

Decides == \E m \in Matches, w \in Uids:
  /\ Live(battle[m]) /\ w \in Players(battle[m]) /\ Finish(m, w)

Exchanges == \E u \in Uids, t \in Trades:
  /\ InTrade(u, t)
  /\ \A v \in Parties(trade[t]): trade[t].offer[v] # None
  /\ BothOwn(trade[t])
  /\ CompleteTrade(t)
  /\ UNCHANGED <<mode, today, closing, battleVars, arenaVars, safetyVars>>

Carries ==
  /\ UNCHANGED <<qty, arenaVars>>
  /\ today' \in Days /\ today' >= today
  /\ \A m \in Matches: SameResult(battle[m], battle'[m])
  /\ \A t \in Trades: SameExchange(trade[t], trade'[t])

LEMMA RowResults ==
  ASSUME NEW b \in BattleRow, NEW u \in Uids
  PROVE  /\ SameResult(b, b)
         /\ SameResult(b, Pause(b, u))
         /\ SameResult(b, Resume(b, u))
         /\ SameResult(b, Interrupt(b))
         /\ SameResult(b, [b EXCEPT !.ready = @ \cup {u}])
         /\ SameResult(b, [b EXCEPT !.grace = "elapsed"])
BY DEF SameResult, Pause, Resume, Interrupt, BattleRow

LEMMA CancelExchange ==
  ASSUME Typed, NEW t \in Trades, trade[t].status = "active"
  PROVE  \A k \in Trades:
           SameExchange(trade[k], [trade EXCEPT ![t].status = "cancelled"][k])
BY DEF Typed, SameExchange, SoundTrades, TradeRow

LEMMA RemoveCarries ==
  ASSUME Here, NEW u \in Uids, NEW s \in Session
  PROVE  /\ \A m \in Matches: SameResult(battle[m], BattlesAfterRemove(u, s)[m])
         /\ \A t \in Trades: SameExchange(trade[t], TradesAfterRemove(s)[t])
<1>0. battle \in [Matches -> BattleRow] /\ trade \in [Trades -> SoundTrades]
  BY DEF Here, Typed, TypeOK
<1>1. \A m \in Matches: SameResult(battle[m], BattlesAfterRemove(u, s)[m])
  BY <1>0, RowResults DEF BattlesAfterRemove
<1>2. CASE CancelsTrade(s)
  <2>1. s.tradeId \in Trades /\ trade[s.tradeId].status = "active"
    BY <1>2 DEF CancelsTrade, Active, Session
  <2> QED BY <1>1, <1>2, <2>1, CancelExchange DEF TradesAfterRemove, Here
<1>3. CASE ~CancelsTrade(s)
  BY <1>1, <1>3 DEF TradesAfterRemove, SameExchange
<1> QED BY <1>2, <1>3

LEMMA Unchanging ==
  ASSUME Here, UNCHANGED <<qty, arenaVars, today, battle, trade>>
  PROVE  Carries
<1>1. today \in Days /\ today \in Nat
  BY PoolAssumption DEF Here, Typed, TypeOK
<1>2. today' = today /\ battle' = battle /\ trade' = trade
  OBVIOUS
<1>3. today' \in Days /\ today' >= today
  BY <1>1, <1>2
<1> QED BY <1>2, <1>3 DEF Carries, SameResult, SameExchange

LEMMA BattleKinds ==
  ASSUME Here, BattleNext
  PROVE  Decides \/ Carries
<1>0. /\ battle \in [Matches -> BattleRow] /\ today \in Days
      /\ battle \in [Matches -> SoundBattles]
  BY DEF Here, Typed, TypeOK, Attended
<1>1. ASSUME UNCHANGED <<qty, arenaVars, today, trade>>,
             \A m \in Matches: SameResult(battle[m], battle'[m])
      PROVE  Carries
  <2>1. today' \in Days /\ today' >= today
    BY <1>0, <1>1, PoolAssumption
  <2> QED BY <1>1, <2>1 DEF Carries, SameExchange
<1>2. ASSUME NEW u \in Uids, Queue(u) PROVE Carries
  <2>1. UNCHANGED <<qty, arenaVars, today, trade>>
    BY <1>2 DEF Queue, tradeVars
  <2>2. CASE UNCHANGED battleVars
    BY <1>1, <2>1, <2>2 DEF SameResult, battleVars
  <2>3. CASE \E v \in WaitingSockets(u), m \in Matches: CreateMatch(u, v, m)
    <3>1. PICK m \in Matches, v \in Uids: CreateMatch(u, v, m)
      BY <2>3 DEF WaitingSockets
    <3>2. battle[m].winner = None /\ battle'[m].winner = None
      BY <1>0, <3>1, StatusOf DEF CreateMatch, NewMatch, NoBattle, SoundBattles
    <3>3. \A k \in Matches \ {m}: battle'[k] = battle[k]
      BY <1>0, <3>1 DEF CreateMatch
    <3> QED BY <1>1, <2>1, <3>2, <3>3 DEF SameResult
  <2> QED BY <1>2, <2>2, <2>3 DEF Queue
<1>3. ASSUME NEW u \in Uids, Cancel(u) PROVE Carries
  BY <1>3, Unchanging DEF Cancel, battleVars, tradeVars
<1>4. ASSUME NEW u \in Uids, MarkReady(u) PROVE Carries
  <2>1. PICK m \in Matches: battle' = [battle EXCEPT ![m].ready = @ \cup {u}]
    BY <1>4 DEF MarkReady
  <2>2. \A k \in Matches: SameResult(battle[k], battle'[k])
    BY <1>0, <2>1, RowResults
  <2> QED BY <1>1, <1>4, <2>2 DEF MarkReady, tradeVars
<1>5. ASSUME NEW u \in Uids, Knockout(u) PROVE Decides
  BY <1>5, InBattleAt DEF Knockout, Decides
<1>6. ASSUME NEW u \in Uids, Leave(u) PROVE Decides
  <2>1. PICK m \in Matches: InBattle(u, m) /\ Finish(m, Rival(battle[m], u))
    BY <1>6 DEF Leave
  <2>2. /\ Live(battle[m]) /\ Rival(battle[m], u) \in Players(battle[m])
        /\ Rival(battle[m], u) \in Uids
    BY <2>1, InBattleAt, StatusOf, PlayersOf
  <2> QED BY <2>1, <2>2 DEF Decides
<1>7. ASSUME NEW m \in Matches, GraceElapses(m) PROVE Carries
  <2>1. battle' = [battle EXCEPT ![m].grace = "elapsed"]
    BY <1>7 DEF GraceElapses
  <2>2. \A k \in Matches: SameResult(battle[k], battle'[k])
    BY <1>0, <2>1 DEF SameResult, BattleRow
  <2> QED BY <1>1, <1>7, <2>2 DEF GraceElapses, tradeVars
<1>8. ASSUME Alarm PROVE Carries
  <2>1. \A k \in Matches: SameResult(battle[k], battle'[k])
    BY <1>0, <1>8 DEF Alarm, SameResult, Interrupt, BattleRow
  <2> QED BY <1>1, <1>8, <2>1 DEF Alarm, tradeVars
<1>9. ASSUME DayRolls PROVE Carries
  <2>1. today' = today + 1 /\ today' \in Days /\ today \in Nat
    BY <1>0, <1>9, PoolAssumption DEF DayRolls
  <2> QED BY <1>9, <2>1 DEF DayRolls, Carries, SameResult, SameExchange,
                            battleVars, tradeVars
<1> QED
  BY <1>2, <1>3, <1>4, <1>5, <1>6, <1>7, <1>8, <1>9 DEF BattleNext

LEMMA TradeKinds ==
  ASSUME Here, TradeNext
  PROVE  Exchanges \/ Carries
<1>0. /\ trade \in [Trades -> SoundTrades] /\ today \in Days /\ Typed
  BY DEF Here, Typed, TypeOK
<1>1. ASSUME UNCHANGED <<qty, arenaVars, today, battle>>,
             \A t \in Trades: SameExchange(trade[t], trade'[t])
      PROVE  Carries
  <2>1. today' \in Days /\ today' >= today
    BY <1>0, <1>1, PoolAssumption
  <2> QED BY <1>1, <2>1 DEF Carries, SameResult
<1>2. ASSUME NEW u \in Uids, QueueTrade(u) PROVE Carries
  <2>1. UNCHANGED <<qty, arenaVars, today, battle>>
    BY <1>2 DEF QueueTrade, battleVars
  <2>2. CASE UNCHANGED trade
    BY <1>1, <2>1, <2>2 DEF SameExchange
  <2>3. CASE \E v \in WaitingTradeSockets(u), t \in Trades: CreateTrade(u, v, t)
    <3>1. PICK t \in Trades, v \in Uids: CreateTrade(u, v, t)
      BY <2>3 DEF WaitingTradeSockets
    <3>2. trade[t].status = "none" /\ trade'[t].status = "active"
      BY <1>0, <3>1 DEF CreateTrade, NewTrade, NoTrade
    <3>3. \A k \in Trades \ {t}: trade'[k] = trade[k]
      BY <1>0, <3>1 DEF CreateTrade
    <3> QED BY <1>1, <2>1, <3>2, <3>3 DEF SameExchange
  <2> QED BY <1>2, <2>2, <2>3 DEF QueueTrade
<1>3. ASSUME NEW u \in Uids, CancelTradeSearch(u) PROVE Carries
  BY <1>3, Unchanging DEF CancelTradeSearch, battleVars, tradeVars
<1>4. ASSUME NEW u \in Uids, NEW i \in Items, TradeOffer(u, i) PROVE Carries
  <2>1. PICK t \in Trades: /\ InTrade(u, t)
                           /\ trade' = [trade EXCEPT ![t] = OfferRow(@, u, i)]
    BY <1>4 DEF TradeOffer
  <2>2. trade[t].status = "active"
    BY <1>0, <2>1, TradeAt
  <2>3. \A k \in Trades: SameExchange(trade[k], trade'[k])
    BY <1>0, <2>1, <2>2 DEF SameExchange, OfferRow, SoundTrades, TradeRow
  <2> QED BY <1>1, <1>4, <2>3 DEF TradeOffer, battleVars
<1>5. ASSUME NEW u \in Uids, TradeConfirm(u) PROVE Exchanges \/ Carries
  <2>1. PICK t \in Trades:
          /\ InTrade(u, t)
          /\ \A v \in Parties(trade[t]): trade[t].offer[v] # None
          /\ \/ /\ \/ trade' = [trade EXCEPT ![t].confirmed = @ \cup {u}]
                   \/ trade' = [trade EXCEPT ![t].confirmed = @ \ {u}]
                /\ UNCHANGED qty
             \/ BothOwn(trade[t]) /\ CompleteTrade(t)
    BY <1>5 DEF TradeConfirm
  <2>2. UNCHANGED <<mode, today, closing, battleVars, arenaVars, safetyVars>>
    BY <1>5 DEF TradeConfirm
  <2>3. trade[t].status = "active" /\ trade[t] \in TradeRow
    BY <1>0, <2>1, TradeAt DEF SoundTrades
  <2>4. CASE BothOwn(trade[t]) /\ CompleteTrade(t)
    BY <2>1, <2>2, <2>4 DEF Exchanges
  <2>5. CASE /\ UNCHANGED qty
             /\ \/ trade' = [trade EXCEPT ![t].confirmed = @ \cup {u}]
                \/ trade' = [trade EXCEPT ![t].confirmed = @ \ {u}]
    <3>1. /\ trade'[t].status = "active"
          /\ \A k \in Trades \ {t}: trade'[k] = trade[k]
      BY <1>0, <2>3, <2>5 DEF TradeRow
    <3> QED BY <1>1, <2>2, <2>3, <2>5, <3>1 DEF SameExchange, battleVars
  <2> QED BY <2>1, <2>4, <2>5
<1>6. ASSUME NEW u \in Uids, LeaveTrade(u) PROVE Carries
  <2>1. PICK t \in Trades: InTrade(u, t) /\ CancelActiveTrade(t)
    BY <1>6 DEF LeaveTrade
  <2>2. \A k \in Trades: SameExchange(trade[k], trade'[k])
    BY <1>0, <2>1, TradeAt, CancelExchange DEF CancelActiveTrade
  <2> QED BY <1>1, <1>6, <2>2 DEF LeaveTrade, battleVars
<1>7. ASSUME NEW u \in Uids, AcknowledgeTrade(u) PROVE Carries
  BY <1>7, Unchanging DEF AcknowledgeTrade, battleVars
<1> QED BY <1>2, <1>3, <1>4, <1>5, <1>6, <1>7 DEF TradeNext
LEMMA SocketKinds ==
  ASSUME Here, SocketNext
  PROVE  Carries
<1>0. /\ session \in [Uids -> Session] /\ today \in Days /\ today \in Nat
      /\ battle \in [Matches -> BattleRow]
  BY PoolAssumption DEF Here, Typed, TypeOK
<1>1. ASSUME NEW u \in Uids, NEW s \in Session, Removed(u, s) PROVE Carries
  <2>1. /\ UNCHANGED <<qty, arenaVars, today>>
        /\ battle' = BattlesAfterRemove(u, s)
        /\ trade' = TradesAfterRemove(s)
    BY <1>1 DEF Removed
  <2> QED BY <1>0, <2>1, RemoveCarries DEF Carries
<1>2. ASSUME NEW u \in Uids, NEW screen \in {"battle", "trade"},
             Connect(u, screen)
      PROVE  Carries
  <2>. DEFINE B == BattlesAfterRemove(u, session[u])
  <2>1. session[u] \in Session
    BY <1>0
  <2>2. /\ UNCHANGED <<qty, arenaVars, today>>
        /\ trade' = TradesAfterRemove(session[u])
    BY <1>2 DEF Connect
  <2>3. \/ battle' = B
        \/ \E m \in Matches: \/ battle' = [B EXCEPT ![m] = Interrupt(B[m])]
                             \/ battle' = [B EXCEPT ![m] = Resume(B[m], u)]
    BY <1>2 DEF Connect, ResumeSession, PausedBattles
  <2>4. /\ B \in [Matches -> BattleRow]
        /\ \A m \in Matches: SameResult(battle[m], B[m])
        /\ \A t \in Trades: SameExchange(trade[t], trade'[t])
    BY <2>1, <2>2, RemoveTyped, RemoveCarries DEF Here
  <2>. HIDE DEF B
  <2>5. \A m \in Matches: SameResult(B[m], battle'[m])
    <3>1. \A m \in Matches: /\ SameResult(B[m], B[m])
                            /\ SameResult(B[m], Interrupt(B[m]))
                            /\ SameResult(B[m], Resume(B[m], u))
      BY <2>4, RowResults
    <3> QED BY <2>3, <2>4, <3>1
  <2>6. \A m \in Matches: SameResult(battle[m], battle'[m])
    BY <2>4, <2>5 DEF SameResult
  <2> QED BY <1>0, <2>2, <2>4, <2>6 DEF Carries
<1>3. ASSUME NEW u \in Uids, Disconnect(u) PROVE Carries
  BY <1>0, <1>1, <1>3 DEF Disconnect
<1>4. ASSUME NEW c \in closing, LateClose(c[1], c[2]) PROVE Carries
  <2>1. c[1] \in Uids /\ c[2] \in Session
    BY DEF Here, Typed, TypeOK
  <2> QED BY <1>1, <1>4, <2>1 DEF LateClose
<1> QED BY <1>2, <1>3, <1>4 DEF SocketNext

LEMMA SafetyKinds ==
  ASSUME Here, SafetyNext
  PROVE  Carries
<1>0. /\ session \in [Uids -> Session] /\ today \in Days /\ today \in Nat
  BY PoolAssumption DEF Here, Typed, TypeOK
<1>1. ASSUME NEW u \in Uids, NEW s \in Session, RecordBlock(u, s),
             UNCHANGED <<qty, arenaVars, today, battle>>
      PROVE  Carries
  <2>1. trade' = TradesAfterRemove(s)
    BY <1>1 DEF RecordBlock
  <2> QED BY <1>0, <1>1, <2>1, RemoveCarries DEF Carries, SameResult
<1>2. ASSUME NEW u \in Uids, BlockPeer(u) PROVE Carries
  BY <1>0, <1>1, <1>2 DEF BlockPeer, battleVars
<1>3. ASSUME NEW u \in Uids, ReportPeer(u) PROVE Carries
  BY <1>3, Unchanging DEF ReportPeer, battleVars, tradeVars
<1>4. ASSUME NEW r \in reporting, ReportRecorded(r[1], r[2]) PROVE Carries
  <2>1. r[1] \in Uids /\ r[2] \in Session
    BY DEF Here, Typed, TypeOK
  <2> QED BY <1>1, <1>4, <2>1 DEF ReportRecorded, battleVars
<1>5. ASSUME NEW u \in Uids, NEW v \in Uids, Unblock(u, v) PROVE Carries
  BY <1>5, Unchanging DEF Unblock, battleVars, tradeVars
<1> QED BY <1>2, <1>3, <1>4, <1>5 DEF SafetyNext

LEMMA OperatorKinds ==
  ASSUME Here, OperatorNext
  PROVE  Carries
<1>0. /\ session \in [Uids -> Session] /\ today \in Days /\ today \in Nat
  BY PoolAssumption DEF Here, Typed, TypeOK
<1>1. ASSUME StartDraining \/ Freeze \/ Reopen PROVE Carries
  BY <1>1, Unchanging DEF StartDraining, Freeze, Reopen, battleVars, tradeVars
<1>2. ASSUME NEW u \in Uids, Retire(u) PROVE Carries
  <2>1. /\ UNCHANGED <<qty, arenaVars, today>>
        /\ battle' = BattlesAfterRemove(u, session[u])
        /\ trade' = TradesAfterRemove(session[u])
    BY <1>2 DEF Retire, Removed
  <2> QED BY <1>0, <2>1, RemoveCarries DEF Carries
<1> QED BY <1>1, <1>2 DEF OperatorNext

(* Every step decides a battle, completes a trade, or carries the results and
   the accounts on as they are.                                              *)
LEMMA StepKinds ==
  ASSUME Here, [Next]_vars
  PROVE  Decides \/ Exchanges \/ Carries
<1>1. ASSUME UNCHANGED vars PROVE Carries
  BY <1>1, Unchanging DEF vars, battleVars, tradeVars
<1> QED
  BY <1>1, BattleKinds, TradeKinds, SocketKinds, SafetyKinds, OperatorKinds
     DEF Next
-----------------------------------------------------------------------------
(* Results *)

(* A match has paid its players exactly when it has a winner. *)
Paid ==
  \A m \in Matches:
    settlement[m] = IF battle[m].winner # None THEN Players(battle[m]) ELSE {}

Counted ==
  \A u \in Uids: /\ wins[u] = Cardinality(WonBy(u))
                 /\ losses[u] = Cardinality(LostBy(u))

LEMMA ResultOf ==
  ASSUME Here, NEW m \in Matches
  PROVE  /\ battle[m] \in SoundBattles
         /\ battle[m].winner # None =>
              battle[m].finished /\ battle[m].winner \in Players(battle[m])
BY DEF Here, Attended, SoundBattles

LEMMA ResultsFinite ==
  ASSUME NEW u
  PROVE  IsFiniteSet(WonBy(u)) /\ IsFiniteSet(LostBy(u))
<1>1. WonBy(u) \subseteq Matches /\ LostBy(u) \subseteq Matches
  BY DEF WonBy, LostBy
<1> QED BY <1>1, FS_Subset, PoolAssumption

LEMMA CarriedResults ==
  ASSUME Here, Here', Carries, Paid, Counted
  PROVE  Paid' /\ Counted'
<1>1. \A m \in Matches: SameResult(battle[m], battle'[m])
  BY DEF Carries
<1>2. \A m \in Matches:
        battle[m].winner # None => Players(battle'[m]) = Players(battle[m])
  BY <1>1 DEF SameResult, Players
<1>3. settlement' = settlement /\ wins' = wins /\ losses' = losses
  BY DEF Carries, arenaVars
<1>4. Paid'
  BY <1>1, <1>2, <1>3 DEF Paid, SameResult
<1>5. \A m \in Matches:
        /\ battle[m].winner # None => battle[m].finished
        /\ battle'[m].winner # None => battle'[m].finished
  BY DEF Here, Attended, SoundBattles
<1>6. ASSUME NEW u \in Uids
      PROVE  WonBy(u)' = WonBy(u) /\ LostBy(u)' = LostBy(u)
  <2>1. u # None
    BY PoolAssumption
  <2>2. \A m \in Matches:
          /\ (battle'[m].finished /\ battle'[m].winner = u) <=>
               (battle[m].finished /\ battle[m].winner = u)
          /\ (/\ battle'[m].finished /\ battle'[m].winner # None
              /\ u \in Players(battle'[m]) /\ battle'[m].winner # u) <=>
               (/\ battle[m].finished /\ battle[m].winner # None
                /\ u \in Players(battle[m]) /\ battle[m].winner # u)
    BY <1>1, <1>2, <1>5, <2>1 DEF SameResult
  <2> QED BY <2>2 DEF WonBy, LostBy
<1>7. Counted'
  BY <1>3, <1>6 DEF Counted
<1> QED BY <1>4, <1>7

(* What deciding the battle m for w does to the rows. *)
LEMMA DecidedRow ==
  ASSUME Here, NEW m \in Matches, Live(battle[m]),
         NEW w \in Players(battle[m]), Finish(m, w)
  PROVE  /\ battle[m].winner = None /\ ~battle[m].finished
         /\ battle'[m].finished /\ battle'[m].winner = w
         /\ w \in Uids /\ w # None
         /\ Rival(battle[m], w) \in Uids /\ Rival(battle[m], w) # w
         /\ Players(battle'[m]) = {w, Rival(battle[m], w)}
         /\ Players(battle[m]) = {w, Rival(battle[m], w)}
         /\ \A k \in Matches \ {m}: battle'[k] = battle[k]
<1>1. /\ battle \in [Matches -> SoundBattles] /\ battle[m] \in SoundBattles
      /\ battle[m] \in BattleRow
  BY DEF Here, Attended, SoundBattles
<1>2. /\ battle[m].first # None /\ ~battle[m].finished
      /\ battle[m].winner = None
  BY <1>1, StatusOf DEF SoundBattles
<1>3. /\ battle'[m].finished /\ battle'[m].winner = w
      /\ battle'[m].first = battle[m].first
      /\ battle'[m].second = battle[m].second
      /\ \A k \in Matches \ {m}: battle'[k] = battle[k]
  BY <1>1 DEF Finish, BattleRow
<1>4. /\ w \in Uids /\ Rival(battle[m], w) \in Uids
      /\ Rival(battle[m], w) # w
      /\ Players(battle[m]) = {w, Rival(battle[m], w)}
  BY <1>1, <1>2, PlayersOf DEF Rival
<1>5. Players(battle'[m]) = Players(battle[m])
  BY <1>3 DEF Players
<1> QED BY <1>2, <1>3, <1>4, <1>5, PoolAssumption

LEMMA DecidedResults ==
  ASSUME Here, Here', Decides, Paid, Counted
  PROVE  Paid' /\ Counted'
<1>1. PICK m \in Matches, w \in Uids:
        Live(battle[m]) /\ w \in Players(battle[m]) /\ Finish(m, w)
  BY DEF Decides
<1>. DEFINE l == Rival(battle[m], w)
            b == [battle[m] EXCEPT !.finished = TRUE, !.winner = w]
<1>2. /\ battle[m].winner = None /\ ~battle[m].finished
      /\ battle'[m].finished /\ battle'[m].winner = w
      /\ w # None /\ l \in Uids /\ l # w /\ l # None
      /\ Players(battle'[m]) = {w, l}
      /\ \A k \in Matches \ {m}: battle'[k] = battle[k]
  BY <1>1, DecidedRow, PoolAssumption
<1>3. settlement[m] = {}
  BY <1>2 DEF Paid
<1>4. /\ Players(b) = {w, l} /\ b.winner = w /\ Rival(b, w) = l
      /\ SettleBattle(m, b)
  <2>1. battle[m] \in BattleRow /\ battle \in [Matches -> BattleRow]
    BY DEF Here, Typed, TypeOK
  <2>2. b.winner = w /\ b.first = battle[m].first /\ b.second = battle[m].second
    BY <2>1 DEF BattleRow
  <2>3. battle'[m] = b
    BY <1>1, <2>1 DEF Finish
  <2>4. SettleBattle(m, b)
    BY <1>1 DEF Finish
  <2> QED BY <1>2, <2>2, <2>3, <2>4 DEF Rival
<1>. HIDE DEF b, l
<1>5. /\ settlement' = [settlement EXCEPT ![m] = {w, l}]
      /\ wins' = [wins EXCEPT ![w] = @ + 1]
      /\ losses' = [losses EXCEPT ![l] = @ + 1]
  BY <1>3, <1>4 DEF SettleBattle
<1>6. /\ settlement \in [Matches -> SUBSET Uids]
      /\ wins \in [Uids -> Nat] /\ losses \in [Uids -> Nat]
  BY DEF Here, Typed, TypeOK
<1>7. Paid'
  BY <1>2, <1>5, <1>6 DEF Paid
<1>8. ASSUME NEW u \in Uids
      PROVE  /\ WonBy(u)' = IF u = w THEN WonBy(u) \cup {m} ELSE WonBy(u)
             /\ LostBy(u)' = IF u = l THEN LostBy(u) \cup {m} ELSE LostBy(u)
             /\ m \notin WonBy(u) /\ m \notin LostBy(u)
  <2>1. u # None
    BY PoolAssumption
  <2>2. m \notin WonBy(u) /\ m \notin LostBy(u)
    BY <1>2 DEF WonBy, LostBy
  <2>3. \A k \in Matches: k \in WonBy(u)' <=> k \in WonBy(u) \/ (u = w /\ k = m)
    BY <1>2 DEF WonBy
  <2>4. \A k \in Matches: k \in LostBy(u)' <=> k \in LostBy(u) \/ (u = l /\ k = m)
    BY <1>2, <2>1 DEF LostBy
  <2>5. /\ WonBy(u) \subseteq Matches /\ WonBy(u)' \subseteq Matches
        /\ LostBy(u) \subseteq Matches /\ LostBy(u)' \subseteq Matches
    BY DEF WonBy, LostBy
  <2> QED BY <2>2, <2>3, <2>4, <2>5
<1>9. ASSUME NEW u \in Uids
      PROVE  /\ wins'[u] = Cardinality(WonBy(u)')
             /\ losses'[u] = Cardinality(LostBy(u)')
  <2>1. IsFiniteSet(WonBy(u)) /\ IsFiniteSet(LostBy(u))
    BY ResultsFinite
  <2>2. /\ wins[u] = Cardinality(WonBy(u))
        /\ losses[u] = Cardinality(LostBy(u))
    BY DEF Counted
  <2>3. wins'[u] = Cardinality(WonBy(u)')
    BY <1>5, <1>6, <1>8, <2>1, <2>2, FS_AddElement
  <2>4. losses'[u] = Cardinality(LostBy(u)')
    BY <1>2, <1>5, <1>6, <1>8, <2>1, <2>2, FS_AddElement
  <2> QED BY <2>3, <2>4
<1> QED BY <1>7, <1>9 DEF Counted

LEMMA ExchangedResults ==
  ASSUME Exchanges, Paid, Counted
  PROVE  Paid' /\ Counted'
<1>1. UNCHANGED <<battle, settlement, wins, losses>>
  BY DEF Exchanges, battleVars, arenaVars
<1>2. \A u \in Uids: WonBy(u)' = WonBy(u) /\ LostBy(u)' = LostBy(u)
  BY <1>1 DEF WonBy, LostBy
<1> QED BY <1>1, <1>2 DEF Paid, Counted

LEMMA InitResults == Init => Paid /\ Counted
<1> SUFFICES ASSUME Init PROVE Paid /\ Counted
  OBVIOUS
<1>1. \A m \in Matches: /\ battle[m].winner = None /\ ~battle[m].finished
                        /\ settlement[m] = {}
  BY DEF Init, NoBattle
<1>2. \A u \in Uids: WonBy(u) = {} /\ LostBy(u) = {}
  BY <1>1 DEF WonBy, LostBy
<1> QED BY <1>1, <1>2, FS_EmptySet DEF Paid, Counted, Init

(* The invariant behind the settlement of battles. *)
THEOREM AllSettled == Spec => [](Here /\ Paid /\ Counted)
<1>1. Init => Here /\ Paid /\ Counted
  BY InitHere, InitResults
<1>2. Here /\ Paid /\ Counted /\ [Next]_vars => (Here /\ Paid /\ Counted)'
  BY StepHere, StepKinds, CarriedResults, DecidedResults, ExchangedResults
<1> QED BY <1>1, <1>2, PTL DEF Spec

(* Every battle with a winner is settled for its two players and nobody else,
   an interrupted one for nobody, and the arena accounts count exactly those
   results, however many battles run and in whatever order they are decided
   (settleBattle).                                                           *)
THEOREM SettledOnce == Spec => []SettledExactlyOnce
<1>1. Here /\ Paid /\ Counted => SettledExactlyOnce
  <2> SUFFICES ASSUME Here, Paid, Counted PROVE SettledExactlyOnce
    OBVIOUS
  <2>1. ASSUME NEW m \in Matches, NEW u \in Uids
        PROVE  u \in settlement[m] <=> m \in WonBy(u) \cup LostBy(u)
    BY ResultOf, PoolAssumption DEF Paid, WonBy, LostBy
  <2> QED BY <2>1 DEF SettledExactlyOnce, Counted
<1> QED BY <1>1, AllSettled, PTL
-----------------------------------------------------------------------------
(* Inventory *)

(* Animals are granted for days that have come. *)
GrantsSoFar ==
  \A u \in Uids, d \in Days: granted[u][d] # None => d <= today

LEMMA LedgerFinite ==
  ASSUME Here, GrantsSoFar, NEW u \in Uids, NEW i \in Items
  PROVE  /\ IsFiniteSet(Sent(u, i)) /\ IsFiniteSet(Received(u, i))
         /\ IsFiniteSet(Granted(u, i))
<1>1. Sent(u, i) \subseteq Trades /\ Received(u, i) \subseteq Trades
  BY DEF Sent, Received
<1>2. IsFiniteSet(Sent(u, i)) /\ IsFiniteSet(Received(u, i))
  BY <1>1, FS_Subset, PoolAssumption
<1>3. today \in Nat /\ Days \subseteq Nat
  BY PoolAssumption DEF Here, Typed, TypeOK
<1>4. Granted(u, i) \subseteq 0 .. today
  <2>1. i # None
    BY PoolAssumption
  <2>2. \A d \in Granted(u, i): d \in Nat /\ d <= today
    BY <1>3, <2>1 DEF Granted, GrantsSoFar
  <2> QED BY <1>3, <2>2
<1>5. IsFiniteSet(0 .. today)
  BY <1>3, FS_Interval
<1> QED BY <1>2, <1>4, <1>5, FS_Subset

LEMMA CarriedLedger ==
  ASSUME Here, Here', Carries, GrantsSoFar, InventoryMatchesLedger
  PROVE  GrantsSoFar' /\ InventoryMatchesLedger'
<1>1. /\ qty' = qty /\ granted' = granted /\ today' >= today
      /\ \A t \in Trades: SameExchange(trade[t], trade'[t])
  BY DEF Carries, arenaVars
<1>2. today \in Nat /\ today' \in Nat /\ Days \subseteq Nat
  BY PoolAssumption DEF Here, Typed, TypeOK
<1>3. GrantsSoFar'
  BY <1>1, <1>2 DEF GrantsSoFar
<1>4. ASSUME NEW u \in Uids, NEW i \in Items
      PROVE  /\ Sent(u, i)' = Sent(u, i) /\ Received(u, i)' = Received(u, i)
             /\ Granted(u, i)' = Granted(u, i)
  BY <1>1 DEF Sent, Received, Granted, SameExchange
<1> QED BY <1>1, <1>3, <1>4 DEF InventoryMatchesLedger

(* A battle is decided: each player who has none of this day gets one. *)
LEMMA DecidedLedger ==
  ASSUME Here, Here', Decides, Paid, GrantsSoFar, InventoryMatchesLedger
  PROVE  GrantsSoFar' /\ InventoryMatchesLedger'
<1>1. PICK m \in Matches, w \in Uids:
        Live(battle[m]) /\ w \in Players(battle[m]) /\ Finish(m, w)
  BY DEF Decides
<1>. DEFINE b == [battle[m] EXCEPT !.finished = TRUE, !.winner = w]
<1>2. settlement[m] = {} /\ SettleBattle(m, b)
  BY <1>1, DecidedRow DEF Paid, Finish
<1>3. trade' = trade /\ today' = today
  BY <1>1 DEF Finish, tradeVars
<1>4. PICK gift \in [Players(b) -> Items]:
        GrantDailyRosterReward(Players(b), gift)
  BY <1>2 DEF SettleBattle
<1>. DEFINE due == {u \in Players(b): granted[u][today] = None}
<1>5. /\ granted' = [u \in Uids |->
           IF u \in due THEN [granted[u] EXCEPT ![today] = gift[u]]
           ELSE granted[u]]
      /\ qty' = [u \in Uids |->
           IF u \in due THEN [qty[u] EXCEPT ![gift[u]] = @ + 1] ELSE qty[u]]
      /\ \A u \in due: gift[u] \in Items /\ granted[u][today] = None
  BY <1>4 DEF GrantDailyRosterReward
<1>6. /\ granted \in [Uids -> [Days -> Items \cup {None}]]
      /\ qty \in [Uids -> [Items -> Nat]]
      /\ today \in Days /\ today \in Nat /\ Days \subseteq Nat
  BY PoolAssumption DEF Here, Typed, TypeOK
<1>. HIDE DEF due, b
<1>7. \A u \in Uids, d \in Days:
        granted'[u][d] = IF u \in due /\ d = today THEN gift[u]
                         ELSE granted[u][d]
  BY <1>5, <1>6
<1>8. \A u \in Uids, i \in Items:
        qty'[u][i] = IF u \in due /\ i = gift[u] THEN qty[u][i] + 1
                     ELSE qty[u][i]
  BY <1>5, <1>6
<1>9. GrantsSoFar'
  BY <1>3, <1>6, <1>7 DEF GrantsSoFar
<1>10. ASSUME NEW u \in Uids, NEW i \in Items
       PROVE  qty'[u][i] + Cardinality(Sent(u, i)') =
                StarterQty + Cardinality(Granted(u, i)')
                           + Cardinality(Received(u, i)')
  <2>1. Sent(u, i)' = Sent(u, i) /\ Received(u, i)' = Received(u, i)
    BY <1>3 DEF Sent, Received
  <2>2. qty[u][i] + Cardinality(Sent(u, i)) =
          StarterQty + Cardinality(Granted(u, i)) + Cardinality(Received(u, i))
    BY DEF InventoryMatchesLedger
  <2>3. /\ IsFiniteSet(Granted(u, i))
        /\ Cardinality(Granted(u, i)) \in Nat
        /\ Cardinality(Sent(u, i)) \in Nat
        /\ Cardinality(Received(u, i)) \in Nat
        /\ qty[u][i] \in Nat /\ StarterQty \in Nat
    BY <1>6, LedgerFinite, FS_CardinalityType, PoolAssumption
  <2>4. CASE u \in due /\ i = gift[u]
    <3>1. today \notin Granted(u, i) /\ Granted(u, i)' = Granted(u, i) \cup {today}
      BY <1>5, <1>6, <1>7, <2>4, PoolAssumption DEF Granted
    <3>2. Cardinality(Granted(u, i)') = Cardinality(Granted(u, i)) + 1
      BY <2>3, <3>1, FS_AddElement
    <3> QED BY <1>8, <2>1, <2>2, <2>3, <2>4, <3>2
  <2>5. CASE ~(u \in due /\ i = gift[u])
    <3>1. Granted(u, i)' = Granted(u, i)
      BY <1>5, <1>6, <1>7, <2>5, PoolAssumption DEF Granted
    <3> QED BY <1>8, <2>1, <2>2, <2>5, <3>1
  <2> QED BY <2>4, <2>5
<1> QED BY <1>9, <1>10 DEF InventoryMatchesLedger
(* A trade is completed: each party gives one animal and gets the other's. *)
LEMMA ExchangedLedger ==
  ASSUME Here, Here', Exchanges, GrantsSoFar, InventoryMatchesLedger
  PROVE  GrantsSoFar' /\ InventoryMatchesLedger'
<1>1. PICK x \in Uids, t \in Trades:
        /\ InTrade(x, t)
        /\ \A v \in Parties(trade[t]): trade[t].offer[v] # None
        /\ BothOwn(trade[t])
        /\ CompleteTrade(t)
        /\ UNCHANGED <<mode, today, closing, battleVars, arenaVars, safetyVars>>
  BY DEF Exchanges
<1>. DEFINE row == trade[t]
            f == row.first
            s == row.second
            a == row.offer[f]
            b == row.offer[s]
<1>2. /\ row \in SoundTrades /\ row.status = "active"
      /\ f \in Uids /\ s \in Uids /\ f # s /\ Parties(row) = {f, s}
  BY <1>1, TradeAt DEF Here
<1>3. a \in Items /\ b \in Items /\ qty[f][a] > 1 /\ qty[s][b] > 1
  BY <1>1, ExchangeAt DEF Here
<1>4. /\ trade \in [Trades -> SoundTrades]
      /\ qty \in [Uids -> [Items -> Nat]]
      /\ qty' \in [Uids -> [Items -> Nat]]
  BY DEF Here, Typed, TypeOK
<1>5. /\ trade'[t].status = "completed"
      /\ trade'[t].first = f /\ trade'[t].second = s
      /\ trade'[t].offer = row.offer
      /\ \A k \in Trades \ {t}: trade'[k] = trade[k]
  BY <1>1, <1>2, <1>4 DEF CompleteTrade, SoundTrades, TradeRow
<1>6. Parties(trade'[t]) = {f, s}
  BY <1>2, <1>5 DEF Parties
<1>7. qty' = Exchanged(row)
  BY <1>1 DEF CompleteTrade
<1>8. row.first = f /\ row.second = s /\ row.offer[f] = a /\ row.offer[s] = b
  OBVIOUS
<1>9. /\ trade[t].status = "active" /\ trade'[t].status = "completed"
      /\ trade'[t].offer[f] = a /\ trade'[t].offer[s] = b
      /\ \A k \in Trades \ {t}: trade'[k] = trade[k]
  BY <1>2, <1>5
<1>10. Partner(trade'[t], f) = s /\ Partner(trade'[t], s) = f
  BY <1>2, <1>5 DEF Partner
<1>. HIDE DEF row, f, s, a, b
<1>11. ASSUME NEW u \in Uids, NEW i \in Items
       PROVE  qty'[u][i] + (IF u = f /\ i = a THEN 1 ELSE 0)
                         + (IF u = s /\ i = b THEN 1 ELSE 0)
                = qty[u][i] + (IF u = f /\ i = b THEN 1 ELSE 0)
                            + (IF u = s /\ i = a THEN 1 ELSE 0)
  <2>1. /\ f \in Uids /\ s \in Uids /\ f # s
        /\ a \in Items /\ b \in Items /\ qty[f][a] > 1 /\ qty[s][b] > 1
        /\ qty \in [Uids -> [Items -> Nat]]
        /\ qty' = Exchanged(row)
        /\ row.first = f /\ row.second = s
        /\ row.offer[f] = a /\ row.offer[s] = b
    BY <1>2, <1>3, <1>4, <1>7, <1>8
  <2>2. qty[u][i] \in Nat
    BY <2>1
  <2> QED BY <2>1, <2>2, ExchangedAt, SMTT(30)
<1>12. /\ UNCHANGED <<granted, today>> /\ GrantsSoFar'
  BY <1>1 DEF arenaVars, GrantsSoFar
<1>13. ASSUME NEW u \in Uids, NEW i \in Items
       PROVE  qty'[u][i] + Cardinality(Sent(u, i)') =
                StarterQty + Cardinality(Granted(u, i)')
                           + Cardinality(Received(u, i)')
  <2>1. Granted(u, i)' = Granted(u, i)
    BY <1>12 DEF Granted
  <2>2. qty[u][i] + Cardinality(Sent(u, i)) =
          StarterQty + Cardinality(Granted(u, i)) + Cardinality(Received(u, i))
    BY DEF InventoryMatchesLedger
  <2>3. /\ IsFiniteSet(Sent(u, i)) /\ IsFiniteSet(Received(u, i))
        /\ Cardinality(Granted(u, i)) \in Nat
        /\ Cardinality(Sent(u, i)) \in Nat
        /\ Cardinality(Received(u, i)) \in Nat
        /\ qty[u][i] \in Nat /\ qty'[u][i] \in Nat /\ StarterQty \in Nat
    BY <1>4, LedgerFinite, FS_CardinalityType, PoolAssumption
  <2>4. t \notin Sent(u, i) /\ t \notin Received(u, i)
    BY <1>9 DEF Sent, Received
  <2>5. Sent(u, i)' = IF (u = f /\ i = a) \/ (u = s /\ i = b)
                      THEN Sent(u, i) \cup {t} ELSE Sent(u, i)
    <3>1. \A k \in Trades:
            k \in Sent(u, i)' <=>
              \/ k \in Sent(u, i)
              \/ k = t /\ (\/ u = f /\ i = a
                           \/ u = s /\ i = b)
      BY <1>2, <1>6, <1>9 DEF Sent
    <3>2. Sent(u, i) \subseteq Trades /\ Sent(u, i)' \subseteq Trades
      BY DEF Sent
    <3> QED BY <3>1, <3>2
  <2>6. Received(u, i)' =
          IF (u = f /\ i = b) \/ (u = s /\ i = a)
          THEN Received(u, i) \cup {t} ELSE Received(u, i)
    <3>1. \A k \in Trades:
            k \in Received(u, i)' <=>
              \/ k \in Received(u, i)
              \/ k = t /\ (\/ u = f /\ i = b
                           \/ u = s /\ i = a)
      BY <1>2, <1>6, <1>9, <1>10 DEF Received
    <3>2. Received(u, i) \subseteq Trades /\ Received(u, i)' \subseteq Trades
      BY DEF Received
    <3> QED BY <3>1, <3>2
  <2>7. Cardinality(Sent(u, i)') =
          Cardinality(Sent(u, i)) + (IF u = f /\ i = a THEN 1 ELSE 0)
                                  + (IF u = s /\ i = b THEN 1 ELSE 0)
    <3>1. CASE (u = f /\ i = a) \/ (u = s /\ i = b)
      <4>1. Cardinality(Sent(u, i)') = Cardinality(Sent(u, i)) + 1
        BY <2>3, <2>4, <2>5, <3>1, FS_AddElement
      <4> QED BY <1>2, <2>3, <3>1, <4>1
    <3>2. CASE ~((u = f /\ i = a) \/ (u = s /\ i = b))
      BY <2>3, <2>5, <3>2
    <3> QED BY <3>1, <3>2
  <2>8. Cardinality(Received(u, i)') =
          Cardinality(Received(u, i)) + (IF u = f /\ i = b THEN 1 ELSE 0)
                                      + (IF u = s /\ i = a THEN 1 ELSE 0)
    <3>1. CASE (u = f /\ i = b) \/ (u = s /\ i = a)
      <4>1. Cardinality(Received(u, i)') = Cardinality(Received(u, i)) + 1
        BY <2>3, <2>4, <2>6, <3>1, FS_AddElement
      <4> QED BY <1>2, <2>3, <3>1, <4>1
    <3>2. CASE ~((u = f /\ i = b) \/ (u = s /\ i = a))
      BY <2>3, <2>6, <3>2
    <3> QED BY <3>1, <3>2
  <2> QED BY <1>11, <2>1, <2>2, <2>3, <2>7, <2>8
<1> QED BY <1>12, <1>13 DEF InventoryMatchesLedger

LEMMA InitLedger == Init => GrantsSoFar /\ InventoryMatchesLedger
<1> SUFFICES ASSUME Init PROVE GrantsSoFar /\ InventoryMatchesLedger
  OBVIOUS
<1>1. GrantsSoFar
  BY DEF Init, GrantsSoFar
<1>2. ASSUME NEW u \in Uids, NEW i \in Items
      PROVE  Sent(u, i) = {} /\ Received(u, i) = {} /\ Granted(u, i) = {}
  BY PoolAssumption DEF Init, NoTrade, Sent, Received, Granted
<1>3. ASSUME NEW u \in Uids, NEW i \in Items
      PROVE  qty[u][i] + Cardinality(Sent(u, i)) =
               StarterQty + Cardinality(Granted(u, i))
                          + Cardinality(Received(u, i))
  <2>1. Cardinality({}) = 0
    BY FS_EmptySet
  <2>2. qty[u][i] = StarterQty /\ StarterQty \in Nat
    BY PoolAssumption DEF Init
  <2> QED BY <1>2, <2>1, <2>2
<1> QED BY <1>1, <1>3 DEF InventoryMatchesLedger

(* The ledger: whatever trades overlap and however often a battle is fought,
   what an account holds is its starter copies, plus its daily animals, plus
   what its completed trades brought, less what they took (completeTrade,
   transferOnlineItem, grantDailyRosterReward).                              *)
THEOREM LedgerHolds == Spec => []InventoryMatchesLedger
<1>1. Init => GrantsSoFar /\ InventoryMatchesLedger
  BY InitLedger
<1>2. /\ Here /\ Paid /\ Counted /\ (Here /\ Paid /\ Counted)'
      /\ GrantsSoFar /\ InventoryMatchesLedger /\ [Next]_vars
      => (GrantsSoFar /\ InventoryMatchesLedger)'
  BY StepKinds, CarriedLedger, DecidedLedger, ExchangedLedger
<1> QED BY <1>1, <1>2, AllSettled, PTL DEF Spec

(* The last copy of an animal never leaves an account (uidOwnsOffer, checked
   again in the transaction of completeTrade).                               *)
THEOREM LastCopyStays == Spec => []LastCopyIsKept
<1>. DEFINE Kept == StarterQty > 0 => \A u \in Uids, i \in Items: qty[u][i] > 0
<1>1. Init => Kept
  BY PoolAssumption DEF Init
<1>2. ASSUME Here, Here', Kept, [Next]_vars, Paid PROVE Kept'
  <2>. SUFFICES ASSUME StarterQty > 0, NEW u \in Uids, NEW i \in Items
                PROVE  qty'[u][i] > 0
    OBVIOUS
  <2>1. /\ qty \in [Uids -> [Items -> Nat]] /\ qty[u][i] > 0
        /\ qty[u][i] \in Nat
    BY <1>2 DEF Here, Typed, TypeOK
  <2>2. CASE Carries
    BY <2>1, <2>2 DEF Carries
  <2>3. CASE Decides
    <3>1. PICK m \in Matches, w \in Uids:
            Live(battle[m]) /\ w \in Players(battle[m]) /\ Finish(m, w)
      BY <2>3 DEF Decides
    <3>. DEFINE b == [battle[m] EXCEPT !.finished = TRUE, !.winner = w]
    <3>2. settlement[m] = {} /\ SettleBattle(m, b)
      BY <1>2, <3>1, DecidedRow DEF Paid, Finish
    <3>3. PICK gift \in [Players(b) -> Items]:
            GrantDailyRosterReward(Players(b), gift)
      BY <3>2 DEF SettleBattle
    <3>. HIDE DEF b
    <3>4. qty'[u][i] = qty[u][i] \/ qty'[u][i] = qty[u][i] + 1
      BY <2>1, <3>3 DEF GrantDailyRosterReward
    <3> QED BY <2>1, <3>4
  <2>4. CASE Exchanges
    <3>1. PICK x \in Uids, t \in Trades:
            /\ InTrade(x, t)
            /\ \A v \in Parties(trade[t]): trade[t].offer[v] # None
            /\ BothOwn(trade[t])
            /\ CompleteTrade(t)
      BY <2>4 DEF Exchanges
    <3>. DEFINE row == trade[t]
                f == row.first
                s == row.second
                a == row.offer[f]
                b == row.offer[s]
    <3>2. /\ f \in Uids /\ s \in Uids /\ f # s
          /\ a \in Items /\ b \in Items /\ qty[f][a] > 1 /\ qty[s][b] > 1
          /\ qty' = Exchanged(row)
          /\ row.first = f /\ row.second = s
          /\ row.offer[f] = a /\ row.offer[s] = b
      BY <1>2, <3>1, TradeAt, ExchangeAt DEF Here, CompleteTrade
    <3>. HIDE DEF row, f, s, a, b
    <3>3. qty'[u][i] + (IF u = f /\ i = a THEN 1 ELSE 0)
                     + (IF u = s /\ i = b THEN 1 ELSE 0)
            = qty[u][i] + (IF u = f /\ i = b THEN 1 ELSE 0)
                        + (IF u = s /\ i = a THEN 1 ELSE 0)
      BY <2>1, <3>2, ExchangedAt
    <3>4. qty'[u][i] \in Nat
      BY <1>2 DEF Here, Typed, TypeOK
    <3> QED BY <2>1, <3>2, <3>3, <3>4
  <2> QED BY <1>2, <2>2, <2>3, <2>4, StepKinds
<1>3. Kept <=> LastCopyIsKept
  BY DEF LastCopyIsKept
<1> QED BY <1>1, <1>2, <1>3, AllSettled, PTL DEF Spec

-----------------------------------------------------------------------------
(* The life of a row *)

(* createMatch: a new battle, of two players who have not blocked each other. *)
BattleOpens(b, c) ==
  /\ mode = "active"
  /\ b.first = None
  /\ \E u, v \in Uids:
       u # v /\ ~AtOdds(u, v) /\ c = [NoBattle EXCEPT !.first = u, !.second = v]

(* ready, pauseBattle, resumeBattle, and the deadline that passes. *)
GoesOn(b, c) ==
  /\ Live(b) /\ Live(c) /\ c.first = b.first /\ c.second = b.second
  /\ c.winner = None
  /\ \/ /\ b.gone = {} /\ c.gone = {}
        /\ \E u \in Players(b): c.ready = b.ready \cup {u}
     \/ /\ c.ready = b.ready
        /\ \/ c.gone = b.gone
           \/ \E u \in Players(b): c.gone = b.gone \cup {u}
           \/ \E u \in b.gone: c.gone = b.gone \ {u}

Ends(b, c) ==
  /\ Live(b) /\ c.finished
  /\ c.first = b.first /\ c.second = b.second /\ c.ready = b.ready

(* alarm and resumeSession: the deadline has passed. *)
TimesOut(b, c) ==
  /\ Ends(b, c)
  /\ b.gone # {} /\ b.grace = "elapsed"
  /\ c.gone = {} /\ c.winner = None

(* A knockout or a forfeit: whoever loses is there. *)
IsDecided(b, c) ==
  /\ Ends(b, c)
  /\ c.gone = b.gone
  /\ c.winner \in Players(b) /\ Rival(b, c.winner) \notin b.gone

BattleMoves(b, c) ==
  c = b \/ BattleOpens(b, c) \/ GoesOn(b, c) \/ TimesOut(b, c)
        \/ IsDecided(b, c)

(* createTrade *)
TradeOpens(row, new) ==
  /\ mode = "active"
  /\ row.status = "none" /\ new.status = "active" /\ new.confirmed = {}
  /\ \E u, v \in Uids: ~AtOdds(u, v) /\ new.first = u /\ new.second = v

(* tradeOffer and tradeConfirm, before the last confirmation. *)
Bargains(row, new) ==
  /\ row.status = "active" /\ new.status = "active"
  /\ new.first = row.first /\ new.second = row.second
  /\ new.offer = row.offer \/ new.confirmed = {}

(* completeTrade and cancelActiveTrade. *)
TradeEnds(row, new) ==
  /\ row.status = "active" /\ new.status \in {"completed", "cancelled"}
  /\ new.first = row.first /\ new.second = row.second
  /\ new.offer = row.offer

TradeMoves(row, new) ==
  new = row \/ TradeOpens(row, new) \/ Bargains(row, new) \/ TradeEnds(row, new)

LEMMA NotBlocked ==
  ASSUME NEW u, NEW v, ~PlayersAreBlocked(u, v)
  PROVE  ~AtOdds(u, v) /\ ~AtOdds(v, u)
BY DEF PlayersAreBlocked, AtOdds

LEMMA PauseMoves ==
  ASSUME NEW b \in SoundBattles, NEW u \in Uids
  PROVE  /\ b = Pause(b, u) \/ GoesOn(b, Pause(b, u))
         /\ Pause(b, u).grace = "elapsed" => b.grace = "elapsed"
         /\ Live(Pause(b, u)) => Live(b)
<1>1. CASE b.finished \/ u \notin Players(b) \/ u \in b.gone
  BY <1>1 DEF Pause
<1>2. CASE ~(b.finished \/ u \notin Players(b) \/ u \in b.gone)
  <2>1. /\ Pause(b, u).first = b.first /\ Pause(b, u).second = b.second
        /\ Pause(b, u).ready = b.ready /\ Pause(b, u).winner = b.winner
        /\ Pause(b, u).gone = b.gone \cup {u} /\ ~Pause(b, u).finished
        /\ Pause(b, u).grace = "elapsed" => b.grace = "elapsed"
    BY <1>2 DEF Pause, SoundBattles, BattleRow
  <2>2. b.first # None /\ b.winner = None
    BY <1>2 DEF SoundBattles, Players, NoBattle
  <2> QED BY <1>2, <2>1, <2>2, StatusOf DEF GoesOn
<1> QED BY <1>1, <1>2

LEMMA ResumeMoves ==
  ASSUME NEW b \in SoundBattles, NEW u \in b.gone, Live(b)
  PROVE  GoesOn(b, Resume(b, u))
<1>1. /\ Resume(b, u).first = b.first /\ Resume(b, u).second = b.second
      /\ Resume(b, u).ready = b.ready /\ Resume(b, u).winner = b.winner
      /\ Resume(b, u).gone = b.gone \ {u}
      /\ Resume(b, u).finished = b.finished
  BY DEF Resume, SoundBattles, BattleRow
<1>2. b.winner = None /\ ~b.finished /\ b.first # None
  BY StatusOf DEF SoundBattles
<1> QED BY <1>1, <1>2, StatusOf DEF GoesOn

LEMMA InterruptMoves ==
  ASSUME NEW b \in SoundBattles, Live(b), b.grace = "elapsed"
  PROVE  TimesOut(b, Interrupt(b))
<1>1. /\ Interrupt(b).first = b.first /\ Interrupt(b).second = b.second
      /\ Interrupt(b).ready = b.ready /\ Interrupt(b).winner = b.winner
      /\ Interrupt(b).gone = {} /\ Interrupt(b).finished
  BY DEF Interrupt, SoundBattles, BattleRow
<1>2. b.winner = None /\ b.gone # {}
  BY StatusOf DEF SoundBattles
<1> QED BY <1>1, <1>2 DEF TimesOut, Ends

(* A player whose older socket is replaced leaves the battle and comes back to
   it, or finds that its deadline has passed, in one step.                   *)
LEMMA ReturnMoves ==
  ASSUME NEW b \in SoundBattles, Live(b), NEW u \in Players(b)
  PROVE  /\ BattleMoves(b, Resume(Pause(b, u), u))
         /\ Pause(b, u).grace = "elapsed" =>
              BattleMoves(b, Interrupt(Pause(b, u)))
<1>1. ~b.finished /\ b.first # None /\ b.winner = None /\ b \in BattleRow
  BY StatusOf DEF SoundBattles
<1>2. CASE u \in b.gone
  BY <1>1, <1>2, ResumeMoves, InterruptMoves DEF Pause, BattleMoves
<1>3. CASE u \notin b.gone
  <2>. DEFINE p == Pause(b, u)
              r == Resume(p, u)
              i == Interrupt(p)
  <2>1. /\ p = [b EXCEPT !.gone = @ \cup {u},
                          !.grace = IF @ = "none" THEN "running" ELSE @]
        /\ u \in Uids /\ p \in BattleRow
    BY <1>1, <1>3, PlayersOf, BattleRowTyped DEF Pause
  <2>. HIDE DEF p
  <2>2. /\ p.first = b.first /\ p.second = b.second
        /\ p.ready = b.ready /\ p.winner = b.winner /\ ~p.finished
        /\ p.gone = b.gone \cup {u}
        /\ p.grace = "elapsed" => b.grace = "elapsed"
    BY <1>1, <1>3, <2>1 DEF BattleRow
  <2>3. /\ r.first = b.first /\ r.second = b.second
        /\ r.ready = b.ready /\ r.winner = None /\ ~r.finished
        /\ r.gone = b.gone
    BY <1>1, <1>3, <2>1, <2>2 DEF Resume, BattleRow
  <2>4. /\ i.first = b.first /\ i.second = b.second
        /\ i.ready = b.ready /\ i.winner = None /\ i.finished
        /\ i.gone = {}
    BY <1>1, <2>1, <2>2 DEF Interrupt, BattleRow
  <2>5. b.grace = "elapsed" => b.gone # {}
    BY <1>1 DEF SoundBattles
  <2>. HIDE DEF r, i
  <2>6. GoesOn(b, r)
    BY <1>1, <2>3, StatusOf DEF GoesOn
  <2>7. p.grace = "elapsed" => TimesOut(b, i)
    BY <2>2, <2>4, <2>5 DEF TimesOut, Ends
  <2>8. BattleMoves(b, r) /\ (p.grace = "elapsed" => BattleMoves(b, i))
    BY <2>6, <2>7 DEF BattleMoves
  <2> QED BY <2>8 DEF p, r, i
<1> QED BY <1>2, <1>3

LEMMA RemoveMoves ==
  ASSUME Here, NEW u \in Uids, NEW s \in Session
  PROVE  \A m \in Matches:
           /\ BattlesAfterRemove(u, s)[m] \in {battle[m], Pause(battle[m], u)}
           /\ BattleMoves(battle[m], BattlesAfterRemove(u, s)[m])
<1>1. battle \in [Matches -> SoundBattles]
  BY DEF Here, Attended
<1>2. \A m \in Matches:
        BattlesAfterRemove(u, s)[m] \in {battle[m], Pause(battle[m], u)}
  BY <1>1 DEF BattlesAfterRemove
<1> QED BY <1>1, <1>2, PauseMoves DEF BattleMoves

LEMMA BattleRowsMove ==
  ASSUME Here, [Next]_vars
  PROVE  \A m \in Matches: BattleMoves(battle[m], battle'[m])
<1>0. /\ battle \in [Matches -> SoundBattles] /\ battle \in [Matches -> BattleRow]
      /\ session \in [Uids -> Session]
  BY DEF Here, Typed, TypeOK, Attended
<1>. DEFINE Moves == \A m \in Matches: BattleMoves(battle[m], battle'[m])
<1>1. ASSUME battle' = battle PROVE Moves
  BY <1>1 DEF BattleMoves
<1>2. ASSUME NEW m \in Matches, NEW c, battle' = [battle EXCEPT ![m] = c],
             BattleMoves(battle[m], c)
      PROVE  Moves
  BY <1>0, <1>2 DEF BattleMoves
<1>3. ASSUME NEW u \in Uids, NEW s \in Session, Removed(u, s) PROVE Moves
  BY <1>3, RemoveMoves DEF Removed
<1>. HIDE DEF Moves
<1>4. ASSUME NEW u \in Uids, Queue(u) PROVE Moves
  <2>1. CASE UNCHANGED battleVars
    BY <1>1, <2>1 DEF battleVars
  <2>2. CASE \E v \in WaitingSockets(u), m \in Matches: CreateMatch(u, v, m)
    <3>1. PICK v \in WaitingSockets(u), m \in Matches: CreateMatch(u, v, m)
      BY <2>2
    <3>. DEFINE c == [NoBattle EXCEPT !.first = u, !.second = v]
    <3>2. v \in Uids /\ u # v /\ ~AtOdds(u, v)
      BY NotBlocked DEF WaitingSockets
    <3>3. battle[m].first = None /\ mode = "active"
      BY <1>4, <3>1, StatusOf DEF CreateMatch, NewMatch, Queue, QueueGuard
    <3>5. BattleMoves(battle[m], c)
      BY <3>2, <3>3 DEF BattleMoves, BattleOpens
    <3>6. battle' = [battle EXCEPT ![m] = c]
      BY <3>1 DEF CreateMatch
    <3>. HIDE DEF c
    <3> QED BY <1>2, <3>5, <3>6
  <2> QED BY <1>4, <2>1, <2>2 DEF Queue
<1>5. ASSUME NEW u \in Uids, MarkReady(u) PROVE Moves
  <2>1. PICK m \in Matches:
          /\ InBattle(u, m) /\ battle[m].gone = {}
          /\ battle' = [battle EXCEPT ![m].ready = @ \cup {u}]
    BY <1>5 DEF MarkReady
  <2>. DEFINE c == [battle[m] EXCEPT !.ready = @ \cup {u}]
  <2>2. GoesOn(battle[m], c)
    <3>1. /\ battle[m] \in SoundBattles /\ Live(battle[m])
          /\ u \in Players(battle[m]) /\ battle[m].gone = {}
      BY <2>1, InBattleAt
    <3>2. /\ c.first = battle[m].first /\ c.second = battle[m].second
          /\ c.ready = battle[m].ready \cup {u} /\ c.gone = battle[m].gone
          /\ c.finished = battle[m].finished /\ c.winner = battle[m].winner
      BY <1>0 DEF BattleRow
    <3>3. battle[m].winner = None /\ Live(c)
      BY <3>1, <3>2, StatusOf DEF SoundBattles
    <3> QED BY <3>1, <3>2, <3>3 DEF GoesOn
  <2>3. battle' = [battle EXCEPT ![m] = c]
    BY <1>0, <2>1
  <2>. HIDE DEF c
  <2> QED BY <1>2, <2>2, <2>3 DEF BattleMoves
<1>6. ASSUME NEW m \in Matches, NEW w \in Players(battle[m]), Live(battle[m]),
             Rival(battle[m], w) \notin battle[m].gone, Finish(m, w)
      PROVE  Moves
  <2>. DEFINE c == [battle[m] EXCEPT !.finished = TRUE, !.winner = w]
  <2>1. /\ c.finished /\ c.winner = w /\ c.gone = battle[m].gone
        /\ c.first = battle[m].first /\ c.second = battle[m].second
        /\ c.ready = battle[m].ready
        /\ battle' = [battle EXCEPT ![m] = c]
    BY <1>0, <1>6 DEF Finish, BattleRow
  <2>. HIDE DEF c
  <2> QED BY <1>2, <1>6, <2>1 DEF BattleMoves, IsDecided, Ends
<1>7. ASSUME NEW u \in Uids, Knockout(u) PROVE Moves
  <2>1. PICK m \in Matches:
          InBattle(u, m) /\ battle[m].gone = {} /\ Finish(m, u)
    BY <1>7 DEF Knockout
  <2> QED BY <1>6, <2>1, InBattleAt
<1>8. ASSUME NEW u \in Uids, Leave(u) PROVE Moves
  <2>1. PICK m \in Matches:
          InBattle(u, m) /\ Finish(m, Rival(battle[m], u))
    BY <1>8 DEF Leave
  <2> QED BY <1>6, <2>1, InBattleAt
<1>9. ASSUME NEW m \in Matches, GraceElapses(m) PROVE Moves
  <2>. DEFINE c == [battle[m] EXCEPT !.grace = "elapsed"]
  <2>1. GoesOn(battle[m], c)
    <3>1. /\ c.first = battle[m].first /\ c.second = battle[m].second
          /\ c.ready = battle[m].ready /\ c.gone = battle[m].gone
          /\ c.finished = battle[m].finished /\ c.winner = battle[m].winner
      BY <1>0 DEF BattleRow
    <3>2. Live(battle[m])
      BY <1>9, StatusOf DEF GraceElapses
    <3>3. battle[m].winner = None /\ Live(c)
      BY <1>0, <3>1, <3>2, StatusOf DEF SoundBattles
    <3> QED BY <3>1, <3>2, <3>3 DEF GoesOn
  <2>2. battle' = [battle EXCEPT ![m] = c]
    BY <1>0, <1>9 DEF GraceElapses
  <2>. HIDE DEF c
  <2> QED BY <1>2, <2>1, <2>2 DEF BattleMoves
<1>10. ASSUME Alarm PROVE Moves
  <2>1. \A m \in AlarmDue: TimesOut(battle[m], Interrupt(battle[m]))
    BY <1>0, InterruptMoves, StatusOf DEF AlarmDue, Expired
  <2> QED BY <1>0, <1>10, <2>1 DEF Alarm, Moves, BattleMoves
<1>11. ASSUME NEW u \in Uids, NEW screen \in {"battle", "trade"},
              Connect(u, screen)
       PROVE  Moves
  <2>. DEFINE B == BattlesAfterRemove(u, session[u])
  <2>1. \A m \in Matches: /\ B[m] \in {battle[m], Pause(battle[m], u)}
                          /\ BattleMoves(battle[m], B[m])
    BY <1>0, RemoveMoves
  <2>2. B \in [Matches -> BattleRow]
    BY <1>0, RemoveTyped DEF Here
  <2>3. \/ battle' = B
        \/ \E m \in Matches:
             /\ Status(B[m]) = "reconnecting" /\ u \in B[m].gone
             /\ \/ /\ B[m].grace = "elapsed"
                   /\ battle' = [B EXCEPT ![m] = Interrupt(B[m])]
                \/ battle' = [B EXCEPT ![m] = Resume(B[m], u)]
    BY <1>11 DEF Connect, ResumeSession, PausedBattles
  <2>. HIDE DEF B
  <2>4. ASSUME NEW m \in Matches, Live(B[m]), u \in B[m].gone
        PROVE  /\ BattleMoves(battle[m], Resume(B[m], u))
               /\ B[m].grace = "elapsed" =>
                    BattleMoves(battle[m], Interrupt(B[m]))
    <3>1. CASE B[m] = battle[m]
      BY <1>0, <2>4, <3>1, ResumeMoves, InterruptMoves DEF BattleMoves
    <3>2. CASE B[m] = Pause(battle[m], u) /\ B[m] # battle[m]
      <4>1. Live(battle[m])
        BY <1>0, <2>4, <3>2, PauseMoves
      <4>2. u \in Players(battle[m])
        BY <3>2 DEF Pause
      <4> QED BY <1>0, <2>4, <3>2, <4>1, <4>2, ReturnMoves
    <3> QED BY <2>1, <3>1, <3>2
  <2> QED BY <2>1, <2>2, <2>3, <2>4, StatusOf DEF Moves
<1>12. ASSUME BattleNext PROVE Moves
  <2>1. ASSUME NEW u \in Uids, Cancel(u) PROVE Moves
    BY <1>1, <2>1 DEF Cancel, battleVars
  <2>2. ASSUME DayRolls PROVE Moves
    BY <1>1, <2>2 DEF DayRolls, battleVars
  <2> QED BY <1>4, <1>5, <1>7, <1>8, <1>9, <1>10, <1>12, <2>1, <2>2
             DEF BattleNext
<1>13. ASSUME TradeNext PROVE Moves
  BY <1>1, <1>13 DEF TradeNext, QueueTrade, CancelTradeSearch, TradeOffer,
                     TradeConfirm, LeaveTrade, AcknowledgeTrade, battleVars
<1>14. ASSUME SocketNext PROVE Moves
  <2>1. ASSUME NEW u \in Uids, Disconnect(u) PROVE Moves
    BY <1>0, <1>3, <2>1 DEF Disconnect
  <2>2. ASSUME NEW c \in closing, LateClose(c[1], c[2]) PROVE Moves
    <3>1. c[1] \in Uids /\ c[2] \in Session
      BY DEF Here, Typed, TypeOK
    <3> QED BY <1>3, <2>2, <3>1 DEF LateClose
  <2> QED BY <1>11, <1>14, <2>1, <2>2 DEF SocketNext
<1>15. ASSUME SafetyNext PROVE Moves
  BY <1>1, <1>15 DEF SafetyNext, BlockPeer, ReportPeer, ReportRecorded, Unblock,
                     battleVars
<1>16. ASSUME OperatorNext PROVE Moves
  <2>1. ASSUME NEW u \in Uids, Retire(u) PROVE Moves
    BY <1>0, <1>3, <2>1 DEF Retire
  <2>2. ASSUME StartDraining \/ Freeze \/ Reopen PROVE Moves
    BY <1>1, <2>2 DEF StartDraining, Freeze, Reopen, battleVars
  <2> QED BY <1>16, <2>1, <2>2 DEF OperatorNext
<1>17. ASSUME UNCHANGED vars PROVE Moves
  BY <1>1, <1>17 DEF vars, battleVars
<1> QED
  BY <1>12, <1>13, <1>14, <1>15, <1>16, <1>17 DEF Next, Moves

-----------------------------------------------------------------------------
(* Trade rows *)

LEMMA CancelMoves ==
  ASSUME NEW row \in SoundTrades, row.status = "active"
  PROVE  TradeMoves(row, [row EXCEPT !.status = "cancelled"])
BY DEF TradeMoves, TradeEnds, SoundTrades, TradeRow

LEMMA RemoveTradeMoves ==
  ASSUME Here, NEW s \in Session
  PROVE  \A t \in Trades: TradeMoves(trade[t], TradesAfterRemove(s)[t])
<1>1. trade \in [Trades -> SoundTrades]
  BY DEF Here, Typed
<1>2. CASE CancelsTrade(s)
  <2>1. s.tradeId \in Trades /\ trade[s.tradeId].status = "active"
    BY <1>2 DEF CancelsTrade, Active, Session
  <2>2. TradesAfterRemove(s) =
          [trade EXCEPT ![s.tradeId] =
             [trade[s.tradeId] EXCEPT !.status = "cancelled"]]
    BY <1>1, <1>2, <2>1 DEF TradesAfterRemove
  <2> QED BY <1>1, <2>1, <2>2, CancelMoves DEF TradeMoves
<1>3. CASE ~CancelsTrade(s)
  BY <1>3 DEF TradesAfterRemove, TradeMoves
<1> QED BY <1>2, <1>3

LEMMA TradeRowsMove ==
  ASSUME Here, [Next]_vars
  PROVE  \A t \in Trades: TradeMoves(trade[t], trade'[t])
<1>0. /\ trade \in [Trades -> SoundTrades] /\ trade \in [Trades -> TradeRow]
      /\ session \in [Uids -> Session] /\ Typed
  BY DEF Here, Typed, TypeOK
<1>. DEFINE Moves == \A t \in Trades: TradeMoves(trade[t], trade'[t])
<1>1. ASSUME trade' = trade PROVE Moves
  BY <1>1 DEF TradeMoves
<1>2. ASSUME NEW t \in Trades, NEW c, trade' = [trade EXCEPT ![t] = c],
             TradeMoves(trade[t], c)
      PROVE  Moves
  BY <1>0, <1>2 DEF TradeMoves
<1>3. ASSUME NEW s \in Session, trade' = TradesAfterRemove(s) PROVE Moves
  BY <1>3, RemoveTradeMoves
<1>. HIDE DEF Moves
<1>4. ASSUME NEW u \in Uids, QueueTrade(u) PROVE Moves
  <2>1. CASE UNCHANGED trade
    BY <1>1, <2>1
  <2>2. CASE \E v \in WaitingTradeSockets(u), t \in Trades: CreateTrade(u, v, t)
    <3>1. PICK v \in WaitingTradeSockets(u), t \in Trades: CreateTrade(u, v, t)
      BY <2>2
    <3>. DEFINE c == [NoTrade EXCEPT !.status = "active", !.first = u,
                                     !.second = v]
    <3>2. v \in Uids /\ ~AtOdds(u, v)
      BY NotBlocked DEF WaitingTradeSockets
    <3>3. trade[t].status = "none" /\ mode = "active"
      BY <1>4, <3>1 DEF CreateTrade, NewTrade, QueueTrade
    <3>4. /\ c.first = u /\ c.second = v /\ c.status = "active"
          /\ c.confirmed = {}
      BY DEF NoTrade
    <3>5. TradeMoves(trade[t], c)
      BY <3>2, <3>3, <3>4 DEF TradeMoves, TradeOpens
    <3>6. trade' = [trade EXCEPT ![t] = c]
      BY <3>1 DEF CreateTrade
    <3>. HIDE DEF c
    <3> QED BY <1>2, <3>5, <3>6
  <2> QED BY <1>4, <2>1, <2>2 DEF QueueTrade
<1>5. ASSUME NEW u \in Uids, NEW i \in Items, TradeOffer(u, i) PROVE Moves
  <2>1. PICK t \in Trades:
          /\ InTrade(u, t)
          /\ trade' = [trade EXCEPT ![t] = OfferRow(@, u, i)]
    BY <1>5 DEF TradeOffer
  <2>. DEFINE c == OfferRow(trade[t], u, i)
  <2>2. /\ trade[t].status = "active" /\ c.status = "active"
        /\ c.first = trade[t].first /\ c.second = trade[t].second
        /\ c.confirmed = {}
    BY <1>0, <2>1, TradeAt DEF OfferRow, TradeRow
  <2>3. trade' = [trade EXCEPT ![t] = c]
    BY <1>0, <2>1
  <2>. HIDE DEF c
  <2> QED BY <1>2, <2>2, <2>3 DEF TradeMoves, Bargains
<1>6. ASSUME NEW u \in Uids, TradeConfirm(u) PROVE Moves
  <2>1. PICK t \in Trades:
          /\ InTrade(u, t)
          /\ \/ trade' = [trade EXCEPT ![t].confirmed = @ \cup {u}]
             \/ trade' = [trade EXCEPT ![t].confirmed = @ \ {u}]
             \/ CompleteTrade(t)
    BY <1>6 DEF TradeConfirm
  <2>2. trade[t].status = "active"
    BY <1>0, <2>1, TradeAt
  <2>3. CASE trade' = [trade EXCEPT ![t].confirmed = @ \cup {u}]
    BY <1>0, <2>2, <2>3 DEF Moves, TradeMoves, Bargains, TradeRow
  <2>4. CASE trade' = [trade EXCEPT ![t].confirmed = @ \ {u}]
    BY <1>0, <2>2, <2>4 DEF Moves, TradeMoves, Bargains, TradeRow
  <2>5. CASE CompleteTrade(t)
    <3>1. /\ trade'[t].status = "completed" /\ trade'[t].offer = trade[t].offer
          /\ trade'[t].first = trade[t].first
          /\ trade'[t].second = trade[t].second
          /\ \A k \in Trades \ {t}: trade'[k] = trade[k]
      BY <1>0, <2>5 DEF CompleteTrade, TradeRow
    <3> QED BY <2>2, <3>1 DEF Moves, TradeMoves, TradeEnds
  <2> QED BY <2>1, <2>3, <2>4, <2>5
<1>7. ASSUME NEW u \in Uids, LeaveTrade(u) PROVE Moves
  <2>1. PICK t \in Trades: InTrade(u, t) /\ CancelActiveTrade(t)
    BY <1>7 DEF LeaveTrade
  <2>. DEFINE c == [trade[t] EXCEPT !.status = "cancelled"]
  <2>2. TradeMoves(trade[t], c)
    BY <1>0, <2>1, TradeAt, CancelMoves
  <2>3. trade' = [trade EXCEPT ![t] = c]
    BY <1>0, <2>1 DEF CancelActiveTrade
  <2>. HIDE DEF c
  <2> QED BY <1>2, <2>2, <2>3
<1>8. ASSUME TradeNext PROVE Moves
  <2>1. ASSUME NEW u \in Uids, CancelTradeSearch(u) \/ AcknowledgeTrade(u)
        PROVE  Moves
    BY <1>1, <2>1 DEF CancelTradeSearch, AcknowledgeTrade, tradeVars
  <2> QED BY <1>4, <1>5, <1>6, <1>7, <1>8, <2>1 DEF TradeNext
<1>9. ASSUME BattleNext PROVE Moves
  BY <1>1, <1>9 DEF BattleNext, Queue, Cancel, MarkReady, Knockout, Leave,
                    Finish, GraceElapses, Alarm, DayRolls, tradeVars
<1>10. ASSUME SocketNext PROVE Moves
  <2>1. ASSUME NEW u \in Uids, NEW screen \in {"battle", "trade"},
               Connect(u, screen)
        PROVE  Moves
    <3>1. trade' = TradesAfterRemove(session[u])
      BY <2>1 DEF Connect
    <3> QED BY <1>0, <1>3, <3>1
  <2>2. ASSUME NEW u \in Uids, Disconnect(u) PROVE Moves
    BY <1>0, <1>3, <2>2 DEF Disconnect, Removed
  <2>3. ASSUME NEW c \in closing, LateClose(c[1], c[2]) PROVE Moves
    <3>1. c[2] \in Session
      BY DEF Here, Typed, TypeOK
    <3> QED BY <1>3, <2>3, <3>1 DEF LateClose, Removed
  <2> QED BY <1>10, <2>1, <2>2, <2>3 DEF SocketNext
<1>11. ASSUME SafetyNext PROVE Moves
  <2>1. ASSUME NEW u \in Uids, BlockPeer(u) PROVE Moves
    BY <1>0, <1>3, <2>1 DEF BlockPeer, RecordBlock
  <2>2. ASSUME NEW u \in Uids, ReportPeer(u) PROVE Moves
    BY <1>1, <2>2 DEF ReportPeer, tradeVars
  <2>3. ASSUME NEW r \in reporting, ReportRecorded(r[1], r[2]) PROVE Moves
    <3>1. r[2] \in Session
      BY DEF Here, Typed, TypeOK
    <3> QED BY <1>3, <2>3, <3>1 DEF ReportRecorded, RecordBlock
  <2>4. ASSUME NEW u \in Uids, NEW v \in Uids, Unblock(u, v) PROVE Moves
    BY <1>1, <2>4 DEF Unblock, tradeVars
  <2> QED BY <1>11, <2>1, <2>2, <2>3, <2>4 DEF SafetyNext
<1>12. ASSUME OperatorNext PROVE Moves
  <2>1. ASSUME NEW u \in Uids, Retire(u) PROVE Moves
    BY <1>0, <1>3, <2>1 DEF Retire, Removed
  <2>2. ASSUME StartDraining \/ Freeze \/ Reopen PROVE Moves
    BY <1>1, <2>2 DEF StartDraining, Freeze, Reopen, tradeVars
  <2> QED BY <1>12, <2>1, <2>2 DEF OperatorNext
<1>13. ASSUME UNCHANGED vars PROVE Moves
  BY <1>1, <1>13 DEF vars, tradeVars
<1> QED
  BY <1>8, <1>9, <1>10, <1>11, <1>12, <1>13 DEF Next, Moves

-----------------------------------------------------------------------------
(* What no step does *)

(* A confirmation stands for the two animals its player saw: no message that
   arrives meanwhile changes an offer under it (setTradeOffer).              *)
THEOREM ConfirmationHolds == Spec => ConfirmationBinds
<1>1. ASSUME Here, [Next]_vars
      PROVE  \A t \in Trades:
               (trade[t].confirmed # {} /\ trade'[t].confirmed # {})
                 => trade'[t].offer = trade[t].offer
  BY <1>1, TradeRowsMove DEF TradeMoves, TradeOpens, Bargains, TradeEnds
<1> QED BY <1>1, AllHere, PTL DEF Spec, ConfirmationBinds

(* Nobody is beaten while missing: a paused battle ends by the deadline, or by
   the surrender of a player who is there (handleBattle, expireReconnect).   *)
THEOREM MissingIsNotBeaten == Spec => NoDefeatWhileAway
<1>1. ASSUME Here, [Next]_vars, NEW m \in Matches,
             Status(battle[m]) = "reconnecting", battle'[m].finished
      PROVE  \/ battle'[m].winner = None /\ battle[m].grace = "elapsed"
             \/ /\ battle'[m].winner # None
                /\ Rival(battle[m], battle'[m].winner) \notin battle[m].gone
  <2>1. /\ Live(battle[m]) /\ battle[m] \in SoundBattles
        /\ ~battle[m].finished /\ battle[m].first # None
        /\ None \notin Players(battle[m])
    BY <1>1, StatusOf DEF Here, Attended, Players
  <2>2. BattleMoves(battle[m], battle'[m])
    BY <1>1, BattleRowsMove
  <2>3. ~GoesOn(battle[m], battle'[m]) /\ ~BattleOpens(battle[m], battle'[m])
    BY <1>1, <2>1, StatusOf DEF GoesOn, BattleOpens
  <2> QED BY <1>1, <2>1, <2>2, <2>3 DEF BattleMoves, TimesOut, IsDecided
<1>2. ASSUME Here, [Next]_vars
      PROVE  \A m \in Matches:
               Status(battle[m]) = "reconnecting" /\ battle'[m].finished
                 => \/ battle'[m].winner = None /\ battle[m].grace = "elapsed"
                    \/ /\ battle'[m].winner # None
                       /\ Rival(battle[m], battle'[m].winner)
                            \notin battle[m].gone
  BY <1>1, <1>2
<1> QED BY <1>2, AllHere, PTL DEF Spec, NoDefeatWhileAway

LEMMA BlockEndsTrade ==
  ASSUME Here, NEW u \in Uids \ MixedUids, NEW t \in Trades, BlockPeer(u),
         trade'[t].status = "active"
  PROVE  u \notin Parties(trade'[t])
<1>1. /\ trade \in [Trades -> SoundTrades] /\ trade \in [Trades -> TradeRow]
      /\ Bartering(session, trade)
  BY DEF Here, Typed, TypeOK, Attended
<1>2. trade' = TradesAfterRemove(session[u])
  BY DEF BlockPeer, RecordBlock
<1>3. CASE CancelsTrade(session[u])
  <2>1. trade'[t] = trade[t] /\ session[u].tradeId # t
    BY <1>1, <1>2, <1>3 DEF TradesAfterRemove, CancelsTrade
  <2> QED BY <1>1, <2>1 DEF Bartering
<1>4. CASE ~CancelsTrade(session[u])
  <2>1. trade'[t] = trade[t]
    BY <1>2, <1>4 DEF TradesAfterRemove
  <2>2. SUFFICES ASSUME u \in Parties(trade[t]) PROVE FALSE
    BY <2>1
  <2>3. session[u].state = "trading" /\ session[u].tradeId = t
    BY <1>1, <2>1, <2>2 DEF Bartering
  <2> QED BY <1>4, <2>1, <2>3, PoolAssumption DEF CancelsTrade, Active
<1> QED BY <1>3, <1>4

LEMMA WhoBlocks ==
  ASSUME Here, [Next]_vars, blocked' # blocked, reporting' = reporting,
         NEW p \in blocked' \ blocked
  PROVE  \E u \in Uids: BlockPeer(u) /\ p[1] = u
<1>1. ASSUME NEW u \in Uids, BlockPeer(u) PROVE p[1] = u
  BY <1>1 DEF BlockPeer, RecordBlock
<1>2. ~(UNCHANGED safetyVars)
  BY DEF safetyVars
<1>3. Next
  BY <1>2 DEF vars
<1>4. ~BattleNext
  BY <1>2 DEF BattleNext, Queue, Cancel, MarkReady, Knockout, Leave, Finish,
              GraceElapses, Alarm, DayRolls
<1>5. ~TradeNext
  BY <1>2 DEF TradeNext, QueueTrade, CancelTradeSearch, TradeOffer,
              TradeConfirm, LeaveTrade, AcknowledgeTrade
<1>6. ~SocketNext
  BY <1>2 DEF SocketNext, Connect, Disconnect, LateClose, Removed
<1>7. ~OperatorNext
  BY <1>2 DEF OperatorNext, StartDraining, Freeze, Reopen, Retire, Removed
<1>8. SafetyNext
  BY <1>3, <1>4, <1>5, <1>6, <1>7 DEF Next
<1>9. ASSUME NEW u \in Uids, ReportPeer(u) PROVE FALSE
  BY <1>2, <1>9 DEF ReportPeer
<1>10. ASSUME NEW r \in reporting, ReportRecorded(r[1], r[2]) PROVE FALSE
  BY <1>10 DEF ReportRecorded
<1>11. ASSUME NEW u \in Uids, NEW v \in Uids, Unblock(u, v) PROVE FALSE
  BY <1>11 DEF Unblock
<1> QED BY <1>1, <1>8, <1>9, <1>10, <1>11 DEF SafetyNext

(* A block separates two players whichever of them set it: no battle or trade
   of the two begins, and the block itself leaves no trade between them that
   could still move items (waitingSocket, waitingTradeSocket,
   handlePeerSafety).                                                        *)
THEOREM BlockHolds == Spec => BlockSeparates
<1>1. ASSUME Here, [Next]_vars, NEW m \in Matches,
             battle[m].first = None, battle'[m].first # None
      PROVE  ~AtOdds(battle'[m].first, battle'[m].second)
  <2>1. BattleMoves(battle[m], battle'[m]) /\ ~Live(battle[m])
    BY <1>1, BattleRowsMove, StatusOf
  <2>2. PICK u, v \in Uids:
          /\ ~AtOdds(u, v)
          /\ battle'[m] = [NoBattle EXCEPT !.first = u, !.second = v]
    BY <1>1, <2>1 DEF BattleMoves, BattleOpens, GoesOn, TimesOut, IsDecided,
                      Ends
  <2>3. battle'[m].first = u /\ battle'[m].second = v
    BY <2>2 DEF NoBattle
  <2> QED BY <2>2, <2>3
<1>2. ASSUME Here, [Next]_vars, NEW t \in Trades,
             trade[t].status = "none", trade'[t].status = "active"
      PROVE  ~AtOdds(trade'[t].first, trade'[t].second)
  BY <1>2, TradeRowsMove DEF TradeMoves, TradeOpens, Bargains, TradeEnds
<1>3. ASSUME Here, [Next]_vars, NEW p \in blocked' \ blocked,
             reporting' = reporting, p[1] \notin MixedUids,
             NEW t \in Trades, trade'[t].status = "active"
      PROVE  Parties(trade'[t]) # {p[1], p[2]}
  <2>1. PICK u \in Uids: BlockPeer(u) /\ p[1] = u
    BY <1>3, WhoBlocks
  <2> QED BY <1>3, <2>1, BlockEndsTrade
<1>. DEFINE Separates ==
  /\ \A m \in Matches:
       battle[m].first = None /\ battle'[m].first # None =>
         ~AtOdds(battle'[m].first, battle'[m].second)
  /\ \A t \in Trades:
       trade[t].status = "none" /\ trade'[t].status = "active" =>
         ~AtOdds(trade'[t].first, trade'[t].second)
  /\ \A p \in blocked' \ blocked:
       reporting' = reporting /\ p[1] \notin MixedUids =>
       \A t \in Trades: trade'[t].status = "active" =>
         Parties(trade'[t]) # {p[1], p[2]}
<1>4. Here /\ [Next]_vars => Separates
  BY <1>1, <1>2, <1>3
<1>5. Spec => [][Separates]_vars
  BY <1>4, AllHere, PTL DEF Spec
<1> QED BY <1>5 DEF BlockSeparates

-----------------------------------------------------------------------------
(* The frozen generation *)

(* A read-only generation has nothing that could still change it. *)
Frozen ==
  mode = "read_only" =>
    /\ \A m \in Matches: ~Live(battle[m])
    /\ \A t \in Trades: trade[t].status # "active"
    /\ \A u \in Uids: session[u].state = "closed"

Still == UNCHANGED <<mode, qty, arenaVars, battle, tradeVars, session>>

LEMMA FrozenRemove ==
  ASSUME Here, Frozen, mode = "read_only", NEW u \in Uids, NEW s \in Session
  PROVE  /\ BattlesAfterRemove(u, s) = battle
         /\ TradesAfterRemove(s) = trade
         /\ SessionsAfterRemove(s) = session
<1>1. /\ battle \in [Matches -> SoundBattles]
      /\ \A m \in Matches: ~Live(battle[m])
      /\ \A t \in Trades: trade[t].status # "active"
  BY DEF Here, Attended, Frozen
<1>2. ~CancelsTrade(s)
  BY <1>1 DEF CancelsTrade, Active, Session
<1>3. \A m \in Matches: Pause(battle[m], u) = battle[m]
  BY <1>1, PauseMoves DEF GoesOn
<1>4. BattlesAfterRemove(u, s) = battle
  BY <1>1, <1>3 DEF BattlesAfterRemove
<1> QED BY <1>2, <1>4 DEF TradesAfterRemove, SessionsAfterRemove

LEMMA FrozenIsStill ==
  ASSUME Here, Frozen, mode = "read_only", [Next]_vars
  PROVE  Reopen \/ Still
<1>1. /\ \A m \in Matches: ~Live(battle[m])
      /\ \A t \in Trades: trade[t].status # "active"
      /\ \A u \in Uids: ~Open(u)
  BY DEF Frozen, Open
<1>2. ASSUME NEW u \in Uids, NEW s \in Session, Removed(u, s),
             session' = SessionsAfterRemove(s)
      PROVE  Still
  <2>1. UNCHANGED <<battle, trade, session>>
    BY <1>2, FrozenRemove DEF Removed
  <2> QED BY <1>2, <2>1 DEF Removed, Still, arenaVars, tradeVars
<1>3. ASSUME BattleNext PROVE Still
  <2>1. ASSUME NEW u \in Uids PROVE ~Speaks(u, "battle")
    BY <1>1 DEF Speaks
  <2>2. \A m \in Matches: Status(battle[m]) # "reconnecting"
    BY <1>1, StatusOf
  <2>3. ASSUME DayRolls PROVE Still
    BY <2>3 DEF DayRolls, Still, arenaVars, tradeVars, socketVars, battleVars
  <2> QED
    BY <1>3, <2>1, <2>2, <2>3
       DEF BattleNext, Queue, QueueGuard, Cancel, MarkReady, Knockout, Leave,
           InBattle, GraceElapses, Alarm, AlarmDue
<1>4. ASSUME TradeNext PROVE FALSE
  <2>1. ASSUME NEW u \in Uids PROVE ~Speaks(u, "trade")
    BY <1>1 DEF Speaks
  <2> QED
    BY <1>4, <2>1 DEF TradeNext, QueueTrade, CancelTradeSearch, TradeOffer,
                      TradeConfirm, LeaveTrade, AcknowledgeTrade, InTrade
<1>5. ASSUME SocketNext PROVE Still
  <2>1. ASSUME NEW c \in closing, LateClose(c[1], c[2]) PROVE Still
    <3>1. c[1] \in Uids /\ c[2] \in Session
      BY DEF Here, Typed, TypeOK
    <3> QED BY <1>2, <2>1, <3>1 DEF LateClose
  <2> QED BY <1>1, <1>5, <2>1 DEF SocketNext, Connect, Accepts, Disconnect
<1>6. ASSUME SafetyNext PROVE Still
  <2>1. ASSUME NEW r \in reporting, ReportRecorded(r[1], r[2]) PROVE Still
    <3>1. r[1] \in Uids /\ r[2] \in Session
      BY DEF Here, Typed, TypeOK
    <3>2. UNCHANGED <<trade, session>>
      BY <2>1, <3>1, FrozenRemove DEF ReportRecorded, RecordBlock
    <3> QED BY <2>1, <3>2 DEF ReportRecorded, Still, arenaVars, tradeVars,
                              battleVars
  <2> QED BY <1>1, <1>6, <2>1 DEF SafetyNext, BlockPeer, ReportPeer, Unblock
<1>7. ASSUME OperatorNext PROVE Reopen
  BY <1>1, <1>7 DEF OperatorNext, StartDraining, Freeze, Retire
<1>8. ASSUME UNCHANGED vars PROVE Still
  BY <1>8 DEF vars, Still, arenaVars, battleVars, tradeVars, socketVars
<1> QED BY <1>3, <1>4, <1>5, <1>6, <1>7, <1>8 DEF Next

LEMMA WhoFreezes ==
  ASSUME [Next]_vars, mode # "read_only", mode' = "read_only"
  PROVE  Freeze
<1>1. ~UNCHANGED vars
  BY DEF vars
<1>2. ~BattleNext
  BY DEF BattleNext, Queue, Cancel, MarkReady, Knockout, Leave, Finish,
         GraceElapses, Alarm, DayRolls
<1>3. ~TradeNext
  BY DEF TradeNext, QueueTrade, CancelTradeSearch, TradeOffer, TradeConfirm,
         LeaveTrade, AcknowledgeTrade
<1>4. ~SocketNext
  BY DEF SocketNext, Connect, Disconnect, LateClose, Removed
<1>5. ~SafetyNext
  BY DEF SafetyNext, BlockPeer, ReportPeer, ReportRecorded, Unblock
<1>6. OperatorNext
  BY <1>1, <1>2, <1>3, <1>4, <1>5 DEF Next
<1> QED BY <1>6 DEF OperatorNext, StartDraining, Reopen, Retire, Removed

LEMMA FrozenStep ==
  ASSUME Here, Frozen, [Next]_vars
  PROVE  Frozen'
<1>1. CASE mode = "read_only"
  <2>1. CASE Reopen
    BY <2>1 DEF Reopen, Frozen
  <2>2. CASE Still
    BY <1>1, <2>2 DEF Still, Frozen, tradeVars
  <2> QED BY <1>1, <2>1, <2>2, FrozenIsStill
<1>2. CASE mode # "read_only" /\ mode' = "read_only"
  <2>1. Freeze
    BY <1>2, WhoFreezes
  <2>2. NoLiveRows /\ OpenUids \subseteq IdleUids
    BY <1>2, <2>1 DEF Freeze
  <2>3. /\ \A u \in Uids: session'[u].state = "closed"
        /\ UNCHANGED <<battle, trade>>
    BY <2>1, <2>2 DEF Freeze, CloseIdleSockets, OpenUids, Open, Closed, Fresh,
                      battleVars, tradeVars
  <2> QED BY <2>2, <2>3 DEF Frozen, NoLiveRows, Active
<1>3. CASE mode' # "read_only"
  BY <1>3 DEF Frozen
<1> QED BY <1>1, <1>2, <1>3

(* What an export of a read-only generation has read cannot differ later:
   nothing that was under way when the generation was drained, no socket the
   server closed and no report that waited for D1 changes a holding, a result,
   a trade or a receipt (setGenerationMigrationMode, fetch, remove).           *)
THEOREM FrozenAuthority == Spec => ReadOnlyFreezesAuthority
<1>1. Init => Frozen
  BY DEF Init, Frozen
<1>2. Here /\ Frozen /\ [Next]_vars => Frozen'
  BY FrozenStep
<1>3. Here /\ Frozen /\ [Next]_vars
        => (mode = "read_only" /\ mode' = "read_only"
              => UNCHANGED <<qty, arenaVars, tradeVars>>)
  BY FrozenIsStill DEF Still, Reopen
<1> QED
  BY <1>1, <1>2, <1>3, AllHere, PTL DEF Spec, ReadOnlyFreezesAuthority

-----------------------------------------------------------------------------
(* The alarm *)

LEMMA AlarmIs ==
  AlarmArmed <=> (NeedsAlarm(battle) => alarm)
BY DEF AlarmArmed, NeedsAlarm

LEMMA AlarmRemoved ==
  ASSUME AlarmArmed, NEW u \in Uids, NEW s \in Session
  PROVE  NeedsAlarm(BattlesAfterRemove(u, s)) => AlarmAfterRemove(u, s)
BY DEF AlarmArmed, NeedsAlarm, AlarmAfterRemove

LEMMA AlarmStep ==
  ASSUME Here, AlarmArmed, [Next]_vars
  PROVE  AlarmArmed'
<1>0. /\ battle \in [Matches -> BattleRow] /\ session \in [Uids -> Session]
      /\ battle \in [Matches -> SoundBattles]
  BY DEF Here, Typed, TypeOK, Attended
<1>1. ASSUME UNCHANGED battleVars PROVE AlarmArmed'
  BY <1>1 DEF battleVars, AlarmArmed
<1>2. ASSUME alarm' = NeedsAlarm(battle') PROVE AlarmArmed'
  BY <1>2 DEF AlarmArmed, NeedsAlarm
<1>3. ASSUME NEW u \in Uids, NEW s \in Session, Removed(u, s) PROVE AlarmArmed'
  BY <1>3, AlarmRemoved DEF Removed, AlarmArmed, NeedsAlarm
<1>4. ASSUME BattleNext PROVE AlarmArmed'
  <2>1. ASSUME NEW u \in Uids, Queue(u) PROVE AlarmArmed'
    BY <1>1, <1>2, <2>1 DEF Queue, CreateMatch
  <2>2. ASSUME NEW u \in Uids, MarkReady(u) \/ Knockout(u) \/ Leave(u)
        PROVE  AlarmArmed'
    BY <1>2, <2>2 DEF MarkReady, Knockout, Leave, Finish
  <2>3. ASSUME NEW m \in Matches, GraceElapses(m) PROVE AlarmArmed'
    <3>1. /\ \A k \in Matches \ {m}: battle'[k] = battle[k]
          /\ Status(battle[m]) = "reconnecting" /\ alarm' = alarm
      BY <1>0, <2>3 DEF GraceElapses
    <3> QED BY <3>1 DEF AlarmArmed
  <2>4. ASSUME Alarm PROVE AlarmArmed'
    BY <1>2, <2>4 DEF Alarm
  <2>5. ASSUME NEW u \in Uids, Cancel(u) PROVE AlarmArmed'
    BY <1>1, <2>5 DEF Cancel
  <2>6. ASSUME DayRolls PROVE AlarmArmed'
    BY <1>1, <2>6 DEF DayRolls
  <2> QED BY <1>4, <2>1, <2>2, <2>3, <2>4, <2>5, <2>6 DEF BattleNext
<1>5. ASSUME TradeNext PROVE AlarmArmed'
  BY <1>1, <1>5 DEF TradeNext, QueueTrade, CancelTradeSearch, TradeOffer,
                    TradeConfirm, LeaveTrade, AcknowledgeTrade
<1>6. ASSUME NEW u \in Uids, NEW screen \in {"battle", "trade"},
             Connect(u, screen)
      PROVE  AlarmArmed'
  <2>. DEFINE B == BattlesAfterRemove(u, session[u])
              a == AlarmAfterRemove(u, session[u])
  <2>1. B \in [Matches -> BattleRow]
    BY <1>0, RemoveTyped DEF Here
  <2>2. NeedsAlarm(B) => a
    BY <1>0, AlarmRemoved
  <2>3. \/ battle' = B /\ alarm' = a
        \/ \E m \in Matches: /\ battle' = [B EXCEPT ![m] = Interrupt(B[m])]
                             /\ alarm' = a
        \/ alarm' = NeedsAlarm(battle')
    <3>1. ASSUME NEW S, NEW m \in Matches, ResumeSession(S, B, a, u, m)
          PROVE  \/ battle' = B /\ alarm' = a
                 \/ /\ battle' = [B EXCEPT ![m] = Interrupt(B[m])]
                    /\ alarm' = a
                 \/ alarm' = NeedsAlarm(battle')
      BY <3>1 DEF ResumeSession
    <3>2. \/ battle' = B /\ alarm' = a
          \/ \E S: \E m \in Matches: ResumeSession(S, B, a, u, m)
      BY <1>6 DEF Connect, PausedBattles
    <3> QED BY <3>1, <3>2
  <2>. HIDE DEF B, a
  <2>4. \A m \in Matches: Status(Interrupt(B[m]))
                            \notin {"active", "reconnecting"}
    <3>1. \A m \in Matches: Interrupt(B[m]).finished
      BY <2>1 DEF Interrupt, BattleRow
    <3> QED BY <3>1, StatusOf
  <2> QED BY <1>2, <2>1, <2>2, <2>3, <2>4 DEF AlarmArmed, NeedsAlarm
<1>7. ASSUME SocketNext PROVE AlarmArmed'
  <2>1. ASSUME NEW u \in Uids, Disconnect(u) PROVE AlarmArmed'
    BY <1>0, <1>3, <2>1 DEF Disconnect
  <2>2. ASSUME NEW c \in closing, LateClose(c[1], c[2]) PROVE AlarmArmed'
    <3>1. c[1] \in Uids /\ c[2] \in Session
      BY DEF Here, Typed, TypeOK
    <3> QED BY <1>3, <2>2, <3>1 DEF LateClose
  <2> QED BY <1>6, <1>7, <2>1, <2>2 DEF SocketNext
<1>8. ASSUME SafetyNext PROVE AlarmArmed'
  BY <1>1, <1>8 DEF SafetyNext, BlockPeer, ReportPeer, ReportRecorded, Unblock
<1>9. ASSUME OperatorNext PROVE AlarmArmed'
  <2>1. ASSUME NEW u \in Uids, Retire(u) PROVE AlarmArmed'
    BY <1>0, <1>3, <2>1 DEF Retire
  <2>2. ASSUME StartDraining \/ Freeze \/ Reopen PROVE AlarmArmed'
    BY <1>1, <2>2 DEF StartDraining, Freeze, Reopen
  <2> QED BY <1>9, <2>1, <2>2 DEF OperatorNext
<1>10. ASSUME UNCHANGED vars PROVE AlarmArmed'
  BY <1>1, <1>10 DEF vars
<1> QED
  BY <1>4, <1>5, <1>7, <1>8, <1>9, <1>10 DEF Next

(* A battle that only time can move always has an alarm that will move it, so a
   paused battle cannot be forgotten: the state behind the liveness property
   PauseEnds (scheduleNextAlarm).                                            *)
THEOREM AlarmStays == Spec => []AlarmArmed
<1>1. Init => AlarmArmed
  <2> SUFFICES ASSUME Init PROVE AlarmArmed
    OBVIOUS
  <2>1. \A m \in Matches: battle[m].first = None
    BY DEF Init, NoBattle
  <2> QED BY <2>1, StatusOf DEF AlarmArmed
<1> QED BY <1>1, AlarmStep, AllHere, PTL DEF Spec

-----------------------------------------------------------------------------
(* The contract of a battle *)

LifeRow(players, ready, gone, outcome, winner) ==
  [players |-> players, ready |-> ready, gone |-> gone, outcome |-> outcome,
   winner |-> winner]

LEMMA LifeRowFields ==
  ASSUME NEW p, NEW r, NEW g, NEW o, NEW w
  PROVE  /\ LifeRow(p, r, g, o, w).players = p
         /\ LifeRow(p, r, g, o, w).ready = r
         /\ LifeRow(p, r, g, o, w).gone = g
         /\ LifeRow(p, r, g, o, w).outcome = o
BY DEF LifeRow

LEMMA LifeOfRow ==
  ASSUME NEW b, b.first # None
  PROVE  /\ ~b.finished =>
              LifeOf(b) = LifeRow(Players(b), b.ready, b.gone, "open", b.winner)
         /\ b.finished /\ b.winner = None =>
              LifeOf(b) =
                LifeRow(Players(b), b.ready, b.gone, "interrupted", b.winner)
         /\ b.finished /\ b.winner # None =>
              LifeOf(b) = LifeRow(Players(b), b.ready, b.gone, "won", b.winner)
BY DEF LifeOf, LifeRow

LEMMA LifeOfNothing == LifeOf(NoBattle) = Contract!Unborn
<1>1. Players(NoBattle) = {}
  BY DEF Players, NoBattle
<1> QED BY <1>1 DEF LifeOf, NoBattle, Contract!Unborn

LEMMA ContractOpens ==
  ASSUME NEW b \in SoundBattles, NEW c, BattleOpens(b, c)
  PROVE  Contract!Step(LifeOf(b), LifeOf(c))
<1>1. PICK u, v \in Uids:
        u # v /\ c = [NoBattle EXCEPT !.first = u, !.second = v]
  BY DEF BattleOpens
<1>2. LifeOf(b) = Contract!Unborn
  BY LifeOfNothing DEF BattleOpens, SoundBattles
<1>3. /\ c.first = u /\ c.second = v /\ c.ready = {} /\ c.gone = {}
      /\ ~c.finished /\ c.winner = None
  BY <1>1 DEF NoBattle
<1>4. Players(c) = {u, v} /\ c.first # None
  BY <1>3, PoolAssumption DEF Players
<1>5. LifeOf(c) = LifeRow({u, v}, {}, {}, "open", None)
  BY <1>3, <1>4, LifeOfRow
<1>6. Contract!Opened(u, v) = LifeRow({u, v}, {}, {}, "open", None)
  <2>. DEFINE d == [Contract!Unborn EXCEPT !.players = {u, v}]
  <2>1. d = LifeRow({u, v}, {}, {}, "none", None)
    BY DEF Contract!Unborn, LifeRow
  <2>2. Contract!Opened(u, v) = [d EXCEPT !.outcome = "open"]
    BY Zenon DEF Contract!Opened
  <2>. HIDE DEF d
  <2> QED BY <2>1, <2>2 DEF LifeRow
<1> QED BY <1>1, <1>2, <1>5, <1>6 DEF Contract!Step, Contract!Opens

LEMMA ContractGoesOn ==
  ASSUME NEW b \in SoundBattles, NEW c, GoesOn(b, c)
  PROVE  LifeOf(c) = LifeOf(b) \/ Contract!Step(LifeOf(b), LifeOf(c))
<1>1. /\ b.first # None /\ ~b.finished /\ b.winner = None
      /\ c.first # None /\ ~c.finished /\ c.winner = None
      /\ Players(c) = Players(b)
  BY StatusOf DEF GoesOn, SoundBattles, Players
<1>. DEFINE L == LifeOf(b)
            K == LifeOf(c)
<1>2. /\ L = LifeRow(Players(b), b.ready, b.gone, "open", None)
      /\ K = LifeRow(Players(b), c.ready, c.gone, "open", None)
  BY <1>1, LifeOfRow
<1>3. /\ L.outcome = "open" /\ L.players = Players(b) /\ L.gone = b.gone
  BY <1>2, LifeRowFields
<1>. HIDE DEF L, K
<1>4. ASSUME NEW u \in Players(b), b.gone = {}, c.gone = {},
             c.ready = b.ready \cup {u}
      PROVE  Contract!Step(L, K)
  <2>1. K = [L EXCEPT !.ready = @ \cup {u}]
    BY <1>2, <1>4 DEF LifeRow
  <2> QED BY <1>3, <1>4, <2>1 DEF Contract!Step, Contract!GetsReady
<1>5. ASSUME NEW u \in Players(b), c.ready = b.ready, c.gone = b.gone \cup {u}
      PROVE  Contract!Step(L, K)
  <2>1. K = [L EXCEPT !.gone = @ \cup {u}]
    BY <1>2, <1>5 DEF LifeRow
  <2> QED BY <1>3, <2>1 DEF Contract!Step, Contract!Leaves
<1>6. ASSUME NEW u \in b.gone, c.ready = b.ready, c.gone = b.gone \ {u}
      PROVE  Contract!Step(L, K)
  <2>1. K = [L EXCEPT !.gone = @ \ {u}]
    BY <1>2, <1>6 DEF LifeRow
  <2> QED BY <1>3, <2>1 DEF Contract!Step, Contract!Returns
<1>7. CASE c.ready = b.ready /\ c.gone = b.gone
  BY <1>2, <1>7 DEF L, K
<1> QED BY <1>4, <1>5, <1>6, <1>7 DEF GoesOn, L, K

LEMMA ContractEnds ==
  ASSUME NEW b \in SoundBattles, NEW c, TimesOut(b, c) \/ IsDecided(b, c)
  PROVE  Contract!Step(LifeOf(b), LifeOf(c))
<1>1. /\ b.first # None /\ ~b.finished /\ b.winner = None
      /\ c.first # None /\ c.finished /\ c.ready = b.ready
      /\ Players(c) = Players(b)
  BY StatusOf DEF TimesOut, IsDecided, Ends, SoundBattles, Players
<1>. DEFINE L == LifeOf(b)
            K == LifeOf(c)
<1>2. L = LifeRow(Players(b), b.ready, b.gone, "open", None)
  BY <1>1, LifeOfRow
<1>3. /\ L.outcome = "open" /\ L.players = Players(b) /\ L.gone = b.gone
  BY <1>2, LifeRowFields
<1>4. CASE TimesOut(b, c)
  <2>1. K = LifeRow(Players(b), b.ready, {}, "interrupted", None)
    BY <1>1, <1>4, LifeOfRow DEF TimesOut
  <2>. HIDE DEF L, K
  <2>2. K = [L EXCEPT !.outcome = "interrupted", !.gone = {}]
    <3>. DEFINE N == [L EXCEPT !.outcome = "interrupted"]
    <3>1. N = LifeRow(Players(b), b.ready, b.gone, "interrupted", None)
      BY <1>2 DEF LifeRow
    <3>2. [L EXCEPT !.outcome = "interrupted", !.gone = {}]
            = [N EXCEPT !.gone = {}]
      OBVIOUS
    <3>. HIDE DEF N
    <3>3. [N EXCEPT !.gone = {}] = K
      BY <2>1, <3>1 DEF LifeRow
    <3> QED BY <3>2, <3>3
  <2>3. Contract!Step(L, K)
    BY <1>3, <1>4, <2>2 DEF Contract!Step, Contract!BreaksOff, TimesOut
  <2> QED BY <2>3 DEF L, K
<1>5. CASE IsDecided(b, c)
  <2>. DEFINE w == c.winner
              u == Rival(b, w)
  <2>1. /\ w \in Players(b) /\ u \in Players(b) /\ u # w /\ u \notin b.gone
        /\ w # None
    BY <1>1, <1>5, PlayersOf DEF IsDecided, Players
  <2>2. K = LifeRow(Players(b), b.ready, b.gone, "won", w)
    BY <1>1, <1>5, <2>1, LifeOfRow DEF IsDecided
  <2>. HIDE DEF L, K, w, u
  <2>3. K = [L EXCEPT !.outcome = "won", !.winner = w]
    <3>. DEFINE N == [L EXCEPT !.outcome = "won"]
    <3>1. N = LifeRow(Players(b), b.ready, b.gone, "won", None)
      BY <1>2 DEF LifeRow
    <3>2. [L EXCEPT !.outcome = "won", !.winner = w] = [N EXCEPT !.winner = w]
      OBVIOUS
    <3>. HIDE DEF N
    <3>3. [N EXCEPT !.winner = w] = K
      BY <2>2, <3>1 DEF LifeRow
    <3> QED BY <3>2, <3>3
  <2>4. Contract!GivesUp(L, K)
    BY <1>3, <2>1, <2>3 DEF Contract!GivesUp
  <2>5. Contract!Step(L, K)
    BY <1>3, <2>4 DEF Contract!Step
  <2> QED BY <2>5 DEF L, K
<1> QED BY <1>4, <1>5

(* Each battle of the pool implements the contract BattleLife, for any number
   of players, sockets and battles: it opens once, nobody is beaten while
   missing, a missing player can only make it end without a result, and the
   first outcome is the last.                                                *)
THEOREM PoolKeepsContract == Spec => KeepsContract
<1>1. Init => Contract!Init
  BY LifeOfNothing DEF Init, Contract!Init
<1>2. Here /\ [Next]_vars
        => [Contract!Next]_[m \in Matches |-> LifeOf(battle[m])]
  <2> SUFFICES ASSUME Here, [Next]_vars PROVE Contract!Next
    OBVIOUS
  <2>1. ASSUME NEW m \in Matches
        PROVE  \/ LifeOf(battle'[m]) = LifeOf(battle[m])
               \/ Contract!Step(LifeOf(battle[m]), LifeOf(battle'[m]))
    <3>1. battle[m] \in SoundBattles /\ BattleMoves(battle[m], battle'[m])
      BY BattleRowsMove DEF Here, Attended
    <3> QED
      BY <3>1, ContractOpens, ContractGoesOn, ContractEnds DEF BattleMoves
  <2> QED BY <2>1 DEF Contract!Next
<1> QED
  BY <1>1, <1>2, AllHere, PTL DEF Spec, KeepsContract, Contract!Spec
=============================================================================
