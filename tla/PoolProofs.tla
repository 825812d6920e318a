------------------------------ MODULE PoolProofs ------------------------------
(***************************************************************************)
(* Type correctness of the MatchmakingPool, with the facts about closed    *)
(* sockets and waiting reports it rests on.                                *)
(***************************************************************************)
EXTENDS Pool, TLAPS

(* A socket the server closed itself names no activity any more, and a report
   that waits for D1 was sent by someone who had met a player.               *)
Waiting ==
  /\ \A c \in closing: c[2].state = "replaced"
  /\ \A r \in reporting: r[2].met # None

(* A trade row that was written has two parties, and a completed one says what
   each of them gave.                                                        *)
SoundTrades ==
  {row \in TradeRow:
     /\ row.status # "none" => /\ row.first \in Uids /\ row.second \in Uids
                                /\ row.first # row.second
     /\ row.status = "completed" =>
          \A u \in Parties(row): row.offer[u] \in Items}

Typed ==
  /\ TypeOK
  /\ trade \in [Trades -> SoundTrades]
  /\ Waiting

-----------------------------------------------------------------------------
(* Sessions *)

LEMMA FreshTyped ==
  /\ \A screen \in {"battle", "trade"}: Fresh(screen) \in Session
  /\ Closed \in Session
  /\ \A s: Retired(s) \in Session /\ Retired(s).state = "replaced"
BY DEF Fresh, Closed, Retired, Session, SessionStates

LEMMA StateTyped ==
  ASSUME NEW s \in Session, NEW state \in SessionStates
  PROVE  [s EXCEPT !.state = state] \in Session
BY DEF Session

LEMMA ReleaseTyped ==
  ASSUME NEW s \in Session
  PROVE  ReleaseBattle(s) \in Session /\ ReleaseTrade(s) \in Session
BY DEF ReleaseBattle, ReleaseTrade, Session, SessionStates

LEMMA ReleasedTyped ==
  ASSUME NEW sessions \in [Uids -> Session], NEW players
  PROVE  /\ BattleReleased(sessions, players) \in [Uids -> Session]
         /\ TradeReleased(sessions, players) \in [Uids -> Session]
BY ReleaseTyped DEF BattleReleased, TradeReleased

-----------------------------------------------------------------------------
(* Rows *)

LEMMA BattleRowTyped ==
  ASSUME NEW b \in BattleRow, NEW u \in Uids, NEW v \in Uids
  PROVE  /\ Pause(b, u) \in BattleRow
         /\ Resume(b, u) \in BattleRow
         /\ [b EXCEPT !.ready = @ \cup {u}] \in BattleRow
         /\ [NoBattle EXCEPT !.first = u, !.second = v] \in BattleRow
         /\ Players(b) \subseteq Uids
         /\ Rival(b, u) \in Uids \cup {None}
<1>1. /\ Pause(b, u) \in BattleRow
      /\ Resume(b, u) \in BattleRow
  BY DEF Pause, Resume, BattleRow
<1>2. [b EXCEPT !.ready = @ \cup {u}] \in BattleRow
  BY DEF BattleRow
<1>3. [NoBattle EXCEPT !.first = u, !.second = v] \in BattleRow
  BY DEF NoBattle, BattleRow
<1> QED BY <1>1, <1>2, <1>3 DEF Players, Rival, BattleRow

LEMMA NoBattleTyped == NoBattle \in BattleRow
BY DEF NoBattle, BattleRow

LEMMA GraceRowTyped ==
  ASSUME NEW b \in BattleRow
  PROVE  /\ [b EXCEPT !.grace = "elapsed"] \in BattleRow
         /\ Interrupt(b) \in BattleRow
BY DEF Interrupt, BattleRow

LEMMA FinishedRowTyped ==
  ASSUME NEW b \in BattleRow, NEW w \in Uids \cup {None}
  PROVE  [b EXCEPT !.finished = TRUE, !.winner = w] \in BattleRow
BY DEF BattleRow

LEMMA SoundTyped == [Trades -> SoundTrades] \subseteq [Trades -> TradeRow]
BY DEF SoundTrades

LEMMA OfferRowTyped ==
  ASSUME NEW row \in SoundTrades, row.status = "active",
         NEW u \in Uids, NEW i \in Items
  PROVE  OfferRow(row, u, i) \in SoundTrades
BY DEF OfferRow, SoundTrades, TradeRow

LEMMA ConfirmedTyped ==
  ASSUME NEW row \in SoundTrades, row.status = "active", NEW u \in Uids
  PROVE  /\ [row EXCEPT !.confirmed = @ \cup {u}] \in SoundTrades
         /\ [row EXCEPT !.confirmed = @ \ {u}] \in SoundTrades
BY DEF SoundTrades, TradeRow

LEMMA NewTradeTyped ==
  ASSUME NEW u \in Uids, NEW v \in Uids, u # v
  PROVE  [NoTrade EXCEPT !.status = "active", !.first = u, !.second = v]
           \in SoundTrades
BY DEF NoTrade, SoundTrades, TradeRow

LEMMA EndedRowTyped ==
  ASSUME NEW row \in SoundTrades
  PROVE  /\ Parties(row) \subseteq Uids
         /\ row.status # "none" =>
              [row EXCEPT !.status = "cancelled"] \in SoundTrades
         /\ row.status # "none" /\ (\A u \in Parties(row): row.offer[u] # None)
              => [row EXCEPT !.status = "completed",
                             !.confirmed = Parties(row)] \in SoundTrades
<1>1. Parties(row) \subseteq Uids
  BY DEF Parties, SoundTrades, TradeRow
<1>2. ASSUME row.status # "none"
      PROVE  [row EXCEPT !.status = "cancelled"] \in SoundTrades
  BY <1>2 DEF SoundTrades, TradeRow
<1>3. ASSUME row.status # "none", \A u \in Parties(row): row.offer[u] # None
      PROVE  [row EXCEPT !.status = "completed", !.confirmed = Parties(row)]
               \in SoundTrades
  <2>. DEFINE done == [row EXCEPT !.status = "completed",
                                  !.confirmed = Parties(row)]
  <2>1. done \in TradeRow
    BY <1>1 DEF SoundTrades, TradeRow
  <2>2. /\ done.first = row.first /\ done.second = row.second
        /\ done.offer = row.offer /\ done.status = "completed"
    BY DEF SoundTrades, TradeRow
  <2>3. Parties(done) = Parties(row)
    BY <2>2 DEF Parties
  <2>4. \A u \in Parties(row): row.offer[u] \in Items
    BY <1>1, <1>3 DEF SoundTrades, TradeRow
  <2> QED BY <1>3, <2>1, <2>2, <2>3, <2>4 DEF SoundTrades
<1> QED BY <1>1, <1>2, <1>3

LEMMA RemoveTyped ==
  ASSUME Typed, NEW u \in Uids, NEW s \in Session
  PROVE  /\ TradesAfterRemove(s) \in [Trades -> SoundTrades]
         /\ SessionsAfterRemove(s) \in [Uids -> Session]
         /\ BattlesAfterRemove(u, s) \in [Matches -> BattleRow]
         /\ AlarmAfterRemove(u, s) \in BOOLEAN
<1>. USE DEF Typed
<1>1. TradesAfterRemove(s) \in [Trades -> SoundTrades]
  BY EndedRowTyped DEF TradesAfterRemove, CancelsTrade, Active
<1>2. SessionsAfterRemove(s) \in [Uids -> Session]
  BY ReleasedTyped DEF SessionsAfterRemove, TypeOK
<1>3. BattlesAfterRemove(u, s) \in [Matches -> BattleRow]
  BY BattleRowTyped DEF BattlesAfterRemove, TypeOK
<1>4. AlarmAfterRemove(u, s) \in BOOLEAN
  BY DEF AlarmAfterRemove, TypeOK, NeedsAlarm
<1> QED BY <1>1, <1>2, <1>3, <1>4

-----------------------------------------------------------------------------
(* Battles *)

LEMMA MatchedTyped ==
  ASSUME TypeOK, NEW u \in Uids, NEW v \in Uids, NEW m \in Matches
  PROVE  Matched(u, v, m) \in Session
<1>1. session[u] \in Session
  BY DEF TypeOK
<1>2. Met(u, v) \in Uids \cup {None}
  BY DEF Met
<1> QED BY <1>1, <1>2 DEF Matched, Session, SessionStates

LEMMA QueueTyped ==
  ASSUME Typed, NEW u \in Uids, Queue(u)
  PROVE  Typed'
<1>. USE DEF Queue
<1>1. CASE /\ session' = [session EXCEPT ![u].state = "queued"]
           /\ UNCHANGED battleVars
  <2>1. session' \in [Uids -> Session]
    BY <1>1, StateTyped DEF Typed, TypeOK, SessionStates
  <2> QED
    BY <1>1, <2>1 DEF Typed, TypeOK, Waiting, battleVars, arenaVars,
                      tradeVars, safetyVars
<1>2. CASE \E v \in WaitingSockets(u), m \in Matches: CreateMatch(u, v, m)
  <2>1. PICK v \in Uids, m \in Matches: CreateMatch(u, v, m)
    BY <1>2 DEF WaitingSockets
  <2>2. session' \in [Uids -> Session]
    BY <2>1, MatchedTyped DEF CreateMatch, Typed, TypeOK
  <2>3. battle' \in [Matches -> BattleRow]
    BY <2>1, BattleRowTyped, NoBattleTyped DEF CreateMatch, Typed, TypeOK
  <2>4. alarm' \in BOOLEAN
    BY <2>1 DEF CreateMatch, NeedsAlarm
  <2> QED
    BY <2>2, <2>3, <2>4 DEF Typed, TypeOK, Waiting, arenaVars, tradeVars,
                            safetyVars
<1> QED BY <1>1, <1>2

LEMMA SettledTyped ==
  ASSUME TypeOK, NEW m \in Matches, NEW b \in BattleRow, SettleBattle(m, b)
  PROVE  /\ settlement' \in [Matches -> SUBSET Uids]
         /\ wins' \in [Uids -> Nat]
         /\ losses' \in [Uids -> Nat]
         /\ granted' \in [Uids -> [Days -> Items \cup {None}]]
         /\ qty' \in [Uids -> [Items -> Nat]]
<1>. USE DEF SettleBattle
<1>1. CASE settlement[m] # {}
  BY <1>1 DEF TypeOK, arenaVars
<1>2. CASE settlement[m] = {}
  <2>1. Players(b) \subseteq Uids
    BY DEF Players, BattleRow
  <2>2. settlement' \in [Matches -> SUBSET Uids]
    BY <1>2, <2>1 DEF TypeOK
  <2>7. wins' \in [Uids -> Nat]
    BY <1>2 DEF TypeOK
  <2>8. losses' \in [Uids -> Nat]
    BY <1>2 DEF TypeOK
  <2>3. PICK gift \in [Players(b) -> Items]:
          GrantDailyRosterReward(Players(b), gift)
    BY <1>2
  <2>4. \A u \in Players(b): gift[u] \in Items
    BY <2>3
  <2>5. granted' \in [Uids -> [Days -> Items \cup {None}]]
    BY <2>3, <2>4 DEF GrantDailyRosterReward, TypeOK
  <2>6. qty' \in [Uids -> [Items -> Nat]]
    BY <2>3, <2>4 DEF GrantDailyRosterReward, TypeOK
  <2> QED BY <2>2, <2>5, <2>6, <2>7, <2>8
<1> QED BY <1>1, <1>2
LEMMA FinishTyped ==
  ASSUME Typed, NEW m \in Matches, NEW w \in Uids \cup {None}, Finish(m, w)
  PROVE  Typed'
<1>. DEFINE b == [battle[m] EXCEPT !.finished = TRUE, !.winner = w]
<1>1. b \in BattleRow
  BY FinishedRowTyped DEF Typed, TypeOK
<1>2. battle' \in [Matches -> BattleRow]
  BY <1>1 DEF Finish, Typed, TypeOK
<1>3. session' \in [Uids -> Session]
  BY ReleasedTyped DEF Finish, Typed, TypeOK
<1>4. alarm' \in BOOLEAN
  BY DEF Finish, NeedsAlarm
<1>5. SettleBattle(m, b)
  BY DEF Finish
<1>. HIDE DEF b
<1>6. /\ settlement' \in [Matches -> SUBSET Uids]
      /\ wins' \in [Uids -> Nat]
      /\ losses' \in [Uids -> Nat]
      /\ granted' \in [Uids -> [Days -> Items \cup {None}]]
      /\ qty' \in [Uids -> [Items -> Nat]]
  BY <1>1, <1>5, SettledTyped DEF Typed
<1> QED
  BY <1>2, <1>3, <1>4, <1>6 DEF Finish, Typed, TypeOK, Waiting, tradeVars,
                                safetyVars

LEMMA BattleTyped ==
  ASSUME Typed, BattleNext
  PROVE  Typed'
<1>1. ASSUME NEW u \in Uids, Queue(u) PROVE Typed'
  BY <1>1, QueueTyped
<1>2. ASSUME NEW u \in Uids, Cancel(u) PROVE Typed'
  <2>1. session' \in [Uids -> Session]
    BY <1>2, StateTyped DEF Cancel, Typed, TypeOK, SessionStates
  <2> QED
    BY <1>2, <2>1 DEF Cancel, Typed, TypeOK, Waiting, battleVars, arenaVars,
                      tradeVars, safetyVars
<1>3. ASSUME NEW u \in Uids, MarkReady(u) PROVE Typed'
  <2>0. PICK m \in Matches:
          battle' = [battle EXCEPT ![m].ready = @ \cup {u}]
    BY <1>3 DEF MarkReady
  <2>1. battle' \in [Matches -> BattleRow]
    <3>1. battle[m] \in BattleRow
      BY DEF Typed, TypeOK
    <3>2. [battle[m] EXCEPT !.ready = @ \cup {u}] \in BattleRow
      BY <3>1, BattleRowTyped
    <3> QED BY <2>0, <3>2 DEF Typed, TypeOK
  <2>2. alarm' \in BOOLEAN
    BY <1>3 DEF MarkReady, NeedsAlarm
  <2> QED
    BY <1>3, <2>1, <2>2 DEF MarkReady, Typed, TypeOK, Waiting, socketVars,
                            arenaVars, tradeVars, safetyVars
<1>4. ASSUME NEW u \in Uids, Knockout(u) PROVE Typed'
  BY <1>4, FinishTyped DEF Knockout
<1>5. ASSUME NEW u \in Uids, Leave(u) PROVE Typed'
  <2>1. \A m \in Matches: Rival(battle[m], u) \in Uids \cup {None}
    BY BattleRowTyped DEF Typed, TypeOK
  <2> QED BY <1>5, <2>1, FinishTyped DEF Leave
<1>6. ASSUME NEW m \in Matches, GraceElapses(m) PROVE Typed'
  <2>1. battle' \in [Matches -> BattleRow]
    BY <1>6, GraceRowTyped DEF GraceElapses, Typed, TypeOK
  <2> QED
    BY <1>6, <2>1 DEF GraceElapses, Typed, TypeOK, Waiting, socketVars,
                      arenaVars, tradeVars, safetyVars
<1>7. ASSUME Alarm PROVE Typed'
  <2>1. battle' \in [Matches -> BattleRow]
    BY <1>7, GraceRowTyped DEF Alarm, Typed, TypeOK
  <2>2. session' \in [Uids -> Session]
    BY <1>7, ReleasedTyped DEF Alarm, Typed, TypeOK
  <2>3. alarm' \in BOOLEAN
    BY <1>7 DEF Alarm, NeedsAlarm
  <2> QED
    BY <1>7, <2>1, <2>2, <2>3 DEF Alarm, Typed, TypeOK, Waiting, arenaVars,
                                  tradeVars, safetyVars
<1>8. ASSUME DayRolls PROVE Typed'
  BY <1>8 DEF DayRolls, Typed, TypeOK, Waiting, socketVars, battleVars,
              arenaVars, tradeVars, safetyVars
<1> QED BY <1>1, <1>2, <1>3, <1>4, <1>5, <1>6, <1>7, <1>8 DEF BattleNext

-----------------------------------------------------------------------------
(* Trades *)

LEMMA TradingTyped ==
  ASSUME TypeOK, NEW u \in Uids, NEW v \in Uids, NEW t \in Trades
  PROVE  Trading(u, v, t) \in Session
<1>1. session[u] \in Session
  BY DEF TypeOK
<1>2. Met(u, v) \in Uids \cup {None}
  BY DEF Met
<1> QED BY <1>1, <1>2 DEF Trading, Session, SessionStates

LEMMA QueueTradeTyped ==
  ASSUME Typed, NEW u \in Uids, QueueTrade(u)
  PROVE  Typed'
<1>1. CASE /\ session' = [session EXCEPT ![u].state = "tradeQueued"]
           /\ UNCHANGED trade
  <2>1. session' \in [Uids -> Session]
    BY <1>1, StateTyped DEF Typed, TypeOK, SessionStates
  <2> QED
    BY <1>1, <2>1 DEF QueueTrade, Typed, TypeOK, Waiting, battleVars,
                      arenaVars, safetyVars
<1>2. CASE \E v \in WaitingTradeSockets(u), t \in Trades: CreateTrade(u, v, t)
  <2>1. PICK v \in Uids \ {u}, t \in Trades: CreateTrade(u, v, t)
    BY <1>2 DEF WaitingTradeSockets
  <2>2. Trading(u, v, t) \in Session /\ Trading(v, u, t) \in Session
    BY TradingTyped DEF Typed
  <2>3. session' \in [Uids -> Session]
    BY <2>1, <2>2 DEF CreateTrade, Typed, TypeOK
  <2>4. [NoTrade EXCEPT !.status = "active", !.first = u, !.second = v]
          \in SoundTrades
    BY <2>1, NewTradeTyped
  <2>5. trade' \in [Trades -> SoundTrades]
    BY <2>1, <2>4 DEF CreateTrade, Typed, TypeOK
  <2> QED
    BY <1>2, <2>3, <2>5, SoundTyped DEF QueueTrade, Typed, TypeOK, Waiting, battleVars,
                            arenaVars, safetyVars
<1> QED BY <1>1, <1>2 DEF QueueTrade
(* What the exchange of a completed trade leaves in every account. *)
LEMMA ExchangedAt ==
  ASSUME qty \in [Uids -> [Items -> Nat]], NEW row,
         NEW f \in Uids, NEW s \in Uids, f # s,
         row.first = f, row.second = s,
         NEW i \in Items, NEW j \in Items,
         row.offer[f] = i, row.offer[s] = j,
         qty[f][i] > 1, qty[s][j] > 1
  PROVE  /\ Exchanged(row) \in [Uids -> [Items -> Nat]]
         /\ \A u \in Uids, k \in Items:
              Exchanged(row)[u][k] + (IF u = f /\ k = i THEN 1 ELSE 0)
                                   + (IF u = s /\ k = j THEN 1 ELSE 0)
                = qty[u][k] + (IF u = f /\ k = j THEN 1 ELSE 0)
                            + (IF u = s /\ k = i THEN 1 ELSE 0)
<1>. DEFINE one == [qty EXCEPT ![f][i] = @ - 1]
            two == [one EXCEPT ![s][i] = @ + 1]
            three == [two EXCEPT ![s][j] = @ - 1]
            four == [three EXCEPT ![f][j] = @ + 1]
<1>1. f \in Uids /\ s \in Uids /\ f # s /\ i \in Items /\ j \in Items
  OBVIOUS
<1>2. qty[f][i] > 1 /\ qty[s][j] > 1
  OBVIOUS
<1>3. Exchanged(row) = four
  BY DEF Exchanged, Moved
<1>. HIDE DEF one, two, three, four
<1>4. /\ one \in [Uids -> [Items -> Nat]]
      /\ \A u \in Uids, k \in Items:
           one[u][k] = IF u = f /\ k = i THEN qty[u][k] - 1 ELSE qty[u][k]
  BY <1>1, <1>2 DEF one
<1>5. /\ two \in [Uids -> [Items -> Nat]]
      /\ \A u \in Uids, k \in Items:
           two[u][k] = IF u = s /\ k = i THEN one[u][k] + 1 ELSE one[u][k]
  BY <1>1, <1>4 DEF two
<1>6. two[s][j] > 1
  <2>1. one[s][j] = qty[s][j]
    BY <1>1, <1>4
  <2>2. two[s][j] \in {one[s][j], one[s][j] + 1}
    BY <1>1, <1>5
  <2>3. one[s][j] \in Nat
    BY <1>1, <1>4
  <2> QED BY <1>2, <2>1, <2>2, <2>3
<1>7. /\ three \in [Uids -> [Items -> Nat]]
      /\ \A u \in Uids, k \in Items:
           three[u][k] = IF u = s /\ k = j THEN two[u][k] - 1 ELSE two[u][k]
  BY <1>1, <1>5, <1>6 DEF three
<1>8. /\ four \in [Uids -> [Items -> Nat]]
      /\ \A u \in Uids, k \in Items:
           four[u][k] = IF u = f /\ k = j THEN three[u][k] + 1
                        ELSE three[u][k]
  BY <1>1, <1>7 DEF four
<1>9. \A u \in Uids, k \in Items:
        four[u][k] + (IF u = f /\ k = i THEN 1 ELSE 0)
                   + (IF u = s /\ k = j THEN 1 ELSE 0)
          = qty[u][k] + (IF u = f /\ k = j THEN 1 ELSE 0)
                      + (IF u = s /\ k = i THEN 1 ELSE 0)
  <2> SUFFICES ASSUME NEW u \in Uids, NEW k \in Items
               PROVE  four[u][k] + (IF u = f /\ k = i THEN 1 ELSE 0)
                                 + (IF u = s /\ k = j THEN 1 ELSE 0)
                        = qty[u][k] + (IF u = f /\ k = j THEN 1 ELSE 0)
                                    + (IF u = s /\ k = i THEN 1 ELSE 0)
    OBVIOUS
  <2>1. /\ qty[u][k] \in Nat /\ one[u][k] \in Nat /\ two[u][k] \in Nat
        /\ three[u][k] \in Nat /\ four[u][k] \in Nat
    BY <1>4, <1>5, <1>7, <1>8
  <2> QED BY <1>1, <1>4, <1>5, <1>7, <1>8, <2>1
<1> QED BY <1>3, <1>8, <1>9
(* What InTrade says of the row. *)
LEMMA TradeAt ==
  ASSUME Typed, NEW u \in Uids, NEW t \in Trades, InTrade(u, t)
  PROVE  /\ trade[t] \in SoundTrades
         /\ trade[t].status = "active"
         /\ trade[t].first \in Uids /\ trade[t].second \in Uids
         /\ trade[t].first # trade[t].second
         /\ Parties(trade[t]) = {trade[t].first, trade[t].second}
         /\ u \in Parties(trade[t])
         /\ Parties(trade[t]) \subseteq Uids
<1>1. trade[t] \in SoundTrades /\ trade[t].status = "active"
  BY DEF Typed, InTrade, Active
<1>2. /\ trade[t].first \in Uids /\ trade[t].second \in Uids
      /\ trade[t].first # trade[t].second
  BY <1>1 DEF SoundTrades
<1> QED BY <1>1, <1>2, PoolAssumption DEF InTrade, Parties

LEMMA ExchangeAt ==
  ASSUME Typed, NEW u \in Uids, NEW t \in Trades, InTrade(u, t),
         \A v \in Parties(trade[t]): trade[t].offer[v] # None,
         BothOwn(trade[t])
  PROVE  /\ trade[t].offer[trade[t].first] \in Items
         /\ trade[t].offer[trade[t].second] \in Items
         /\ qty[trade[t].first][trade[t].offer[trade[t].first]] > 1
         /\ qty[trade[t].second][trade[t].offer[trade[t].second]] > 1
<1>1. \A v \in Parties(trade[t]):
        /\ trade[t].offer[v] # None
        /\ qty[v][trade[t].offer[v]] > 1
  BY DEF BothOwn, OwnsOffer
<1>2. trade[t].offer \in [Uids -> Items \cup {None}]
  BY TradeAt DEF SoundTrades, TradeRow
<1> QED BY <1>1, <1>2, TradeAt

LEMMA TradeConfirmTyped ==
  ASSUME Typed, NEW u \in Uids, TradeConfirm(u)
  PROVE  Typed'
<1>1. PICK t \in Trades:
        /\ InTrade(u, t)
        /\ \A v \in Parties(trade[t]): trade[t].offer[v] # None
        /\ \/ /\ trade' = [trade EXCEPT ![t].confirmed = @ \cup {u}]
              /\ UNCHANGED <<qty, receipt, session>>
           \/ BothOwn(trade[t]) /\ CompleteTrade(t)
           \/ /\ trade' = [trade EXCEPT ![t].confirmed = @ \ {u}]
              /\ UNCHANGED <<qty, receipt, session>>
  BY DEF TradeConfirm
<1>2. trade[t] \in SoundTrades /\ trade[t].status = "active"
  BY <1>1, TradeAt
<1>3. /\ trade' \in [Trades -> SoundTrades]
      /\ qty' \in [Uids -> [Items -> Nat]]
      /\ receipt' \in [Trades -> [Uids -> ReceiptStates]]
      /\ session' \in [Uids -> Session]
  <2>1. CASE /\ trade' = [trade EXCEPT ![t].confirmed = @ \cup {u}]
             /\ UNCHANGED <<qty, receipt, session>>
    BY <1>2, <2>1, ConfirmedTyped
       DEF Typed, TypeOK
  <2>2. CASE /\ trade' = [trade EXCEPT ![t].confirmed = @ \ {u}]
             /\ UNCHANGED <<qty, receipt, session>>
    BY <1>2, <2>2, ConfirmedTyped
       DEF Typed, TypeOK
  <2>3. CASE BothOwn(trade[t]) /\ CompleteTrade(t)
    <3>1. qty' \in [Uids -> [Items -> Nat]]
      <4>. DEFINE row == trade[t]
                  f == row.first
                  s == row.second
                  i == row.offer[f]
                  j == row.offer[s]
      <4>1. /\ f \in Uids /\ s \in Uids /\ f # s
            /\ i \in Items /\ j \in Items /\ qty[f][i] > 1 /\ qty[s][j] > 1
        BY <1>1, <2>3, TradeAt, ExchangeAt
      <4>2. qty' = Exchanged(row) /\ qty \in [Uids -> [Items -> Nat]]
        BY <2>3 DEF CompleteTrade, Typed, TypeOK
      <4>3. /\ row.first = f /\ row.second = s
            /\ row.offer[f] = i /\ row.offer[s] = j
        OBVIOUS
      <4>. HIDE DEF row, f, s, i, j
      <4> QED BY <4>1, <4>2, <4>3, ExchangedAt
    <3>2. trade' = [trade EXCEPT
                      ![t] = [trade[t] EXCEPT
                                !.status = "completed",
                                !.confirmed = Parties(trade[t])]]
      BY <1>2, <2>3 DEF CompleteTrade, Typed
    <3>3. trade' \in [Trades -> SoundTrades]
      BY <1>1, <1>2, <3>2, EndedRowTyped DEF Typed
    <3>4. receipt' \in [Trades -> [Uids -> ReceiptStates]]
      BY <2>3 DEF CompleteTrade, Typed, TypeOK, ReceiptStates
    <3>5. session' \in [Uids -> Session]
      BY <2>3, ReleasedTyped DEF CompleteTrade, Typed, TypeOK
    <3> QED BY <3>1, <3>3, <3>4, <3>5
  <2> QED BY <1>1, <2>1, <2>2, <2>3
<1> QED
  BY <1>3, SoundTyped DEF TradeConfirm, Typed, TypeOK, Waiting, battleVars,
                          arenaVars, safetyVars

LEMMA CancelledTyped ==
  ASSUME Typed, NEW t \in Trades, Active(trade[t]), CancelActiveTrade(t)
  PROVE  trade' \in [Trades -> SoundTrades] /\ session' \in [Uids -> Session]
BY EndedRowTyped, ReleasedTyped DEF CancelActiveTrade, Active, Typed, TypeOK

LEMMA TradeTyped ==
  ASSUME Typed, TradeNext
  PROVE  Typed'
<1>1. ASSUME NEW u \in Uids, QueueTrade(u) PROVE Typed'
  BY <1>1, QueueTradeTyped
<1>2. ASSUME NEW u \in Uids, CancelTradeSearch(u) PROVE Typed'
  <2>1. session' \in [Uids -> Session]
    BY <1>2, StateTyped DEF CancelTradeSearch, Typed, TypeOK, SessionStates
  <2> QED
    BY <1>2, <2>1 DEF CancelTradeSearch, Typed, TypeOK, Waiting, battleVars,
                      arenaVars, tradeVars, safetyVars
<1>3. ASSUME NEW u \in Uids, NEW i \in Items, TradeOffer(u, i) PROVE Typed'
  <2>1. PICK t \in Trades: /\ InTrade(u, t)
                           /\ trade' = [trade EXCEPT ![t] = OfferRow(@, u, i)]
    BY <1>3 DEF TradeOffer
  <2>2. trade' \in [Trades -> SoundTrades]
    BY <2>1, TradeAt, OfferRowTyped DEF Typed
  <2> QED
    BY <1>3, <2>2, SoundTyped DEF TradeOffer, Typed, TypeOK, Waiting,
                                  socketVars, battleVars, arenaVars, safetyVars
<1>4. ASSUME NEW u \in Uids, TradeConfirm(u) PROVE Typed'
  BY <1>4, TradeConfirmTyped
<1>5. ASSUME NEW u \in Uids, LeaveTrade(u) PROVE Typed'
  <2>1. trade' \in [Trades -> SoundTrades] /\ session' \in [Uids -> Session]
    BY <1>5, CancelledTyped DEF LeaveTrade, InTrade
  <2> QED
    BY <1>5, <2>1, SoundTyped DEF LeaveTrade, Typed, TypeOK, Waiting,
                                  battleVars, arenaVars, safetyVars
<1>6. ASSUME NEW u \in Uids, AcknowledgeTrade(u) PROVE Typed'
  <2>1. receipt' \in [Trades -> [Uids -> ReceiptStates]]
    BY <1>6 DEF AcknowledgeTrade, Typed, TypeOK, ReceiptStates
  <2> QED
    BY <1>6, <2>1 DEF AcknowledgeTrade, Typed, TypeOK, Waiting, socketVars,
                      battleVars, arenaVars, safetyVars
<1> QED BY <1>1, <1>2, <1>3, <1>4, <1>5, <1>6 DEF TradeNext

-----------------------------------------------------------------------------
(* Sockets, safety and the operator *)

LEMMA ConnectTyped ==
  ASSUME Typed, NEW u \in Uids, NEW screen \in {"battle", "trade"},
         Connect(u, screen)
  PROVE  Typed'
<1>. DEFINE old == session[u]
            sessions == [SessionsAfterRemove(old) EXCEPT ![u] = Fresh(screen)]
            battles == BattlesAfterRemove(u, old)
            armed == AlarmAfterRemove(u, old)
<1>1. old \in Session
  BY DEF Typed, TypeOK
<1>2. /\ trade' \in [Trades -> SoundTrades]
      /\ sessions \in [Uids -> Session]
      /\ battles \in [Matches -> BattleRow]
      /\ armed \in BOOLEAN
  BY <1>1, RemoveTyped, FreshTyped DEF Connect
<1>3. closing' \subseteq Uids \X Session
  BY <1>1, FreshTyped DEF Connect, Typed, TypeOK
<1>4. \A c \in closing': c[2].state = "replaced"
  BY FreshTyped DEF Connect, Typed, Waiting
<1>5. \/ session' = sessions /\ battle' = battles /\ alarm' = armed
      \/ \E m \in Matches: ResumeSession(sessions, battles, armed, u, m)
  BY DEF Connect, PausedBattles
<1>. HIDE DEF sessions, battles, armed
<1>6. /\ session' \in [Uids -> Session]
      /\ battle' \in [Matches -> BattleRow]
      /\ alarm' \in BOOLEAN
  <2>1. CASE session' = sessions /\ battle' = battles /\ alarm' = armed
    BY <1>2, <2>1
  <2>2. CASE \E m \in Matches: ResumeSession(sessions, battles, armed, u, m)
    <3>1. PICK m \in Matches: ResumeSession(sessions, battles, armed, u, m)
      BY <2>2
    <3>2. battles[m] \in BattleRow
      BY <1>2
    <3>3. CASE /\ session' = sessions /\ battle' = battles
               /\ alarm' = armed
      BY <1>2, <3>3
    <3>4. CASE /\ battle' = [battles EXCEPT ![m] = Interrupt(battles[m])]
               /\ session' = BattleReleased(sessions, Players(battles[m]))
               /\ alarm' = armed
      BY <1>2, <3>2, <3>4, GraceRowTyped, ReleasedTyped
    <3>5. CASE /\ battle' = [battles EXCEPT ![m] = Resume(battles[m], u)]
               /\ session' = [sessions EXCEPT
                                ![u].state = "matched", ![u].matchId = m,
                                ![u].peer = Rival(battles[m], u)]
               /\ alarm' = NeedsAlarm(battle')
      <4>1. battle' \in [Matches -> BattleRow]
        BY <1>2, <3>2, <3>5, BattleRowTyped
      <4>0. sessions[u] \in Session /\ Rival(battles[m], u) \in Uids \cup {None}
        BY <1>2, <3>2, BattleRowTyped
      <4>2. [sessions[u] EXCEPT !.state = "matched", !.matchId = m,
                                !.peer = Rival(battles[m], u)] \in Session
        BY <4>0 DEF Session, SessionStates
      <4>3. session' \in [Uids -> Session]
        BY <1>2, <3>5, <4>2
      <4> QED BY <3>5, <4>1, <4>3 DEF NeedsAlarm
    <3> QED BY <3>1, <3>3, <3>4, <3>5 DEF ResumeSession
  <2> QED BY <1>5, <2>1, <2>2
<1> QED
  BY <1>2, <1>3, <1>4, <1>6, SoundTyped DEF Connect, Typed, TypeOK, Waiting,
                                            arenaVars, safetyVars
LEMMA SocketTyped ==
  ASSUME Typed, SocketNext
  PROVE  Typed'
<1>1. ASSUME NEW u \in Uids, NEW screen \in {"battle", "trade"},
             Connect(u, screen)
      PROVE  Typed'
  BY <1>1, ConnectTyped
<1>2. ASSUME NEW u \in Uids, Disconnect(u) PROVE Typed'
  <2>1. session[u] \in Session
    BY DEF Typed, TypeOK
  <2>2. session' \in [Uids -> Session]
    BY <1>2, <2>1, RemoveTyped, FreshTyped DEF Disconnect
  <2> QED
    BY <1>2, <2>1, <2>2, RemoveTyped, SoundTyped
       DEF Disconnect, Removed, Typed, TypeOK, Waiting, arenaVars, safetyVars
<1>3. ASSUME NEW c \in closing, LateClose(c[1], c[2]) PROVE Typed'
  <2>1. c[1] \in Uids /\ c[2] \in Session
    BY DEF Typed, TypeOK
  <2>2. session' \in [Uids -> Session]
    BY <1>3, <2>1, RemoveTyped DEF LateClose
  <2> QED
    BY <1>3, <2>1, <2>2, RemoveTyped, SoundTyped
       DEF LateClose, Removed, Typed, TypeOK, Waiting, arenaVars, safetyVars
<1> QED BY <1>1, <1>2, <1>3 DEF SocketNext

LEMMA SafetyTyped ==
  ASSUME Typed, SafetyNext
  PROVE  Typed'
<1>0. ASSUME NEW s \in Session, s.met # None PROVE PeerOf(s) \in Uids
  BY <1>0 DEF PeerOf, Session
<1>1. ASSUME NEW u \in Uids, BlockPeer(u) PROVE Typed'
  <2>1. session[u] \in Session /\ session[u].met # None
    BY <1>1 DEF BlockPeer, Typed, TypeOK
  <2>2. blocked' \subseteq Uids \X Uids
    BY <1>0, <1>1, <2>1 DEF BlockPeer, RecordBlock, Typed, TypeOK
  <2> QED
    BY <1>1, <2>1, <2>2, RemoveTyped, SoundTyped
       DEF BlockPeer, RecordBlock, Typed, TypeOK, Waiting, battleVars,
           arenaVars
<1>2. ASSUME NEW u \in Uids, ReportPeer(u) PROVE Typed'
  <2>1. session[u] \in Session /\ session[u].met # None
    BY <1>2 DEF ReportPeer, Typed, TypeOK
  <2>2. reporting' = reporting \cup {<<u, session[u]>>}
    BY <1>2 DEF ReportPeer
  <2> QED
    BY <1>2, <2>1, <2>2 DEF ReportPeer, Typed, TypeOK, Waiting, socketVars,
                            battleVars, arenaVars, tradeVars
<1>3. ASSUME NEW r \in reporting, ReportRecorded(r[1], r[2]) PROVE Typed'
  <2>1. r[1] \in Uids /\ r[2] \in Session /\ r[2].met # None
    BY DEF Typed, TypeOK, Waiting
  <2>2. blocked' \subseteq Uids \X Uids
    BY <1>0, <1>3, <2>1 DEF ReportRecorded, RecordBlock, Typed, TypeOK
  <2> QED
    BY <1>3, <2>1, <2>2, RemoveTyped, SoundTyped
       DEF ReportRecorded, RecordBlock, Typed, TypeOK, Waiting, battleVars,
           arenaVars
<1>4. ASSUME NEW u \in Uids, NEW v \in Uids, Unblock(u, v) PROVE Typed'
  BY <1>4 DEF Unblock, Typed, TypeOK, Waiting, socketVars, battleVars,
              arenaVars, tradeVars
<1> QED BY <1>1, <1>2, <1>3, <1>4 DEF SafetyNext

LEMMA OperatorTyped ==
  ASSUME Typed, OperatorNext
  PROVE  Typed'
<1>0. ASSUME CloseIdleSockets
      PROVE  session' \in [Uids -> Session] /\ closing' = closing
  BY <1>0, FreshTyped DEF CloseIdleSockets, Typed, TypeOK
<1>1. ASSUME StartDraining PROVE Typed'
  BY <1>0, <1>1 DEF StartDraining, Typed, TypeOK, Waiting, battleVars,
                    arenaVars, tradeVars, safetyVars
<1>2. ASSUME Freeze PROVE Typed'
  BY <1>0, <1>2 DEF Freeze, Typed, TypeOK, Waiting, battleVars, arenaVars,
                    tradeVars, safetyVars
<1>3. ASSUME Reopen PROVE Typed'
  BY <1>3 DEF Reopen, Typed, TypeOK, Waiting, socketVars, battleVars,
              arenaVars, tradeVars, safetyVars
<1>4. ASSUME NEW u \in Uids, Retire(u) PROVE Typed'
  <2>1. session[u] \in Session
    BY DEF Typed, TypeOK
  <2>2. session' \in [Uids -> Session]
    BY <1>4, <2>1, RemoveTyped, FreshTyped DEF Retire
  <2>3. /\ closing' \subseteq Uids \X Session
        /\ \A c \in closing': c[2].state = "replaced"
    BY <1>4, FreshTyped DEF Retire, Typed, TypeOK, Waiting
  <2> QED
    BY <1>4, <2>1, <2>2, <2>3, RemoveTyped, SoundTyped
       DEF Retire, Removed, Typed, TypeOK, Waiting, arenaVars, safetyVars
<1> QED BY <1>1, <1>2, <1>3, <1>4 DEF OperatorNext

-----------------------------------------------------------------------------

(* The invariant of this module, from the start on. *)
LEMMA InitTyped == Init => Typed
<1> SUFFICES ASSUME Init PROVE Typed
  OBVIOUS
<1>1. NoTrade \in SoundTrades
  BY DEF NoTrade, SoundTrades, TradeRow
<1>2. trade \in [Trades -> SoundTrades]
  BY <1>1 DEF Init
<1>3. battle \in [Matches -> BattleRow] /\ session \in [Uids -> Session]
  BY NoBattleTyped, FreshTyped DEF Init
<1> QED
  BY <1>2, <1>3, SoundTyped, PoolAssumption
     DEF Init, Typed, TypeOK, Waiting, ReceiptStates

LEMMA StepTyped == Typed /\ [Next]_vars => Typed'
<1>1. ASSUME Typed, UNCHANGED vars PROVE Typed'
  BY <1>1 DEF vars, socketVars, battleVars, arenaVars, tradeVars, safetyVars,
              Typed, TypeOK, Waiting
<1> QED
  BY <1>1, BattleTyped, TradeTyped, SocketTyped, SafetyTyped, OperatorTyped
     DEF Next

(* The same, as one formula of the specification. *)
THEOREM AllTyped == Spec => []Typed
BY InitTyped, StepTyped, PTL DEF Spec

(* Every reachable row, attachment and account is well formed, whatever the
   players, the animals and the limits; no quantity goes below zero (the
   schema of MatchmakingPool, transferOnlineItem).  Typed adds what this rests
   on: a trade row that was written has two different parties, and a completed
   one names what each of them gave.                                         *)
THEOREM TypeCorrect == Spec => []TypeOK
BY AllTyped, PTL DEF Typed
=============================================================================
