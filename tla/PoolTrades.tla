----------------------------- MODULE PoolTrades ------------------------------
(***************************************************************************)
(* Trade side of the MatchmakingPool: the trade queue, the offers and      *)
(* confirmations of a trade row, the transaction that exchanges the two    *)
(* animals and the receipts it leaves.                                     *)
(***************************************************************************)
EXTENDS PoolState

(* queueTrade: at least one animal may be given away, and the oldest waiting
   trader is taken (any of them here; two wait only when they are blocked).  *)
WaitingTradeSockets(u) ==
  {v \in Uids \ {u}: /\ session[v].state = "tradeQueued"
                     /\ ~PlayersAreBlocked(u, v)}

(* tradableInventoryForUid *)
Tradable(u) == {i \in Items: qty[u][i] > 1}

Trading(u, v, t) == [session[u] EXCEPT !.state = "trading", !.tradeId = t,
                                       !.peer = v, !.met = Met(u, v)]

CreateTrade(u, v, t) ==
  /\ NewTrade(t)
  /\ trade' = [trade EXCEPT ![t] = [NoTrade EXCEPT !.status = "active",
                                                   !.first = u, !.second = v]]
  /\ session' = [session EXCEPT ![u] = Trading(u, v, t),
                                ![v] = Trading(v, u, t)]

QueueTrade(u) ==
  /\ Speaks(u, "trade")
  /\ mode = "active"
  /\ u \in TradeUids
  /\ session[u].state = "ready"
  /\ Tradable(u) # {}
  /\ \/ /\ WaitingTradeSockets(u) = {}
        /\ session' = [session EXCEPT ![u].state = "tradeQueued"]
        /\ UNCHANGED trade
     \/ \E v \in WaitingTradeSockets(u), t \in Trades: CreateTrade(u, v, t)
  /\ UNCHANGED <<mode, today, qty, receipt, closing, battleVars, arenaVars,
                 safetyVars>>

(* cancelTradeSearch *)
CancelTradeSearch(u) ==
  /\ Speaks(u, "trade")
  /\ session[u].state = "tradeQueued"
  /\ session' = [session EXCEPT ![u].state = "ready"]
  /\ UNCHANGED <<mode, today, qty, closing, battleVars, arenaVars, tradeVars,
                 safetyVars>>

-----------------------------------------------------------------------------
(* handleTrade *)

InTrade(u, t) ==
  /\ Speaks(u, "trade")
  /\ u \in TradeUids
  /\ session[u].state = "trading"
  /\ session[u].tradeId = t
  /\ Active(trade[t])
  /\ u \in Parties(trade[t])

(* uidOwnsOffer: the last copy of an animal is never given away. *)
OwnsOffer(u, i) == qty[u][i] > 1

OfferKeepsPeer(row, u, i) == [row EXCEPT !.offer[u] = i, !.confirmed = @ \ {u}]

OfferRow(row, u, i) == [row EXCEPT !.offer[u] = i, !.confirmed = {}]

(* "tradeOffer": a new offer voids both confirmations. *)
TradeOffer(u, i) == \E t \in Trades:
  /\ InTrade(u, t)
  /\ OwnsOffer(u, i)
  /\ trade' = [trade EXCEPT ![t] = OfferRow(@, u, i)]
  /\ UNCHANGED <<mode, today, qty, receipt, socketVars, battleVars, arenaVars,
                 safetyVars>>

(* transferOnlineItem twice, in one transaction. *)
Moved(u, v, i) == [qty EXCEPT ![u][i] = @ - 1, ![v][i] = @ + 1]

ExchangedOverwrites(row) ==
  [qty EXCEPT ![row.first][row.offer[row.first]] = @ - 1,
              ![row.second][row.offer[row.first]] = 1]

Exchanged(row) ==
  LET i == row.offer[row.first]
      j == row.offer[row.second]
      after == Moved(row.first, row.second, i)
  IN [after EXCEPT ![row.second][j] = @ - 1, ![row.first][j] = @ + 1]

CompleteTrade(t) ==
  LET row == trade[t] IN
  /\ trade' = [trade EXCEPT ![t].status = "completed",
                            ![t].confirmed = Parties(row)]
  /\ qty' = Exchanged(row)
  /\ receipt' = [receipt EXCEPT ![t] =
       [u \in Uids |-> IF u \in Parties(row) THEN "pending" ELSE "none"]]
  /\ session' = TradeReleased(session, Parties(row))

BothOwnUnchecked(row) == TRUE

BothOwn(row) == \A u \in Parties(row): OwnsOffer(u, row.offer[u])

(* "tradeConfirm": the second confirmation exchanges the animals, or is taken
   back when one of them is no longer there to give.                         *)
TradeConfirm(u) == \E t \in Trades:
  LET row == trade[t]
      last == Parties(row) \subseteq row.confirmed \cup {u}
  IN
  /\ InTrade(u, t)
  /\ \A v \in Parties(row): row.offer[v] # None
  /\ \/ /\ ~last
        /\ trade' = [trade EXCEPT ![t].confirmed = @ \cup {u}]
        /\ UNCHANGED <<qty, receipt, session>>
     \/ /\ last /\ BothOwn(row)
        /\ CompleteTrade(t)
     \/ /\ last /\ ~BothOwn(row)
        /\ trade' = [trade EXCEPT ![t].confirmed = @ \ {u}]
        /\ UNCHANGED <<qty, receipt, session>>
  /\ UNCHANGED <<mode, today, closing, battleVars, arenaVars, safetyVars>>

(* cancelActiveTrade *)
CancelActiveTrade(t) ==
  /\ trade' = [trade EXCEPT ![t].status = "cancelled"]
  /\ session' = TradeReleased(session, Parties(trade[t]))

(* "leaveTrade" *)
LeaveTrade(u) == \E t \in Trades:
  /\ InTrade(u, t)
  /\ CancelActiveTrade(t)
  /\ UNCHANGED <<mode, today, qty, receipt, closing, battleVars, arenaVars,
                 safetyVars>>

(* "acknowledgeTrade": a receipt that is not acknowledged is sent again on each
   connection of the trade screen (sendPendingTradeReceipts).                *)
AcknowledgeTrade(u) == \E t \in Trades:
  /\ u \in AckUids
  /\ Speaks(u, "trade")
  /\ receipt[t][u] = "pending"
  /\ receipt' = [receipt EXCEPT ![t][u] = "acknowledged"]
  /\ UNCHANGED <<mode, today, qty, trade, socketVars, battleVars, arenaVars,
                 safetyVars>>
=============================================================================
