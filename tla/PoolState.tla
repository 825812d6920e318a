------------------------------ MODULE PoolState ------------------------------
(***************************************************************************)
(* State of one MatchmakingPool Durable Object                             *)
(* (cloudflare/multiplayer/src/index.ts): the attachment of each open      *)
(* WebSocket, the rows of its SQLite tables, the alarm and the generation  *)
(* mode, with the helpers its handlers share.  The object is single        *)
(* threaded, so one handler is one step unless it awaits a call that       *)
(* leaves the object (only a report does: see PoolSockets).                *)
(***************************************************************************)
EXTENDS Naturals, FiniteSets

CONSTANTS
  Uids,          \* verified Firebase identities
  Items,         \* kinds of Online Roster animal
  Matches,       \* bound: ids of the battle rows one behaviour may create
  Trades,        \* bound: ids of the trade rows one behaviour may create
  Days,          \* bound: UTC days one behaviour may span
  BattleUids,    \* capability onlineBattle
  TradeUids,     \* capability trading
  BlockUids,     \* players who use the block action of peerSafety
  ReportUids,    \* players who report and block in one message
  AckUids,       \* players whose client acknowledges trade receipts
  TeamSize,      \* animals in a battle team: 3 in the code
  SessionLimit,  \* protectedPoolSessionLimit
  StarterQty,    \* copies of each animal in starterOnlineInventory
  Operator,      \* does an operator drain the pool and retire players?
  MixedUids,     \* players whose socket carries battle and trade messages
  None           \* undefined

ASSUME PoolAssumption ==
  /\ Matches \subseteq Nat /\ IsFiniteSet(Matches)
  /\ Trades \subseteq Nat /\ IsFiniteSet(Trades)
  /\ Days \subseteq Nat /\ 1 \in Days
  /\ BattleUids \subseteq Uids /\ TradeUids \subseteq Uids
  /\ BlockUids \subseteq Uids /\ ReportUids \subseteq Uids
  /\ AckUids \subseteq Uids /\ TeamSize \in Nat \ {0}
  /\ SessionLimit \in Nat /\ StarterQty \in Nat
  /\ Operator \in BOOLEAN /\ MixedUids \subseteq Uids
  /\ None \notin Uids \cup Items \cup Matches \cup Trades

VARIABLES
  mode,        \* generation_control.mode
  session,     \* attachment of the OPEN socket of each uid
  closing,     \* sockets the server closed whose webSocketClose is due
  battle,      \* rows of battles and sessions, which share a match id
  alarm,       \* is a Durable Object alarm set?
  settlement,  \* rows of settlements: the players a match has paid
  granted,     \* rows of online_inventory_grants: the animal of each day
  today,       \* the current UTC day
  wins,        \* arena_accounts.wins
  losses,      \* arena_accounts.losses
  trade,       \* rows of trades
  qty,         \* online_inventory.quantity
  receipt,     \* rows of trade_receipts: pending, then acknowledged
  blocked,     \* rows of player_blocks: <<blocker, blocked>>
  reporting    \* reports waiting for D1, with the attachment they read

socketVars == <<session, closing>>
battleVars == <<battle, alarm>>
arenaVars  == <<settlement, wins, losses, granted>>
tradeVars  == <<trade, receipt>>
safetyVars == <<blocked, reporting>>
vars == <<mode, today, qty, socketVars, battleVars, arenaVars, tradeVars,
          safetyVars>>

-----------------------------------------------------------------------------
(* Rows and attachments *)

SessionStates == {"closed", "ready", "queued", "matched",
                  "tradeQueued", "trading", "replaced"}

(* The field met is safetyPeerUid, kept only for players who block or report;
   screen is the client at the other end, MultiplayerService or
   TradingService, each with a socket of its own.                            *)
Session == [state: SessionStates,
            screen: {"battle", "trade"},
            matchId: Matches \cup {None},
            peer: Uids \cup {None},
            tradeId: Trades \cup {None},
            met: Uids \cup {None}]

Fresh(screen) == [state |-> "ready", screen |-> screen, matchId |-> None,
                  peer |-> None, tradeId |-> None, met |-> None]

Closed == [Fresh("battle") EXCEPT !.state = "closed"]

Screens(u) == {s \in {"battle", "trade"}:
                 \/ s = "battle" /\ u \in BattleUids
                 \/ s = "trade" /\ u \in TradeUids}

Open(u) == session[u].state # "closed"
OpenUids == {u \in Uids: Open(u)}

(* A message reaches its handler.  One that is too long, one too many or not
   JSON changes nothing.  The shipped clients keep the messages of battles and
   of trades apart; the server does not.                                     *)
Speaks(u, screen) ==
  /\ Open(u)
  /\ u \in MixedUids \/ session[u].screen = screen

BattleRow == [first: Uids \cup {None}, second: Uids \cup {None},
              ready: SUBSET Uids,
              gone: SUBSET Uids,                        \* disconnectedUids
              grace: {"none", "running", "elapsed"},    \* reconnectDeadline
              finished: BOOLEAN,
              winner: Uids \cup {None}]

NoBattle == [first |-> None, second |-> None, ready |-> {}, gone |-> {},
             grace |-> "none", finished |-> FALSE, winner |-> None]

Players(b) == {b.first, b.second} \ {None}
Rival(b, u) == IF u = b.first THEN b.second ELSE b.first
Started(b) == Players(b) \subseteq b.ready

Status(b) ==
  CASE b.first = None  -> "none"
    [] b.first # None /\ b.finished ->
         IF b.winner = None THEN "interrupted" ELSE "finished"
    [] b.first # None /\ ~b.finished ->
         IF b.gone # {} THEN "reconnecting"
         ELSE IF Started(b) THEN "active" ELSE "waiting"

Live(b) == Status(b) \in {"waiting", "active", "reconnecting"}

TradeRow == [status: {"none", "active", "completed", "cancelled"},
             first: Uids \cup {None}, second: Uids \cup {None},
             offer: [Uids -> Items \cup {None}],
             confirmed: SUBSET Uids]

(* readTrade and writeTrade know active rows only. *)
Active(row) == row.status = "active"

NoTrade == [status |-> "none", first |-> None, second |-> None,
            offer |-> [u \in Uids |-> None], confirmed |-> {}]

ReceiptStates == {"none", "pending", "acknowledged"}

Parties(t) == {t.first, t.second} \ {None}
Partner(t, u) == IF u = t.first THEN t.second ELSE t.first

(* crypto.randomUUID: the next id no row has. *)
NewMatch(m) == /\ Status(battle[m]) = "none"
               /\ \A k \in Matches: k < m => Status(battle[k]) # "none"
NewTrade(t) == /\ trade[t].status = "none"
               /\ \A k \in Trades: k < t => trade[k].status # "none"

-----------------------------------------------------------------------------
(* Helpers of the handlers *)

(* nextBattleEventAt is defined for every active or reconnecting battle, so
   scheduleNextAlarm leaves an alarm exactly when there is one.              *)
NeedsAlarmActiveOnly(battles) ==
  \E m \in Matches: Status(battles[m]) = "active"

NeedsAlarm(battles) ==
  \E m \in Matches: Status(battles[m]) \in {"active", "reconnecting"}

(* releaseBattleSockets and endInterruptedBattle, on one attachment. *)
ReleaseBattle(s) == [s EXCEPT !.state = "ready", !.matchId = None,
                              !.peer = None]

(* releaseTradeSocket *)
ReleaseTradeKeepsState(s) == [s EXCEPT !.tradeId = None, !.peer = None]

ReleaseTrade(s) == [s EXCEPT !.state = "ready", !.tradeId = None,
                             !.peer = None]

(* Both releases go to whatever open socket the uid has now (socketForUid). *)
BattleReleased(sessions, players) ==
  [u \in Uids |-> IF u \in players /\ sessions[u].state # "closed"
                  THEN ReleaseBattle(sessions[u]) ELSE sessions[u]]

TradeReleased(sessions, parties) ==
  [u \in Uids |-> IF u \in parties /\ sessions[u].state # "closed"
                  THEN ReleaseTrade(sessions[u]) ELSE sessions[u]]

(* pauseBattle: the first deadline stays when the second player leaves. *)
Pause(b, u) ==
  IF b.finished \/ u \notin Players(b) \/ u \in b.gone THEN b
  ELSE [b EXCEPT !.gone = @ \cup {u},
                 !.grace = IF @ = "none" THEN "running" ELSE @]

(* resumeBattle: the deadline goes when the last player is back. *)
Resume(b, u) ==
  [b EXCEPT !.gone = @ \ {u},
            !.grace = IF b.gone \ {u} = {} THEN "none" ELSE @]

(* expireReconnect *)
Expired(b) == ~b.finished /\ b.gone # {} /\ b.grace = "elapsed"
InterruptNamesWinner(b) ==
  [b EXCEPT !.finished = TRUE, !.grace = "none",
            !.winner = CHOOSE u \in Players(b): TRUE]

Interrupt(b) == [b EXCEPT !.finished = TRUE, !.gone = {}, !.grace = "none"]

(* remove: what closing a socket with attachment s of uid u does to the
   trades, the battles and the other sessions.                               *)
CancelsTrade(s) == /\ s.state = "trading" /\ s.tradeId # None
                   /\ Active(trade[s.tradeId])
PausesBattle(s) == s.state = "matched" /\ s.matchId # None

TradesAfterRemove(s) ==
  IF CancelsTrade(s) THEN [trade EXCEPT ![s.tradeId].status = "cancelled"]
  ELSE trade

SessionsAfterRemove(s) ==
  IF CancelsTrade(s) THEN TradeReleased(session, Parties(trade[s.tradeId]))
  ELSE session

BattlesPauseStartedOnly(u, s) ==
  IF PausesBattle(s) /\ Started(battle[s.matchId])
  THEN [battle EXCEPT ![s.matchId] = Pause(@, u)]
  ELSE battle

BattlesAfterRemove(u, s) ==
  IF PausesBattle(s) THEN [battle EXCEPT ![s.matchId] = Pause(@, u)]
  ELSE battle

(* remove leaves early, before scheduleNextAlarm, when it changes no battle. *)
AlarmAfterRemove(u, s) ==
  IF BattlesAfterRemove(u, s) = battle THEN alarm
  ELSE NeedsAlarm(BattlesAfterRemove(u, s))

(* What is left of the attachment of a socket the server retired: nobody
   speaks on it any more.                                                    *)
RetiredKeepsState(s) == [s EXCEPT !.met = None]

Retired(s) == [Fresh("battle") EXCEPT !.state = "replaced"]

(* The safety context of u after meeting v. *)
Met(u, v) == IF u \in BlockUids \cup ReportUids THEN v ELSE None

BlockedBySeeker(u, v) == <<u, v>> \in blocked

PlayersAreBlocked(u, v) == <<u, v>> \in blocked \/ <<v, u>> \in blocked

(* A new account has StarterQty of each animal (ensureOnlineInventory writes
   them the first time the uid's inventory is read).                         *)
Init ==
  /\ mode = "active"
  /\ session = [u \in Uids |-> Closed]
  /\ closing = {}
  /\ battle = [m \in Matches |-> NoBattle]
  /\ alarm = FALSE
  /\ settlement = [m \in Matches |-> {}]
  /\ granted = [u \in Uids |-> [d \in Days |-> None]]
  /\ today = 1
  /\ wins = [u \in Uids |-> 0]
  /\ losses = [u \in Uids |-> 0]
  /\ trade = [t \in Trades |-> NoTrade]
  /\ qty = [u \in Uids |-> [i \in Items |-> StarterQty]]
  /\ receipt = [t \in Trades |-> [u \in Uids |-> "none"]]
  /\ blocked = {}
  /\ reporting = {}
=============================================================================
