-------------------------------- MODULE Pool ---------------------------------
(***************************************************************************)
(* The MatchmakingPool Durable Object: sockets, battles and trades on one  *)
(* set of identities, and the properties of their composition.             *)
(***************************************************************************)
EXTENDS PoolSockets, PoolBattles, PoolTrades

BattleNext ==
  \/ \E u \in Uids: \/ Queue(u) \/ Cancel(u) \/ MarkReady(u) \/ Knockout(u)
                    \/ Leave(u)
  \/ \E m \in Matches: GraceElapses(m)
  \/ Alarm
  \/ DayRolls

TradeNext ==
  \E u \in Uids: \/ QueueTrade(u) \/ CancelTradeSearch(u)
                 \/ \E i \in Items: TradeOffer(u, i)
                 \/ TradeConfirm(u) \/ LeaveTrade(u) \/ AcknowledgeTrade(u)

SocketNext ==
  \/ \E u \in Uids: \/ \E screen \in {"battle", "trade"}: Connect(u, screen)
                    \/ Disconnect(u)
  \/ \E c \in closing: LateClose(c[1], c[2])

SafetyNext ==
  \/ \E u \in Uids: BlockPeer(u) \/ ReportPeer(u)
  \/ \E r \in reporting: ReportRecorded(r[1], r[2])
  \/ \E u, v \in Uids: Unblock(u, v)

OperatorNext ==
  /\ Operator
  /\ StartDraining \/ Freeze \/ Reopen \/ \E u \in Uids: Retire(u)

Next == BattleNext \/ TradeNext \/ SocketNext \/ SafetyNext \/ OperatorNext

Spec == Init /\ [][Next]_vars

(* What the platform gives: deadlines pass, a set alarm goes off, the close
   of a socket is reported and a D1 call returns.                            *)
PlatformFairness ==
  /\ \A m \in Matches: WF_vars(GraceElapses(m))
  /\ WF_vars(Alarm)
  /\ WF_vars(\E c \in closing: LateClose(c[1], c[2]))
  /\ WF_vars(\E r \in reporting: ReportRecorded(r[1], r[2]))

(* While the operator drains a generation, every client leaves in the end and
   the operator retries the freeze.                                          *)
DrainFairness ==
  /\ \A u \in Uids: WF_vars(mode = "draining" /\ Disconnect(u))
  /\ WF_vars(Freeze)

FairSpec == Spec /\ PlatformFairness /\ DrainFairness

-----------------------------------------------------------------------------
(* Type invariant *)

TypeOK ==
  /\ mode \in {"active", "draining", "read_only"}
  /\ today \in Days
  /\ session \in [Uids -> Session]
  /\ closing \subseteq Uids \X Session
  /\ battle \in [Matches -> BattleRow]
  /\ alarm \in BOOLEAN
  /\ settlement \in [Matches -> SUBSET Uids]
  /\ granted \in [Uids -> [Days -> Items \cup {None}]]
  /\ wins \in [Uids -> Nat]
  /\ losses \in [Uids -> Nat]
  /\ trade \in [Trades -> TradeRow]
  /\ qty \in [Uids -> [Items -> Nat]]
  /\ receipt \in [Trades -> [Uids -> ReceiptStates]]
  /\ blocked \subseteq Uids \X Uids
  /\ reporting \subseteq Uids \X Session

-----------------------------------------------------------------------------
(* Sockets and rows *)

AttachedTo(u, m) == session[u].state = "matched" /\ session[u].matchId = m

(* No battle is orphaned: each player of a live battle either sits on an open
   socket attached to it or is listed as disconnected, never both, whatever
   order sockets are replaced, closed late, resumed and expired in; and no
   socket in state matched is left in a battle that has ended (fetch, remove,
   resumeSession, alarm, releaseBattleSockets, endInterruptedBattle).  Only a
   socket that mixes battle and trade messages can lose its battle: the end of
   its trade releases it from both (releaseTradeSocket).                     *)
BattleAttended ==
  /\ \A m \in Matches: Live(battle[m]) =>
       \A u \in Players(battle[m]):
         /\ AttachedTo(u, m) => u \notin battle[m].gone
         /\ AttachedTo(u, m) \/ u \in battle[m].gone \cup MixedUids
  /\ \A u \in Uids: session[u].state = "matched" =>
       /\ session[u].matchId \in Matches
       /\ Live(battle[session[u].matchId])
       /\ u \in Players(battle[session[u].matchId])

(* A battle that only time can move, because it runs or waits for a missing
   player, always has an alarm that will move it (scheduleNextAlarm).         *)
AlarmArmed ==
  \A m \in Matches: Status(battle[m]) \in {"active", "reconnecting"} => alarm

(* No trade is orphaned: the parties of an active trade row are at it, except
   one whose socket mixes battle and trade messages, and whoever is trading is
   at an active row (createTrade, cancelActiveTrade, releaseTradeSocket).    *)
TradeAttended ==
  /\ \A t \in Trades: trade[t].status = "active" =>
       \A u \in Parties(trade[t]) \ MixedUids:
         session[u].state = "trading" /\ session[u].tradeId = t
  /\ \A u \in Uids: session[u].state = "trading" =>
       /\ session[u].tradeId \in Trades
       /\ trade[session[u].tradeId].status = "active"
       /\ u \in Parties(trade[session[u].tradeId])

-----------------------------------------------------------------------------
(* Results, rewards and inventory *)

WonBy(u) == {m \in Matches: battle[m].finished /\ battle[m].winner = u}
LostBy(u) == {m \in Matches: /\ battle[m].finished /\ battle[m].winner # None
                             /\ u \in Players(battle[m])
                             /\ battle[m].winner # u}

(* Every battle with a winner is settled for its two players and for nobody
   else, an interrupted one for nobody, and the arena accounts count exactly
   those results (settleBattle).                                             *)
SettledExactlyOnce ==
  /\ \A m \in Matches, u \in Uids:
       u \in settlement[m] <=> m \in WonBy(u) \cup LostBy(u)
  /\ \A u \in Uids: /\ wins[u] = Cardinality(WonBy(u))
                    /\ losses[u] = Cardinality(LostBy(u))

Sent(u, i) == {t \in Trades: /\ trade[t].status = "completed"
                             /\ u \in Parties(trade[t])
                             /\ trade[t].offer[u] = i}
Received(u, i) == {t \in Trades: /\ trade[t].status = "completed"
                                 /\ u \in Parties(trade[t])
                                 /\ trade[t].offer[Partner(trade[t], u)] = i}
Granted(u, i) == {d \in Days: granted[u][d] = i}

(* The ledger: what an account holds is its starter copies plus the daily
   grants plus what its completed trades brought, less what they took.  So no
   animal is made or lost, whatever trades overlap (completeTrade,
   transferOnlineItem, grantDailyRosterReward).                              *)
InventoryMatchesLedger ==
  \A u \in Uids, i \in Items:
    qty[u][i] + Cardinality(Sent(u, i)) =
      StarterQty + Cardinality(Granted(u, i)) + Cardinality(Received(u, i))

(* The last copy of an animal is never traded away, so a battle team can always
   be fielded from the roster (uidOwnsOffer, tradableInventoryForUid).       *)
LastCopyIsKept ==
  StarterQty > 0 => \A u \in Uids, i \in Items: qty[u][i] > 0

-----------------------------------------------------------------------------
(* Steps *)

(* A confirmation stands for the two animals its player saw: while it stands,
   neither offer changes (setTradeOffer resets both confirmations).          *)
ConfirmationBinds ==
  [][\A t \in Trades:
       (trade[t].confirmed # {} /\ trade'[t].confirmed # {})
         => trade'[t].offer = trade[t].offer]_vars

Completes(t) == trade[t].status = "active" /\ trade'[t].status = "completed"

(* A row of player_blocks between the two, whoever blocked whom. *)
AtOdds(u, v) == {<<u, v>>, <<v, u>>} \cap blocked # {}

(* Items never move between two players one of whom has blocked the other, also
   when the block came with a report: README.md of the Worker, line 49, says
   "Blocking during a trade cancels it before inventory can move".           *)
BlockedNeverExchange ==
  [][\A t \in Trades: Completes(t) =>
       ~AtOdds(trade[t].first, trade[t].second)]_vars

(* A block separates the two players, in either direction: they are never put
   into a new battle or trade, and the block action leaves no trade between
   them that could still move items, unless the one who blocks mixes messages
   and has left the trade for a battle (waitingSocket, waitingTradeSocket,
   handlePeerSafety).                                                        *)
BlockSeparates ==
  [][/\ \A m \in Matches:
          battle[m].first = None /\ battle'[m].first # None =>
            ~AtOdds(battle'[m].first, battle'[m].second)
     /\ \A t \in Trades:
          trade[t].status = "none" /\ trade'[t].status = "active" =>
            ~AtOdds(trade'[t].first, trade'[t].second)
     /\ \A p \in blocked' \ blocked:
          reporting' = reporting /\ p[1] \notin MixedUids =>
          \A t \in Trades: trade'[t].status = "active" =>
            Parties(trade'[t]) # {p[1], p[2]}]_vars

(* A paused battle ends only by a deadline that has passed or by the other
   player's forfeit, which the missing player wins: nobody is beaten while
   disconnected (handleBattle, expireReconnect).                             *)
NoDefeatWhileAway ==
  [][\A m \in Matches: Status(battle[m]) = "reconnecting" /\ battle'[m].finished
       => \/ battle'[m].winner = None /\ battle[m].grace = "elapsed"
          \/ /\ battle'[m].winner # None
             /\ Rival(battle[m], battle'[m].winner) \notin battle[m].gone]_vars

(* The life of a battle row, as BattleLife has it. *)
LifeOf(b) == [players |-> Players(b), ready |-> b.ready, gone |-> b.gone,
              outcome |-> CASE b.first = None -> "none"
                            [] b.first # None /\ ~b.finished -> "open"
                            [] b.first # None /\ b.finished ->
                                 IF b.winner = None THEN "interrupted" ELSE "won",
              winner |-> b.winner]

Contract == INSTANCE BattleLife
              WITH Ids <- Matches, life <- [m \in Matches |-> LifeOf(battle[m])]

(* Every battle of the pool keeps the contract of BattleLife, whatever happens
   to the sockets, the queue, the trades and the mode of the generation: it
   opens once, for two players; nobody is beaten while missing; a missing player
   can only make it end without a result; and the first outcome is the last
   (createMatch, remove, resumeSession, handleBattle, alarm).                 *)
KeepsContract == Contract!Spec

(* Inventory, results and receipts do not change while a generation is
   read-only: what an export has read cannot differ later.  A block can still
   be written, by a report that waited for D1 during the freeze.             *)
ReadOnlyFreezesAuthority ==
  [][mode = "read_only" /\ mode' = "read_only"
       => UNCHANGED <<qty, arenaVars, tradeVars>>]_vars

-----------------------------------------------------------------------------
(* Liveness *)

(* A paused battle is always resumed, interrupted or forfeited in the end: the
   players of it are never held for ever by one who does not return.         *)
PauseEnds ==
  \A m \in Matches: Status(battle[m]) = "reconnecting"
                      ~> Status(battle[m]) # "reconnecting"

(* Draining terminates: the generation becomes read-only unless the operator
   reopens it, so no battle or trade row can keep a migration from starting. *)
DrainEnds == mode = "draining" ~> mode # "draining"
=============================================================================
