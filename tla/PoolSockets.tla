----------------------------- MODULE PoolSockets -----------------------------
(***************************************************************************)
(* Sockets of the MatchmakingPool: connecting and resuming, replacing an   *)
(* older session of the same identity, losing or retiring a socket, the    *)
(* generation mode, and the player-safety requests.                        *)
(***************************************************************************)
EXTENDS PoolState

(* resumeSession on the rows a closed predecessor left: the paused battle of
   u that was written last (any of them here; there is at most one unless one
   socket mixes battle and trade messages).                                  *)
PausedBattles(battles, u) ==
  {m \in Matches: /\ Status(battles[m]) = "reconnecting"
                  /\ u \in Players(battles[m])}

ResumeSession(sessions, battles, armed, u, m) ==
  LET b == battles[m] IN
  \/ /\ u \notin b.gone
     /\ session' = sessions
     /\ battle' = battles
     /\ alarm' = armed
  \/ /\ u \in b.gone /\ b.grace = "elapsed"
     /\ battle' = [battles EXCEPT ![m] = Interrupt(b)]
     /\ session' = BattleReleased(sessions, Players(b))
     /\ alarm' = armed
  \/ /\ u \in b.gone /\ b.grace # "elapsed"
     /\ battle' = [battles EXCEPT ![m] = Resume(b, u)]
     /\ session' = [sessions EXCEPT ![u].state = "matched", ![u].matchId = m,
                                    ![u].peer = Rival(b, u)]
     /\ alarm' = NeedsAlarm(battle')

(* The generation is active, and there is a seat unless u already has one.  *)
Accepts(u) ==
  mode = "active" /\ (Open(u) \/ Cardinality(OpenUids) < SessionLimit)

(* fetch: an older session of the same identity leaves through remove, is
   marked replaced and closed; then the new socket is accepted.              *)
Connect(u, screen) ==
  LET old == session[u]
      kept == SessionsAfterRemove(old)
      sessions == [kept EXCEPT ![u] = Fresh(screen)]
      battles == BattlesAfterRemove(u, old)
      armed == AlarmAfterRemove(u, old)
  IN
  /\ screen \in Screens(u)
  /\ Accepts(u)
  /\ trade' = TradesAfterRemove(old)
  /\ closing' = IF Open(u) THEN closing \cup {<<u, Retired(old)>>} ELSE closing
  /\ \/ /\ PausedBattles(battles, u) = {}
        /\ session' = sessions
        /\ battle' = battles
        /\ alarm' = armed
     \/ \E m \in PausedBattles(battles, u):
          ResumeSession(sessions, battles, armed, u, m)
  /\ UNCHANGED <<mode, today, qty, arenaVars, receipt, safetyVars>>

(* remove, for a socket with attachment s that is no longer open. *)
Removed(u, s) ==
  /\ trade' = TradesAfterRemove(s)
  /\ battle' = BattlesAfterRemove(u, s)
  /\ alarm' = AlarmAfterRemove(u, s)
  /\ UNCHANGED <<mode, today, qty, arenaVars, receipt, safetyVars>>

(* webSocketClose or webSocketError of an open socket: the client left. *)
Disconnect(u) ==
  /\ Open(u)
  /\ session' = [SessionsAfterRemove(session[u]) EXCEPT ![u] = Closed]
  /\ Removed(u, session[u])
  /\ UNCHANGED closing

(* webSocketClose of a socket the server itself closed earlier. *)
LateClose(u, s) ==
  /\ <<u, s>> \in closing
  /\ closing' = closing \ {<<u, s>>}
  /\ session' = SessionsAfterRemove(s)
  /\ Removed(u, s)

(* retireCapabilitySubject: the operator disabled the identity. *)
Retire(u) ==
  /\ Open(u)
  /\ session' = [SessionsAfterRemove(session[u]) EXCEPT ![u] = Closed]
  /\ closing' = closing \cup {<<u, Retired(session[u])>>}
  /\ Removed(u, session[u])

-----------------------------------------------------------------------------
(* setGenerationMigrationMode *)

IdleUids == {u \in OpenUids: session[u].state \notin {"matched", "trading"}}

(* closeIdleSocketsForMigration.  The attachment of an idle socket names no
   activity remove would end, so its late close is not recorded in closing.  *)
CloseIdleSockets ==
  /\ session' = [u \in Uids |-> IF u \in IdleUids THEN Closed ELSE session[u]]
  /\ UNCHANGED closing

NoLiveRows ==
  /\ \A m \in Matches: ~Live(battle[m])
  /\ \A t \in Trades: ~Active(trade[t])

StartDraining ==
  /\ mode = "active"
  /\ mode' = "draining"
  /\ CloseIdleSockets
  /\ UNCHANGED <<today, qty, battleVars, arenaVars, tradeVars, safetyVars>>

(* The idle sockets stay closed when the freeze itself is refused. *)
FreezeUndrained ==
  /\ mode = "draining"
  /\ CloseIdleSockets
  /\ mode' = "read_only"
  /\ UNCHANGED <<today, qty, battleVars, arenaVars, tradeVars, safetyVars>>

Freeze ==
  /\ mode = "draining"
  /\ CloseIdleSockets
  /\ mode' = IF NoLiveRows /\ OpenUids \subseteq IdleUids THEN "read_only"
             ELSE mode
  /\ UNCHANGED <<today, qty, battleVars, arenaVars, tradeVars, safetyVars>>

Reopen ==
  /\ mode # "active"
  /\ mode' = "active"
  /\ UNCHANGED <<today, qty, socketVars, battleVars, arenaVars, tradeVars,
                 safetyVars>>

-----------------------------------------------------------------------------
(* handlePeerSafety, whose target the server derives from the attachment.   *)

PeerOf(s) == IF s.peer # None THEN s.peer ELSE s.met

(* The end of the handler, with the attachment s it read at its start. *)
RecordBlockOnly(u, s) ==
  /\ blocked' = blocked \cup {<<u, PeerOf(s)>>}
  /\ UNCHANGED trade

RecordBlock(u, s) ==
  /\ blocked' = blocked \cup {<<u, PeerOf(s)>>}
  /\ trade' = TradesAfterRemove(s)

(* action "block" awaits nothing. *)
BlockPeer(u) ==
  /\ u \in BlockUids
  /\ Open(u)
  /\ session[u].met # None
  /\ RecordBlock(u, session[u])
  /\ session' = SessionsAfterRemove(session[u])
  /\ UNCHANGED <<mode, today, qty, receipt, closing, battleVars, arenaVars,
                 reporting>>

(* action "report" with block = true: recordModerationReport awaits D1, so
   other events run before the block is written.                             *)
ReportPeer(u) ==
  /\ u \in ReportUids
  /\ Open(u)
  /\ session[u].met # None
  /\ \A r \in reporting: r[1] # u              \* bound: one report at a time
  /\ reporting' = reporting \cup {<<u, session[u]>>}
  /\ UNCHANGED <<mode, today, qty, blocked, socketVars, battleVars, arenaVars,
                 tradeVars>>

ReportRecorded(u, s) ==
  /\ <<u, s>> \in reporting
  /\ reporting' = reporting \ {<<u, s>>}
  /\ RecordBlock(u, s)
  /\ session' = SessionsAfterRemove(s)
  /\ UNCHANGED <<mode, today, qty, receipt, closing, battleVars, arenaVars>>

(* unblockPlayer: the token of listBlocks names one row of the caller, which
   gets its token when it is listed if it has none.                          *)
Unblock(u, v) ==
  /\ Open(u)
  /\ <<u, v>> \in blocked
  /\ blocked' = blocked \ {<<u, v>>}
  /\ UNCHANGED <<mode, today, qty, socketVars, battleVars, arenaVars,
                 tradeVars, reporting>>
=============================================================================
