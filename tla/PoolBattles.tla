----------------------------- MODULE PoolBattles -----------------------------
(***************************************************************************)
(* Battle side of the MatchmakingPool: the queue, the life of a battle row *)
(* from createMatch to its settlement, the reconnect deadline and the      *)
(* alarm.  What happens inside a battle is the module Combat.              *)
(***************************************************************************)
EXTENDS PoolState

(* What a client may send as its team: animals of the catalog, each as often as
   it likes.                                                                 *)
RequestedTeams == [1 .. TeamSize -> Items]

(* Different animals, all of them in the Online Roster. *)
TrustedBattleTeam(u, team) ==
  \A k \in 1 .. TeamSize:
    /\ qty[u][team[k]] > 0
    /\ \A n \in 1 .. TeamSize: team[n] = team[k] => n = k

(* queue.  Which waiting players are near enough in rating is left open here
   (the module Arena has the windows), so a seeker with an eligible opponent
   may also wait.                                                            *)
WaitingSockets(u) ==
  {v \in Uids \ {u}: /\ session[v].state = "queued"
                     /\ ~PlayersAreBlocked(u, v)}

Matched(u, v, m) == [session[u] EXCEPT !.state = "matched", !.matchId = m,
                                       !.peer = v, !.met = Met(u, v)]

CreateMatch(u, v, m) ==
  /\ NewMatch(m)
  /\ session' = [session EXCEPT ![u] = Matched(u, v, m),
                                ![v] = Matched(v, u, m)]
  /\ battle' = [battle EXCEPT ![m] = [NoBattle EXCEPT !.first = u,
                                                      !.second = v]]
  /\ alarm' = NeedsAlarm(battle')

QueueGuard(u) ==
  /\ Speaks(u, "battle")
  /\ mode = "active"
  /\ u \in BattleUids
  /\ session[u].state # "matched"
  /\ \E team \in RequestedTeams: TrustedBattleTeam(u, team)

Queue(u) ==
  /\ QueueGuard(u)
  /\ \/ /\ session' = [session EXCEPT ![u].state = "queued"]
        /\ UNCHANGED battleVars
     \/ \E v \in WaitingSockets(u), m \in Matches: CreateMatch(u, v, m)
  /\ UNCHANGED <<mode, today, qty, closing, arenaVars, tradeVars, safetyVars>>

(* cancel *)
Cancel(u) ==
  /\ Speaks(u, "battle")
  /\ session[u].state # "matched"
  /\ session' = [session EXCEPT ![u].state = "ready"]
  /\ UNCHANGED <<mode, today, qty, closing, battleVars, arenaVars, tradeVars,
                 safetyVars>>

-----------------------------------------------------------------------------
(* handleBattle *)

InBattle(u, m) ==
  /\ Speaks(u, "battle")
  /\ session[u].state = "matched"
  /\ session[u].matchId = m
  /\ Live(battle[m])

(* grantDailyRosterReward, for the players who have none of this day. *)
GrantEveryBattle(players, gift) ==
  /\ granted' = [u \in Uids |->
       IF u \in players THEN [granted[u] EXCEPT ![today] = gift[u]]
       ELSE granted[u]]
  /\ qty' = [u \in Uids |->
       IF u \in players THEN [qty[u] EXCEPT ![gift[u]] = @ + 1] ELSE qty[u]]

GrantDailyRosterReward(players, gift) ==
  LET due == {u \in players: granted[u][today] = None} IN
  /\ granted' = [u \in Uids |->
       IF u \in due THEN [granted[u] EXCEPT ![today] = gift[u]]
       ELSE granted[u]]
  /\ qty' = [u \in Uids |->
       IF u \in due THEN [qty[u] EXCEPT ![gift[u]] = @ + 1] ELSE qty[u]]

(* settleBattle: one transaction for both players, once for a match. *)
SettleBattle(m, b) ==
  IF settlement[m] # {} THEN UNCHANGED <<arenaVars, qty>>
  ELSE /\ settlement' = [settlement EXCEPT ![m] = Players(b)]
       /\ wins' = [wins EXCEPT ![b.winner] = @ + 1]
       /\ losses' = [losses EXCEPT ![Rival(b, b.winner)] = @ + 1]
       /\ \E gift \in [Players(b) -> Items]:
            GrantDailyRosterReward(Players(b), gift)

(* The end of a battle: writeBattle, settleBattle, releaseBattleSockets. *)
Finish(m, winner) ==
  LET b == [battle[m] EXCEPT !.finished = TRUE, !.winner = winner] IN
  /\ battle' = [battle EXCEPT ![m] = b]
  /\ SettleBattle(m, b)
  /\ session' = BattleReleased(session, Players(b))
  /\ alarm' = NeedsAlarm(battle')
  /\ UNCHANGED <<mode, today, closing, tradeVars, safetyVars>>

(* "ready" *)
MarkReady(u) == \E m \in Matches:
  /\ InBattle(u, m)
  /\ battle[m].gone = {}
  /\ battle' = [battle EXCEPT ![m].ready = @ \cup {u}]
  /\ alarm' = NeedsAlarm(battle')
  /\ UNCHANGED <<mode, today, qty, socketVars, arenaVars, tradeVars,
                 safetyVars>>

(* "ability", when it fells the last of the rival's animals. *)
KnockoutWhilePaused(u) == \E m \in Matches:
  /\ InBattle(u, m)
  /\ Started(battle[m])
  /\ Finish(m, u)

Knockout(u) == \E m \in Matches:
  /\ InBattle(u, m)
  /\ battle[m].gone = {}
  /\ Started(battle[m])
  /\ Finish(m, u)

(* "leave" *)
Leave(u) == \E m \in Matches:
  /\ InBattle(u, m)
  /\ Finish(m, Rival(battle[m], u))

-----------------------------------------------------------------------------
(* Time: the deadline of a paused battle passes, and the alarm goes off.    *)

GraceElapses(m) ==
  /\ Status(battle[m]) = "reconnecting"
  /\ battle[m].grace = "running"
  /\ battle' = [battle EXCEPT ![m].grace = "elapsed"]
  /\ UNCHANGED <<mode, today, qty, socketVars, alarm, arenaVars, tradeVars,
                 safetyVars>>

AlarmDue == {m \in Matches: /\ Status(battle[m]) = "reconnecting"
                            /\ Expired(battle[m])}

(* alarm: every expired battle is interrupted; the clocks of the others are
   the module Combat's.                                                      *)
Alarm ==
  /\ alarm
  /\ AlarmDue # {}
  /\ battle' = [m \in Matches |-> IF m \in AlarmDue THEN Interrupt(battle[m])
                                  ELSE battle[m]]
  /\ session' = BattleReleased(session,
                               UNION {Players(battle[m]): m \in AlarmDue})
  /\ alarm' = NeedsAlarm(battle')
  /\ UNCHANGED <<mode, today, qty, closing, arenaVars, tradeVars, safetyVars>>

DayRolls ==
  /\ today + 1 \in Days
  /\ today' = today + 1
  /\ UNCHANGED <<mode, qty, socketVars, battleVars, arenaVars, tradeVars,
                 safetyVars>>
=============================================================================
