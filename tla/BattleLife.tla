----------------------------- MODULE BattleLife ------------------------------
(***************************************************************************)
(* What a hosted battle promises its two players, whatever happens to      *)
(* their sockets: it opens once, nobody is beaten while disconnected, a    *)
(* missing player can only make it end without a result, and a result is   *)
(* final.  Pool (battles as rows) and Combat (one battle in detail) both   *)
(* implement this contract.                                                *)
(***************************************************************************)
EXTENDS FiniteSets

CONSTANTS Uids, Ids, None

VARIABLE life   \* the life of the battle of each id

Outcomes == {"none", "open", "interrupted", "won"}

Life == [players: SUBSET Uids, ready: SUBSET Uids, gone: SUBSET Uids,
         outcome: Outcomes, winner: Uids \cup {None}]

Unborn == [players |-> {}, ready |-> {}, gone |-> {}, outcome |-> "none",
           winner |-> None]

Opened(u, v) == [Unborn EXCEPT !.players = {u, v}, !.outcome = "open"]

-----------------------------------------------------------------------------
(* Steps of one battle, from b to c. *)

Opens(b, c) ==
  /\ b = Unborn
  /\ \E u, v \in Uids: u # v /\ c = Opened(u, v)

GetsReady(b, c) ==
  /\ b.gone = {}
  /\ \E u \in b.players: c = [b EXCEPT !.ready = @ \cup {u}]

Leaves(b, c) == \E u \in b.players: c = [b EXCEPT !.gone = @ \cup {u}]

Returns(b, c) == \E u \in b.gone: c = [b EXCEPT !.gone = @ \ {u}]

(* A player falls only while both are here and both have started. *)
Wins(b, c) ==
  /\ b.gone = {} /\ b.ready = b.players
  /\ \E u \in b.players: c = [b EXCEPT !.outcome = "won", !.winner = u]

(* A player who is here gives up; the other one may be away. *)
GivesUp(b, c) ==
  \E u, v \in b.players:
    u # v /\ u \notin b.gone /\ c = [b EXCEPT !.outcome = "won", !.winner = v]

BreaksOff(b, c) ==
  /\ b.gone # {}
  /\ c = [b EXCEPT !.outcome = "interrupted", !.gone = {}]

Step(b, c) ==
  \/ Opens(b, c)
  \/ /\ b.outcome = "open"
     /\ \/ GetsReady(b, c) \/ Leaves(b, c) \/ Returns(b, c) \/ Wins(b, c)
        \/ GivesUp(b, c) \/ BreaksOff(b, c)

Init == \A m \in Ids: life[m] = Unborn \/ \E u, v \in Uids: u # v /\ life[m] = Opened(u, v)

Next == \A m \in Ids: life'[m] = life[m] \/ Step(life[m], life'[m])

Spec == Init /\ [][Next]_life
=============================================================================
