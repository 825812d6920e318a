------------------------- MODULE PoolAttendanceProofs -------------------------
(***************************************************************************)
(* No battle and no trade of the MatchmakingPool is orphaned: the          *)
(* inductive invariant of the attachments and the rows, one lemma for each *)
(* kind of change.  The changes are stated of sessions S, battle rows B    *)
(* and trade rows T, since Connect makes several of them in one step.      *)
(***************************************************************************)
EXTENDS PoolProofs

(* A battle row that was written has two different players; only players are
   missing, a deadline stands while one is, and a winner is a player of a
   finished battle.                                                          *)
SoundBattles ==
  {b \in BattleRow:
     /\ b.first = None => b = NoBattle
     /\ b.first # None => /\ b.first \in Uids /\ b.second \in Uids
                          /\ b.first # b.second
     /\ b.gone \subseteq Players(b)
     /\ ~b.finished => b.winner = None /\ (b.gone = {} <=> b.grace = "none")
     /\ b.winner # None => b.winner \in Players(b)}

Seat(S, u, m) == S[u].state = "matched" /\ S[u].matchId = m

(* The players of a live battle are at it or away from it.  One who mixes
   messages may have been released from it, and may be in another one.       *)
Seated(S, B) ==
  \A m \in Matches: Live(B[m]) =>
    \A u \in Players(B[m]):
      /\ Seat(S, u, m) => u \notin B[m].gone
      /\ u \notin MixedUids =>
           /\ u \in B[m].gone \/ Seat(S, u, m)
           /\ u \in B[m].gone => S[u].state = "closed"
           /\ \A k \in Matches: Live(B[k]) /\ u \in Players(B[k]) => k = m

Placed(S, B) ==
  \A u \in Uids: S[u].state = "matched" =>
    /\ S[u].matchId \in Matches
    /\ Live(B[S[u].matchId])
    /\ u \in Players(B[S[u].matchId])

Bartering(S, T) ==
  /\ \A t \in Trades: T[t].status = "active" =>
       \A u \in Parties(T[t]) \ MixedUids:
         S[u].state = "trading" /\ S[u].tradeId = t
  /\ \A u \in Uids: S[u].state = "trading" =>
       /\ S[u].tradeId \in Trades
       /\ T[S[u].tradeId].status = "active"
       /\ u \in Parties(T[S[u].tradeId])

(* Who does not mix messages searches and trades on the trade screen. *)
ScreensApart(S) ==
  \A u \in Uids \ MixedUids:
    S[u].state \in {"tradeQueued", "trading"} => S[u].screen = "trade"

Attended(S, B, T) ==
  /\ S \in [Uids -> Session]
  /\ B \in [Matches -> SoundBattles]
  /\ T \in [Trades -> SoundTrades]
  /\ Seated(S, B)
  /\ Placed(S, B)
  /\ Bartering(S, T)
  /\ ScreensApart(S)

-----------------------------------------------------------------------------
(* Battle rows *)

LEMMA StatusOf ==
  ASSUME NEW b
  PROVE  /\ Status(b) = "none" <=> b.first = None
         /\ Live(b) <=> b.first # None /\ ~b.finished
         /\ Status(b) = "reconnecting" <=> Live(b) /\ b.gone # {}
         /\ Status(b) = "active" <=> Live(b) /\ b.gone = {} /\ Started(b)
BY DEF Status, Live

LEMMA PlayersOf ==
  ASSUME NEW b \in SoundBattles, b.first # None
  PROVE  /\ Players(b) = {b.first, b.second}
         /\ Players(b) \subseteq Uids
         /\ \A u \in Players(b): /\ Rival(b, u) \in Players(b)
                                 /\ Rival(b, u) # u
                                 /\ Rival(b, Rival(b, u)) = u
BY PoolAssumption DEF SoundBattles, Players, Rival

LEMMA SoundLike ==
  ASSUME NEW b \in SoundBattles, b.first # None, NEW c \in BattleRow,
         c.first = b.first, c.second = b.second, c.gone \subseteq Players(b),
         ~c.finished => c.winner = None /\ (c.gone = {} <=> c.grace = "none"),
         c.winner # None => c.winner \in Players(b)
  PROVE  c \in SoundBattles
<1>1. Players(c) = Players(b)
  BY DEF Players
<1> QED BY <1>1 DEF SoundBattles

LEMMA SoundRows ==
  ASSUME NEW b \in SoundBattles, Live(b), NEW u \in Players(b)
  PROVE  /\ Pause(b, u) \in SoundBattles
         /\ Resume(b, u) \in SoundBattles
         /\ Interrupt(b) \in SoundBattles
         /\ [b EXCEPT !.ready = @ \cup {u}] \in SoundBattles
         /\ b.gone # {} => [b EXCEPT !.grace = "elapsed"] \in SoundBattles
         /\ [b EXCEPT !.finished = TRUE, !.winner = u] \in SoundBattles
<1>1. /\ b \in BattleRow /\ b.first # None /\ ~b.finished /\ u \in Uids
      /\ b.winner = None
      /\ b.gone \subseteq Players(b) /\ (b.gone = {} <=> b.grace = "none")
  BY StatusOf, PlayersOf DEF SoundBattles
<1>2. Pause(b, u) \in SoundBattles
  <2>1. CASE u \in b.gone
    BY <2>1 DEF Pause
  <2>2. CASE u \notin b.gone
    <3>. DEFINE c == Pause(b, u)
    <3>1. c \in BattleRow
      BY <1>1, BattleRowTyped
    <3>2. c = [b EXCEPT !.gone = @ \cup {u},
                        !.grace = IF @ = "none" THEN "running" ELSE @]
      BY <1>1, <2>2 DEF Pause
    <3>3. /\ c.first = b.first /\ c.second = b.second
          /\ c.gone = b.gone \cup {u} /\ c.winner = b.winner
          /\ c.grace = IF b.grace = "none" THEN "running" ELSE b.grace
      BY <1>1, <3>2 DEF BattleRow
    <3>. HIDE DEF c
    <3>4. c \in SoundBattles
      BY <1>1, <3>1, <3>3, SoundLike
    <3> QED BY <3>4 DEF c
  <2> QED BY <2>1, <2>2
<1>3. Resume(b, u) \in SoundBattles
  <2>. DEFINE c == Resume(b, u)
  <2>1. c \in BattleRow
    BY <1>1, BattleRowTyped
  <2>2. /\ c.first = b.first /\ c.second = b.second
        /\ c.gone = b.gone \ {u} /\ c.winner = b.winner
        /\ c.grace = IF b.gone \ {u} = {} THEN "none" ELSE b.grace
    BY <1>1 DEF Resume, BattleRow
  <2>. HIDE DEF c
  <2>3. c.gone \subseteq Players(b) /\ (c.gone = {} <=> c.grace = "none")
    BY <1>1, <2>2
  <2>4. c \in SoundBattles
    BY <1>1, <2>1, <2>2, <2>3, SoundLike
  <2> QED BY <2>4 DEF c
<1>4. Interrupt(b) \in SoundBattles
  <2>. DEFINE c == Interrupt(b)
  <2>1. c \in BattleRow
    BY <1>1, GraceRowTyped
  <2>2. /\ c.first = b.first /\ c.second = b.second
        /\ c.gone = {} /\ c.winner = b.winner /\ c.finished
    BY <1>1 DEF Interrupt, BattleRow
  <2>. HIDE DEF c
  <2>3. c \in SoundBattles
    BY <1>1, <2>1, <2>2, SoundLike
  <2> QED BY <2>3 DEF c
<1>5. [b EXCEPT !.ready = @ \cup {u}] \in SoundBattles
  <2>. DEFINE c == [b EXCEPT !.ready = @ \cup {u}]
  <2>1. c \in BattleRow
    BY <1>1, BattleRowTyped
  <2>2. /\ c.first = b.first /\ c.second = b.second /\ c.gone = b.gone
        /\ c.winner = b.winner /\ c.grace = b.grace
    BY <1>1 DEF BattleRow
  <2>. HIDE DEF c
  <2>3. c \in SoundBattles
    BY <1>1, <2>1, <2>2, SoundLike
  <2> QED BY <2>3 DEF c
<1>6. ASSUME b.gone # {} PROVE [b EXCEPT !.grace = "elapsed"] \in SoundBattles
  <2>. DEFINE c == [b EXCEPT !.grace = "elapsed"]
  <2>1. c \in BattleRow
    BY <1>1, GraceRowTyped
  <2>2. /\ c.first = b.first /\ c.second = b.second /\ c.gone = b.gone
        /\ c.winner = b.winner /\ c.grace = "elapsed"
    BY <1>1 DEF BattleRow
  <2>. HIDE DEF c
  <2>3. c \in SoundBattles
    BY <1>1, <1>6, <2>1, <2>2, SoundLike
  <2> QED BY <2>3 DEF c
<1>7. [b EXCEPT !.finished = TRUE, !.winner = u] \in SoundBattles
  <2>. DEFINE c == [b EXCEPT !.finished = TRUE, !.winner = u]
  <2>1. c \in BattleRow
    BY <1>1, FinishedRowTyped
  <2>2. /\ c.first = b.first /\ c.second = b.second /\ c.gone = b.gone
        /\ c.winner = u /\ c.finished
    BY <1>1 DEF BattleRow
  <2>. HIDE DEF c
  <2>3. c \in SoundBattles
    BY <1>1, <2>1, <2>2, SoundLike
  <2> QED BY <2>3 DEF c
<1> QED BY <1>2, <1>3, <1>4, <1>5, <1>6, <1>7

LEMMA NewRow ==
  ASSUME NEW u \in Uids, NEW v \in Uids, u # v
  PROVE  LET b == [NoBattle EXCEPT !.first = u, !.second = v]
         IN  b \in SoundBattles /\ Live(b) /\ b.gone = {}
             /\ Players(b) = {u, v}
<1>. DEFINE b == [NoBattle EXCEPT !.first = u, !.second = v]
<1>1. b \in BattleRow
  BY NoBattleTyped, BattleRowTyped
<1>2. /\ b.first = u /\ b.second = v /\ b.gone = {} /\ ~b.finished
      /\ b.winner = None /\ b.grace = "none"
  BY DEF NoBattle
<1>. HIDE DEF b
<1>3. Players(b) = {u, v} /\ u # None
  BY <1>2, PoolAssumption DEF Players
<1>4. b \in SoundBattles /\ Live(b)
  BY <1>1, <1>2, <1>3, StatusOf DEF SoundBattles
<1> QED BY <1>2, <1>3, <1>4 DEF b
-----------------------------------------------------------------------------
(* Changes of attachments only, and of rows only *)

(* A player who holds no place in a battle or a trade, or who mixes messages
   and leaves a trade, waits or rests or is gone afterwards.                 *)
Idles(S, R, u) ==
  /\ S[u].state \notin {"matched", "closed"}
  /\ S[u].state = "trading" => u \in MixedUids
  /\ R[u].state \notin {"matched", "trading"}
  /\ R[u].state = "tradeQueued" => u \in MixedUids \/ R[u].screen = "trade"

LEMMA IdlingKeeps ==
  ASSUME NEW S, NEW B, NEW T, Attended(S, B, T), NEW R \in [Uids -> Session],
         \A u \in Uids: R[u] = S[u] \/ Idles(S, R, u)
  PROVE  Attended(R, B, T)
<1>1. \A m \in Matches: Live(B[m]) => Players(B[m]) \subseteq Uids
  BY PlayersOf, StatusOf DEF Attended
<1>2. Seated(R, B)
  BY <1>1 DEF Attended, Seated, Seat, Idles
<1>3. Placed(R, B)
  BY DEF Attended, Placed, Idles
<1>4. \A t \in Trades: Parties(T[t]) \subseteq Uids
  BY EndedRowTyped DEF Attended
<1>5. Bartering(R, T)
  BY <1>4 DEF Attended, Bartering, Idles
<1>6. ScreensApart(R)
  BY DEF Attended, ScreensApart, Idles
<1> QED BY <1>2, <1>3, <1>5, <1>6 DEF Attended

(* The rows keep their players and whether they are live. *)
LEMMA RowsKeep ==
  ASSUME NEW S, NEW B, NEW T, Attended(S, B, T),
         NEW C \in [Matches -> SoundBattles],
         NEW W \in [Trades -> SoundTrades],
         \A m \in Matches: /\ C[m].first = B[m].first
                           /\ C[m].second = B[m].second
                           /\ C[m].gone = B[m].gone
                           /\ C[m].finished = B[m].finished,
         \A t \in Trades: /\ W[t].first = T[t].first
                          /\ W[t].second = T[t].second
                          /\ W[t].status = T[t].status
  PROVE  Attended(S, C, W)
<1>1. \A m \in Matches: (Live(C[m]) <=> Live(B[m])) /\ Players(C[m]) = Players(B[m])
  BY StatusOf DEF Players
<1>2. \A t \in Trades: Parties(W[t]) = Parties(T[t])
  BY DEF Parties
<1> QED BY <1>1, <1>2 DEF Attended, Seated, Placed, Bartering

-----------------------------------------------------------------------------
(* Ends *)

(* A trade ends and releases its parties, wherever they are now. *)
LEMMA TradeEndKeeps ==
  ASSUME NEW S, NEW B, NEW T, Attended(S, B, T), NEW t \in Trades,
         T[t].status = "active", NEW W \in [Trades -> SoundTrades],
         W[t].status # "active", \A k \in Trades \ {t}: W[k] = T[k]
  PROVE  Attended(TradeReleased(S, Parties(T[t])), B, W)
<1>. DEFINE R == TradeReleased(S, Parties(T[t]))
<1>1. R \in [Uids -> Session]
  BY ReleasedTyped DEF Attended
<1>2. \A u \in Uids:
        \/ R[u] = S[u] /\ (u \notin Parties(T[t]) \/ S[u].state = "closed")
        \/ /\ u \in Parties(T[t]) /\ S[u].state # "closed"
           /\ R[u].state = "ready"
  BY DEF TradeReleased, ReleaseTrade, Attended, Session
<1>3. \A u \in Uids: u \in Parties(T[t]) /\ u \notin MixedUids =>
        S[u].state = "trading" /\ S[u].tradeId = t
  BY DEF Attended, Bartering
<1>. HIDE DEF R
<1>4. \A m \in Matches: Live(B[m]) => Players(B[m]) \subseteq Uids
  BY PlayersOf, StatusOf DEF Attended
<1>5. Seated(R, B)
  BY <1>2, <1>3, <1>4 DEF Attended, Seated, Seat
<1>6. Placed(R, B)
  BY <1>2 DEF Attended, Placed
<1>7. \A k \in Trades: Parties(T[k]) \subseteq Uids
  BY EndedRowTyped DEF Attended
<1>8. Bartering(R, W)
  <2>1. ASSUME NEW k \in Trades, W[k].status = "active",
               NEW u \in Parties(W[k]) \ MixedUids
        PROVE  R[u].state = "trading" /\ R[u].tradeId = k
    <3>1. k # t /\ W[k] = T[k] /\ u \in Uids
      BY <2>1, <1>7
    <3>2. S[u].state = "trading" /\ S[u].tradeId = k
      BY <2>1, <3>1 DEF Attended, Bartering
    <3> QED BY <1>2, <1>3, <2>1, <3>1, <3>2
  <2>2. ASSUME NEW u \in Uids, R[u].state = "trading"
        PROVE  /\ R[u].tradeId \in Trades
               /\ W[R[u].tradeId].status = "active"
               /\ u \in Parties(W[R[u].tradeId])
    <3>1. R[u] = S[u] /\ u \notin Parties(T[t])
      BY <1>2, <2>2
    <3>2. /\ S[u].tradeId \in Trades
          /\ T[S[u].tradeId].status = "active"
          /\ u \in Parties(T[S[u].tradeId])
      BY <2>2, <3>1 DEF Attended, Bartering
    <3> QED BY <3>1, <3>2
  <2> QED BY <2>1, <2>2 DEF Bartering
<1>9. ScreensApart(R)
  BY <1>2 DEF Attended, ScreensApart
<1> QED BY <1>1, <1>5, <1>6, <1>8, <1>9 DEF Attended, R

(* Battles end and release their players, wherever they are now. *)
LEMMA BattlesEndKeeps ==
  ASSUME NEW S, NEW B, NEW T, Attended(S, B, T),
         NEW M \in SUBSET Matches, \A m \in M: Live(B[m]),
         NEW C \in [Matches -> SoundBattles],
         \A m \in M: ~Live(C[m]), \A k \in Matches \ M: C[k] = B[k],
         NEW P, \A u \in Uids: u \in P <=> \E m \in M: u \in Players(B[m])
  PROVE  Attended(BattleReleased(S, P), C, T)
<1>. DEFINE R == BattleReleased(S, P)
<1>1. R \in [Uids -> Session]
  BY ReleasedTyped DEF Attended
<1>2. \A u \in Uids:
        \/ R[u] = S[u] /\ (u \notin P \/ S[u].state = "closed")
        \/ u \in P /\ S[u].state # "closed" /\ R[u].state = "ready"
  BY DEF BattleReleased, ReleaseBattle, Attended, Session
<1>3. \A u \in Uids: u \in P <=> \E m \in M: u \in Players(B[m])
  OBVIOUS
<1>. HIDE DEF R
<1>4. \A m \in Matches: Live(B[m]) => Players(B[m]) \subseteq Uids
  BY PlayersOf, StatusOf DEF Attended
<1>5. Seated(R, C)
  <2> SUFFICES ASSUME NEW m \in Matches, Live(C[m]), NEW u \in Players(C[m])
               PROVE
        /\ Seat(R, u, m) => u \notin C[m].gone
        /\ u \notin MixedUids =>
             /\ u \in C[m].gone \/ Seat(R, u, m)
             /\ u \in C[m].gone => R[u].state = "closed"
             /\ \A k \in Matches: Live(C[k]) /\ u \in Players(C[k]) => k = m
    BY DEF Seated
  <2>1. m \notin M /\ C[m] = B[m] /\ Live(B[m]) /\ u \in Uids
    BY <1>4
  <2>2. /\ Seat(S, u, m) => u \notin B[m].gone
        /\ u \notin MixedUids =>
             /\ u \in B[m].gone \/ Seat(S, u, m)
             /\ u \in B[m].gone => S[u].state = "closed"
             /\ \A k \in Matches: Live(B[k]) /\ u \in Players(B[k]) => k = m
    BY <2>1 DEF Attended, Seated
  <2>3. u \notin MixedUids => u \notin P
    BY <1>3, <2>1, <2>2
  <2>4. \A k \in Matches: Live(C[k]) => C[k] = B[k]
    OBVIOUS
  <2> QED BY <1>2, <2>1, <2>2, <2>3, <2>4 DEF Seat
<1>6. Placed(R, C)
  <2> SUFFICES ASSUME NEW u \in Uids, R[u].state = "matched"
               PROVE  /\ R[u].matchId \in Matches
                      /\ Live(C[R[u].matchId])
                      /\ u \in Players(C[R[u].matchId])
    BY DEF Placed
  <2>1. R[u] = S[u] /\ u \notin P
    BY <1>2
  <2>2. /\ S[u].matchId \in Matches
        /\ Live(B[S[u].matchId])
        /\ u \in Players(B[S[u].matchId])
    BY <2>1 DEF Attended, Placed
  <2> QED BY <1>3, <2>1, <2>2
<1>7. \A u \in Uids: u \in P /\ u \notin MixedUids => S[u].state # "trading"
  <2> SUFFICES ASSUME NEW m \in M, NEW u \in Players(B[m]), u \notin MixedUids
               PROVE  S[u].state # "trading"
    BY <1>3
  <2> QED BY DEF Attended, Seated, Seat
<1>8. \A k \in Trades: Parties(T[k]) \subseteq Uids
  BY EndedRowTyped DEF Attended
<1>9. Bartering(R, T)
  BY <1>2, <1>7, <1>8 DEF Attended, Bartering
<1>10. ScreensApart(R)
  BY <1>2 DEF Attended, ScreensApart
<1> QED BY <1>1, <1>5, <1>6, <1>9, <1>10 DEF Attended, R
-----------------------------------------------------------------------------
(* Beginnings *)

(* Who is here without a battle is a player of no live one. *)
LEMMA Unseated ==
  ASSUME NEW S, NEW B, NEW T, Attended(S, B, T), NEW u \in Uids,
         S[u].state \notin {"matched", "closed"}, u \notin MixedUids
  PROVE  \A k \in Matches: Live(B[k]) => u \notin Players(B[k])
BY DEF Attended, Seated, Seat

LEMMA NewBattleKeeps ==
  ASSUME NEW S, NEW B, NEW T, Attended(S, B, T), NEW m \in Matches,
         B[m].first = None, NEW u \in Uids, NEW v \in Uids, u # v,
         \A w \in {u, v}: /\ S[w].state \notin {"matched", "closed"}
                          /\ S[w].state = "trading" => w \in MixedUids,
         NEW R \in [Uids -> Session],
         \A w \in {u, v}: Seat(R, w, m),
         \A w \in Uids \ {u, v}: R[w] = S[w],
         NEW C \in [Matches -> SoundBattles],
         Live(C[m]), C[m].gone = {}, Players(C[m]) = {u, v},
         \A k \in Matches \ {m}: C[k] = B[k]
  PROVE  Attended(R, C, T)
<1>1. ~Live(B[m])
  BY StatusOf
<1>2. \A k \in Matches \ {m}: C[k] = B[k]
  OBVIOUS
<1>3. /\ ~Live(B[m]) /\ Live(C[m]) /\ C[m].gone = {}
      /\ Players(C[m]) = {u, v}
  BY <1>1
<1>4. \A k \in Matches: Live(B[k]) => Players(B[k]) \subseteq Uids
  BY PlayersOf, StatusOf DEF Attended
<1>5. \A w \in {u, v} \ MixedUids, k \in Matches:
        Live(B[k]) => w \notin Players(B[k])
  BY Unseated
<1>6. Seated(R, C)
  <2> SUFFICES ASSUME NEW k \in Matches, Live(C[k]), NEW w \in Players(C[k])
               PROVE
        /\ Seat(R, w, k) => w \notin C[k].gone
        /\ w \notin MixedUids =>
             /\ w \in C[k].gone \/ Seat(R, w, k)
             /\ w \in C[k].gone => R[w].state = "closed"
             /\ \A n \in Matches: Live(C[n]) /\ w \in Players(C[n]) => n = k
    BY DEF Seated
  <2>1. CASE k = m
    BY <1>2, <1>3, <1>5, <2>1
  <2>2. CASE k # m
    <3>1. C[k] = B[k] /\ w \in Uids
      BY <1>2, <1>4, <2>2
    <3>2. /\ Seat(S, w, k) => w \notin B[k].gone
          /\ w \notin MixedUids =>
               /\ w \in B[k].gone \/ Seat(S, w, k)
               /\ w \in B[k].gone => S[w].state = "closed"
               /\ \A n \in Matches: Live(B[n]) /\ w \in Players(B[n]) => n = k
      BY <3>1 DEF Attended, Seated
    <3>3. CASE w \in {u, v}
      <4>1. w \in MixedUids
        BY <1>5, <3>1, <3>3
      <4>2. ~Seat(R, w, k)
        BY <2>2, <3>3 DEF Seat
      <4> QED BY <4>1, <4>2
    <3>4. CASE w \notin {u, v}
      <4>1. R[w] = S[w]
        BY <3>1, <3>4
      <4>2. \A n \in Matches: Live(C[n]) /\ w \in Players(C[n]) =>
                                Live(B[n]) /\ w \in Players(B[n])
        BY <1>2, <1>3, <3>4
      <4> QED BY <3>1, <3>2, <4>1, <4>2 DEF Seat
    <3> QED BY <3>3, <3>4
  <2> QED BY <2>1, <2>2
<1>7. Placed(R, C)
  <2> SUFFICES ASSUME NEW w \in Uids, R[w].state = "matched"
               PROVE  /\ R[w].matchId \in Matches
                      /\ Live(C[R[w].matchId])
                      /\ w \in Players(C[R[w].matchId])
    BY DEF Placed
  <2>1. CASE w \in {u, v}
    BY <1>3, <2>1 DEF Seat
  <2>2. CASE w \notin {u, v}
    BY <1>2, <1>3, <2>2 DEF Attended, Placed
  <2> QED BY <2>1, <2>2
<1>8. \A t \in Trades: Parties(T[t]) \subseteq Uids
  BY EndedRowTyped DEF Attended
<1>9. Bartering(R, T)
  BY <1>8 DEF Attended, Bartering, Seat
<1>10. ScreensApart(R)
  BY DEF Attended, ScreensApart, Seat
<1> QED BY <1>6, <1>7, <1>9, <1>10 DEF Attended

LEMMA NewTradeKeeps ==
  ASSUME NEW S, NEW B, NEW T, Attended(S, B, T), NEW t \in Trades,
         T[t].status = "none", NEW u \in Uids, NEW v \in Uids, u # v,
         \A w \in {u, v}: S[w].state \notin {"matched", "closed", "trading"},
         NEW R \in [Uids -> Session],
         \A w \in {u, v}: /\ R[w].state = "trading" /\ R[w].tradeId = t
                          /\ w \in MixedUids \/ R[w].screen = "trade",
         \A w \in Uids \ {u, v}: R[w] = S[w],
         NEW W \in [Trades -> SoundTrades], W[t].status = "active",
         Parties(W[t]) = {u, v}, \A k \in Trades \ {t}: W[k] = T[k]
  PROVE  Attended(R, B, W)
<1>2. /\ W[t].status = "active" /\ Parties(W[t]) = {u, v}
      /\ \A k \in Trades \ {t}: W[k] = T[k]
  OBVIOUS
<1>3. \A k \in Matches: Live(B[k]) => Players(B[k]) \subseteq Uids
  BY PlayersOf, StatusOf DEF Attended
<1>4. Seated(R, B)
  BY <1>3 DEF Attended, Seated, Seat
<1>5. Placed(R, B)
  BY DEF Attended, Placed
<1>6. \A k \in Trades: Parties(T[k]) \subseteq Uids
  BY EndedRowTyped DEF Attended
<1>7. Bartering(R, W)
  <2>1. ASSUME NEW k \in Trades, W[k].status = "active",
               NEW w \in Parties(W[k]) \ MixedUids
        PROVE  R[w].state = "trading" /\ R[w].tradeId = k
    <3>1. CASE k = t
      BY <1>2, <2>1, <3>1
    <3>2. CASE k # t
      <4>1. w \in Uids /\ S[w].state = "trading" /\ S[w].tradeId = k
        BY <1>2, <1>6, <2>1, <3>2 DEF Attended, Bartering
      <4> QED BY <4>1
    <3> QED BY <3>1, <3>2
  <2>2. ASSUME NEW w \in Uids, R[w].state = "trading"
        PROVE  /\ R[w].tradeId \in Trades
               /\ W[R[w].tradeId].status = "active"
               /\ w \in Parties(W[R[w].tradeId])
    <3>1. CASE w \in {u, v}
      BY <1>2, <3>1
    <3>2. CASE w \notin {u, v}
      <4>1. /\ R[w] = S[w] /\ S[w].tradeId \in Trades
            /\ T[S[w].tradeId].status = "active"
            /\ w \in Parties(T[S[w].tradeId])
        BY <2>2, <3>2 DEF Attended, Bartering
      <4> QED BY <1>2, <4>1
    <3> QED BY <3>1, <3>2
  <2> QED BY <2>1, <2>2 DEF Bartering
<1>8. ScreensApart(R)
  BY DEF Attended, ScreensApart
<1> QED BY <1>4, <1>5, <1>7, <1>8 DEF Attended

-----------------------------------------------------------------------------
(* Leaving and coming back *)

(* A player at a battle loses the socket. *)
LEMMA PauseKeeps ==
  ASSUME NEW S, NEW B, NEW T, Attended(S, B, T), NEW u \in Uids,
         NEW m \in Matches, Seat(S, u, m)
  PROVE  Attended([S EXCEPT ![u] = Closed],
                  [B EXCEPT ![m] = Pause(B[m], u)], T)
<1>. DEFINE R == [S EXCEPT ![u] = Closed]
            C == [B EXCEPT ![m] = Pause(B[m], u)]
<1>1. B[m] \in SoundBattles /\ Live(B[m]) /\ u \in Players(B[m])
  BY DEF Attended, Placed, Seat
<1>2. R \in [Uids -> Session] /\ C \in [Matches -> SoundBattles]
  BY <1>1, SoundRows, FreshTyped DEF Attended
<1>3. /\ R[u].state = "closed"
      /\ \A w \in Uids \ {u}: R[w] = S[w]
      /\ \A k \in Matches \ {m}: C[k] = B[k]
  BY DEF Attended, Closed, Fresh
<1>4. /\ C[m].gone = B[m].gone \cup {u}
      /\ Players(C[m]) = Players(B[m])
      /\ Live(C[m])
  <2>1. /\ C[m].first = B[m].first /\ C[m].second = B[m].second
        /\ C[m].gone = B[m].gone \cup {u} /\ C[m].finished = B[m].finished
    BY <1>1, StatusOf DEF Pause, Attended, SoundBattles, BattleRow
  <2> QED BY <1>1, <2>1, StatusOf DEF Players
<1>. HIDE DEF R, C
<1>5. \A k \in Matches: Live(B[k]) => Players(B[k]) \subseteq Uids
  BY PlayersOf, StatusOf DEF Attended
<1>6. Seated(R, C)
  <2> SUFFICES ASSUME NEW k \in Matches, Live(C[k]), NEW w \in Players(C[k])
               PROVE
        /\ Seat(R, w, k) => w \notin C[k].gone
        /\ w \notin MixedUids =>
             /\ w \in C[k].gone \/ Seat(R, w, k)
             /\ w \in C[k].gone => R[w].state = "closed"
             /\ \A n \in Matches: Live(C[n]) /\ w \in Players(C[n]) => n = k
    BY DEF Seated
  <2>1. \A n \in Matches: Live(C[n]) => Live(B[n]) /\ Players(C[n]) = Players(B[n])
    BY <1>1, <1>3, <1>4
  <2>2. w \in Uids
    BY <1>5, <2>1
  <2>3. /\ Seat(S, w, k) => w \notin B[k].gone
        /\ w \notin MixedUids =>
             /\ w \in B[k].gone \/ Seat(S, w, k)
             /\ w \in B[k].gone => S[w].state = "closed"
             /\ \A n \in Matches: Live(B[n]) /\ w \in Players(B[n]) => n = k
    BY <2>1 DEF Attended, Seated
  <2>4. CASE w = u
    <3>1. ~Seat(R, u, k)
      BY <1>3 DEF Seat
    <3>2. u \notin MixedUids => k = m
      BY <1>1, <2>3, <2>4
    <3> QED BY <1>3, <1>4, <2>1, <2>3, <2>4, <3>1, <3>2
  <2>5. CASE w # u
    <3>1. R[w] = S[w] /\ (w \in C[k].gone <=> w \in B[k].gone)
      BY <1>3, <1>4, <2>2, <2>5
    <3> QED BY <2>1, <2>3, <3>1 DEF Seat
  <2> QED BY <2>4, <2>5
<1>7. Placed(R, C)
  BY <1>1, <1>3, <1>4 DEF Attended, Placed
<1>8. \A t \in Trades: Parties(T[t]) \subseteq Uids
  BY EndedRowTyped DEF Attended
<1>9. Bartering(R, T)
  BY <1>3, <1>8 DEF Attended, Bartering, Seat
<1>10. ScreensApart(R)
  BY <1>3 DEF Attended, ScreensApart
<1> QED BY <1>2, <1>6, <1>7, <1>9, <1>10 DEF Attended, R, C

(* A new socket of a player whom no battle waits for. *)
LEMMA FreshKeeps ==
  ASSUME NEW S, NEW B, NEW T, Attended(S, B, T), NEW u \in Uids,
         NEW screen \in {"battle", "trade"}, S[u].state = "closed",
         u \in MixedUids \/ \A m \in Matches: Live(B[m]) => u \notin Players(B[m])
  PROVE  Attended([S EXCEPT ![u] = Fresh(screen)], B, T)
<1>. DEFINE R == [S EXCEPT ![u] = Fresh(screen)]
<1>1. /\ R \in [Uids -> Session]
      /\ R[u].state = "ready"
      /\ \A w \in Uids \ {u}: R[w] = S[w]
  BY FreshTyped DEF Attended, Fresh
<1>. HIDE DEF R
<1>2. \A k \in Matches: Live(B[k]) => Players(B[k]) \subseteq Uids
  BY PlayersOf, StatusOf DEF Attended
<1>3. Seated(R, B)
  <2> SUFFICES ASSUME NEW k \in Matches, Live(B[k]), NEW w \in Players(B[k])
               PROVE
        /\ Seat(R, w, k) => w \notin B[k].gone
        /\ w \notin MixedUids =>
             /\ w \in B[k].gone \/ Seat(R, w, k)
             /\ w \in B[k].gone => R[w].state = "closed"
             /\ \A n \in Matches: Live(B[n]) /\ w \in Players(B[n]) => n = k
    BY DEF Seated
  <2>1. CASE w = u
    BY <1>1, <2>1 DEF Seat
  <2>2. CASE w # u
    <3>1. R[w] = S[w]
      BY <1>1, <1>2, <2>2
    <3> QED BY <3>1 DEF Attended, Seated, Seat
  <2> QED BY <2>1, <2>2
<1>4. Placed(R, B)
  BY <1>1 DEF Attended, Placed
<1>5. \A t \in Trades: Parties(T[t]) \subseteq Uids
  BY EndedRowTyped DEF Attended
<1>6. Bartering(R, T)
  BY <1>1, <1>5 DEF Attended, Bartering
<1>7. ScreensApart(R)
  BY <1>1 DEF Attended, ScreensApart
<1> QED BY <1>1, <1>3, <1>4, <1>6, <1>7 DEF Attended, R

(* A missing player is back. *)
LEMMA ResumeKeeps ==
  ASSUME NEW S, NEW B, NEW T, Attended(S, B, T), NEW u \in Uids,
         S[u].state = "closed", NEW m \in Matches, Live(B[m]),
         u \in Players(B[m]), u \in B[m].gone,
         NEW R \in [Uids -> Session], Seat(R, u, m),
         \A w \in Uids \ {u}: R[w] = S[w]
  PROVE  Attended(R, [B EXCEPT ![m] = Resume(B[m], u)], T)
<1>. DEFINE C == [B EXCEPT ![m] = Resume(B[m], u)]
<1>1. B[m] \in SoundBattles
  BY DEF Attended
<1>2. C \in [Matches -> SoundBattles]
  BY <1>1, SoundRows DEF Attended
<1>3. \A k \in Matches \ {m}: C[k] = B[k]
  BY DEF Attended
<1>4. /\ C[m].gone = B[m].gone \ {u}
      /\ Players(C[m]) = Players(B[m])
      /\ Live(C[m])
  <2>1. /\ C[m].first = B[m].first /\ C[m].second = B[m].second
        /\ C[m].gone = B[m].gone \ {u} /\ C[m].finished = B[m].finished
    BY <1>1 DEF Resume, Attended, SoundBattles, BattleRow
  <2> QED BY <2>1, StatusOf DEF Players
<1>. HIDE DEF C
<1>5. \A k \in Matches: Live(B[k]) => Players(B[k]) \subseteq Uids
  BY PlayersOf, StatusOf DEF Attended
<1>6. Seated(R, C)
  <2> SUFFICES ASSUME NEW k \in Matches, Live(C[k]), NEW w \in Players(C[k])
               PROVE
        /\ Seat(R, w, k) => w \notin C[k].gone
        /\ w \notin MixedUids =>
             /\ w \in C[k].gone \/ Seat(R, w, k)
             /\ w \in C[k].gone => R[w].state = "closed"
             /\ \A n \in Matches: Live(C[n]) /\ w \in Players(C[n]) => n = k
    BY DEF Seated
  <2>1. \A n \in Matches: Live(C[n]) => Live(B[n]) /\ Players(C[n]) = Players(B[n])
    BY <1>3, <1>4
  <2>2. w \in Uids
    BY <1>5, <2>1
  <2>3. /\ Seat(S, w, k) => w \notin B[k].gone
        /\ w \notin MixedUids =>
             /\ w \in B[k].gone \/ Seat(S, w, k)
             /\ w \in B[k].gone => S[w].state = "closed"
             /\ \A n \in Matches: Live(B[n]) /\ w \in Players(B[n]) => n = k
    BY <2>1 DEF Attended, Seated
  <2>4. CASE w = u
    <3>1. Seat(R, u, k) => k = m
      BY DEF Seat
    <3>2. u \notin MixedUids => k = m
      BY <2>3, <2>4
    <3> QED BY <1>4, <2>1, <2>3, <2>4, <3>1, <3>2
  <2>5. CASE w # u
    <3>1. R[w] = S[w] /\ (w \in C[k].gone <=> w \in B[k].gone)
      BY <1>3, <1>4, <2>2, <2>5
    <3> QED BY <2>1, <2>3, <3>1 DEF Seat
  <2> QED BY <2>4, <2>5
<1>7. Placed(R, C)
  BY <1>3, <1>4 DEF Attended, Placed, Seat
<1>8. \A t \in Trades: Parties(T[t]) \subseteq Uids
  BY EndedRowTyped DEF Attended
<1>9. Bartering(R, T)
  BY <1>8 DEF Attended, Bartering, Seat
<1>10. ScreensApart(R)
  BY DEF Attended, ScreensApart, Seat
<1> QED BY <1>2, <1>6, <1>7, <1>9, <1>10 DEF Attended, C
-----------------------------------------------------------------------------
(* Steps *)

Here == Typed /\ Attended(session, battle, trade)

(* A step that leaves every row and every attachment alone. *)
LEMMA NothingMoves ==
  ASSUME Here, UNCHANGED <<session, battle, trade>>
  PROVE  Attended(session, battle, trade)'
<1>1. Attended(session, battle, trade)
  BY DEF Here
<1> QED BY <1>1

(* remove, for a socket that was open: the attachment goes, its trade is
   cancelled, its battle pauses.                                             *)
LEMMA LeaveKeeps ==
  ASSUME Here, NEW u \in Uids, Open(u)
  PROVE  Attended([SessionsAfterRemove(session[u]) EXCEPT ![u] = Closed],
                  BattlesAfterRemove(u, session[u]),
                  TradesAfterRemove(session[u]))
<1>. DEFINE s == session[u]
<1>0. /\ session \in [Uids -> Session] /\ s \in Session
      /\ trade \in [Trades -> SoundTrades]
      /\ battle \in [Matches -> SoundBattles]
      /\ Attended(session, battle, trade)
  BY DEF Here, Attended
<1>1. CASE CancelsTrade(s)
  <2>. DEFINE t == s.tradeId
              R == TradeReleased(session, Parties(trade[t]))
              W == [trade EXCEPT ![t].status = "cancelled"]
  <2>1. t \in Trades /\ trade[t].status = "active"
    BY <1>0, <1>1 DEF CancelsTrade, Active, Session
  <2>2. W \in [Trades -> SoundTrades] /\ W[t].status = "cancelled"
    <3>1. trade[t] \in SoundTrades
      BY <1>0, <2>1
    <3>2. W[t] = [trade[t] EXCEPT !.status = "cancelled"]
      BY <1>0, <2>1
    <3>3. W[t].status = "cancelled"
      BY <3>1, <3>2 DEF SoundTrades, TradeRow
    <3>4. W \in [Trades -> SoundTrades]
      BY <1>0, <2>1, <3>1, EndedRowTyped
    <3> QED BY <3>3, <3>4
  <2>3. Attended(R, battle, W)
    BY <1>0, <2>1, <2>2, TradeEndKeeps
  <2>4. R[u].state \notin {"matched", "trading", "closed"}
    <3>1. u \in Parties(trade[t])
      BY <1>1 DEF CancelsTrade, Here, Attended, Bartering
    <3> QED BY <1>0, <3>1 DEF TradeReleased, ReleaseTrade, Session, Open
  <2>5. [R EXCEPT ![u] = Closed] \in [Uids -> Session]
    BY <2>3, FreshTyped DEF Attended
  <2>6. Attended([R EXCEPT ![u] = Closed], battle, W)
    <3>1. \A w \in Uids: \/ [R EXCEPT ![u] = Closed][w] = R[w]
                         \/ Idles(R, [R EXCEPT ![u] = Closed], w)
      BY <2>3, <2>4 DEF Attended, Idles, Closed, Fresh
    <3>. HIDE DEF R, W
    <3> QED BY <2>3, <2>5, <3>1, IdlingKeeps
  <2> QED BY <1>1, <2>6 DEF SessionsAfterRemove, TradesAfterRemove,
                            BattlesAfterRemove, PausesBattle, CancelsTrade
<1>2. CASE PausesBattle(s)
  <2>1. s.matchId \in Matches /\ Seat(session, u, s.matchId)
    BY <1>0, <1>2 DEF PausesBattle, Session, Seat
  <2>2. Attended([session EXCEPT ![u] = Closed],
                 [battle EXCEPT ![s.matchId] = Pause(battle[s.matchId], u)],
                 trade)
    BY <1>0, <2>1, PauseKeeps
  <2>3. ~CancelsTrade(s)
    BY <1>2 DEF CancelsTrade, PausesBattle
  <2> QED BY <1>2, <2>2, <2>3 DEF SessionsAfterRemove, TradesAfterRemove,
                                  BattlesAfterRemove
<1>3. CASE ~CancelsTrade(s) /\ ~PausesBattle(s)
  <2>1. s.state \notin {"matched", "closed", "trading"}
    BY <1>3, PoolAssumption DEF CancelsTrade, PausesBattle, Here, Attended,
                                Placed, Bartering, Open, Active
  <2>2. [session EXCEPT ![u] = Closed] \in [Uids -> Session]
    BY <1>0, FreshTyped
  <2>3. \A w \in Uids: \/ [session EXCEPT ![u] = Closed][w] = session[w]
                       \/ Idles(session, [session EXCEPT ![u] = Closed], w)
    BY <1>0, <2>1 DEF Idles, Closed, Fresh
  <2>4. Attended([session EXCEPT ![u] = Closed], battle, trade)
    BY <1>0, <2>2, <2>3, IdlingKeeps
  <2> QED BY <1>3, <2>4 DEF SessionsAfterRemove, TradesAfterRemove,
                            BattlesAfterRemove
<1> QED BY <1>1, <1>2, <1>3

LEMMA FreshReleased ==
  ASSUME NEW screen
  PROVE  ReleaseBattle(Fresh(screen)) = Fresh(screen)
<1>. DEFINE Only == [state: {"ready"}, screen: {screen}, matchId: {None},
                     peer: {None}, tradeId: {None}, met: {None}]
<1>1. Fresh(screen) \in Only
  BY DEF Fresh
<1>2. ReleaseBattle(Fresh(screen)) \in Only
  BY <1>1 DEF ReleaseBattle
<1>3. \A r, s \in Only: r = s
  OBVIOUS
<1> QED BY <1>1, <1>2, <1>3

(* What resumeSession makes of the attachments F and the rows B, when u has just
   got a new socket.                                                         *)
Arrives(F, B, u, R, C) ==
  \/ PausedBattles(B, u) = {} /\ R = F /\ C = B
  \/ \E m \in PausedBattles(B, u):
       \/ u \notin B[m].gone /\ R = F /\ C = B
       \/ /\ C = [B EXCEPT ![m] = Interrupt(B[m])]
          /\ R = BattleReleased(F, Players(B[m]))
       \/ /\ u \in B[m].gone
          /\ C = [B EXCEPT ![m] = Resume(B[m], u)]
          /\ R = [F EXCEPT ![u].state = "matched", ![u].matchId = m,
                           ![u].peer = Rival(B[m], u)]

LEMMA ArriveKeeps ==
  ASSUME NEW S, NEW B, NEW T, Attended(S, B, T), NEW u \in Uids,
         S[u].state = "closed", NEW screen \in {"battle", "trade"},
         NEW F, F = [S EXCEPT ![u] = Fresh(screen)],
         NEW R, NEW C, Arrives(F, B, u, R, C)
  PROVE  Attended(R, C, T)
<1>0. F \in [Uids -> Session] /\ F[u] = Fresh(screen)
  BY FreshTyped DEF Attended
<1>1. \A m \in Matches: Live(B[m]) /\ u \in Players(B[m]) /\ u \notin MixedUids
        => u \in B[m].gone /\ m \in PausedBattles(B, u)
  <2>1. \A m \in Matches: Live(B[m]) /\ u \in Players(B[m]) /\ u \notin MixedUids
          => u \in B[m].gone
    BY DEF Attended, Seated, Seat
  <2> QED BY <2>1, StatusOf DEF PausedBattles
<1>2. CASE PausedBattles(B, u) = {} /\ R = F /\ C = B
  BY <1>1, <1>2, FreshKeeps
<1>3. ASSUME NEW m \in PausedBattles(B, u), u \notin B[m].gone, R = F, C = B
      PROVE  Attended(R, C, T)
  <2>1. m \in Matches /\ Live(B[m]) /\ u \in Players(B[m])
    BY <1>3, StatusOf DEF PausedBattles
  <2>2. u \in MixedUids
    BY <1>1, <1>3, <2>1
  <2> QED BY <1>3, <2>2, FreshKeeps
<1>4. ASSUME NEW m \in PausedBattles(B, u),
             C = [B EXCEPT ![m] = Interrupt(B[m])],
             R = BattleReleased(F, Players(B[m]))
      PROVE  Attended(R, C, T)
  <2>1. m \in Matches /\ Live(B[m]) /\ u \in Players(B[m])
    BY StatusOf DEF PausedBattles
  <2>2. B[m] \in SoundBattles
    BY <2>1 DEF Attended
  <2>3. C \in [Matches -> SoundBattles]
    BY <1>4, <2>1, <2>2, SoundRows DEF Attended
  <2>4. ~Live(C[m]) /\ \A k \in Matches \ {m}: C[k] = B[k]
    <3>1. C[m] = Interrupt(B[m]) /\ \A k \in Matches \ {m}: C[k] = B[k]
      BY <1>4, <2>1 DEF Attended
    <3>2. Interrupt(B[m]).finished
      BY <2>2 DEF Interrupt, SoundBattles, BattleRow
    <3> QED BY <3>1, <3>2, StatusOf
  <2>. DEFINE G == BattleReleased(S, Players(B[m]))
  <2>5. Attended(G, C, T)
    <3>. DEFINE M == {m}
    <3>1. /\ M \in SUBSET Matches
          /\ \A k \in M: Live(B[k])
          /\ \A k \in M: ~Live(C[k])
          /\ \A k \in Matches \ M: C[k] = B[k]
          /\ \A w \in Uids: w \in Players(B[m]) <=> \E k \in M: w \in Players(B[k])
      BY <2>1, <2>4
    <3>. HIDE DEF M
    <3> QED BY <2>3, <3>1, BattlesEndKeeps
  <2>6. G[u].state = "closed"
    BY DEF BattleReleased
  <2>7. u \in MixedUids \/ \A k \in Matches: Live(C[k]) => u \notin Players(C[k])
    BY <2>1, <2>4 DEF Attended, Seated
  <2>8. Attended([G EXCEPT ![u] = Fresh(screen)], C, T)
    <3>. HIDE DEF G
    <3> QED BY <2>5, <2>6, <2>7, FreshKeeps
  <2>9. R = [G EXCEPT ![u] = Fresh(screen)]
    <3>1. ReleaseBattle(Fresh(screen)) = Fresh(screen)
      BY FreshReleased
    <3>2. \A w \in Uids: R[w] = [G EXCEPT ![u] = Fresh(screen)][w]
      BY <1>0, <1>4, <2>1, <3>1 DEF BattleReleased, Attended
    <3> QED BY <1>4, <3>2 DEF BattleReleased
  <2> QED BY <2>8, <2>9
<1>5. ASSUME NEW m \in PausedBattles(B, u), u \in B[m].gone,
             C = [B EXCEPT ![m] = Resume(B[m], u)],
             R = [F EXCEPT ![u].state = "matched", ![u].matchId = m,
                           ![u].peer = Rival(B[m], u)]
      PROVE  Attended(R, C, T)
  <2>1. m \in Matches /\ Live(B[m]) /\ u \in Players(B[m])
    BY StatusOf DEF PausedBattles
  <2>2. Rival(B[m], u) \in Uids
    BY <2>1, StatusOf, PlayersOf DEF Attended
  <2>3. [F[u] EXCEPT !.state = "matched", !.matchId = m,
                     !.peer = Rival(B[m], u)] \in Session
    <3>1. F[u] \in Session
      BY <1>0
    <3> QED BY <2>1, <2>2, <3>1 DEF Session, SessionStates
  <2>4. R = [F EXCEPT ![u] = [F[u] EXCEPT !.state = "matched", !.matchId = m,
                                          !.peer = Rival(B[m], u)]]
    BY <1>0, <1>5
  <2>5. R \in [Uids -> Session]
    BY <1>0, <2>3, <2>4
  <2>6. Seat(R, u, m)
    BY <1>0, <2>4 DEF Seat, Fresh
  <2>7. \A w \in Uids \ {u}: R[w] = S[w]
    BY <1>5 DEF Attended
  <2>8. Attended(R, [B EXCEPT ![m] = Resume(B[m], u)], T)
    <3>1. /\ Live(B[m]) /\ u \in Players(B[m]) /\ u \in B[m].gone
          /\ m \in Matches
      BY <1>5, <2>1
    <3>2. /\ R \in [Uids -> Session] /\ Seat(R, u, m)
          /\ \A w \in Uids \ {u}: R[w] = S[w]
      BY <2>5, <2>6, <2>7
    <3> HIDE DEF Live, Players, Seat, Attended, Resume
    <3> QED BY <3>1, <3>2, ResumeKeeps
  <2> QED BY <1>5, <2>8
<1> QED BY <1>2, <1>3, <1>4, <1>5 DEF Arrives

(* Who does not mix messages speaks of battles only while not trading. *)
LEMMA SpeaksApart ==
  ASSUME Here, NEW u \in Uids, Speaks(u, "battle")
  PROVE  session[u].state \in {"tradeQueued", "trading"} => u \in MixedUids
BY DEF Here, Attended, ScreensApart, Speaks

LEMMA InBattleAt ==
  ASSUME Here, NEW u \in Uids, NEW m \in Matches, InBattle(u, m)
  PROVE  /\ battle[m] \in SoundBattles
         /\ Live(battle[m])
         /\ u \in Players(battle[m])
         /\ u \notin battle[m].gone
         /\ Rival(battle[m], u) \in Players(battle[m])
         /\ Rival(battle[m], u) # u
         /\ Rival(battle[m], Rival(battle[m], u)) = u
<1>1. /\ battle[m] \in SoundBattles /\ Live(battle[m])
      /\ u \in Players(battle[m]) /\ u \notin battle[m].gone
  BY DEF Here, Attended, Placed, Seated, Seat, InBattle
<1> QED BY <1>1, StatusOf, PlayersOf

LEMMA FinishKeeps ==
  ASSUME Here, NEW m \in Matches, Live(battle[m]),
         NEW w \in Players(battle[m]), Finish(m, w)
  PROVE  Attended(session, battle, trade)'
<1>. DEFINE b == [battle[m] EXCEPT !.finished = TRUE, !.winner = w]
<1>1. /\ battle[m] \in SoundBattles /\ battle \in [Matches -> SoundBattles]
      /\ Attended(session, battle, trade)
  BY DEF Here, Attended
<1>2. b \in SoundBattles /\ b.finished
  BY <1>1, SoundRows DEF SoundBattles, BattleRow
<1>3. Players(b) = Players(battle[m])
  BY <1>1 DEF Players, SoundBattles, BattleRow
<1>. HIDE DEF b
<1>4. battle' = [battle EXCEPT ![m] = b]
  BY DEF Finish, b
<1>. DEFINE M == {m}
<1>5. /\ M \in SUBSET Matches
      /\ \A k \in M: Live(battle[k])
      /\ battle' \in [Matches -> SoundBattles]
      /\ \A k \in M: ~Live(battle'[k])
      /\ \A k \in Matches \ M: battle'[k] = battle[k]
      /\ \A u \in Uids: u \in Players(b) <=> \E k \in M: u \in Players(battle[k])
  BY <1>1, <1>2, <1>3, <1>4, StatusOf
<1>. HIDE DEF M
<1>6. Attended(BattleReleased(session, Players(b)), battle', trade)
  BY <1>1, <1>5, BattlesEndKeeps
<1>7. session' = BattleReleased(session, Players(b)) /\ trade' = trade
  BY DEF Finish, b, tradeVars
<1> QED BY <1>6, <1>7

LEMMA BattleStepKeeps ==
  ASSUME Here, BattleNext
  PROVE  Attended(session, battle, trade)'
<1>0. /\ Attended(session, battle, trade)
      /\ battle \in [Matches -> SoundBattles]
      /\ session \in [Uids -> Session]
      /\ trade \in [Trades -> SoundTrades]
  BY DEF Here, Attended
<1>a. session' \in [Uids -> Session]
  BY BattleTyped DEF Here, Typed, TypeOK
<1>1. ASSUME NEW u \in Uids, Queue(u)
      PROVE  Attended(session, battle, trade)'
  <2>0. /\ Speaks(u, "battle") /\ Open(u) /\ session[u].state # "matched"
        /\ trade' = trade
    BY <1>1 DEF Queue, QueueGuard, Speaks, tradeVars
  <2>1. CASE session' = [session EXCEPT ![u].state = "queued"] /\ battle' = battle
    <3>1. \A w \in Uids: session'[w] = session[w] \/ Idles(session, session', w)
      BY <1>0, <2>0, <2>1, SpeaksApart DEF Idles, Open, Session
    <3> QED BY <1>0, <1>a, <2>0, <2>1, <3>1, IdlingKeeps
  <2>2. CASE \E v \in WaitingSockets(u), m \in Matches: CreateMatch(u, v, m)
    <3>1. PICK v \in Uids \ {u}, m \in Matches:
            session[v].state = "queued" /\ CreateMatch(u, v, m)
      BY <2>2 DEF WaitingSockets
    <3>. DEFINE b == [NoBattle EXCEPT !.first = u, !.second = v]
    <3>2. /\ b \in SoundBattles /\ Live(b) /\ b.gone = {}
          /\ Players(b) = {u, v}
      BY NewRow
    <3>3. /\ battle' \in [Matches -> SoundBattles] /\ battle'[m] = b
          /\ \A k \in Matches \ {m}: battle'[k] = battle[k]
      BY <1>0, <3>1, <3>2 DEF CreateMatch
    <3>4. battle[m].first = None
      BY <3>1, StatusOf DEF CreateMatch, NewMatch
    <3>5. \A w \in {u, v}: /\ session[w].state \notin {"matched", "closed"}
                           /\ session[w].state = "trading" => w \in MixedUids
      BY <2>0, <3>1, SpeaksApart DEF Open
    <3>6. /\ \A w \in {u, v}: Seat(session', w, m)
          /\ \A w \in Uids \ {u, v}: session'[w] = session[w]
      BY <1>0, <3>1 DEF CreateMatch, Matched, Seat, Session
    <3>. HIDE DEF b
    <3>7. /\ Live(battle'[m]) /\ battle'[m].gone = {}
          /\ Players(battle'[m]) = {u, v}
      BY <3>2, <3>3
    <3>8. Attended(session', battle', trade)
      BY <1>0, <1>a, <3>1, <3>3, <3>4, <3>5, <3>6, <3>7, NewBattleKeeps
    <3> QED BY <2>0, <3>8
  <2> QED BY <1>1, <2>1, <2>2 DEF Queue, battleVars
<1>2. ASSUME NEW u \in Uids, Cancel(u)
      PROVE  Attended(session, battle, trade)'
  <2>1. /\ Speaks(u, "battle") /\ Open(u) /\ session[u].state # "matched"
        /\ session' = [session EXCEPT ![u].state = "ready"]
        /\ battle' = battle /\ trade' = trade
    BY <1>2 DEF Cancel, Speaks, battleVars, tradeVars
  <2>2. \A w \in Uids: session'[w] = session[w] \/ Idles(session, session', w)
    BY <1>0, <2>1, SpeaksApart DEF Idles, Open, Session
  <2> QED BY <1>0, <1>a, <2>1, <2>2, IdlingKeeps
<1>3. ASSUME NEW u \in Uids, MarkReady(u)
      PROVE  Attended(session, battle, trade)'
  <2>1. PICK m \in Matches:
          /\ InBattle(u, m)
          /\ battle' = [battle EXCEPT ![m].ready = @ \cup {u}]
    BY <1>3 DEF MarkReady
  <2>2. battle[m] \in SoundBattles /\ Live(battle[m]) /\ u \in Players(battle[m])
    BY <2>1, InBattleAt
  <2>3. battle' \in [Matches -> SoundBattles]
    BY <1>0, <2>1, <2>2, SoundRows
  <2>4. \A k \in Matches: /\ battle'[k].first = battle[k].first
                          /\ battle'[k].second = battle[k].second
                          /\ battle'[k].gone = battle[k].gone
                          /\ battle'[k].finished = battle[k].finished
    BY <1>0, <2>1, <2>2 DEF SoundBattles, BattleRow
  <2>5. session' = session /\ trade' = trade
    BY <1>3 DEF MarkReady, socketVars, tradeVars
  <2> QED BY <1>0, <2>3, <2>4, <2>5, RowsKeep
<1>4. ASSUME NEW u \in Uids, Knockout(u)
      PROVE  Attended(session, battle, trade)'
  BY <1>4, InBattleAt, FinishKeeps DEF Knockout
<1>5. ASSUME NEW u \in Uids, Leave(u)
      PROVE  Attended(session, battle, trade)'
  BY <1>5, InBattleAt, FinishKeeps DEF Leave
<1>6. ASSUME NEW m \in Matches, GraceElapses(m)
      PROVE  Attended(session, battle, trade)'
  <2>1. /\ battle[m] \in SoundBattles /\ Live(battle[m])
        /\ battle[m].gone # {}
        /\ battle' = [battle EXCEPT ![m].grace = "elapsed"]
        /\ session' = session /\ trade' = trade
    BY <1>0, <1>6, StatusOf DEF GraceElapses, socketVars, tradeVars
  <2>2. \E u \in Uids: u \in Players(battle[m])
    BY <2>1 DEF SoundBattles, BattleRow, Players
  <2>3. battle' \in [Matches -> SoundBattles]
    BY <1>0, <2>1, <2>2, SoundRows
  <2>4. \A k \in Matches: /\ battle'[k].first = battle[k].first
                          /\ battle'[k].second = battle[k].second
                          /\ battle'[k].gone = battle[k].gone
                          /\ battle'[k].finished = battle[k].finished
    BY <1>0, <2>1 DEF SoundBattles, BattleRow
  <2> QED BY <1>0, <2>1, <2>3, <2>4, RowsKeep
<1>7. ASSUME Alarm
      PROVE  Attended(session, battle, trade)'
  <2>. DEFINE P == UNION {Players(battle[m]): m \in AlarmDue}
  <2>1. /\ AlarmDue \in SUBSET Matches
        /\ \A m \in AlarmDue: Live(battle[m]) /\ battle[m].gone # {}
    BY StatusOf DEF AlarmDue
  <2>2. \A m \in AlarmDue: /\ Interrupt(battle[m]) \in SoundBattles
                           /\ Interrupt(battle[m]).finished
    <3> SUFFICES ASSUME NEW m \in AlarmDue
                 PROVE  /\ Interrupt(battle[m]) \in SoundBattles
                        /\ Interrupt(battle[m]).finished
      OBVIOUS
    <3>1. battle[m] \in SoundBattles /\ \E u \in Uids: u \in Players(battle[m])
      BY <1>0, <2>1 DEF SoundBattles, BattleRow, Players
    <3> QED BY <2>1, <3>1, SoundRows DEF Interrupt, SoundBattles, BattleRow
  <2>3. battle' = [m \in Matches |-> IF m \in AlarmDue
                                     THEN Interrupt(battle[m])
                                     ELSE battle[m]]
    BY <1>7 DEF Alarm
  <2>4. /\ battle' \in [Matches -> SoundBattles]
        /\ \A m \in AlarmDue: ~Live(battle'[m])
        /\ \A m \in Matches \ AlarmDue: battle'[m] = battle[m]
    BY <1>0, <2>1, <2>2, <2>3, StatusOf
  <2>5. \A u \in Uids: u \in P <=> \E m \in AlarmDue: u \in Players(battle[m])
    OBVIOUS
  <2>. HIDE DEF P
  <2>6. Attended(BattleReleased(session, P), battle', trade)
    BY <1>0, <2>1, <2>4, <2>5, BattlesEndKeeps
  <2>7. session' = BattleReleased(session, P) /\ trade' = trade
    BY <1>7 DEF Alarm, P, tradeVars
  <2> QED BY <2>6, <2>7
<1>8. ASSUME DayRolls
      PROVE  Attended(session, battle, trade)'
  BY <1>8, NothingMoves DEF DayRolls, socketVars, battleVars, tradeVars
<1> QED
  BY <1>1, <1>2, <1>3, <1>4, <1>5, <1>6, <1>7, <1>8 DEF BattleNext
(* The trade t of a step ends; every other row stays. *)
LEMMA CancelKeeps ==
  ASSUME Here, NEW t \in Trades, trade[t].status = "active",
         NEW W \in [Trades -> SoundTrades], W[t].status # "active",
         \A k \in Trades \ {t}: W[k] = trade[k]
  PROVE  Attended(TradeReleased(session, Parties(trade[t])), battle, W)
BY TradeEndKeeps DEF Here

LEMMA TradeStepKeeps ==
  ASSUME Here, TradeNext
  PROVE  Attended(session, battle, trade)'
<1>0. /\ Attended(session, battle, trade)
      /\ battle \in [Matches -> SoundBattles]
      /\ session \in [Uids -> Session]
      /\ trade \in [Trades -> SoundTrades]
      /\ Typed
  BY DEF Here, Attended
<1>a. session' \in [Uids -> Session] /\ trade' \in [Trades -> SoundTrades]
  BY TradeTyped DEF Here, Typed, TypeOK
<1>1. ASSUME NEW u \in Uids, QueueTrade(u)
      PROVE  Attended(session, battle, trade)'
  <2>0. /\ Speaks(u, "trade") /\ session[u].state = "ready"
        /\ battle' = battle
    BY <1>1 DEF QueueTrade, battleVars
  <2>1. CASE /\ session' = [session EXCEPT ![u].state = "tradeQueued"]
             /\ trade' = trade
    <3>1. \A w \in Uids: session'[w] = session[w] \/ Idles(session, session', w)
      BY <1>0, <2>0, <2>1 DEF Idles, Speaks, Session
    <3> QED BY <1>0, <1>a, <2>0, <2>1, <3>1, IdlingKeeps
  <2>2. CASE \E v \in WaitingTradeSockets(u), t \in Trades: CreateTrade(u, v, t)
    <3>1. PICK v \in Uids \ {u}, t \in Trades:
            session[v].state = "tradeQueued" /\ CreateTrade(u, v, t)
      BY <2>2 DEF WaitingTradeSockets
    <3>2. /\ trade[t].status = "none"
          /\ trade' = [trade EXCEPT
               ![t] = [NoTrade EXCEPT !.status = "active", !.first = u,
                                      !.second = v]]
      BY <3>1 DEF CreateTrade, NewTrade
    <3>3. /\ trade'[t].status = "active" /\ Parties(trade'[t]) = {u, v}
          /\ \A k \in Trades \ {t}: trade'[k] = trade[k]
      BY <1>0, <3>2, PoolAssumption DEF NoTrade, Parties
    <3>4. \A w \in {u, v}:
            /\ session[w].state \notin {"matched", "closed", "trading"}
            /\ w \in MixedUids \/ session[w].screen = "trade"
      BY <1>0, <2>0, <3>1 DEF Attended, ScreensApart, Speaks
    <3>5. /\ \A w \in {u, v}: /\ session'[w].state = "trading"
                              /\ session'[w].tradeId = t
                              /\ session'[w].screen = session[w].screen
          /\ \A w \in Uids \ {u, v}: session'[w] = session[w]
      <4>1. session' = [session EXCEPT ![u] = Trading(u, v, t),
                                       ![v] = Trading(v, u, t)]
        BY <3>1 DEF CreateTrade
      <4>2. /\ session[u] \in Session /\ session[v] \in Session
            /\ DOMAIN session = Uids
        BY <1>0, <3>1
      <4>3. \A w \in {u, v}, x \in Uids:
              /\ Trading(w, x, t).state = "trading"
              /\ Trading(w, x, t).tradeId = t
              /\ Trading(w, x, t).screen = session[w].screen
        BY <4>2 DEF Trading, Session
      <4> HIDE DEF Trading
      <4> QED BY <3>1, <4>1, <4>2, <4>3
    <3>6. \A w \in {u, v}: /\ session'[w].state = "trading"
                           /\ session'[w].tradeId = t
                           /\ w \in MixedUids \/ session'[w].screen = "trade"
      BY <3>4, <3>5
    <3>7. \A w \in {u, v}: session[w].state \notin {"matched", "closed", "trading"}
      BY <3>4
    <3>8. Attended(session', battle, trade')
      <4>1. trade[t].status = "none" /\ \A w \in Uids \ {u, v}: session'[w] = session[w]
        BY <3>2, <3>5
      <4> QED BY <1>0, <1>a, <3>3, <3>6, <3>7, <4>1, NewTradeKeeps
    <3> QED BY <2>0, <3>8
  <2> QED BY <1>1, <2>1, <2>2 DEF QueueTrade
<1>2. ASSUME NEW u \in Uids, CancelTradeSearch(u)
      PROVE  Attended(session, battle, trade)'
  <2>1. /\ session[u].state = "tradeQueued"
        /\ session' = [session EXCEPT ![u].state = "ready"]
        /\ battle' = battle /\ trade' = trade
    BY <1>2 DEF CancelTradeSearch, battleVars, tradeVars
  <2>2. \A w \in Uids: session'[w] = session[w] \/ Idles(session, session', w)
    BY <1>0, <2>1 DEF Idles, Session
  <2> QED BY <1>0, <1>a, <2>1, <2>2, IdlingKeeps
<1>3. ASSUME NEW u \in Uids, NEW i \in Items, TradeOffer(u, i)
      PROVE  Attended(session, battle, trade)'
  <2>1. PICK t \in Trades: trade' = [trade EXCEPT ![t] = OfferRow(@, u, i)]
    BY <1>3 DEF TradeOffer
  <2>2. \A k \in Trades: /\ trade'[k].first = trade[k].first
                         /\ trade'[k].second = trade[k].second
                         /\ trade'[k].status = trade[k].status
    BY <1>0, <2>1 DEF OfferRow, SoundTrades, TradeRow
  <2>3. session' = session /\ battle' = battle
    BY <1>3 DEF TradeOffer, socketVars, battleVars
  <2> QED BY <1>0, <1>a, <2>2, <2>3, RowsKeep
<1>4. ASSUME NEW u \in Uids, TradeConfirm(u)
      PROVE  Attended(session, battle, trade)'
  <2>1. PICK t \in Trades:
          /\ InTrade(u, t)
          /\ \/ /\ \/ trade' = [trade EXCEPT ![t].confirmed = @ \cup {u}]
                   \/ trade' = [trade EXCEPT ![t].confirmed = @ \ {u}]
                /\ session' = session
             \/ CompleteTrade(t)
    BY <1>4 DEF TradeConfirm
  <2>2. battle' = battle
    BY <1>4 DEF TradeConfirm, battleVars
  <2>3. trade[t].status = "active"
    BY <1>0, <2>1, TradeAt
  <2>4. CASE /\ \/ trade' = [trade EXCEPT ![t].confirmed = @ \cup {u}]
                \/ trade' = [trade EXCEPT ![t].confirmed = @ \ {u}]
             /\ session' = session
    <3>1. \A k \in Trades: /\ trade'[k].first = trade[k].first
                           /\ trade'[k].second = trade[k].second
                           /\ trade'[k].status = trade[k].status
      <4>1. trade[t] \in TradeRow
        BY <1>0 DEF SoundTrades
      <4>2. CASE trade' = [trade EXCEPT ![t].confirmed = @ \cup {u}]
        BY <1>0, <4>1, <4>2 DEF TradeRow
      <4>3. CASE trade' = [trade EXCEPT ![t].confirmed = @ \ {u}]
        BY <1>0, <4>1, <4>3 DEF TradeRow
      <4> QED BY <2>4, <4>2, <4>3
    <3> QED BY <1>0, <1>a, <2>2, <2>4, <3>1, RowsKeep
  <2>5. CASE CompleteTrade(t)
    <3>1. /\ trade'[t].status # "active"
          /\ \A k \in Trades \ {t}: trade'[k] = trade[k]
      BY <1>0, <2>5 DEF CompleteTrade, SoundTrades, TradeRow
    <3>2. session' = TradeReleased(session, Parties(trade[t]))
      BY <2>5 DEF CompleteTrade
    <3>3. Attended(TradeReleased(session, Parties(trade[t])), battle, trade')
      BY <1>a, <2>3, <3>1, CancelKeeps
    <3> QED BY <2>2, <3>2, <3>3
  <2> QED BY <2>1, <2>4, <2>5
<1>5. ASSUME NEW u \in Uids, LeaveTrade(u)
      PROVE  Attended(session, battle, trade)'
  <2>1. PICK t \in Trades: InTrade(u, t) /\ CancelActiveTrade(t)
    BY <1>5 DEF LeaveTrade
  <2>2. trade[t].status = "active" /\ battle' = battle
    BY <1>0, <1>5, <2>1, TradeAt DEF LeaveTrade, battleVars
  <2>3. /\ trade'[t].status # "active"
        /\ \A k \in Trades \ {t}: trade'[k] = trade[k]
    BY <1>0, <2>1 DEF CancelActiveTrade, SoundTrades, TradeRow
  <2>4. session' = TradeReleased(session, Parties(trade[t]))
    BY <2>1 DEF CancelActiveTrade
  <2>5. Attended(TradeReleased(session, Parties(trade[t])), battle, trade')
    BY <1>a, <2>2, <2>3, CancelKeeps
  <2> QED BY <2>2, <2>4, <2>5
<1>6. ASSUME NEW u \in Uids, AcknowledgeTrade(u)
      PROVE  Attended(session, battle, trade)'
  BY <1>6, NothingMoves DEF AcknowledgeTrade, socketVars, battleVars
<1> QED BY <1>1, <1>2, <1>3, <1>4, <1>5, <1>6 DEF TradeNext

(* A socket whose attachment is replaced names nothing that remove would end. *)
LEMMA ReplacedIsDone ==
  ASSUME NEW u, NEW s, s.state = "replaced"
  PROVE  /\ TradesAfterRemove(s) = trade
         /\ SessionsAfterRemove(s) = session
         /\ BattlesAfterRemove(u, s) = battle
         /\ AlarmAfterRemove(u, s) = alarm
BY DEF TradesAfterRemove, SessionsAfterRemove, BattlesAfterRemove,
       AlarmAfterRemove, CancelsTrade, PausesBattle

LEMMA ConnectKeeps ==
  ASSUME Here, NEW u \in Uids, NEW screen \in {"battle", "trade"},
         Connect(u, screen)
  PROVE  Attended(session, battle, trade)'
<1>. DEFINE old == session[u]
            S == [SessionsAfterRemove(old) EXCEPT ![u] = Closed]
            B == BattlesAfterRemove(u, old)
            T == TradesAfterRemove(old)
            F == [SessionsAfterRemove(old) EXCEPT ![u] = Fresh(screen)]
            armed == AlarmAfterRemove(u, old)
<1>1. ASSUME NEW Q, Attended(Q, B, T), Q[u].state = "closed",
             [Q EXCEPT ![u] = Fresh(screen)] = F
      PROVE  Attended(session, battle, trade)'
  <2>1. Arrives(F, B, u, session', battle')
    BY DEF Connect, ResumeSession, Arrives
  <2>2. trade' = T
    BY DEF Connect
  <2>. HIDE DEF F, B, T
  <2>3. Attended(session', battle', T)
    BY <1>1, <2>1, ArriveKeeps
  <2> QED BY <2>2, <2>3
<1>2. CASE Open(u)
  <2>1. Attended(S, B, T)
    BY <1>2, LeaveKeeps
  <2>2. SessionsAfterRemove(old) \in [Uids -> Session]
    BY RemoveTyped DEF Here, Typed, TypeOK
  <2>3. S[u].state = "closed" /\ [S EXCEPT ![u] = Fresh(screen)] = F
    BY <2>2 DEF Closed, Fresh
  <2>. HIDE DEF S, B, T, F
  <2> QED BY <1>1, <2>1, <2>3
<1>3. CASE ~Open(u)
  <2>1. old.state = "closed"
    BY <1>3 DEF Open
  <2>2. /\ B = battle /\ T = trade
        /\ SessionsAfterRemove(old) = session
    BY <2>1 DEF TradesAfterRemove, SessionsAfterRemove, BattlesAfterRemove,
                CancelsTrade, PausesBattle
  <2>3. Attended(session, B, T)
    BY <2>2 DEF Here
  <2>4. [session EXCEPT ![u] = Fresh(screen)] = F
    BY <2>2
  <2>. HIDE DEF B, T, F
  <2> QED BY <1>1, <2>1, <2>3, <2>4
<1> QED BY <1>2, <1>3

LEMMA SocketStepKeeps ==
  ASSUME Here, SocketNext
  PROVE  Attended(session, battle, trade)'
<1>1. ASSUME NEW u \in Uids, NEW screen \in {"battle", "trade"},
             Connect(u, screen)
      PROVE  Attended(session, battle, trade)'
  BY <1>1, ConnectKeeps
<1>2. ASSUME NEW u \in Uids, Disconnect(u)
      PROVE  Attended(session, battle, trade)'
  BY <1>2, LeaveKeeps DEF Disconnect, Removed
<1>3. ASSUME NEW c \in closing, LateClose(c[1], c[2])
      PROVE  Attended(session, battle, trade)'
  BY <1>3, ReplacedIsDone, NothingMoves DEF LateClose, Removed, Here, Typed,
                                            Waiting
<1> QED BY <1>1, <1>2, <1>3 DEF SocketNext
LEMMA SafetyStepKeeps ==
  ASSUME Here, SafetyNext
  PROVE  Attended(session, battle, trade)'
<1>0. /\ Attended(session, battle, trade)
      /\ session \in [Uids -> Session]
      /\ trade \in [Trades -> SoundTrades]
  BY DEF Here, Attended
<1>1. ASSUME NEW s \in Session
      PROVE  Attended(SessionsAfterRemove(s), battle, TradesAfterRemove(s))
  <2>1. CASE ~CancelsTrade(s)
    BY <1>0, <2>1 DEF SessionsAfterRemove, TradesAfterRemove
  <2>2. CASE CancelsTrade(s)
    <3>. DEFINE t == s.tradeId
                W == [trade EXCEPT ![t].status = "cancelled"]
    <3>1. t \in Trades /\ trade[t] \in SoundTrades /\ trade[t].status = "active"
      BY <1>0, <2>2, PoolAssumption DEF CancelsTrade, Active, Session
    <3>2. /\ W[t] = [trade[t] EXCEPT !.status = "cancelled"]
          /\ \A k \in Trades \ {t}: W[k] = trade[k]
      BY <1>0, <3>1
    <3>3. W[t].status # "active"
      BY <3>1, <3>2 DEF SoundTrades, TradeRow
    <3>4. W \in [Trades -> SoundTrades]
      BY <1>0, <3>1, EndedRowTyped
    <3>5. TradesAfterRemove(s) = W
      BY <2>2 DEF TradesAfterRemove
    <3>6. SessionsAfterRemove(s) = TradeReleased(session, Parties(trade[t]))
      BY <2>2 DEF SessionsAfterRemove
    <3>. HIDE DEF W, t
    <3>7. Attended(TradeReleased(session, Parties(trade[t])), battle, W)
      BY <3>1, <3>2, <3>3, <3>4, CancelKeeps
    <3> QED BY <3>5, <3>6, <3>7
  <2> QED BY <2>1, <2>2
<1>2. ASSUME NEW u \in Uids, BlockPeer(u)
      PROVE  Attended(session, battle, trade)'
  <2>1. session[u] \in Session
    BY <1>0
  <2> QED BY <1>1, <1>2, <2>1 DEF BlockPeer, RecordBlock, battleVars
<1>3. ASSUME NEW u \in Uids, ReportPeer(u)
      PROVE  Attended(session, battle, trade)'
  BY <1>3, NothingMoves DEF ReportPeer, socketVars, battleVars, tradeVars
<1>4. ASSUME NEW r \in reporting, ReportRecorded(r[1], r[2])
      PROVE  Attended(session, battle, trade)'
  <2>1. r[2] \in Session
    BY DEF Here, Typed, TypeOK
  <2> QED BY <1>1, <1>4, <2>1 DEF ReportRecorded, RecordBlock, battleVars
<1>5. ASSUME NEW u \in Uids, NEW v \in Uids, Unblock(u, v)
      PROVE  Attended(session, battle, trade)'
  BY <1>5, NothingMoves DEF Unblock, socketVars, battleVars, tradeVars
<1> QED BY <1>2, <1>3, <1>4, <1>5 DEF SafetyNext

LEMMA OperatorStepKeeps ==
  ASSUME Here, OperatorNext
  PROVE  Attended(session, battle, trade)'
<1>0. /\ Attended(session, battle, trade)
      /\ session \in [Uids -> Session]
      /\ session' \in [Uids -> Session]
  BY OperatorTyped DEF Here, Attended, Typed, TypeOK
<1>1. ASSUME CloseIdleSockets, battle' = battle, trade' = trade
      PROVE  Attended(session, battle, trade)'
  <2>1. \A u \in Uids: session'[u] = session[u] \/ Idles(session, session', u)
    BY <1>0, <1>1 DEF CloseIdleSockets, IdleUids, OpenUids, Open, Idles,
                      Closed, Fresh
  <2> QED BY <1>0, <1>1, <2>1, IdlingKeeps
<1>2. ASSUME StartDraining \/ Freeze
      PROVE  Attended(session, battle, trade)'
  BY <1>1, <1>2 DEF StartDraining, Freeze, battleVars, tradeVars
<1>3. ASSUME Reopen
      PROVE  Attended(session, battle, trade)'
  BY <1>3, NothingMoves DEF Reopen, socketVars, battleVars, tradeVars
<1>4. ASSUME NEW u \in Uids, Retire(u)
      PROVE  Attended(session, battle, trade)'
  BY <1>4, LeaveKeeps DEF Retire, Removed
<1> QED BY <1>2, <1>3, <1>4 DEF OperatorNext

-----------------------------------------------------------------------------

LEMMA InitHere == Init => Here
<1> SUFFICES ASSUME Init PROVE Here
  OBVIOUS
<1>1. NoBattle \in SoundBattles /\ ~Live(NoBattle)
  BY NoBattleTyped, StatusOf DEF NoBattle, SoundBattles
<1>2. \A m \in Matches: battle[m] \in SoundBattles /\ ~Live(battle[m])
  BY <1>1 DEF Init
<1>3. \A u \in Uids: session[u].state = "closed"
  BY DEF Init, Closed, Fresh
<1>4. \A t \in Trades: trade[t].status = "none"
  BY DEF Init, NoTrade
<1>5. battle \in [Matches -> SoundBattles]
  BY <1>1 DEF Init
<1> QED
  BY <1>2, <1>3, <1>4, <1>5, InitTyped
     DEF Here, Typed, TypeOK, Attended, Seated, Placed, Bartering,
         ScreensApart

LEMMA StepHere == Here /\ [Next]_vars => Here'
<1>1. ASSUME Here, [Next]_vars PROVE Typed'
  BY <1>1, StepTyped DEF Here
<1>2. ASSUME Here, UNCHANGED vars PROVE Attended(session, battle, trade)'
  BY <1>2, NothingMoves DEF vars, socketVars, battleVars, tradeVars
<1>3. ASSUME Here, Next PROVE Attended(session, battle, trade)'
  BY <1>3, BattleStepKeeps, TradeStepKeeps, SocketStepKeeps, SafetyStepKeeps,
     OperatorStepKeeps DEF Next
<1> QED BY <1>1, <1>2, <1>3 DEF Here

(* The inductive invariant of the attachments and the rows. *)
THEOREM AllHere == Spec => []Here
BY InitHere, StepHere, PTL DEF Spec

LEMMA HereAttended == Here => BattleAttended /\ TradeAttended
BY DEF Here, Attended, Seated, Placed, Bartering, Seat, BattleAttended,
       TradeAttended, AttachedTo

(* No battle is orphaned: whatever the order in which sockets are opened,
   replaced, lost and closed late, and battles are resumed, expired, won and
   forfeited, every player of a live battle is attached to it or listed as
   missing, never both, and nobody is held by a battle that has ended (fetch,
   remove, resumeSession, alarm, releaseBattleSockets).                      *)
THEOREM BattlesAttended == Spec => []BattleAttended
BY AllHere, HereAttended, PTL

(* No trade is orphaned: both parties of an active trade are at it, and nobody
   is held by a trade that has ended (createTrade, cancelActiveTrade,
   completeTrade, releaseTradeSocket).                                       *)
THEOREM TradesAttended == Spec => []TradeAttended
BY AllHere, HereAttended, PTL
=============================================================================
