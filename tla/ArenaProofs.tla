----------------------------- MODULE ArenaProofs ------------------------------
(***************************************************************************)
(* Who waits beside whom, and what happens to the result of a battle until *)
(* it is in the save: the receipts that come again, the saves that fail    *)
(* and the receipts a save forgets pay nothing twice and lose nothing that *)
(* was acknowledged.                                                       *)
(***************************************************************************)
EXTENDS Arena, SequenceTheorems, FiniteSetTheorems, WellFoundedInduction, TLAPS

-----------------------------------------------------------------------------
(* Numbers *)

LEMMA LeastNatural ==
  ASSUME NEW T \in SUBSET Nat, T # {}
  PROVE  \E m \in T: \A k \in T: m <= k
<1>1. \E m \in T: \A k \in T: ~(<<k, m>> \in OpToRel(<, Nat))
  BY NatLessThanWellFounded, WFMin
<1>2. \A m, k \in Nat: k < m => <<k, m>> \in OpToRel(<, Nat)
  BY Zenon DEF OpToRel
<1>3. \E m \in T: \A k \in T: ~(k < m)
  BY <1>1, <1>2, Zenon
<1> QED BY <1>3

LEMMA DistanceOf ==
  ASSUME NEW a \in Nat, NEW b \in Nat
  PROVE  Distance(a, b) \in Nat /\ Distance(a, b) = Distance(b, a)
BY DEF Distance, Most

LEMMA WindowOf ==
  ASSUME NEW q \in Nat, NEW t \in Nat
  PROVE  RatingWindow(q, t) \in Nat
BY DEF RatingWindow, Least, Most

(* The rating an account has is always one. *)
LEMMA ChangeOf ==
  ASSUME NEW won \in BOOLEAN, NEW mine \in Nat, NEW theirs \in Nat
  PROVE  RatingChange(won, mine, theirs) \in Int
<1>1. ASSUME NEW n \in Int PROVE Truncated(n, 25) \in Int
  BY <1>1, SMTT(30) DEF Truncated
<1>2. Truncated(theirs - mine, 25) \in Int
  BY <1>1
<1> HIDE DEF Truncated
<1> QED BY <1>2 DEF RatingChange, Clamp, Least, Most

-----------------------------------------------------------------------------
(* The queue *)

Entry == [rating: Nat, queuedAt: Nat]
Account == [rating: 0 .. MaxRating, streak: Nat]

LEMMA AccountOf ==
  ASSUME NEW a \in Account
  PROVE  a.rating \in Nat /\ a.rating <= MaxRating /\ a.streak \in Nat
<1>1. MaxRating \in Nat
  BY DEF MaxRating
<1> QED BY <1>1 DEF Account

(* If somebody would be fair there is a best one among them: the nearest, and
   of those at the same distance one who has waited longest.                 *)
LEMMA BestExists ==
  ASSUME NEW u \in Uids, NEW entry \in Entry,
         \A v \in Waiting: queued[v] \in Entry,
         FairCandidates(u, entry) # {}
  PROVE  BestCandidates(u, entry) # {}
<1> DEFINE fair == FairCandidates(u, entry)
           Far(v) == Distance(entry.rating, queued[v].rating)
           Since(v) == queued[v].queuedAt
<1>1. \A v \in fair: Far(v) \in Nat /\ Since(v) \in Nat
  BY DistanceOf DEF FairCandidates, Entry
<1> HIDE DEF fair
<1>2. PICK v \in fair: \A w \in fair: Far(v) <= Far(w)
  <2> DEFINE T == {Far(w): w \in fair}
  <2>1. T \in SUBSET Nat /\ T # {}
    BY <1>1 DEF fair
  <2>2. PICK d \in T: \A e \in T: d <= e
    <3> HIDE DEF T
    <3> QED BY <2>1, LeastNatural
  <2> QED BY <2>2
<1> DEFINE near == {w \in fair: Far(w) = Far(v)}
<1>3. PICK x \in near: \A w \in near: Since(x) <= Since(w)
  <2> DEFINE T == {Since(w): w \in near}
  <2>1. T \in SUBSET Nat /\ T # {}
    BY <1>1, <1>2
  <2>2. PICK d \in T: \A e \in T: d <= e
    <3> HIDE DEF T
    <3> QED BY <2>1, LeastNatural
  <2> QED BY <2>2
<1>4. \A w \in fair: Far(x) < Far(w) \/ (Far(x) = Far(w) /\ Since(x) <= Since(w))
  <2> SUFFICES ASSUME NEW w \in fair
               PROVE  \/ Far(x) < Far(w)
                      \/ Far(x) = Far(w) /\ Since(x) <= Since(w)
    OBVIOUS
  <2>1. Far(x) = Far(v) /\ Far(v) <= Far(w) /\ Far(v) \in Nat /\ Far(w) \in Nat
    BY <1>1, <1>2, <1>3
  <2>2. Far(w) = Far(v) => Since(x) <= Since(w)
    BY <1>3
  <2> HIDE DEF Far, Since
  <2> QED BY <2>1, <2>2
<1>5. x \in fair /\ \A w \in fair: NotAfter(entry, queued[x], queued[w])
  BY <1>3, <1>4 DEF NotAfter
<1> QED BY <1>5 DEF BestCandidates, fair

(* A match that was made has two players. *)
Pairs ==
  /\ match \in [Matches -> Match]
  /\ \A m \in Matches: match[m].status # "none" =>
       match[m].first \in Uids /\ match[m].second \in Uids

WaitingInv ==
  /\ now \in Nat
  /\ account \in [Uids -> Account]
  /\ Pairs
  /\ DOMAIN queued = Uids
  /\ \A u \in Waiting: queued[u] \in Entry /\ queued[u].queuedAt <= now
  /\ WaitersWereApart

LEMMA WaitingInit == Init => WaitingInv
<1> SUFFICES ASSUME Init PROVE WaitingInv
  OBVIOUS
<1>1. account \in [Uids -> Account]
  BY ArenaAssumption DEF Init, Account
<1>2. Pairs
  BY DEF Init, Pairs, Match, NoMatch
<1>3. Waiting = {} /\ DOMAIN queued = Uids /\ now \in Nat
  BY DEF Init, Waiting
<1> QED BY <1>1, <1>2, <1>3 DEF WaitingInv, WaitersWereApart

(* Who leaves the queue brings nobody together. *)
LEMMA LeavingHolds ==
  ASSUME WaitingInv, DOMAIN queued' = Uids,
         \A u \in Uids: queued'[u] = queued[u] \/ queued'[u] = None,
         UNCHANGED <<now, account>>, Pairs'
  PROVE  WaitingInv'
<1>1. \A u \in Waiting': u \in Waiting /\ queued'[u] = queued[u]
  BY DEF Waiting
<1> QED BY <1>1
      DEF WaitingInv, WaitersWereApart, RatingWindow, Distance

(* Who joins was fair to nobody who waits. *)
LEMMA JoiningHolds ==
  ASSUME WaitingInv, NEW u \in Uids, Enqueue(u)
  PROVE  WaitingInv'
<1> DEFINE entry == [rating |-> account[u].rating, queuedAt |-> now]
<1> USE DEF WaitingInv
<1>1. /\ BestCandidates(u, entry) = {}
      /\ queued' = [queued EXCEPT ![u] = entry]
      /\ UNCHANGED <<now, account, match>>
  BY DEF Enqueue
<1>2. /\ entry \in Entry /\ entry.rating = account[u].rating
      /\ entry.queuedAt = now
  BY AccountOf DEF Entry
<1> HIDE DEF entry
<1>3. \A v \in Uids: queued'[v] = IF v = u THEN entry ELSE queued[v]
  BY <1>1
<1>4. FairCandidates(u, entry) = {}
  BY <1>1, <1>2, BestExists
<1>5. ASSUME NEW v \in Waiting, v # u
      PROVE  /\ Distance(entry.rating, queued[v].rating)
                  > RatingWindow(entry.queuedAt, now)
             /\ Distance(entry.rating, queued[v].rating)
                  > RatingWindow(queued[v].queuedAt, now)
  <2>1. queued[v] \in Entry /\ ~IsFairMatch(entry, queued[v], now)
    BY <1>4, <1>5 DEF FairCandidates
  <2>2. /\ Distance(entry.rating, queued[v].rating) \in Nat
        /\ RatingWindow(entry.queuedAt, now) \in Nat
        /\ RatingWindow(queued[v].queuedAt, now) \in Nat
    BY <1>2, <2>1, DistanceOf, WindowOf DEF Entry
  <2> QED BY <2>1, <2>2 DEF IsFairMatch, Most
<1>6. \A v \in Waiting': v = u \/ (v \in Waiting /\ queued'[v] = queued[v])
  BY <1>3 DEF Waiting
<1>7. \A v \in Waiting':
        queued'[v] \in Entry /\ queued'[v].queuedAt <= now
  BY <1>2, <1>3, <1>6
<1>8. WaitersWereApart'
  <2> SUFFICES ASSUME NEW a \in Waiting', NEW b \in Waiting', a # b,
                      queued'[a].queuedAt <= queued'[b].queuedAt
               PROVE  Distance(queued'[a].rating, queued'[b].rating) >
                        RatingWindow(queued'[a].queuedAt, queued'[b].queuedAt)
    BY DEF WaitersWereApart, Distance, RatingWindow
  <2>1. CASE a # u /\ b # u
    BY <2>1, <1>6 DEF WaitersWereApart
  <2>2. CASE b = u
    <3>1. a \in Waiting /\ queued'[a] = queued[a] /\ queued'[b] = entry
      BY <2>2, <1>3, <1>6
    <3>2. Distance(queued[a].rating, entry.rating)
            = Distance(entry.rating, queued[a].rating)
      <4>1. queued[a] \in Entry
        BY <3>1
      <4>2. queued[a].rating \in Nat /\ entry.rating \in Nat
        BY <4>1, <1>2 DEF Entry
      <4> QED BY <4>2, DistanceOf
    <3> QED BY <3>1, <3>2, <1>2, <1>5, <2>2
  <2>3. CASE a = u
    <3>1. b \in Waiting /\ queued'[b] = queued[b] /\ queued'[a] = entry
      BY <2>3, <1>3, <1>6
    <3>2. queued[b].queuedAt = now
      BY <3>1, <1>2 DEF Entry
    <3> QED BY <3>1, <3>2, <1>2, <1>5, <2>3
  <2> QED BY <2>1, <2>2, <2>3
<1> QED BY <1>1, <1>7, <1>8 DEF Pairs

LEMMA PairsStay == WaitingInv /\ UNCHANGED match => Pairs'
BY DEF WaitingInv, Pairs

LEMMA PairingHolds ==
  ASSUME WaitingInv, NEW u \in Uids, Pair(u)
  PROVE  WaitingInv'
<1> USE DEF WaitingInv
<1>1. PICK v \in Uids, m \in Matches:
        /\ match' = [match EXCEPT ![m] =
             [first |-> u, second |-> v, status |-> "live"]]
        /\ queued' = [queued EXCEPT ![u] = None, ![v] = None]
        /\ UNCHANGED <<now, account>>
  BY DEF Pair, BestCandidates, FairCandidates, Waiting
<1>2. Pairs'
  BY <1>1 DEF Pairs, Match
<1> QED BY <1>1, <1>2, LeavingHolds

LEMMA EndingHolds ==
  ASSUME WaitingInv, NEW m \in Matches, BattleEnds(m)
  PROVE  WaitingInv'
<1> USE DEF WaitingInv
<1>1. PICK winner: Settle(m, winner)
  BY DEF BattleEnds
<1>2. /\ match[m].status = "live"
      /\ match' = [match EXCEPT ![m].status = "settled"]
      /\ UNCHANGED <<now, queued>>
  BY DEF BattleEnds
<1>3. Pairs'
  BY <1>2 DEF Pairs, Match
<1>4. account' \in [Uids -> Account]
  <2> SUFFICES ASSUME NEW u \in Uids, u \in Sides(m)
               PROVE  SettledRow(m, u, winner).rating \in 0 .. MaxRating
    <3> DEFINE after(u) ==
          [rating |-> SettledRow(m, u, winner).rating,
           streak |-> IF u = winner THEN account[u].streak + 1 ELSE 0]
    <3>1. \A u \in Uids: account[u].streak \in Nat
      BY AccountOf
    <3>2. \A u \in Uids: SettledRow(m, u, winner).rating \in 0 .. MaxRating
                            => after(u) \in Account
      BY <3>1 DEF Account
    <3>3. account' = [u \in Uids |->
            IF u \notin Sides(m) THEN account[u] ELSE after(u)]
      BY <1>1 DEF Settle
    <3> HIDE DEF after
    <3> QED BY <3>2, <3>3
  <2>1. account[u] \in Account /\ account[Opponent(m, u)] \in Account
    BY <1>2 DEF Pairs, Opponent
  <2>2. RatingChange(u = winner, account[u].rating,
                     account[Opponent(m, u)].rating) \in Int
    BY <2>1, ChangeOf, AccountOf
  <2>3. SettledRow(m, u, winner).rating =
          Clamp(account[u].rating +
                RatingChange(u = winner, account[u].rating,
                             account[Opponent(m, u)].rating), 0, MaxRating)
    BY DEF SettledRow
  <2>4. \A n \in Int: Clamp(n, 0, MaxRating) \in 0 .. MaxRating
    BY DEF Clamp, Least, Most, MaxRating
  <2>5. account[u].rating \in Nat
    BY <2>1, AccountOf
  <2> QED BY <2>2, <2>3, <2>4, <2>5
<1>5. WaitersWereApart'
  BY <1>2 DEF WaitersWereApart, Waiting, RatingWindow, Distance
<1> QED BY <1>2, <1>3, <1>4, <1>5 DEF Waiting

(* Nobody waits beside a player the queue would have paired him with when he
   joined, for any accounts and any number of players.                       *)
THEOREM QueueHolds == Spec => []WaitingInv
<1>1. Init => WaitingInv
  BY WaitingInit
<1>2. WaitingInv /\ [Next]_vars => WaitingInv'
  <2> SUFFICES ASSUME WaitingInv, [Next]_vars PROVE WaitingInv'
    OBVIOUS
  <2>1. CASE Tick
    <3>1. /\ now' = now + 1
          /\ UNCHANGED <<account, queued, match>>
      BY <2>1 DEF Tick, serverVars
    <3> QED BY <3>1
          DEF WaitingInv, Pairs, Waiting, WaitersWereApart, RatingWindow,
              Distance, Entry
  <2>2. ASSUME NEW m \in Matches, Interrupt(m) PROVE WaitingInv'
    <3>1. /\ match' = [match EXCEPT ![m].status = "interrupted"]
          /\ match[m].status = "live"
          /\ UNCHANGED <<now, account, queued>>
      BY <2>2 DEF Interrupt
    <3>2. Pairs'
      BY <3>1 DEF WaitingInv, Pairs, Match
    <3> QED BY <3>1, <3>2, LeavingHolds DEF WaitingInv
  <2>3. ASSUME NEW u \in Players,
               Lose(u) \/ CloseLobby(u) \/ Kill(u) \/ Cancel(u)
        PROVE  WaitingInv'
    <3>1. /\ queued' = [queued EXCEPT ![u] = None]
          /\ UNCHANGED <<now, account, match>>
      BY <2>3 DEF Lose, CloseLobby, Kill, Cancel
    <3> QED BY <3>1, PairsStay, LeavingHolds DEF WaitingInv
  <2>4. ASSUME NEW u \in Players,
               \/ Connect(u) \/ Deliver(u) \/ OpenScreen(u) \/ Continue(u)
               \/ Back(u) \/ Saved(u) \/ SaveFails(u) \/ RetrySave(u)
        PROVE  WaitingInv'
    <3>1. UNCHANGED <<now, account, queued, match>>
      BY <2>4 DEF Connect, Deliver, OpenScreen, Continue, Back, Saved,
                  SaveFails, RetrySave, serverVars
    <3> QED BY <3>1, PairsStay, LeavingHolds DEF WaitingInv
  <2>5. CASE UNCHANGED vars
    <3>1. UNCHANGED <<now, account, queued, match>>
      BY <2>5 DEF vars, serverVars
    <3> QED BY <3>1, PairsStay, LeavingHolds DEF WaitingInv
  <2> QED BY <2>1, <2>2, <2>3, <2>4, <2>5, JoiningHolds, PairingHolds,
             EndingHolds DEF Next
<1> QED BY <1>1, <1>2, PTL DEF Spec

(* Two players wait beside each other only when they were too far apart at the
   moment the later of them joined (isFairMatch, waitingSocket).             *)
THEOREM WaitersHold == Spec => []WaitersWereApart
<1>1. WaitingInv => WaitersWereApart
  BY DEF WaitingInv
<1> QED BY <1>1, QueueHolds, PTL

-----------------------------------------------------------------------------
(* Messages on the way *)

Texts == [type: {"matched", "finished", "settlement", "interrupted", "error"},
          id: Matches]

Has(s, type, m) == \E i \in 1 .. Len(s): s[i].type = type /\ s[i].id = m

(* After the settlement of a match nothing announces that match. *)
Orderly(s) ==
  \A i, j \in 1 .. Len(s):
    i < j /\ s[i].type = "settlement" /\ s[j].type = "matched"
      => s[i].id # s[j].id

LEMMA MessageOf ==
  ASSUME NEW m \in Matches,
         NEW type \in {"matched", "finished", "settlement", "interrupted",
                       "error"}
  PROVE  /\ Message(type, m) \in Texts
         /\ Message(type, m).type = type /\ Message(type, m).id = m
BY DEF Message, Texts

LEMMA MoreText ==
  ASSUME NEW s \in Seq(Texts), NEW t \in Texts
  PROVE  /\ Append(s, t) \in Seq(Texts)
         /\ \A type, m: Has(Append(s, t), type, m)
                          <=> Has(s, type, m) \/ (t.type = type /\ t.id = m)
         /\ Orderly(s) /\ (t.type = "matched" => ~Has(s, "settlement", t.id))
              => Orderly(Append(s, t))
<1> DEFINE a == Append(s, t)
<1>1. /\ a \in Seq(Texts) /\ Len(a) = Len(s) + 1 /\ Len(s) \in Nat
      /\ \A i \in 1 .. Len(s): a[i] = s[i]
      /\ a[Len(s) + 1] = t
  BY AppendProperties
<1>2. \A i \in 1 .. Len(a): i \in 1 .. Len(s) \/ i = Len(s) + 1
  BY <1>1
<1>3. 1 .. Len(s) \subseteq 1 .. Len(a) /\ Len(s) + 1 \in 1 .. Len(a)
  BY <1>1
<1> HIDE DEF a
<1>4. \A type, m: Has(a, type, m)
                    <=> Has(s, type, m) \/ (t.type = type /\ t.id = m)
  BY <1>1, <1>2, <1>3 DEF Has
<1>5. ASSUME Orderly(s), t.type = "matched" => ~Has(s, "settlement", t.id)
      PROVE  Orderly(a)
  <2> SUFFICES ASSUME NEW i \in 1 .. Len(a), NEW j \in 1 .. Len(a), i < j,
                      a[i].type = "settlement", a[j].type = "matched"
               PROVE  a[i].id # a[j].id
    BY DEF Orderly
  <2>1. i \in 1 .. Len(s) /\ a[i] = s[i]
    BY <1>1, <1>2
  <2>2. CASE j \in 1 .. Len(s)
    BY <2>1, <2>2, <1>1, <1>5 DEF Orderly
  <2>3. CASE j = Len(s) + 1
    BY <2>1, <2>3, <1>1, <1>5 DEF Has
  <2> QED BY <2>2, <2>3, <1>2
<1> QED BY <1>1, <1>4, <1>5 DEF a

LEMMA LessText ==
  ASSUME NEW s \in Seq(Texts), s # <<>>
  PROVE  /\ Head(s) \in Texts /\ Tail(s) \in Seq(Texts)
         /\ Has(s, Head(s).type, Head(s).id)
         /\ \A type, m: Has(Tail(s), type, m) => Has(s, type, m)
         /\ Orderly(s) => Orderly(Tail(s))
         /\ Orderly(s) /\ Head(s).type = "settlement"
              => ~Has(Tail(s), "matched", Head(s).id)
<1> DEFINE t == Tail(s)
<1>1. /\ t \in Seq(Texts) /\ Len(t) = Len(s) - 1
      /\ \A i \in 1 .. Len(t): t[i] = s[i + 1]
      /\ Head(s) \in Texts /\ Head(s) = s[1]
  BY HeadTailProperties
<1>2. Len(s) \in Nat /\ 1 \in 1 .. Len(s)
      /\ \A i \in 1 .. Len(t): i + 1 \in 1 .. Len(s) /\ 1 < i + 1
  BY <1>1
<1> HIDE DEF t
<1>3. \A type, m: Has(t, type, m) => Has(s, type, m)
  BY <1>1, <1>2 DEF Has
<1>4. Orderly(s) => Orderly(t)
  BY <1>1, <1>2 DEF Orderly
<1>5. Orderly(s) /\ Head(s).type = "settlement"
        => ~Has(t, "matched", Head(s).id)
  BY <1>1, <1>2 DEF Orderly, Has
<1>6. Has(s, Head(s).type, Head(s).id)
  BY <1>1, <1>2 DEF Has
<1> QED BY <1>1, <1>3, <1>4, <1>5, <1>6 DEF t

(* What is sent on a new connection. *)
LEMMA FirstText ==
  ASSUME NEW t \in Texts
  PROVE  /\ <<t>> \in Seq(Texts) /\ Orderly(<<t>>)
         /\ \A type, m: Has(<<t>>, type, m) <=> (t.type = type /\ t.id = m)
BY DEF Orderly, Has

LEMMA PendingTexts ==
  ASSUME NEW u \in Uids, NEW texts \in PendingMessages(u)
  PROVE  /\ texts \in Seq(Texts) /\ Orderly(texts)
         /\ \A m: ~Has(texts, "matched", m)
         /\ \A m: Has(texts, "settlement", m) => m \in Pending(u)
<1> DEFINE ms == Oldest(Pending(u))
<1>1. PICK ids \in InOrder(ms):
        texts = [i \in DOMAIN ids |-> Message("settlement", ids[i])]
  BY DEF PendingMessages
<1> DEFINE n == Cardinality(ms)
<1>2. ids \in [1 .. n -> ms] /\ DOMAIN ids = 1 .. n
  BY <1>1 DEF InOrder, SetToSeqs
<1>3. ms \subseteq Pending(u) /\ ms \subseteq Matches
  BY DEF Oldest, Pending
<1>4. \A i \in 1 .. n: /\ texts[i] \in Texts /\ texts[i].type = "settlement"
                       /\ texts[i].id \in Pending(u)
  BY <1>1, <1>2, <1>3, MessageOf
<1>5. n \in Nat
  BY <1>3, ArenaAssumption, FS_Subset, FS_CardinalityType
<1> HIDE DEF ms, n
<1>6. texts \in [1 .. n -> Texts] /\ Len(texts) = n
  BY <1>1, <1>2, <1>4, <1>5
<1>7. texts \in Seq(Texts)
  BY <1>5, <1>6
<1> QED BY <1>4, <1>5, <1>6, <1>7 DEF Orderly, Has

-----------------------------------------------------------------------------
(* Saves *)

Save == [ledger: Seq(Matches), paid: [Matches -> Nat]]

(* What is in the ledger has paid once, and nothing has paid twice. *)
Sound(save) ==
  \A m \in Matches: /\ save.paid[m] <= 1
                    /\ Remembered(save, m) => save.paid[m] = 1

LEMMA InRange ==
  ASSUME NEW s \in Seq(Matches), NEW m
  PROVE  m \in Range(s) <=> \E i \in 1 .. Len(s): s[i] = m
BY DEF Range

(* The newest receipt is remembered, whatever falls out of the ledger. *)
LEMMA AppliedSave ==
  ASSUME NEW save \in Save, NEW m \in Matches
  PROVE  /\ Applied(save, m) \in Save
         /\ Remembered(Applied(save, m), m)
         /\ \A k \in Matches:
              Remembered(Applied(save, m), k) => k = m \/ Remembered(save, k)
         /\ Applied(save, m).paid = [save.paid EXCEPT ![m] = @ + 1]
<1> DEFINE all == Append(save.ledger, m)
           n == Len(all)
           from == Most(1, n - LedgerSize + 1)
           kept == SubSeq(all, from, n)
<1>1. /\ save.ledger \in Seq(Matches) /\ save.paid \in [Matches -> Nat]
      /\ LedgerSize \in Nat \ {0}
  BY ArenaAssumption DEF Save
<1>2. /\ all \in Seq(Matches) /\ n = Len(save.ledger) + 1
      /\ Len(save.ledger) \in Nat
      /\ \A i \in 1 .. Len(save.ledger): all[i] = save.ledger[i]
      /\ all[n] = m
  BY <1>1, AppendProperties
<1>3. from \in 1 .. n /\ n \in Nat
  BY <1>1, <1>2 DEF Most
<1>4. \A i \in 1 .. n: all[i] \in Matches
  BY <1>2
<1> HIDE DEF all, n, from
<1>5. /\ kept \in Seq(Matches) /\ Len(kept) = n - from + 1
      /\ \A i \in 1 .. n - from + 1: kept[i] = all[from + i - 1]
  BY <1>3, <1>4, SubSeqProperties
<1> HIDE DEF kept
<1>6. m \in Range(kept)
  <2>1. n - from + 1 \in 1 .. n - from + 1 /\ from + (n - from + 1) - 1 = n
    BY <1>3
  <2> QED BY <2>1, <1>2, <1>5, InRange
<1>7. \A k \in Range(kept): k = m \/ k \in Range(save.ledger)
  <2> SUFFICES ASSUME NEW k \in Range(kept) PROVE k = m \/ k \in Range(save.ledger)
    OBVIOUS
  <2>1. PICK i \in 1 .. Len(kept): kept[i] = k
    BY <1>5, InRange
  <2>2. from + i - 1 \in 1 .. n /\ all[from + i - 1] = k
    BY <2>1, <1>3, <1>5
  <2>3. from + i - 1 = n \/ from + i - 1 \in 1 .. Len(save.ledger)
    BY <2>2, <1>2
  <2> QED BY <2>2, <2>3, <1>1, <1>2, InRange
<1>8. Applied(save, m) =
        [ledger |-> kept, paid |-> [save.paid EXCEPT ![m] = @ + 1]]
  BY DEF Applied, all, n, from, kept
<1>9. [save.paid EXCEPT ![m] = @ + 1] \in [Matches -> Nat]
  BY <1>1
<1> QED BY <1>5, <1>6, <1>7, <1>8, <1>9 DEF Save, Remembered

-----------------------------------------------------------------------------
(* Results *)

Settled == {m \in Matches: match[m].status = "settled"}

(* What the server sends to one player: a settlement only of what is settled,
   and after it no announcement of that match.                               *)
WireHolds(w, settled) ==
  w # None => /\ w \in Seq(Texts) /\ Orderly(w)
              /\ \A m \in Matches: Has(w, "settlement", m) => m \in settled

(* The match is settled and will not be announced to the player any more. *)
Gone(w, settled, m) == m \in settled /\ (w # None => ~Has(w, "matched", m))

(* What has paid, or is about to, is gone: the service can turn to its match
   only when it has done so before, and then it still remembers the receipt,
   because every receipt it applies is of the match it has turned to.        *)
AppHolds(w, c, mem, dsk, settled) ==
  /\ \A m \in Matches: c.slot = m \/ mem.paid[m] = 1 => Gone(w, settled, m)
  /\ \A m \in Matches:
       mem.paid[m] = 1 /\ c.matchId = m => Remembered(mem, m)
  /\ \A m \in Matches: c.saving = m => mem.paid[m] = 1
  /\ \A m \in Matches: dsk.paid[m] = 1 => mem.paid[m] = 1
  /\ Sound(mem) /\ Sound(dsk)

RowsHold ==
  /\ DOMAIN row = Uids \X Matches /\ row = [p \in Uids \X Matches |-> row[p]]
  /\ \A u \in Uids, m \in Matches: row[<<u, m>>] # None => m \in Settled
  /\ AckedIsSaved

ResultInv ==
  /\ DOMAIN wire = Uids /\ wire = [u \in Uids |-> wire[u]]
  /\ client \in [Players -> Client]
  /\ memory \in [Players -> Save] /\ disk \in [Players -> Save]
  /\ \A u \in Players: WireHolds(wire[u], Settled)
  /\ \A u \in Players:
       AppHolds(wire[u], client[u], memory[u], disk[u], Settled)
  /\ RowsHold

LEMMA NoneIsNew == None \notin Matches /\ Players \subseteq Uids
BY ArenaAssumption

LEMMA ResultInit == Init => ResultInv
<1> SUFFICES ASSUME Init PROVE ResultInv
  OBVIOUS
<1> USE NoneIsNew DEF Init
<1>1. NewClient \in Client /\ NewSave \in Save
  BY DEF NewClient, Client, NewSave, Save
<1>2. Sound(NewSave) /\ \A m \in Matches: NewSave.paid[m] = 0
  BY DEF Sound, NewSave, Remembered, Range
<1>3. \A u \in Players: AppHolds(None, NewClient, NewSave, NewSave, Settled)
  BY <1>2 DEF AppHolds, NewClient, Gone
<1>4. RowsHold
  BY DEF RowsHold, AckedIsSaved
<1> QED BY <1>1, <1>3, <1>4 DEF ResultInv, WireHolds

(* The screen looks at the slot after every change of the service. *)
LEMMA BecomesHolds ==
  ASSUME ResultInv, NEW u \in Players, NEW c \in Client, ClientBecomes(u, c),
         NEW w, AppHolds(w, c, memory[u], disk[u], Settled)
  PROVE  \E d \in Client, mem \in Save:
           /\ client' = [client EXCEPT ![u] = d]
           /\ memory' = [memory EXCEPT ![u] = mem]
           /\ AppHolds(w, d, mem, disk[u], Settled)
<1> DEFINE old == memory[u]
           new == Applied(old, c.slot)
           d == [c EXCEPT !.saving = c.slot]
<1>1. old \in Save /\ disk[u] \in Save /\ memory \in [Players -> Save]
  BY DEF ResultInv
<1>2. CASE ~AppliesNow(u, c)
  <2>1. /\ client' = [client EXCEPT ![u] = c]
        /\ memory' = [memory EXCEPT ![u] = memory[u]]
    BY <1>1, <1>2 DEF ClientBecomes
  <2> QED BY <1>1, <2>1
<1>3. CASE AppliesNow(u, c)
  <2>1. /\ c.slot \in Matches /\ c.slot = c.matchId /\ old = disk[u]
        /\ d \in Client /\ d.slot = c.slot /\ d.matchId = c.matchId
        /\ d.saving = c.slot
    BY <1>3 DEF AppliesNow, Client
  <2>2. CASE Remembered(old, c.slot)
    <3>1. /\ client' = [client EXCEPT ![u] = d]
          /\ memory' = [memory EXCEPT ![u] = old]
      BY <1>1, <1>3, <2>2 DEF ClientBecomes
    <3>2. old.paid[c.slot] = 1
      BY <2>1, <2>2 DEF AppHolds, Sound
    <3> HIDE DEF d, old
    <3>3. AppHolds(w, d, old, disk[u], Settled)
      BY <2>1, <3>2 DEF AppHolds, old
    <3> QED BY <1>1, <2>1, <3>1, <3>3
  <2>3. CASE ~Remembered(old, c.slot)
    <3>1. /\ client' = [client EXCEPT ![u] = d]
          /\ memory' = [memory EXCEPT ![u] = new]
      BY <1>1, <1>3, <2>3 DEF ClientBecomes
    <3>2. /\ new \in Save /\ Remembered(new, c.slot)
          /\ \A k \in Matches: Remembered(new, k) => k = c.slot
                                                      \/ Remembered(old, k)
          /\ new.paid = [old.paid EXCEPT ![c.slot] = @ + 1]
      BY <1>1, <2>1, AppliedSave
    <3>3. old.paid[c.slot] = 0
      <4>1. old.paid[c.slot] # 1 /\ old.paid[c.slot] <= 1
        BY <2>1, <2>3 DEF AppHolds, Sound
      <4>2. old.paid[c.slot] \in Nat
        BY <1>1, <2>1 DEF Save
      <4> QED BY <4>1, <4>2
    <3>4. /\ new.paid[c.slot] = 1
          /\ \A k \in Matches: k # c.slot => new.paid[k] = old.paid[k]
      BY <1>1, <2>1, <3>2, <3>3 DEF Save
    <3>5. AppHolds(w, c, old, old, Settled)
      BY <2>1
    <3> HIDE DEF d, old, new
    <3>6. Sound(new)
      BY <3>2, <3>4, <3>5 DEF Sound, AppHolds
    <3>7. AppHolds(w, d, new, old, Settled)
      BY <2>1, <3>2, <3>4, <3>5, <3>6 DEF AppHolds
    <3> QED BY <2>1, <3>1, <3>2, <3>7
  <2> QED BY <2>2, <2>3
<1> QED BY <1>2, <1>3

(* A step of one player and of nobody else. *)
LEMMA PlayerStep ==
  ASSUME ResultInv, NEW u \in Players,
         NEW w, wire' = [wire EXCEPT ![u] = w], WireHolds(w, Settled),
         NEW c \in Client, client' = [client EXCEPT ![u] = c],
         NEW mem \in Save, memory' = [memory EXCEPT ![u] = mem],
         NEW dsk \in Save, disk' = [disk EXCEPT ![u] = dsk],
         AppHolds(w, c, mem, dsk, Settled),
         \A m \in Matches: disk[u].paid[m] = 1 => dsk.paid[m] = 1,
         UNCHANGED <<row, match>>
  PROVE  ResultInv'
<1>1. u \in Uids /\ Settled' = Settled
  BY NoneIsNew DEF Settled
<1>2. /\ \A v \in Uids: wire'[v] = IF v = u THEN w ELSE wire[v]
      /\ \A v \in Players: /\ client'[v] = IF v = u THEN c ELSE client[v]
                           /\ memory'[v] = IF v = u THEN mem ELSE memory[v]
                           /\ disk'[v] = IF v = u THEN dsk ELSE disk[v]
  BY <1>1 DEF ResultInv
<1>3. /\ DOMAIN wire' = Uids /\ wire' = [v \in Uids |-> wire'[v]]
      /\ client' \in [Players -> Client]
      /\ memory' \in [Players -> Save] /\ disk' \in [Players -> Save]
  BY <1>1 DEF ResultInv
<1>4. RowsHold'
  <2>1. AckedIsSaved'
    <3> SUFFICES ASSUME NEW v \in Players, NEW m \in Matches,
                        row[<<v, m>>] # None, row[<<v, m>>].acknowledged
                 PROVE  disk'[v].paid[m] = 1
      BY DEF AckedIsSaved
    <3>1. disk[v].paid[m] = 1
      BY DEF ResultInv, RowsHold, AckedIsSaved
    <3> QED BY <3>1, <1>2
  <2>2. RowsHold
    BY DEF ResultInv
  <2> HIDE DEF AckedIsSaved
  <2> QED BY <2>1, <2>2, <1>1 DEF RowsHold
<1>5. \A v \in Players: WireHolds(wire'[v], Settled)
  BY <1>1, <1>2, NoneIsNew DEF ResultInv
<1>6. \A v \in Players:
        AppHolds(wire'[v], client'[v], memory'[v], disk'[v], Settled)
  BY <1>1, <1>2, NoneIsNew DEF ResultInv
<1>7. /\ (\A v \in Players: WireHolds(wire[v], Settled))'
      /\ (\A v \in Players:
            AppHolds(wire[v], client[v], memory[v], disk[v], Settled))'
  BY <1>1, <1>5, <1>6
<1> QED BY <1>3, <1>4, <1>7 DEF ResultInv

(* A step of the service of one player, whose save is not written by it. *)
LEMMA ServiceStep ==
  ASSUME ResultInv, NEW u \in Players, NEW c \in Client, ClientBecomes(u, c),
         NEW w, wire' = [wire EXCEPT ![u] = w], WireHolds(w, Settled),
         AppHolds(w, c, memory[u], disk[u], Settled),
         UNCHANGED <<row, match, disk>>
  PROVE  ResultInv'
<1>1. PICK d \in Client, mem \in Save:
        /\ client' = [client EXCEPT ![u] = d]
        /\ memory' = [memory EXCEPT ![u] = mem]
        /\ AppHolds(w, d, mem, disk[u], Settled)
  BY BecomesHolds
<1>2. disk[u] \in Save /\ disk' = [disk EXCEPT ![u] = disk[u]]
  BY DEF ResultInv
<1> QED BY <1>1, <1>2, PlayerStep

(* Nobody's app moves. *)
LEMMA UnwrittenHolds ==
  ASSUME ResultInv, UNCHANGED <<wire, client, memory, disk, row, match>>
  PROVE  ResultInv'
<1>1. Settled' = Settled
  BY DEF Settled
<1>2. RowsHold'
  BY <1>1 DEF ResultInv, RowsHold, AckedIsSaved
<1> QED BY <1>1, <1>2 DEF ResultInv

LEMMA ConnectHolds ==
  ASSUME ResultInv, NEW u \in Players, Connect(u)
  PROVE  ResultInv'
<1> DEFINE c == [client[u] EXCEPT !.phase = "ready"]
<1> USE NoneIsNew
<1>1. PICK texts \in IF LiveMatch(u) # {}
                     THEN {<< Message("matched", m) >>: m \in LiveMatch(u)}
                     ELSE PendingMessages(u):
        wire' = [wire EXCEPT ![u] = texts]
  BY DEF Connect
<1>2. /\ wire[u] = None /\ ClientBecomes(u, c)
      /\ UNCHANGED <<row, match, disk>>
  BY DEF Connect, Open, serverVars
<1>3. /\ c \in Client /\ c.slot = client[u].slot
      /\ c.matchId = client[u].matchId /\ c.saving = client[u].saving
  BY DEF ResultInv, Client
<1>4. AppHolds(None, client[u], memory[u], disk[u], Settled)
  BY <1>2 DEF ResultInv
<1>5. /\ texts \in Seq(Texts) /\ Orderly(texts)
      /\ \A m \in Matches: Has(texts, "settlement", m) => m \in Settled
      /\ \A m \in Settled: ~Has(texts, "matched", m)
  <2>1. CASE LiveMatch(u) # {}
    <3>1. PICK m \in LiveMatch(u): texts = << Message("matched", m) >>
      BY <1>1, <2>1
    <3>2. m \in Matches /\ m \notin Settled
      BY <3>1 DEF LiveMatch, Settled
    <3> QED BY <3>1, <3>2, MessageOf, FirstText
  <2>2. CASE LiveMatch(u) = {}
    <3>1. texts \in PendingMessages(u)
      BY <1>1, <2>2
    <3>2. Pending(u) \subseteq Settled
      BY DEF Pending, ResultInv, RowsHold
    <3> QED BY <3>1, <3>2, PendingTexts
  <2> QED BY <2>1, <2>2
<1>6. WireHolds(texts, Settled)
  BY <1>5 DEF WireHolds
<1> HIDE DEF c
<1>7. AppHolds(texts, c, memory[u], disk[u], Settled)
  BY <1>3, <1>4, <1>5 DEF AppHolds, Gone
<1> QED BY <1>1, <1>2, <1>3, <1>6, <1>7, ServiceStep

LEMMA DeliverHolds ==
  ASSUME ResultInv, NEW u \in Players, Deliver(u)
  PROVE  ResultInv'
<1> DEFINE w == wire[u]
           t == Head(w)
           c == AfterMessage(client[u], t)
<1>1. /\ w # None /\ w # <<>> /\ wire' = [wire EXCEPT ![u] = Tail(w)]
      /\ ClientBecomes(u, c)
      /\ UNCHANGED <<row, match, disk>>
  <2>1. u \in Uids
    BY NoneIsNew
  <2> QED BY <2>1 DEF Deliver, Open, serverVars, ResultInv
<1>2. /\ WireHolds(w, Settled) /\ client[u] \in Client
      /\ AppHolds(w, client[u], memory[u], disk[u], Settled)
  BY DEF ResultInv
<1> HIDE DEF w
<1>3. w \in Seq(Texts) /\ Orderly(w)
      /\ \A m \in Matches: Has(w, "settlement", m) => m \in Settled
  BY <1>1, <1>2 DEF WireHolds
<1>4. /\ t \in Texts /\ Tail(w) \in Seq(Texts) /\ Has(w, t.type, t.id)
      /\ \A type, m: Has(Tail(w), type, m) => Has(w, type, m)
      /\ Orderly(Tail(w))
      /\ t.type = "settlement" => ~Has(Tail(w), "matched", t.id)
  BY <1>1, <1>3, LessText
<1> HIDE DEF t
<1>5. WireHolds(Tail(w), Settled)
  BY <1>3, <1>4 DEF WireHolds
<1>6. /\ c \in Client /\ c.saving = client[u].saving
      /\ c.slot = IF t.type = "settlement" THEN t.id ELSE client[u].slot
      /\ \/ c.matchId = client[u].matchId \/ c.matchId = None
         \/ t.type = "matched" /\ c.matchId = t.id
  <2>1. client[u] \in Client /\ t \in Texts /\ t.id \in Matches
    BY <1>2, <1>4 DEF Texts
  <2>2. c \in Client
    <3>1. CASE t.type = "matched"
      BY <2>1, <3>1 DEF AfterMessage, Client
    <3>2. CASE t.type \in {"finished", "settlement"}
      BY <2>1, <3>2 DEF AfterMessage, Client
    <3>3. CASE t.type \in {"interrupted", "error"}
      BY <2>1, <3>3 DEF AfterMessage, Client
    <3> QED BY <2>1, <3>1, <3>2, <3>3 DEF Texts
  <2>3. c.saving = client[u].saving
    BY <2>1 DEF AfterMessage, Client, Texts
  <2>4. c.slot = IF t.type = "settlement" THEN t.id ELSE client[u].slot
    BY <2>1 DEF AfterMessage, Client, Texts
  <2>5. \/ c.matchId = client[u].matchId \/ c.matchId = None
        \/ t.type = "matched" /\ c.matchId = t.id
    BY <2>1 DEF AfterMessage, Client, Texts
  <2> QED BY <2>2, <2>3, <2>4, <2>5
<1> HIDE DEF c
<1>7. AppHolds(Tail(w), c, memory[u], disk[u], Settled)
  <2>1. \A m \in Matches: Gone(w, Settled, m) => Gone(Tail(w), Settled, m)
    BY <1>1, <1>4 DEF Gone
  <2>2. t.type = "settlement" => Gone(Tail(w), Settled, t.id)
    BY <1>3, <1>4 DEF Gone, Texts
  <2>3. t.type = "matched" => ~Gone(w, Settled, t.id)
    BY <1>1, <1>4 DEF Gone
  <2>4. \A m \in Matches:
          memory[u].paid[m] = 1 /\ c.matchId = m => Remembered(memory[u], m)
    BY <1>2, <1>6, <2>3, NoneIsNew DEF AppHolds
  <2>5. \A m \in Matches: c.slot = m \/ memory[u].paid[m] = 1
          => Gone(Tail(w), Settled, m)
    BY <1>2, <1>6, <2>1, <2>2 DEF AppHolds
  <2> QED BY <1>2, <1>6, <2>4, <2>5 DEF AppHolds
<1> QED BY <1>1, <1>5, <1>6, <1>7, ServiceStep

(* The steps of an app that send and receive nothing. *)
LEMMA AppStep ==
  ASSUME ResultInv, NEW u \in Players,
         \/ Lose(u) \/ CloseLobby(u) \/ Kill(u) \/ Cancel(u) \/ Continue(u)
         \/ Back(u) \/ SaveFails(u) \/ RetrySave(u)
  PROVE  ResultInv'
<1> DEFINE app == client[u]
           mem == memory[u]
           dsk == disk[u]
<1>1. /\ app \in Client /\ mem \in Save /\ dsk \in Save
      /\ memory = [memory EXCEPT ![u] = mem]
      /\ disk = [disk EXCEPT ![u] = dsk]
      /\ client = [client EXCEPT ![u] = app]
      /\ wire = [wire EXCEPT ![u] = wire[u]]
  BY NoneIsNew DEF ResultInv
<1>2. /\ WireHolds(wire[u], Settled) /\ WireHolds(None, Settled)
      /\ AppHolds(wire[u], app, mem, dsk, Settled)
  BY DEF ResultInv, WireHolds
<1> HIDE DEF app, mem, dsk
<1>3. AppHolds(None, app, mem, dsk, Settled)
  BY <1>2 DEF AppHolds, Gone
<1>4. NewClient \in Client /\ AppHolds(None, NewClient, mem, dsk, Settled)
      /\ AppHolds(None, NewClient, dsk, dsk, Settled)
  BY <1>3, NoneIsNew DEF NewClient, Client, AppHolds, Gone
<1>5. CASE Lose(u)
  <2>1. /\ wire' = [wire EXCEPT ![u] = None]
        /\ client' = [client EXCEPT ![u] = Disconnected(app)]
        /\ UNCHANGED <<row, match, memory, disk>>
    BY <1>1, <1>5 DEF Lose, saveVars, app
  <2>2. /\ Disconnected(app) \in Client
        /\ Disconnected(app).slot = app.slot
        /\ Disconnected(app).matchId = app.matchId
        /\ Disconnected(app).saving = app.saving
    BY <1>1 DEF Disconnected, Client
  <2>3. AppHolds(None, Disconnected(app), mem, dsk, Settled)
    BY <1>3, <2>2 DEF AppHolds
  <2> QED BY <1>1, <1>2, <2>1, <2>2, <2>3, PlayerStep DEF dsk
<1>6. CASE CloseLobby(u)
  <2>1. /\ wire' = [wire EXCEPT ![u] = None]
        /\ client' = [client EXCEPT ![u] = NewClient]
        /\ UNCHANGED <<row, match, memory, disk>>
    BY <1>6 DEF CloseLobby, saveVars
  <2> QED BY <1>1, <1>2, <1>4, <2>1, PlayerStep DEF dsk
<1>7. CASE Kill(u)
  <2>1. /\ wire' = [wire EXCEPT ![u] = None]
        /\ client' = [client EXCEPT ![u] = NewClient]
        /\ memory' = [memory EXCEPT ![u] = dsk]
        /\ UNCHANGED <<row, match, disk>>
    BY <1>7 DEF Kill, dsk
  <2> QED BY <1>1, <1>2, <1>4, <2>1, PlayerStep DEF dsk
<1>8. CASE Cancel(u)
  <2> DEFINE c == [app EXCEPT !.phase = "ready"]
  <2>1. ClientBecomes(u, c) /\ UNCHANGED <<wire, row, match, disk>>
    BY <1>8 DEF Cancel, app
  <2>2. /\ c \in Client /\ c.slot = app.slot /\ c.matchId = app.matchId
        /\ c.saving = app.saving
    BY <1>1 DEF Client
  <2> HIDE DEF c
  <2>3. AppHolds(wire[u], c, memory[u], disk[u], Settled)
    BY <1>2, <2>2 DEF AppHolds, mem, dsk
  <2> QED BY <1>1, <1>2, <2>1, <2>2, <2>3, ServiceStep
<1>9. CASE Continue(u) \/ Back(u) \/ SaveFails(u)
  <2>1. PICK c \in Client:
          /\ client' = [client EXCEPT ![u] = c]
          /\ c.slot = app.slot /\ c.matchId \in {app.matchId, None}
          /\ c.saving \in {app.saving, None}
    <3> DEFINE left == [app EXCEPT !.screen = None]
               on == Cleared(app, Open(u))
               idle == [app EXCEPT !.saving = None]
    <3>1. /\ left \in Client /\ left.slot = app.slot
          /\ left.matchId = app.matchId /\ left.saving = app.saving
      BY <1>1 DEF Client
    <3>2. /\ on \in Client /\ on.slot = app.slot
          /\ on.matchId = None /\ on.saving = app.saving
      BY <1>1 DEF Client, Cleared
    <3>3. /\ idle \in Client /\ idle.slot = app.slot
          /\ idle.matchId = app.matchId /\ idle.saving = None
      BY <1>1 DEF Client
    <3>4. CASE Continue(u)
      <4>1. client' = [client EXCEPT ![u] = on]
        BY <3>4 DEF Continue, app
      <4> QED BY <3>2, <4>1
    <3>5. CASE Back(u)
      <4>1. client' = [client EXCEPT ![u] = left]
        BY <3>5 DEF Back, app
      <4> QED BY <3>1, <4>1
    <3>6. CASE SaveFails(u)
      <4>1. client' = [client EXCEPT ![u] = idle]
        BY <3>6 DEF SaveFails, app
      <4> QED BY <3>3, <4>1
    <3> QED BY <1>9, <3>4, <3>5, <3>6
  <2>2. UNCHANGED <<wire, row, match, memory, disk>>
    BY <1>9 DEF Continue, Back, SaveFails, serverVars, saveVars
  <2>3. AppHolds(wire[u], c, mem, dsk, Settled)
    BY <1>2, <2>1, NoneIsNew DEF AppHolds
  <2> QED BY <1>1, <1>2, <2>1, <2>2, <2>3, PlayerStep DEF dsk
<1>10. CASE RetrySave(u)
  <2>1. /\ disk' = [disk EXCEPT ![u] = mem]
        /\ UNCHANGED <<wire, row, match, memory, client>>
    BY <1>10 DEF RetrySave, serverVars, mem
  <2>2. /\ AppHolds(wire[u], app, mem, mem, Settled)
        /\ \A m \in Matches: dsk.paid[m] = 1 => mem.paid[m] = 1
    BY <1>2 DEF AppHolds
  <2> QED BY <1>1, <1>2, <2>1, <2>2, PlayerStep DEF dsk
<1> QED BY <1>5, <1>6, <1>7, <1>8, <1>9, <1>10

(* The receipt of the save is acknowledged after it is on the disk. *)
LEMMA SavedHolds ==
  ASSUME ResultInv, NEW u \in Players, Saved(u)
  PROVE  ResultInv'
<1> DEFINE m == client[u].saving
           c == AfterSave(client[u], Open(u))
           mem == memory[u]
<1>1. /\ client[u] \in Client /\ mem \in Save /\ disk[u] \in Save
      /\ WireHolds(wire[u], Settled)
      /\ AppHolds(wire[u], client[u], mem, disk[u], Settled)
      /\ RowsHold
  BY DEF ResultInv
<1>2. /\ m \in Matches /\ disk' = [disk EXCEPT ![u] = mem]
      /\ Acknowledges(u, m)
      /\ UNCHANGED <<wire, memory, match>>
  BY <1>1 DEF Saved, Client
<1>3. client' = [client EXCEPT ![u] = c]
  BY DEF Saved
<1>4. /\ c \in Client /\ c.matchId = client[u].matchId /\ c.saving = None
      /\ c.slot \in {client[u].slot, None}
  <2>1. client[u] \in Client
    BY <1>1
  <2>2. c \in Client
    <3>1. c = [client[u] EXCEPT !.saving = None, !.slot = c.slot,
                                !.done = c.done]
      BY <2>1 DEF AfterSave
    <3>2. c.slot \in Matches \cup {None} /\ c.done \in BOOLEAN
      BY <2>1 DEF Client, AfterSave
    <3> HIDE DEF c
    <3> QED BY <2>1, <3>1, <3>2 DEF Client
  <2>3. c.matchId = client[u].matchId /\ c.saving = None
    BY <2>1 DEF Client, AfterSave
  <2>4. c.slot \in {client[u].slot, None}
    BY <2>1 DEF Client, AfterSave
  <2> QED BY <2>2, <2>3, <2>4
<1> HIDE DEF c, mem
<1>5. mem.paid[m] = 1 /\ m \in Settled
  BY <1>1, <1>2 DEF AppHolds, Gone
<1> HIDE DEF m
<1>6. AppHolds(wire[u], c, mem, mem, Settled)
  BY <1>1, <1>4, NoneIsNew DEF AppHolds
<1>7. /\ \A v \in Players: /\ client'[v] = IF v = u THEN c ELSE client[v]
                           /\ disk'[v] = IF v = u THEN mem ELSE disk[v]
      /\ client' \in [Players -> Client] /\ disk' \in [Players -> Save]
  BY <1>1, <1>2, <1>3, <1>4 DEF ResultInv
<1>8. Settled' = Settled
  BY <1>2 DEF Settled
<1>9. /\ DOMAIN row' = Uids \X Matches
      /\ row' = [p \in Uids \X Matches |-> row'[p]]
      /\ \A p \in Uids \X Matches: p # <<u, m>> => row'[p] = row[p]
  BY <1>1, <1>2 DEF Acknowledges, RowsHold
<1>10. RowsHold'
  <2>1. \A v \in Uids, k \in Matches: row'[<<v, k>>] # None => k \in Settled
    BY <1>1, <1>5, <1>9 DEF RowsHold
  <2>2. \A v \in Players, k \in Matches:
          row'[<<v, k>>] # None /\ row'[<<v, k>>].acknowledged
            => disk'[v].paid[k] = 1
    <3> SUFFICES ASSUME NEW v \in Players, NEW k \in Matches,
                        row'[<<v, k>>] # None, row'[<<v, k>>].acknowledged
                 PROVE  disk'[v].paid[k] = 1
      OBVIOUS
    <3>1. CASE v = u /\ k = m
      BY <3>1, <1>5, <1>7
    <3>2. CASE ~(v = u /\ k = m)
      <4>1. row'[<<v, k>>] = row[<<v, k>>]
        BY <3>2, <1>9, NoneIsNew
      <4>2. disk[v].paid[k] = 1
        BY <4>1, <1>1 DEF RowsHold, AckedIsSaved
      <4> QED BY <4>2, <1>1, <1>7 DEF AppHolds
    <3> QED BY <3>1, <3>2
  <2> QED BY <1>8, <1>9, <2>1, <2>2 DEF RowsHold, AckedIsSaved
<1>11. \A v \in Players:
         AppHolds(wire[v], client'[v], memory[v], disk'[v], Settled)
  BY <1>6, <1>7 DEF ResultInv, mem
<1> QED BY <1>2, <1>7, <1>8, <1>10, <1>11 DEF ResultInv

(* A message announces nothing that is settled, and brings only settlements of
   what is.                                                                  *)
Fits(t, settled) ==
  /\ t \in Texts
  /\ t.type = "matched" => t.id \notin settled
  /\ t.type = "settlement" => t.id \in settled

(* WireHolds and the part of AppHolds about messages, on an open wire. *)
Tells(w, c, mem, settled) ==
  /\ w \in Seq(Texts) /\ Orderly(w)
  /\ \A m \in Matches: Has(w, "settlement", m) => m \in settled
  /\ \A m \in Matches: c.slot = m \/ mem.paid[m] = 1
       => m \in settled /\ ~Has(w, "matched", m)

LEMMA OneMore ==
  ASSUME NEW w, NEW c, NEW mem, NEW settled, Tells(w, c, mem, settled),
         NEW t, Fits(t, settled)
  PROVE  Tells(Append(w, t), c, mem, settled)
<1> DEFINE a == Append(w, t)
<1>1. /\ w \in Seq(Texts) /\ Orderly(w)
      /\ t \in Texts /\ t.id \in Matches
      /\ t.type = "matched" => ~Has(w, "settlement", t.id)
  BY DEF Tells, Fits, Texts
<1>2. /\ a \in Seq(Texts) /\ Orderly(a)
      /\ \A type, m: Has(a, type, m)
                       <=> Has(w, type, m) \/ (t.type = type /\ t.id = m)
  BY <1>1, MoreText
<1> HIDE DEF a
<1>3. Tells(a, c, mem, settled)
  BY <1>2 DEF Tells, Fits
<1> QED BY <1>3 DEF a

LEMMA NoneMore ==
  ASSUME NEW w, NEW c, NEW mem, NEW dsk, NEW old, NEW new,
         old \subseteq new, WireHolds(w, old), AppHolds(w, c, mem, dsk, old)
  PROVE  WireHolds(w, new) /\ AppHolds(w, c, mem, dsk, new)
<1>1. \A m: Gone(w, old, m) => Gone(w, new, m)
  BY DEF Gone
<1>2. AppHolds(w, c, mem, dsk, new)
  BY <1>1 DEF AppHolds
<1> QED BY <1>2 DEF WireHolds

LEMMA Longer ==
  ASSUME NEW w \in Seq(Texts), NEW t \in Texts, NEW t2 \in Texts
  PROVE  /\ w \o <<>> = w /\ w \o <<t>> = Append(w, t)
         /\ w \o <<t, t2>> = Append(Append(w, t), t2)
<1>1. /\ w \o <<>> = w /\ w \o <<t>> = Append(w, t)
      /\ Append(w, t) \in Seq(Texts) /\ <<t>> \in Seq(Texts)
      /\ <<t2>> \in Seq(Texts)
  BY ConcatEmptySeq, AppendIsConcat
<1>2. Append(Append(w, t), t2) = (w \o <<t>>) \o <<t2>>
  BY <1>1, AppendIsConcat
<1>3. (w \o <<t>>) \o <<t2>> = w \o (<<t>> \o <<t2>>)
  BY <1>1, ConcatAssociative
<1>4. <<t>> \o <<t2>> = <<t, t2>>
  <2>1. Append(<<t>>, t2) = <<t>> \o <<t2>>
    BY <1>1, AppendIsConcat
  <2> DEFINE x == Append(<<t>>, t2)
             y == <<t, t2>>
  <2>2. x \in Seq(Texts) /\ Len(x) = 2 /\ x[1] = t /\ x[2] = t2
    BY <1>1, AppendProperties
  <2>3. y \in Seq(Texts) /\ Len(y) = 2 /\ y[1] = t /\ y[2] = t2
    OBVIOUS
  <2> HIDE DEF x, y
  <2>4. x = y
    BY <2>2, <2>3, SeqEqual
  <2> QED BY <2>1, <2>4 DEF x, y
<1> QED BY <1>1, <1>2, <1>3, <1>4

(* No step sends more than two messages to one player. *)
LEMMA MoreTexts ==
  ASSUME NEW w, w # None, NEW c, NEW mem, NEW dsk, NEW old, NEW new,
         old \subseteq new, WireHolds(w, old), AppHolds(w, c, mem, dsk, old),
         NEW t, Fits(t, new), NEW t2, Fits(t2, new),
         NEW s \in {<<>>, <<t>>, <<t, t2>>}
  PROVE  /\ WireHolds(w \o s, new)
         /\ AppHolds(w \o s, c, mem, dsk, new)
<1>1. /\ Tells(w, c, mem, new)
      /\ w \in Seq(Texts) /\ t \in Texts /\ t2 \in Texts
  BY DEF WireHolds, AppHolds, Gone, Tells, Fits
<1> DEFINE a == Append(w, t)
           b == Append(a, t2)
<1>2. Tells(a, c, mem, new)
  BY <1>1, OneMore
<1> HIDE DEF a
<1>3. Tells(b, c, mem, new)
  BY <1>2, OneMore
<1>4. w \o s \in {w, a, b}
  <2>1. w \o <<>> = w /\ w \o <<t>> = a /\ w \o <<t, t2>> = b
    BY <1>1, Longer DEF a
  <2> HIDE DEF b
  <2> QED BY <2>1, Zenon
<1> HIDE DEF b
<1>5. Tells(w \o s, c, mem, new)
  BY <1>1, <1>2, <1>3, <1>4
<1> DEFINE ws == w \o s
<1> HIDE DEF ws
<1>6. Tells(ws, c, mem, new)
  BY <1>5 DEF ws
<1>7. WireHolds(ws, new) /\ AppHolds(ws, c, mem, dsk, new)
  BY <1>6 DEF WireHolds, AppHolds, Gone, Tells
<1> QED BY <1>7 DEF ws

(* What is sent keeps the promises, whoever has changed its app meanwhile. *)
LEMMA SendsHolds ==
  ASSUME ResultInv, NEW new, Settled \subseteq new, NEW apps, NEW saves,
         \A u \in Players:
           AppHolds(wire[u], apps[u], saves[u], disk[u], Settled),
         NEW t, Fits(t, new), NEW t2, Fits(t2, new), NEW texts,
         \A u \in Players: texts[u] \in {<<>>, <<t>>, <<t, t2>>},
         wire' = Sends(texts)
  PROVE  /\ DOMAIN wire' = Uids /\ wire' = [u \in Uids |-> wire'[u]]
         /\ \A u \in Players:
              /\ WireHolds(wire'[u], new)
              /\ AppHolds(wire'[u], apps[u], saves[u], disk[u], new)
<1>1. wire' = [u \in Uids |-> IF u \in Players /\ Open(u)
                              THEN wire[u] \o texts[u] ELSE wire[u]]
  BY DEF Sends
<1>2. ASSUME NEW u \in Players
      PROVE  /\ WireHolds(wire'[u], new)
             /\ AppHolds(wire'[u], apps[u], saves[u], disk[u], new)
  <2> DEFINE w == wire[u]
             c == apps[u]
             mem == saves[u]
             dsk == disk[u]
             s == texts[u]
  <2>1. /\ WireHolds(w, Settled) /\ AppHolds(w, c, mem, dsk, Settled)
        /\ s \in {<<>>, <<t>>, <<t, t2>>}
    BY DEF ResultInv
  <2>2. wire'[u] = IF w # None THEN w \o s ELSE w
    BY <1>1, NoneIsNew DEF Open
  <2> HIDE DEF w, c, mem, dsk, s
  <2>3. CASE w # None
    <3>1. WireHolds(w \o s, new) /\ AppHolds(w \o s, c, mem, dsk, new)
      BY <2>1, <2>3, MoreTexts
    <3> QED BY <2>2, <2>3, <3>1 DEF c, mem, dsk
  <2>4. CASE w = None
    <3>1. WireHolds(w, new) /\ AppHolds(w, c, mem, dsk, new)
      BY <2>1, NoneMore
    <3> QED BY <2>2, <2>4, <3>1 DEF c, mem, dsk
  <2> QED BY <2>3, <2>4
<1> QED BY <1>1, <1>2

(* findMatch on the side of the player who searches. *)
LEMMA SearchesHolds ==
  ASSUME ResultInv, NEW u \in Uids, ServiceSearches(u)
  PROVE  /\ client' \in [Players -> Client] /\ memory' \in [Players -> Save]
         /\ \A v \in Players:
              AppHolds(wire[v], client'[v], memory'[v], disk[v], Settled)
<1>1. /\ client \in [Players -> Client] /\ memory \in [Players -> Save]
      /\ \A v \in Players:
           AppHolds(wire[v], client[v], memory[v], disk[v], Settled)
  BY DEF ResultInv
<1>2. CASE u \notin Players
  BY <1>1, <1>2 DEF ServiceSearches
<1>3. CASE u \in Players
  <2> DEFINE app == client[u]
             c == Searching(app)
  <2>1. ClientBecomes(u, c)
    BY <1>3 DEF ServiceSearches
  <2>2. app \in Client
    BY <1>1, <1>3
  <2>3. c \in Client /\ c.slot = app.slot /\ c.matchId = None
        /\ c.saving = app.saving
    BY <2>2 DEF Searching, Client
  <2>4. AppHolds(wire[u], app, memory[u], disk[u], Settled)
    BY <1>1, <1>3
  <2> HIDE DEF app, c
  <2>5. AppHolds(wire[u], c, memory[u], disk[u], Settled)
    BY <2>3, <2>4, NoneIsNew DEF AppHolds
  <2>6. PICK d \in Client, mem \in Save:
          /\ client' = [client EXCEPT ![u] = d]
          /\ memory' = [memory EXCEPT ![u] = mem]
          /\ AppHolds(wire[u], d, mem, disk[u], Settled)
    BY <1>3, <2>1, <2>3, <2>5, BecomesHolds
  <2>7. /\ \A v \in Players: /\ client'[v] = IF v = u THEN d ELSE client[v]
                             /\ memory'[v] = IF v = u THEN mem ELSE memory[v]
        /\ client' \in [Players -> Client] /\ memory' \in [Players -> Save]
    BY <1>1, <2>6
  <2> QED BY <1>1, <2>6, <2>7
<1> QED BY <1>2, <1>3

(* A step that writes no row and settles nothing. *)
LEMMA SendingHolds ==
  ASSUME ResultInv, UNCHANGED <<row, disk>>, Settled' = Settled,
         client' \in [Players -> Client], memory' \in [Players -> Save],
         DOMAIN wire' = Uids, wire' = [u \in Uids |-> wire'[u]],
         \A u \in Players:
           /\ WireHolds(wire'[u], Settled)
           /\ AppHolds(wire'[u], client'[u], memory'[u], disk[u], Settled)
  PROVE  ResultInv'
<1>1. RowsHold'
  BY DEF ResultInv, RowsHold, AckedIsSaved
<1> QED BY <1>1 DEF ResultInv

LEMMA EnqueueHolds ==
  ASSUME ResultInv, NEW u \in Uids, Enqueue(u)
  PROVE  ResultInv'
<1>1. ServiceSearches(u) /\ UNCHANGED <<match, row, wire, disk>>
  BY DEF Enqueue
<1>2. /\ client' \in [Players -> Client] /\ memory' \in [Players -> Save]
      /\ \A v \in Players:
           AppHolds(wire[v], client'[v], memory'[v], disk[v], Settled)
  BY <1>1, SearchesHolds
<1>3. Settled' = Settled
  BY <1>1 DEF Settled
<1> QED BY <1>1, <1>2, <1>3, SendingHolds DEF ResultInv

LEMMA PairResultHolds ==
  ASSUME ResultInv, Pairs, NEW u \in Uids, Pair(u)
  PROVE  ResultInv'
<1>1. PICK v \in Uids, m \in Matches:
        /\ match[m].status = "none"
        /\ match' = [match EXCEPT ![m] =
             [first |-> u, second |-> v, status |-> "live"]]
        /\ wire' = Sends([w \in Uids |->
             IF w \in {u, v} THEN << Message("matched", m) >> ELSE <<>>])
  BY DEF Pair, BestCandidates, FairCandidates, Waiting
<1>2. ServiceSearches(u) /\ UNCHANGED <<row, disk>>
  BY DEF Pair
<1>3. /\ client' \in [Players -> Client] /\ memory' \in [Players -> Save]
      /\ \A w \in Players:
           AppHolds(wire[w], client'[w], memory'[w], disk[w], Settled)
  BY <1>2, SearchesHolds
<1>4. Settled' = Settled /\ m \notin Settled
  BY <1>1 DEF Pairs, Settled
<1> DEFINE t == Message("matched", m)
           texts == [w \in Uids |-> IF w \in {u, v} THEN << t >> ELSE <<>>]
<1>5. Fits(t, Settled)
  BY <1>4, MessageOf DEF Fits
<1>6. \A w \in Players: texts[w] \in {<<>>, <<t>>, <<t, t>>}
  BY NoneIsNew
<1>7. wire' = Sends(texts)
  BY <1>1
<1> HIDE DEF t, texts
<1>8. /\ DOMAIN wire' = Uids /\ wire' = [w \in Uids |-> wire'[w]]
      /\ \A w \in Players:
           /\ WireHolds(wire'[w], Settled)
           /\ AppHolds(wire'[w], client'[w], memory'[w], disk[w], Settled)
  BY <1>3, <1>5, <1>6, <1>7, SendsHolds
<1> QED BY <1>2, <1>3, <1>4, <1>8, SendingHolds

LEMMA InterruptHolds ==
  ASSUME ResultInv, Pairs, NEW m \in Matches, Interrupt(m)
  PROVE  ResultInv'
<1> DEFINE t == Message("interrupted", m)
           texts == [u \in Uids |-> IF u \in Sides(m) THEN << t >> ELSE <<>>]
<1>1. /\ match[m].status = "live"
      /\ match' = [match EXCEPT ![m].status = "interrupted"]
      /\ wire' = Sends(texts) /\ UNCHANGED <<row, client, memory, disk>>
  BY DEF Interrupt, saveVars
<1>2. Settled' = Settled
  BY <1>1 DEF Pairs, Settled, Match
<1>3. Fits(t, Settled)
  BY MessageOf DEF Fits
<1>4. \A u \in Players: texts[u] \in {<<>>, <<t>>, <<t, t>>}
  BY NoneIsNew
<1> HIDE DEF t, texts
<1>5. \A u \in Players:
        AppHolds(wire[u], client[u], memory[u], disk[u], Settled)
  BY DEF ResultInv
<1>6. /\ DOMAIN wire' = Uids /\ wire' = [u \in Uids |-> wire'[u]]
      /\ \A u \in Players:
           /\ WireHolds(wire'[u], Settled)
           /\ AppHolds(wire'[u], client[u], memory[u], disk[u], Settled)
  BY <1>1, <1>3, <1>4, <1>5, SendsHolds
<1> QED BY <1>1, <1>2, <1>6, SendingHolds DEF ResultInv

LEMMA OpenScreenHolds ==
  ASSUME ResultInv, NEW u \in Players, OpenScreen(u)
  PROVE  ResultInv'
<1> DEFINE app == client[u]
           m == app.matchId
           c == Opened(app)
           t == Message("error", m)
           texts == [w \in Uids |->
             IF w = u /\ match[m].status # "live" THEN << t >> ELSE <<>>]
<1>1. app \in Client
  BY DEF ResultInv
<1>2. /\ m \in Matches /\ client' = [client EXCEPT ![u] = c]
      /\ wire' = Sends(texts) /\ UNCHANGED <<match, row, memory, disk>>
  BY <1>1 DEF OpenScreen, serverVars, saveVars, Client
<1>3. /\ c \in Client /\ c.slot = app.slot /\ c.matchId = app.matchId
      /\ c.saving = app.saving
  BY <1>1 DEF Opened, Client
<1>4. Fits(t, Settled)
  BY <1>2, MessageOf DEF Fits
<1>5. \A w \in Players: texts[w] \in {<<>>, <<t>>, <<t, t>>}
  BY NoneIsNew
<1> HIDE DEF t, texts, c
<1>6. \A w \in Players:
        AppHolds(wire[w], client[w], memory[w], disk[w], Settled)
  BY DEF ResultInv
<1>7. AppHolds(wire[u], c, memory[u], disk[u], Settled)
  BY <1>3, <1>6 DEF AppHolds
<1> HIDE DEF app
<1>8. /\ client' \in [Players -> Client]
      /\ \A w \in Players: client'[w] = IF w = u THEN c ELSE client[w]
  BY <1>2, <1>3 DEF ResultInv
<1>9. \A w \in Players:
        AppHolds(wire[w], client'[w], memory[w], disk[w], Settled)
  BY <1>6, <1>7, <1>8
<1>10. /\ DOMAIN wire' = Uids /\ wire' = [w \in Uids |-> wire'[w]]
       /\ \A w \in Players:
            /\ WireHolds(wire'[w], Settled)
            /\ AppHolds(wire'[w], client'[w], memory[w], disk[w], Settled)
  BY <1>2, <1>4, <1>5, <1>9, SendsHolds
<1>11. Settled' = Settled
  BY <1>2 DEF Settled
<1> QED BY <1>2, <1>8, <1>10, <1>11, SendingHolds DEF ResultInv

(* The end of a battle: its receipts are new, so none is acknowledged. *)
LEMMA BattleEndsHolds ==
  ASSUME ResultInv, Pairs, NEW m \in Matches, BattleEnds(m)
  PROVE  ResultInv'
<1> DEFINE t == Message("finished", m)
           t2 == Message("settlement", m)
           texts == [u \in Uids |->
             IF u \in Sides(m) THEN << t, t2 >> ELSE <<>>]
           new == Settled \cup {m}
<1>1. PICK winner: Settle(m, winner)
  BY DEF BattleEnds
<1>2. /\ match' = [match EXCEPT ![m].status = "settled"]
      /\ wire' = Sends(texts) /\ UNCHANGED <<client, memory, disk>>
  BY DEF BattleEnds, saveVars
<1>3. Settled' = new
  BY <1>2 DEF Pairs, Settled, Match
<1>4. Fits(t, new) /\ Fits(t2, new)
  BY MessageOf DEF Fits
<1>5. \A u \in Players: texts[u] \in {<<>>, <<t>>, <<t, t2>>}
  BY NoneIsNew
<1>6. Settled \subseteq new /\ m \in new
  OBVIOUS
<1> HIDE DEF t, t2, texts, new
<1>7. \A u \in Players:
        AppHolds(wire[u], client[u], memory[u], disk[u], Settled)
  BY DEF ResultInv
<1>8. /\ DOMAIN wire' = Uids /\ wire' = [u \in Uids |-> wire'[u]]
      /\ \A u \in Players:
           /\ WireHolds(wire'[u], new)
           /\ AppHolds(wire'[u], client[u], memory[u], disk[u], new)
  BY <1>2, <1>4, <1>5, <1>6, <1>7, SendsHolds
<1>9. \A u \in Uids, k \in Matches:
        \/ row'[<<u, k>>] = row[<<u, k>>]
        \/ k = m /\ ~row'[<<u, k>>].acknowledged
  BY <1>1 DEF Settle, SettledRow
<1>10. DOMAIN row' = Uids \X Matches /\ row' = [p \in Uids \X Matches |-> row'[p]]
  BY <1>1 DEF Settle
<1>11. RowsHold'
  <2>1. \A u \in Uids, k \in Matches: row'[<<u, k>>] # None => k \in new
    <3>1. \A u \in Uids, k \in Matches: row[<<u, k>>] # None => k \in new
      BY <1>6 DEF ResultInv, RowsHold
    <3> QED BY <1>6, <1>9, <3>1
  <2>2. \A u \in Players, k \in Matches:
          row'[<<u, k>>] # None /\ row'[<<u, k>>].acknowledged
            => disk[u].paid[k] = 1
    BY <1>9, NoneIsNew DEF ResultInv, RowsHold, AckedIsSaved
  <2> QED BY <1>2, <1>3, <1>10, <2>1, <2>2 DEF RowsHold, AckedIsSaved
<1> QED BY <1>2, <1>3, <1>8, <1>11 DEF ResultInv

-----------------------------------------------------------------------------
(* What becomes of a result, for any number of players, matches and faults, and
   for a save of any size: the invariant that links the messages on the way,
   the app, its memory and its disk to the battles that are settled.         *)
THEOREM ResultsHold == Spec => []ResultInv
<1>1. Init => ResultInv
  BY ResultInit
<1>2. WaitingInv /\ ResultInv /\ [Next]_vars => ResultInv'
  <2> SUFFICES ASSUME Pairs, ResultInv, [Next]_vars PROVE ResultInv'
    BY DEF WaitingInv
  <2>1. CASE Tick \/ UNCHANGED vars
    <3>1. UNCHANGED <<wire, client, memory, disk, row, match>>
      BY <2>1 DEF Tick, serverVars, saveVars, vars
    <3> QED BY <3>1, UnwrittenHolds
  <2>2. ASSUME NEW u \in Uids, Enqueue(u) \/ Pair(u) PROVE ResultInv'
    BY <2>2, EnqueueHolds, PairResultHolds
  <2>3. ASSUME NEW m \in Matches, BattleEnds(m) \/ Interrupt(m)
        PROVE  ResultInv'
    BY <2>3, BattleEndsHolds, InterruptHolds
  <2>4. ASSUME NEW u \in Players,
               \/ Connect(u) \/ Deliver(u) \/ OpenScreen(u) \/ Saved(u)
        PROVE  ResultInv'
    BY <2>4, ConnectHolds, DeliverHolds, OpenScreenHolds, SavedHolds
  <2>5. ASSUME NEW u \in Players,
               \/ Lose(u) \/ CloseLobby(u) \/ Kill(u) \/ Cancel(u)
               \/ Continue(u) \/ Back(u) \/ SaveFails(u) \/ RetrySave(u)
        PROVE  ResultInv'
    BY <2>5, AppStep
  <2> QED BY <2>1, <2>2, <2>3, <2>4, <2>5 DEF Next
<1> QED BY <1>1, <1>2, QueueHolds, PTL DEF Spec

(* A result pays into a save at most once, whatever is sent again, fails, is
   killed or forgotten (sendPendingSettlements, applyHostedArenaSettlement). *)
THEOREM AppliedOnceHolds == Spec => []AppliedOnce
<1>1. ResultInv => AppliedOnce
  BY DEF ResultInv, AppHolds, Sound, AppliedOnce
<1> QED BY <1>1, ResultsHold, PTL

(* A receipt that the server will not send again has been paid on the disk
   (_applyHostedSettlementIfReady, acknowledgeSettlement).                   *)
THEOREM AckedHolds == Spec => []AckedIsSaved
<1>1. ResultInv => AckedIsSaved
  BY DEF ResultInv, RowsHold
<1> QED BY <1>1, ResultsHold, PTL

=============================================================================
