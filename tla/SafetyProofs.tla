----------------------------- MODULE SafetyProofs -----------------------------
(***************************************************************************)
(* The safety authority: what a cached certificate, a revocation, the      *)
(* review queue and an export of it may be relied on for.  Each part has   *)
(* an inductive invariant of its own; the steps of the other parts leave   *)
(* it alone.                                                               *)
(***************************************************************************)
EXTENDS Safety, FiniteSetTheorems, WellFoundedInduction, TLAPS

-----------------------------------------------------------------------------
(* Finite sets *)

LEMMA LeastNatural ==
  ASSUME NEW T \in SUBSET Nat, T # {}
  PROVE  \E m \in T: \A k \in T: m <= k
<1>1. \E m \in T: \A k \in T: ~(<<k, m>> \in OpToRel(<, Nat))
  BY NatLessThanWellFounded, WFMin
<1>2. \A m, k \in Nat: k < m => <<k, m>> \in OpToRel(<, Nat)
  BY Zenon DEF OpToRel
<1>3. \E m \in T: \A k \in T: ~(k < m)
  BY <1>1, <1>2, Zenon
<1> QED BY <1>3

(* A finite set that a relation orders has a last element. *)
Orders(R, S) ==
  /\ \A x, y \in S: x = y \/ <<x, y>> \in R \/ <<y, x>> \in R
  /\ \A x, y, z \in S: <<x, y>> \in R /\ <<y, z>> \in R => <<x, z>> \in R

LEMMA LastExists ==
  ASSUME NEW S, IsFiniteSet(S), S # {}, NEW R, Orders(R, S)
  PROVE  \E x \in S: \A y \in S: y = x \/ <<y, x>> \in R
<1>1. PICK n \in Nat: ExistsBijection(1 .. n, S)
  BY FS_CardinalityType
<1>2. PICK f \in [1 .. n -> S]: \A x \in S: \E i \in 1 .. n: f[i] = x
  BY <1>1 DEF ExistsBijection, Bijection, Surjection
<1>3. n # 0
  BY <1>2
<1> DEFINE LastOf(m, i) ==
      i \in 1 .. m /\ \A j \in 1 .. m: f[j] = f[i] \/ <<f[j], f[i]>> \in R
    Bad == {m \in 1 .. n: \A i \in 1 .. n: ~LastOf(m, i)}
<1>4. Bad = {}
  <2> SUFFICES ASSUME Bad # {} PROVE FALSE
    OBVIOUS
  <2>1. PICK m \in Bad: \A k \in Bad: m <= k
    <3> Bad \in SUBSET Nat
      BY <1>1
    <3> HIDE DEF Bad
    <3> QED BY LeastNatural
  <2>2. m \in 1 .. n /\ m # 1
    <3>1. 1 \in 1 .. n => LastOf(1, 1)
      OBVIOUS
    <3> QED BY <3>1
  <2>3. m - 1 \in 1 .. n /\ m - 1 \notin Bad
    <3>1. m - 1 \in 1 .. n /\ ~(m <= m - 1)
      BY <2>2, <1>1
    <3> HIDE DEF Bad
    <3> QED BY <3>1, <2>1
  <2>4. PICK i \in 1 .. n: LastOf(m - 1, i)
    BY <2>3
  <2>5. f[m] \in S /\ f[i] \in S /\ i \in 1 .. m - 1
    BY <2>2, <2>4, <1>2
  <2>6. CASE f[m] = f[i] \/ <<f[m], f[i]>> \in R
    <3>1. LastOf(m, i)
      <4> SUFFICES ASSUME NEW j \in 1 .. m, j # m
                   PROVE  f[j] = f[i] \/ <<f[j], f[i]>> \in R
        <5>1. i \in 1 .. m
          BY <2>2, <2>5, <1>1
        <5> QED BY <5>1, <2>6
      <4>1. j \in 1 .. m - 1
        BY <2>2, <1>1
      <4> QED BY <4>1, <2>4
    <3> QED BY <3>1, <2>1
  <2>7. CASE <<f[i], f[m]>> \in R
    <3>1. \A j \in 1 .. m: f[j] = f[m] \/ <<f[j], f[m]>> \in R
      <4> SUFFICES ASSUME NEW j \in 1 .. m, j # m
                   PROVE  f[j] = f[m] \/ <<f[j], f[m]>> \in R
        OBVIOUS
      <4>1. j \in 1 .. m - 1 /\ f[j] \in S
        BY <2>2, <1>2, <1>1
      <4>2. f[j] = f[i] \/ <<f[j], f[i]>> \in R
        BY <4>1, <2>4
      <4> QED BY <4>1, <4>2, <2>5, <2>7 DEF Orders
    <3>2. LastOf(m, m)
      BY <3>1, <2>2, <1>1
    <3> QED BY <3>2, <2>1, <2>2
  <2> QED BY <2>5, <2>6, <2>7 DEF Orders
<1>5. PICK i \in 1 .. n: LastOf(n, i)
  <2>1. n \in 1 .. n /\ n \notin Bad
    <3>1. n \in 1 .. n
      BY <1>1, <1>3
    <3> QED BY <3>1, <1>4
  <2> QED BY <2>1
<1>6. f[i] \in S /\ \A y \in S: y = f[i] \/ <<y, f[i]>> \in R
  BY <1>2, <1>5
<1> QED BY <1>6

LEMMA MaxNatural ==
  ASSUME NEW T \in SUBSET Nat, T # {}, IsFiniteSet(T)
  PROVE  Max(T) \in T /\ \A y \in T: y <= Max(T)
<1> DEFINE R == {p \in T \X T: p[1] < p[2]}
<1>1. Orders(R, T)
  <2>1. \A x, y \in T: x = y \/ <<x, y>> \in R \/ <<y, x>> \in R
    OBVIOUS
  <2>2. \A x, y, z \in T: <<x, y>> \in R /\ <<y, z>> \in R => <<x, z>> \in R
    OBVIOUS
  <2> QED BY <2>1, <2>2 DEF Orders
<1>2. \E x \in T: \A y \in T: y = x \/ <<y, x>> \in R
  <2> HIDE DEF R
  <2> QED BY <1>1, LastExists
<1>3. PICK x \in T: \A y \in T: y = x \/ <<y, x>> \in R
  BY <1>2
<1>4. \A y \in T: x >= y
  <2> TAKE y \in T
  <2>1. x \in Nat /\ y \in Nat
    BY <1>3
  <2>2. y = x \/ y < x
    BY <1>3
  <2> QED BY <2>1, <2>2
<1>5. \E z \in T: \A y \in T: z >= y
  BY <1>4
<1>6. Max(T) \in T /\ \A y \in T: Max(T) >= y
  BY <1>5, Zenon DEF Max
<1> QED BY <1>6

-----------------------------------------------------------------------------
(* Certificates *)

LEMMA LongestLifetime ==
  /\ Longest \in Nat
  /\ Lifetimes \subseteq Nat
  /\ \A life \in Lifetimes: life <= Longest
<1>1. \A maxAge \in MaxAges: Lifetime(maxAge) \in Nat
  BY SigningKeysAssumption DEF Lifetime
<1>2. Lifetimes \in SUBSET Nat /\ Lifetimes # {}
  BY <1>1, SigningKeysAssumption DEF Lifetimes
<1>3. IsFiniteSet(Lifetimes)
  <2> DEFINE f == [maxAge \in MaxAges |-> Lifetime(maxAge)]
  <2>1. f \in Surjection(MaxAges, Lifetimes)
    BY DEF Surjection, Lifetimes
  <2> QED BY <2>1, FS_Surjection, SigningKeysAssumption
<1> QED BY <1>2, <1>3, MaxNatural DEF Longest

KeyStates == {"new", "published", "withdrawn"}
Question == [answered: BOOLEAN, keys: SUBSET Keys, life: Nat, age: Nat]

KeysTyped ==
  /\ provider \in [Keys -> KeyStates]
  /\ gone \in [Keys -> Nat]
  /\ cache \in [keys: SUBSET Keys, left: Nat] /\ cache.left <= Longest
  /\ requests \subseteq Question
  /\ \A r \in requests: r.life <= Longest

(* How long ago a key was withdrawn at most, if this vouches for it. *)
GoneAtMost(keys, age) ==
  \A k \in keys: provider[k] = "withdrawn" => gone[k] <= age

(* An answer that waits was given no earlier than it was asked for, so none of
   its keys has been gone for longer than that.                              *)
KeysVouched ==
  /\ \A k \in Keys: provider[k] # "withdrawn" => gone[k] = 0
  /\ Fresh(cache) => GoneAtMost(cache.keys, Longest - cache.left)
  /\ \A r \in requests: r.answered => GoneAtMost(r.keys, r.age)

KeysInv == KeysTyped /\ KeysVouched

LEMMA KeysInit == Init => KeysInv
<1> SUFFICES ASSUME KeyInit PROVE KeysInv
  BY DEF Init
<1> QED BY LongestLifetime
      DEF KeyInit, KeysInv, KeysTyped, KeysVouched, KeyStates, EmptyCache,
          Fresh

LEMMA OlderKeepsOrder ==
  ASSUME NEW a \in Nat, NEW b \in Nat
  PROVE  /\ Older(a) \in Nat
         /\ a <= b => Older(a) <= Older(b)
         /\ a < Longest => Older(a) = a + 1
BY LongestLifetime DEF Older

LEMMA TimeVouches == KeysInv /\ KeyTick => KeysInv'
<1> SUFFICES ASSUME KeysInv, KeyTick PROVE KeysInv'
  OBVIOUS
<1> USE DEF KeysInv
<1>1. /\ gone' \in [Keys -> Nat]
      /\ \A k \in Keys:
           gone'[k] = IF provider[k] = "withdrawn" THEN Older(gone[k]) ELSE 0
  BY OlderKeepsOrder DEF KeyTick, KeysTyped
<1>2. /\ cache' \in [keys: SUBSET Keys, left: Nat]
      /\ cache'.keys = cache.keys
      /\ cache'.left = IF cache.left > 0 THEN cache.left - 1 ELSE 0
  BY DEF KeyTick, KeysTyped
<1>3. \A r \in requests':
        \E q \in requests:
          /\ r = [q EXCEPT !.age = Older(@)]
          /\ r \in Question
          /\ r.answered = q.answered /\ r.keys = q.keys /\ r.life = q.life
          /\ r.age = Older(q.age)
  BY OlderKeepsOrder DEF KeyTick, KeysTyped, Question
<1>4. KeysTyped'
  BY <1>1, <1>2, <1>3, LongestLifetime DEF KeyTick, KeysTyped
<1>5. KeysVouched'
  <2>1. \A k \in Keys: provider'[k] # "withdrawn" => gone'[k] = 0
    BY <1>1 DEF KeyTick
  <2>2. Fresh(cache') => GoneAtMost(cache.keys, Longest - cache.left)'
    <3> SUFFICES ASSUME Fresh(cache'), NEW k \in cache.keys,
                        provider[k] = "withdrawn"
                 PROVE  gone'[k] <= Longest - (cache.left - 1)
      BY <1>2 DEF Fresh, GoneAtMost, KeyTick, KeysTyped
    <3>1. cache.left \in Nat /\ cache.left > 1 /\ cache.left <= Longest
      BY <1>2 DEF Fresh, KeysTyped
    <3>2. gone[k] <= Longest - cache.left /\ gone[k] \in Nat /\ k \in Keys
      BY <3>1 DEF KeysVouched, GoneAtMost, Fresh, KeysTyped
    <3>3. gone'[k] = gone[k] + 1
      BY <3>1, <3>2, <1>1, OlderKeepsOrder, LongestLifetime
    <3> QED BY <3>1, <3>2, <3>3, LongestLifetime
  <2>3. \A r \in requests': r.answered => GoneAtMost(r.keys, r.age)'
    <3> SUFFICES ASSUME NEW r \in requests', r.answered, NEW k \in r.keys,
                        provider[k] = "withdrawn"
                 PROVE  gone'[k] <= r.age
      BY DEF GoneAtMost, KeyTick
    <3>1. PICK q \in requests: /\ r.answered = q.answered /\ r.keys = q.keys
                               /\ r.age = Older(q.age)
      BY <1>3
    <3>2. k \in Keys /\ gone[k] \in Nat /\ q.age \in Nat
      BY <3>1 DEF KeysTyped, Question
    <3>3. gone[k] <= q.age
      BY <3>1 DEF KeysVouched, GoneAtMost
    <3> QED BY <3>1, <3>2, <3>3, <1>1, OlderKeepsOrder
  <2> QED BY <2>1, <2>2, <2>3, <1>2 DEF KeysVouched, GoneAtMost
<1> QED BY <1>4, <1>5

LEMMA KeyStepVouches == KeysInv /\ KeyNext => KeysInv'
<1> SUFFICES ASSUME KeysInv, KeyNext PROVE KeysInv'
  OBVIOUS
<1> USE DEF KeysInv, KeysTyped
<1>1. ASSUME NEW k \in Keys, Publish(k) \/ Withdraw(k) PROVE KeysInv'
  <2>1. /\ provider' \in [Keys -> KeyStates]
        /\ \A j \in Keys: provider'[j] # "withdrawn"
                            => provider[j] # "withdrawn"
        /\ \A j \in Keys: provider'[j] = "withdrawn"
                            => provider[j] = "withdrawn" \/ gone[j] = 0
    BY <1>1 DEF Publish, Withdraw, KeyStates, KeysVouched
  <2>2. UNCHANGED <<gone, cache, requests>>
    BY <1>1 DEF Publish, Withdraw
  <2>3. KeysTyped'
    BY <2>1, <2>2
  <2>4. \A keys \in SUBSET Keys, age \in Nat:
          GoneAtMost(keys, age) => GoneAtMost(keys, age)'
    BY <2>1, <2>2 DEF GoneAtMost
  <2>5. Fresh(cache) => Longest - cache.left \in Nat
    BY LongestLifetime DEF Fresh
  <2>6. \A r \in requests: r.keys \in SUBSET Keys /\ r.age \in Nat
    BY DEF Question
  <2>7. KeysVouched'
    <3>1. \A j \in Keys: provider'[j] # "withdrawn" => gone'[j] = 0
      BY <2>1, <2>2 DEF KeysVouched
    <3>2. Fresh(cache) => GoneAtMost(cache.keys, Longest - cache.left)'
      BY <2>2, <2>4, <2>5 DEF KeysVouched, GoneAtMost
    <3>3. \A r \in requests: r.answered => GoneAtMost(r.keys, r.age)'
      BY <2>4, <2>6 DEF KeysVouched
    <3> QED BY <3>1, <3>2, <3>3, <2>2 DEF KeysVouched, GoneAtMost, Fresh
  <2> QED BY <2>3, <2>7
<1>2. ASSUME Ask PROVE KeysInv'
  <2>1. requests' = requests \cup {[answered |-> FALSE, keys |-> {},
                                    life |-> 0, age |-> 0]}
    BY <1>2 DEF Ask
  <2>2. UNCHANGED <<provider, gone, cache>>
    BY <1>2 DEF Ask
  <2> DEFINE q == [answered |-> FALSE, keys |-> {}, life |-> 0, age |-> 0]
  <2>3. q \in Question /\ q.life <= Longest
    BY LongestLifetime DEF Question
  <2>4. \A r \in requests': r \in requests \/ r = q
    BY <2>1
  <2>5. KeysTyped'
    <3> HIDE DEF q
    <3> QED BY <2>2, <2>3, <2>4
  <2>6. KeysVouched'
    BY <2>1, <2>2 DEF KeysVouched, GoneAtMost, Fresh
  <2> QED BY <2>5, <2>6
<1>3. ASSUME NEW r \in requests, Answer(r) PROVE KeysInv'
  <2>1. PICK life \in Lifetimes:
          requests' = (requests \ {r}) \cup
            {[r EXCEPT !.answered = TRUE, !.keys = Published, !.life = life]}
    BY <1>3 DEF Answer
  <2> DEFINE q == [r EXCEPT !.answered = TRUE, !.keys = Published,
                            !.life = life]
  <2>2. UNCHANGED <<provider, gone, cache>>
    BY <1>3 DEF Answer
  <2>3. /\ q \in Question /\ q.life <= Longest
        /\ \A k \in q.keys: provider[k] # "withdrawn"
    BY LongestLifetime DEF Question, Published
  <2>4. \A a \in requests': a \in requests \/ a = q
    BY <2>1
  <2> HIDE DEF q
  <2>5. KeysTyped'
    BY <2>2, <2>3, <2>4
  <2>6. KeysVouched'
    BY <2>2, <2>3, <2>4 DEF KeysVouched, GoneAtMost, Fresh
  <2> QED BY <2>5, <2>6
<1>4. ASSUME NEW r \in requests, Receive(r) PROVE KeysInv'
  <2>1. /\ r.answered /\ r \in Question /\ r.life <= Longest
        /\ cache' = Cached(r) /\ requests' = requests \ {r}
        /\ UNCHANGED <<provider, gone>>
    BY <1>4 DEF Receive
  <2>2. /\ cache' \in [keys: SUBSET Keys, left: Nat]
        /\ cache'.keys = r.keys /\ cache'.left <= Longest
        /\ Fresh(cache') => cache'.left = r.life - r.age
    BY <2>1, LongestLifetime DEF Cached, Question, Fresh
  <2>3. (Fresh(cache) => GoneAtMost(cache.keys, Longest - cache.left))'
    <3> SUFFICES ASSUME Fresh(cache'), NEW k \in r.keys,
                        provider[k] = "withdrawn"
                 PROVE  gone[k] <= Longest - (r.life - r.age)
      BY <2>1, <2>2 DEF GoneAtMost
    <3>1. gone[k] <= r.age /\ gone[k] \in Nat
      BY <2>1 DEF KeysVouched, GoneAtMost, Question
    <3>2. r.life \in Nat /\ r.age \in Nat
      BY <2>1 DEF Question
    <3> QED BY <3>1, <3>2, <2>1, LongestLifetime
  <2>4. KeysTyped'
    BY <2>1, <2>2
  <2>5. KeysVouched'
    BY <2>1, <2>3 DEF KeysVouched, GoneAtMost
  <2> QED BY <2>4, <2>5
<1>5. ASSUME NewIsolate PROVE KeysInv'
  BY <1>5, LongestLifetime
    DEF NewIsolate, EmptyCache, KeysVouched, GoneAtMost, Fresh
<1>6. ASSUME NEW r \in requests, RequestFails(r) PROVE KeysInv'
  <2>1. requests' \subseteq requests /\ UNCHANGED <<provider, gone, cache>>
    BY <1>6 DEF RequestFails
  <2> QED BY <2>1 DEF KeysVouched, GoneAtMost, Fresh
<1> QED BY <1>1, <1>2, <1>3, <1>4, <1>5, <1>6, TimeVouches
      DEF KeyNext, Answers, Receptions

(* The certificates keep to what they promise for any keys and lifetimes, and
   however many connections ask for them at once.                            *)
THEOREM KeysTrusted == Spec => []KeysInv
<1>1. Init => KeysInv
  BY KeysInit
<1>2. KeysInv /\ [Next]_vars => KeysInv'
  <2> SUFFICES ASSUME KeysInv, [Next]_vars, UNCHANGED keyVars
               PROVE  KeysInv'
    BY KeyStepVouches
      DEF Next, vars, Decisions, Filing, Verifying
  <2>1. UNCHANGED <<provider, gone, cache, requests>>
    BY DEF keyVars
  <2> QED BY <2>1
        DEF KeysInv, KeysTyped, KeysVouched, GoneAtMost, Fresh
<1> QED BY <1>1, <1>2, PTL DEF Spec

(* No token is verified from the cache with a key that was withdrawn a whole
   lifetime ago, or will be before the cache expires (firebaseCertificates). *)
THEOREM TrustHolds == Spec => []TrustEnds
<1>1. KeysInv => TrustEnds
  <2> SUFFICES ASSUME KeysInv, NEW k \in Trusted, provider[k] = "withdrawn"
               PROVE  gone[k] + cache.left <= Longest
    BY DEF TrustEnds
  <2>1. Fresh(cache) /\ k \in cache.keys
    BY DEF Trusted
  <2>2. gone[k] <= Longest - cache.left
    BY <2>1 DEF KeysInv, KeysVouched, GoneAtMost
  <2>3. gone[k] \in Nat /\ cache.left \in Nat
    BY <2>1 DEF KeysInv, KeysTyped
  <2> QED BY <2>2, <2>3, LongestLifetime
<1> QED BY <1>1, KeysTrusted, PTL

-----------------------------------------------------------------------------
(* Decisions *)

CapabilitySets ==
  Grants \cup {claim.grant: claim \in Claims}
    \cup {{}, SessionCapabilities \ {"profileDiscovery"}}

Connection == [revision: Nat, capabilities: CapabilitySets]
Socket == [capabilities: CapabilitySets, current: BOOLEAN]
OperatorCall == [uid: Uids, stage: {"reread", "retire", "failed"}]

DecisionsTyped ==
  /\ decision \in [Uids -> DecisionRow \cup {None}]
  /\ connecting \in [Uids -> Connection \cup {None}]
  /\ session \in [Uids -> Socket \cup {None}]
  /\ calls \subseteq OperatorCall

(* A decision that was in force when somebody connected. *)
Granting(u) ==
  decision[u] # None /\ decision[u].status \in {"allowed", "expired"}

(* The Worker has read a decision of this or of an earlier revision, and the
   one of this revision was in force.                                        *)
ReadsHold ==
  \A u \in Uids:
    connecting[u] # None =>
      /\ connecting[u].revision <= Revision(u)
      /\ /\ capabilityMode = "trusted_registry"
         /\ connecting[u].revision = Revision(u)
         => Granting(u)

(* Who is online without a decision in force is about to be retired. *)
SessionsHold ==
  \A u \in Uids:
    /\ capabilityMode = "trusted_registry"
    /\ session[u] # None /\ session[u].current
    => Granting(u) \/ \E c \in calls: c.uid = u

DecisionsInv == DecisionsTyped /\ ReadsHold /\ SessionsHold

LEMMA RowOrNone ==
  /\ None \notin DecisionRow /\ None \notin Nat
  /\ DecisionsTyped => \A u \in Uids: Revision(u) \in Nat
BY CapabilitiesAssumption DEF DecisionsTyped, Revision, DecisionRow

LEMMA DecisionsInit == Init => DecisionsInv
BY DEF Init, CapabilityInit, DecisionsInv, DecisionsTyped, ReadsHold,
       SessionsHold

(* A step that leaves the decisions and the connections alone keeps what was
   read from them.                                                           *)
LEMMA ReadsStay ==
  /\ DecisionsInv /\ UNCHANGED <<capabilityMode, decision, connecting>>
  => ReadsHold'
BY DEF DecisionsInv, ReadsHold, Revision, Granting

LEMMA ConnectionsHold ==
  ASSUME DecisionsInv, NEW u \in Uids,
         \/ \E claim \in Claims: VerifySession(u, claim)
         \/ Admit(u) \/ Leave(u)
  PROVE  DecisionsInv'
<1> USE DEF DecisionsInv
<1>1. ASSUME NEW claim \in Claims, VerifySession(u, claim)
      PROVE  DecisionsInv'
  <2>1. /\ connecting' = [connecting EXCEPT ![u] =
             [revision |-> Revision(u), capabilities |-> Granted(u, claim)]]
        /\ UNCHANGED <<capabilityMode, decision, session, calls>>
    BY <1>1 DEF VerifySession
  <2>2. Granted(u, claim) \in CapabilitySets
    BY DEF Granted, Registered, CapabilitiesFor, CapabilitySets, Allowed,
           DecisionsTyped, DecisionRow
  <2>3. capabilityMode = "trusted_registry" => Granting(u)
    BY <1>1 DEF VerifySession, Granted, Registered, Allowed, Granting
  <2>4. DecisionsTyped'
    BY <2>1, <2>2, RowOrNone DEF DecisionsTyped, Connection
  <2>5. ReadsHold'
    <3> SUFFICES ASSUME NEW v \in Uids, connecting'[v] # None
                 PROVE  /\ connecting'[v].revision <= Revision(v)
                        /\ /\ capabilityMode = "trusted_registry"
                           /\ connecting'[v].revision = Revision(v)
                           => Granting(v)
      BY <2>1 DEF ReadsHold, Revision, Granting
    <3>1. CASE v = u
      <4>1. connecting'[u].revision = Revision(u)
        BY <2>1 DEF DecisionsTyped
      <4> QED BY <4>1, <3>1, <2>3, RowOrNone
    <3>2. CASE v # u
      BY <2>1, <3>2 DEF ReadsHold, DecisionsTyped
    <3> QED BY <3>1, <3>2
  <2>6. SessionsHold'
    BY <2>1 DEF SessionsHold, Granting
  <2> QED BY <2>4, <2>5, <2>6
<1>2. ASSUME Admit(u) PROVE DecisionsInv'
  <2> DEFINE socket == [capabilities |-> connecting[u].capabilities,
                        current |-> connecting[u].revision = Revision(u)]
  <2>1. /\ connecting[u] # None
        /\ session' = [session EXCEPT ![u] = socket]
        /\ connecting' = [connecting EXCEPT ![u] = None]
        /\ UNCHANGED <<capabilityMode, decision, calls>>
    BY <1>2 DEF Admit
  <2>2. /\ socket \in Socket
        /\ socket.current /\ capabilityMode = "trusted_registry"
             => Granting(u)
    BY <2>1 DEF Socket, DecisionsTyped, Connection, ReadsHold
  <2> HIDE DEF socket
  <2>3. DecisionsTyped'
    BY <2>1, <2>2 DEF DecisionsTyped
  <2>4. ReadsHold'
    BY <2>1 DEF ReadsHold, DecisionsTyped, Revision, Granting
  <2>5. SessionsHold'
    BY <2>1, <2>2 DEF SessionsHold, DecisionsTyped, Granting
  <2> QED BY <2>3, <2>4, <2>5
<1>3. ASSUME Leave(u) PROVE DecisionsInv'
  <2>1. /\ session' = [session EXCEPT ![u] = None]
        /\ UNCHANGED <<capabilityMode, decision, connecting, calls>>
    BY <1>3 DEF Leave
  <2> QED BY <2>1, ReadsStay DEF DecisionsTyped, SessionsHold, Granting
<1> QED BY <1>1, <1>2, <1>3

(* A new decision is of a later revision than any that was read, and the call
   that made it is still under way.                                          *)
LEMMA NewDecision ==
  ASSUME DecisionsInv, NEW u \in Uids, NEW row \in DecisionRow,
         row.revision = Revision(u) + 1,
         decision' = [decision EXCEPT ![u] = row],
         NEW stage \in {"reread", "retire"},
         calls' = calls \cup {Call(u, stage)},
         UNCHANGED <<capabilityMode, connecting, session>>
  PROVE  DecisionsInv'
<1> USE DEF DecisionsInv
<1>1. /\ \A v \in Uids: decision'[v] = IF v = u THEN row ELSE decision[v]
      /\ \A v \in Uids \ {u}: Revision(v)' = Revision(v)
      /\ Revision(u)' = Revision(u) + 1
  BY RowOrNone DEF DecisionsTyped, Revision
<1>2. DecisionsTyped'
  BY DEF DecisionsTyped, OperatorCall, Call
<1>3. ReadsHold'
  <2> SUFFICES ASSUME NEW v \in Uids, connecting[v] # None
               PROVE  /\ connecting[v].revision <= Revision(v)'
                      /\ /\ capabilityMode = "trusted_registry"
                         /\ connecting[v].revision = Revision(v)'
                         => Granting(v)'
    BY DEF ReadsHold
  <2>1. connecting[v].revision \in Nat /\ Revision(v) \in Nat
    BY RowOrNone DEF DecisionsTyped, Connection
  <2> QED BY <2>1, <1>1 DEF ReadsHold, Granting
<1>4. SessionsHold'
  <2>1. Call(u, stage) \in calls' /\ Call(u, stage).uid = u
    BY DEF Call
  <2>2. \A c \in calls: c \in calls'
    OBVIOUS
  <2> QED BY <2>1, <2>2, <1>1 DEF SessionsHold, Granting
<1> QED BY <1>2, <1>3, <1>4

LEMMA OperatorHolds ==
  ASSUME DecisionsInv, CapabilityNext,
         ~\E u \in Uids: \/ \E claim \in Claims: VerifySession(u, claim)
                         \/ Admit(u) \/ Leave(u)
  PROVE  DecisionsInv'
<1>1. ASSUME NEW u \in Uids, NEW grant \in Grants, Issue(u, grant)
      PROVE  DecisionsInv'
  <2> DEFINE row == [status |-> IF grant = {} THEN "denied" ELSE "allowed",
                     grant |-> grant, revision |-> Revision(u) + 1]
  <2>1. row \in DecisionRow /\ row.revision = Revision(u) + 1
    BY RowOrNone DEF DecisionRow, DecisionsInv
  <2>2. /\ decision' = [decision EXCEPT ![u] = row]
        /\ calls' = calls \cup {Call(u, "reread")}
        /\ UNCHANGED <<capabilityMode, connecting, session>>
    BY <1>1 DEF Issue
  <2> HIDE DEF row
  <2> QED BY <2>1, <2>2, NewDecision
<1>2. ASSUME NEW u \in Uids, Revoke(u) PROVE DecisionsInv'
  <2> DEFINE row == [decision[u] EXCEPT !.status = "revoked",
                                        !.revision = @ + 1]
  <2>1. decision[u] \in DecisionRow /\ Revision(u) = decision[u].revision
    BY <1>2, RowOrNone DEF Revoke, DecisionsInv, DecisionsTyped, Revision
  <2>2. row \in DecisionRow /\ row.revision = Revision(u) + 1
    <3> DEFINE ended == [decision[u] EXCEPT !.status = "revoked"]
    <3>1. /\ row = [ended EXCEPT !.revision = @ + 1]
          /\ ended \in DecisionRow /\ ended.revision = decision[u].revision
      BY <2>1 DEF DecisionRow
    <3> HIDE DEF ended, row
    <3> QED BY <3>1, <2>1 DEF DecisionRow
  <2>3. /\ decision' = [decision EXCEPT ![u] = row]
        /\ calls' = calls \cup {Call(u, "retire")}
        /\ UNCHANGED <<capabilityMode, connecting, session>>
    BY <1>2 DEF Revoke
  <2> HIDE DEF row
  <2> QED BY <2>2, <2>3, NewDecision
<1> USE DEF DecisionsInv
<1>3. ASSUME NEW u \in Uids, Expire(u) PROVE DecisionsInv'
  <2> DEFINE row == [decision[u] EXCEPT !.status = "expired"]
  <2>1. decision[u] \in DecisionRow
    BY <1>3 DEF Expire, DecisionsTyped
  <2>2. /\ row \in DecisionRow /\ row.revision = decision[u].revision
        /\ row.status = "expired"
    BY <2>1 DEF DecisionRow
  <2>3. /\ decision' = [decision EXCEPT ![u] = row] /\ decision[u] # None
        /\ UNCHANGED <<capabilityMode, connecting, session, calls>>
    BY <1>3 DEF Expire
  <2> HIDE DEF row
  <2>4. \A v \in Uids: Revision(v)' = Revision(v) /\ (Granting(v) => Granting(v)')
                       /\ Granting(u)'
    BY <2>2, <2>3, RowOrNone DEF DecisionsTyped, Revision, Granting
  <2>5. DecisionsTyped'
    BY <2>2, <2>3 DEF DecisionsTyped
  <2>6. ReadsHold'
    BY <2>3, <2>4 DEF ReadsHold
  <2>7. SessionsHold'
    BY <2>3, <2>4 DEF SessionsHold
  <2> QED BY <2>5, <2>6, <2>7
<1>4. ASSUME NEW c \in calls, Reread(c) PROVE DecisionsInv'
  <2>1. /\ calls' = (calls \ {c}) \cup
             IF Allowed(c.uid) THEN {} ELSE {Call(c.uid, "retire")}
        /\ UNCHANGED <<capabilityMode, decision, connecting, session>>
    BY <1>4 DEF Reread
  <2>2. calls' \subseteq OperatorCall
    BY <2>1 DEF DecisionsTyped, OperatorCall, Call
  <2>3. \A u \in Uids: (\E d \in calls: d.uid = u)
                         => Granting(u) \/ \E d \in calls': d.uid = u
    <3>1. \A d \in calls: d = c \/ d \in calls'
      BY <2>1
    <3>2. ~Allowed(c.uid) => /\ Call(c.uid, "retire") \in calls'
                            /\ Call(c.uid, "retire").uid = c.uid
      BY <2>1 DEF Call
    <3>3. Allowed(c.uid) => Granting(c.uid)
      BY DEF Allowed, Granting
    <3> QED BY <3>1, <3>2, <3>3
  <2>4. SessionsHold'
    BY <2>1, <2>3 DEF SessionsHold, Granting
  <2> QED BY <2>1, <2>2, <2>4, ReadsStay DEF DecisionsTyped
<1>5. ASSUME NEW c \in calls, RetireSubject(c) PROVE DecisionsInv'
  <2>1. /\ session' = [session EXCEPT ![c.uid] = None]
        /\ calls' = calls \ {c, Call(c.uid, "failed")}
        /\ UNCHANGED <<capabilityMode, decision, connecting>>
    BY <1>5 DEF RetireSubject
  <2>2. \A d \in calls: d \in calls' \/ d.uid = c.uid
    BY <2>1 DEF Call
  <2>3. SessionsHold'
    BY <2>1, <2>2 DEF SessionsHold, Granting, DecisionsTyped
  <2> QED BY <2>1, <2>3, ReadsStay DEF DecisionsTyped
<1>6. ASSUME NEW c \in calls, CallFails(c) PROVE DecisionsInv'
  <2>1. /\ calls' = (calls \ {c}) \cup {Call(c.uid, "failed")}
        /\ UNCHANGED <<capabilityMode, decision, connecting, session>>
    BY <1>6 DEF CallFails
  <2>2. calls' \subseteq OperatorCall
    BY <2>1 DEF DecisionsTyped, OperatorCall, Call
  <2>3. \A u \in Uids: (\E d \in calls: d.uid = u) => \E d \in calls': d.uid = u
    <3>1. \A d \in calls: d = c \/ d \in calls'
      BY <2>1
    <3>2. /\ Call(c.uid, "failed") \in calls'
          /\ Call(c.uid, "failed").uid = c.uid
      BY <2>1 DEF Call
    <3> QED BY <3>1, <3>2
  <2>4. SessionsHold'
    BY <2>1, <2>3 DEF SessionsHold, Granting
  <2> QED BY <2>1, <2>2, <2>4, ReadsStay DEF DecisionsTyped
<1> QED BY <1>1, <1>2, <1>3, <1>4, <1>5, <1>6 DEF CapabilityNext

(* A connection is judged by the decision that was read for it, whatever the
   operator does meanwhile and however his calls fail.                       *)
THEOREM DecisionsBind == Spec => []DecisionsInv
<1>1. Init => DecisionsInv
  BY DecisionsInit
<1>2. DecisionsInv /\ [Next]_vars => DecisionsInv'
  <2> SUFFICES ASSUME DecisionsInv, [Next]_vars, UNCHANGED capabilityVars
               PROVE  DecisionsInv'
    <3>1. DecisionsInv /\ CapabilityNext => DecisionsInv'
      BY ConnectionsHold, OperatorHolds
    <3> QED BY <3>1 DEF Next, vars, Decisions, Filing, Verifying
  <2> QED BY ReadsStay
        DEF DecisionsInv, DecisionsTyped, SessionsHold, Granting,
            capabilityVars
<1> QED BY <1>1, <1>2, PTL DEF Spec

(* When no call of the operator is under way or has failed, nobody is online
   under a decision that was revoked or replaced by a denial before the
   connection read it (fetch and MultiplayerOperator of index.ts).           *)
THEOREM RevocationBinds == Spec => []RevocationHolds
<1>1. DecisionsInv => RevocationHolds
  BY DEF DecisionsInv, SessionsHold, Granting, RevocationHolds
<1> QED BY <1>1, DecisionsBind, PTL

-----------------------------------------------------------------------------
(* Reports: days, rows and pages *)

LEMMA DayType == \A t \in Nat: Day(t) \in Nat
BY ReportsAssumption, SMTT(30) DEF Day

LEMMA DayOrder ==
  ASSUME NEW a \in Nat, NEW b \in Nat, a <= b
  PROVE  Day(a) <= Day(b)
BY ReportsAssumption, SMTT(30) DEF Day

(* What is pruned was filed on an earlier day. *)
LEMMA PrunedIsOld ==
  ASSUME NEW a \in Nat, NEW b \in Nat, a < b - Retention
  PROVE  Day(a) < Day(b)
<1>1. b >= a + DayLength
  BY ReportsAssumption
<1> QED BY <1>1, ReportsAssumption, SMTT(30) DEF Day

Times == Nat \cup {NoTime}
ReportRow == [id: ReportIds, created: Nat]

LEMMA IdsFinite ==
  /\ IsFiniteSet(ReportIds)
  /\ ReportIds \subseteq Nat \X (Nat \ {0})
<1>1. IsFiniteSet(0 .. Day(Horizon)) /\ IsFiniteSet(Reasons)
  BY FS_Interval, DayType, ReportsAssumption
<1> QED BY <1>1, FS_Product, DayType, ReportsAssumption DEF ReportIds

LEMMA SoonerOrders ==
  ASSUME NEW rows \in [ReportIds -> Times], NEW ids \in SUBSET ReportIds,
         \A id \in ids: rows[id] \in Nat
  PROVE  /\ \A a, b \in ids: a = b \/ Sooner(rows, a, b) \/ Sooner(rows, b, a)
         /\ \A a, b, c \in ids:
              Sooner(rows, a, b) /\ Sooner(rows, b, c) => Sooner(rows, a, c)
<1>1. \A id \in ids: id = <<id[1], id[2]>> /\ id[1] \in Nat /\ id[2] \in Nat
  BY IdsFinite
<1>2. ASSUME NEW a \in ids, NEW b \in ids
      PROVE  a = b \/ Sooner(rows, a, b) \/ Sooner(rows, b, a)
  BY <1>1 DEF Sooner, IdBefore
<1>3. ASSUME NEW a \in ids, NEW b \in ids, NEW c \in ids,
             Sooner(rows, a, b), Sooner(rows, b, c)
      PROVE  Sooner(rows, a, c)
  BY <1>1, <1>3 DEF Sooner, IdBefore
<1> QED BY <1>2, <1>3

(* A page that is not the last one has a last row, and every row of the listing
   that is not on it comes after that row.                                   *)
LEMMA NextPage ==
  ASSUME NEW rows \in [ReportIds -> Times], NEW ids \in SUBSET ReportIds,
         \A id \in ids: rows[id] \in Nat
  PROVE  /\ FirstRows(rows, ids) \subseteq ids
         /\ NextCursor(rows, ids) \in Cursors \cup {NoTime}
         /\ NextCursor(rows, ids) = NoTime => FirstRows(rows, ids) = ids
         /\ NextCursor(rows, ids) # NoTime =>
              \A id \in ids \ FirstRows(rows, ids):
                After(rows[id], id, NextCursor(rows, ids))
<1> DEFINE page == FirstRows(rows, ids)
           Earlier(id) == {k \in ids: Sooner(rows, k, id)}
           last == LastRow(rows, page)
<1>1. page \subseteq ids
  BY DEF FirstRows
<1>2. ASSUME ids # page
      PROVE  last \in page
  <2>1. IsFiniteSet(ids) /\ ids # {}
    BY <1>1, <1>2, IdsFinite, FS_Subset
  <2>2. \E first \in ids: \A k \in ids: k = first \/ Sooner(rows, first, k)
    <3> DEFINE R == {p \in ids \X ids: Sooner(rows, p[2], p[1])}
    <3>1. Orders(R, ids)
      BY SoonerOrders DEF Orders
    <3>2. \E x \in ids: \A y \in ids: y = x \/ <<y, x>> \in R
      <4> HIDE DEF R
      <4> QED BY <2>1, <3>1, LastExists
    <3> QED BY <3>2
  <2>3. page # {}
    <3>1. PICK first \in ids: \A k \in ids: k = first \/ Sooner(rows, first, k)
      BY <2>2
    <3>2. Earlier(first) = {}
      BY <3>1, IdsFinite DEF Sooner, IdBefore
    <3>3. Cardinality(Earlier(first)) < PageSize
      <4>1. Cardinality({}) = 0
        BY FS_EmptySet
      <4> HIDE DEF Earlier
      <4> QED BY <3>2, <4>1, ReportsAssumption
    <3> QED BY <3>3 DEF FirstRows
  <2>4. \E x \in page: \A k \in page: k = x \/ Sooner(rows, k, x)
    <3> DEFINE R == {p \in page \X page: Sooner(rows, p[1], p[2])}
    <3>1. IsFiniteSet(page)
      BY <1>1, <2>1, FS_Subset
    <3>2. Orders(R, page)
      <4> HIDE DEF page
      <4> QED BY <1>1, SoonerOrders DEF Orders
    <3>3. \E x \in page: \A y \in page: y = x \/ <<y, x>> \in R
      <4> HIDE DEF R, page
      <4> QED BY <2>3, <3>1, <3>2, LastExists
    <3> QED BY <3>3
  <2> HIDE DEF page
  <2> QED BY <2>4, Zenon DEF LastRow
<1>3. ASSUME ids # page, NEW id \in ids \ page
      PROVE  Sooner(rows, last, id)
  <2>1. last \in ids /\ last \in page /\ id \notin page
    BY <1>1, <1>2, <1>3
  <2>2. IsFiniteSet(Earlier(last))
    BY IdsFinite, FS_Subset
  <2>3. ~(Cardinality(Earlier(id)) < PageSize)
        /\ Cardinality(Earlier(last)) < PageSize
    <3> HIDE DEF last
    <3> QED BY <2>1, <1>3 DEF FirstRows
  <2>4. CASE Sooner(rows, id, last)
    <3>1. Earlier(id) \subseteq Earlier(last)
      <4> HIDE DEF last
      <4> QED BY <2>1, <2>4, SoonerOrders
    <3>2. /\ Cardinality(Earlier(id)) <= Cardinality(Earlier(last))
          /\ Cardinality(Earlier(id)) \in Nat
          /\ Cardinality(Earlier(last)) \in Nat
      BY <2>2, <3>1, FS_Subset, FS_CardinalityType
    <3> HIDE DEF Earlier
    <3> QED BY <3>2, <2>3, ReportsAssumption
  <2> HIDE DEF last, page
  <2> QED BY <2>1, <2>4, SoonerOrders
<1>4. NextCursor(rows, ids) = IF ids # page THEN <<rows[last], last>> ELSE NoTime
  BY DEF NextCursor
<1>5. ids # page => /\ last \in ids /\ <<rows[last], last>> \in Cursors
                    /\ <<rows[last], last>> # NoTime
  <2> HIDE DEF page, last
  <2> QED BY <1>1, <1>2, IdsFinite, ReportsAssumption DEF Cursors
<1> HIDE DEF page, last
<1>6. ASSUME ids # page, NEW id \in ids \ page
      PROVE  After(rows[id], id, <<rows[last], last>>)
  BY <1>3, <1>5, <1>6 DEF Sooner, After
<1> QED BY <1>1, <1>4, <1>5, <1>6 DEF page

-----------------------------------------------------------------------------
(* The way of a report *)

Sweep == [running: BOOLEAN, cursor: Cursors \cup {NoTime},
          page: SUBSET ReportRow]
Handler == [id: ReportIds, hashed: BOOLEAN, created: Nat]
Export == [stage: {"none", "running", "written"},
           cursor: Cursors \cup {NoTime}, owed: SUBSET ReportIds]

ReportsTyped ==
  /\ now \in 0 .. Horizon
  /\ shard \in [ReportIds -> Times] /\ central \in [ReportIds -> Times]
  /\ sending \subseteq Handler
  /\ sweep \in [Runs -> Sweep]
  /\ export \in Export

(* The review queue has the report, or a handler or a page is bringing it,
   with this time.                                                           *)
Traced(id, t) ==
  \/ central[id] = t
  \/ \E r \in sending: r.hashed /\ r.id = id /\ r.created = t
  \/ \E w \in Runs: \E r \in sweep[w].page: r.id = id /\ r.created = t

(* The row of the pool and every trace of it were made on the day the report is
   named for, and have the same time.  When the row is gone that day is over,
   so the same report cannot be filed again.                                 *)
TracesAgree ==
  /\ \A id \in ReportIds: shard[id] # NoTime =>
       shard[id] <= now /\ Day(shard[id]) = id[1]
  /\ \A id \in ReportIds, t \in Nat: Traced(id, t) =>
       /\ t <= now /\ Day(t) = id[1]
       /\ IF shard[id] = NoTime THEN Day(now) > id[1] ELSE t = shard[id]

(* A hash takes no noticeable part of an instant. *)
FiledNow ==
  \A r \in sending: ~r.hashed => r.created = now /\ r.id[1] = Day(now)

(* What a running export owes comes after its cursor. *)
ExportOwes ==
  /\ export.stage = "running" =>
       /\ export.cursor \in Cursors
       /\ \A id \in export.owed:
            central[id] # NoTime /\ After(central[id], id, export.cursor)
  /\ export.stage = "written" => export.owed = {}

ReportsInv == ReportsTyped /\ TracesAgree /\ FiledNow /\ ExportOwes

LEMMA StartIsFirst ==
  /\ Start \in Cursors
  /\ \A id \in ReportIds, t \in Nat: After(t, id, Start)
BY IdsFinite DEF Start, Cursors, After, IdBefore

LEMMA ReportsInit == Init => ReportsInv
<1> SUFFICES ASSUME ReportInit PROVE ReportsInv
  BY DEF Init
<1> USE ReportsAssumption DEF ReportInit
<1>1. ReportsTyped
  BY DEF ReportsTyped, Times, NoRun, NoExport, Sweep, Export
<1>2. TracesAgree
  BY DEF TracesAgree, Traced, NoRun
<1>3. FiledNow /\ ExportOwes
  BY DEF FiledNow, ExportOwes, NoExport
<1> QED BY <1>1, <1>2, <1>3 DEF ReportsInv

(* A step that leaves the clock and the rows of the pool alone and traces
   nothing but these rows keeps the traces in agreement.                     *)
LEMMA TracesStay ==
  ASSUME ReportsInv, UNCHANGED <<now, shard>>,
         \A id \in ReportIds, t \in Nat:
           Traced(id, t)' => Traced(id, t) \/ t = shard[id]
  PROVE  TracesAgree'
<1>1. NoTime \notin Nat
  BY ReportsAssumption
<1> QED BY <1>1 DEF ReportsInv, TracesAgree

(* INSERT OR IGNORE adds a row of this time or nothing. *)
LEMMA RecordedRow ==
  ASSUME ReportsTyped, NEW id \in ReportIds, NEW t \in Nat
  PROVE  /\ Recorded(id, t) \in [ReportIds -> Times]
         /\ \A k \in ReportIds:
              \/ Recorded(id, t)[k] = central[k]
              \/ k = id /\ central[k] = NoTime /\ Recorded(id, t)[k] = t
BY DEF Recorded, ReportsTyped, Times

(* What an export owes stays in the queue as long as only rows are added. *)
LEMMA OwedStays ==
  ASSUME ReportsInv, UNCHANGED export,
         \A id \in ReportIds: central'[id] = central[id] \/ central[id] = NoTime
  PROVE  ExportOwes'
BY DEF ReportsInv, ExportOwes, ReportsTyped, Export

-----------------------------------------------------------------------------
(* Steps of a report's handler *)

LEMMA InstantHolds == ReportsInv /\ ReportTick => ReportsInv'
<1> SUFFICES ASSUME ReportsInv, ReportTick PROVE ReportsInv'
  OBVIOUS
<1> USE DEF ReportsInv
<1>1. /\ now' = now + 1 /\ now < Horizon /\ now \in Nat
      /\ \A r \in sending: r.hashed
      /\ UNCHANGED <<shard, central, sending, sweep, export>>
  BY DEF ReportTick, ReportsTyped
<1>2. Day(now) <= Day(now)' /\ Day(now) \in Nat /\ Day(now)' \in Nat
  <2>1. Day(now) <= Day(now + 1) /\ Day(now + 1) \in Nat
    BY <1>1, DayOrder, DayType
  <2>2. Day(now)' = Day(now + 1)
    BY <1>1 DEF Day
  <2> QED BY <2>1, <2>2, <1>1, DayType
<1>3. ReportsTyped'
  BY <1>1, ReportsAssumption DEF ReportsTyped
<1>4. TracesAgree'
  <2>1. \A id \in ReportIds, t \in Nat: Traced(id, t)' <=> Traced(id, t)
    BY <1>1 DEF Traced
  <2>2. \A id \in ReportIds: shard[id] # NoTime =>
          shard[id] <= now' /\ Day(shard[id])' = id[1]
    BY <1>1 DEF TracesAgree, ReportsTyped, Times, Day
  <2>3. \A id \in ReportIds, t \in Nat: Traced(id, t) =>
          /\ t <= now' /\ Day(t)' = id[1]
          /\ IF shard[id] = NoTime THEN Day(now)' > id[1] ELSE t = shard[id]
    BY <1>1, <1>2, IdsFinite DEF TracesAgree, Day
  <2> QED BY <1>1, <2>1, <2>2, <2>3 DEF TracesAgree
<1>5. FiledNow' /\ ExportOwes'
  BY <1>1 DEF FiledNow, ExportOwes, After, IdBefore
<1> QED BY <1>3, <1>4, <1>5

LEMMA PrunedRows ==
  ASSUME ReportsInv
  PROVE  /\ Pruned(now) \in [ReportIds -> Times]
         /\ \A id \in ReportIds:
              \/ Pruned(now)[id] = shard[id]
              \/ /\ Pruned(now)[id] = NoTime /\ shard[id] \in Nat
                 /\ Day(now) > id[1]
<1>1. now \in Nat
  BY DEF ReportsInv, ReportsTyped
<1>2. \A id \in ReportIds: /\ shard[id] # NoTime => shard[id] \in Nat
                           /\ shard[id] # NoTime => Day(shard[id]) = id[1]
  BY DEF ReportsInv, ReportsTyped, TracesAgree, Times
<1>3. ASSUME NEW id \in ReportIds, shard[id] # NoTime,
             shard[id] < now - Retention
      PROVE  Day(now) > id[1]
  BY <1>1, <1>2, <1>3, PrunedIsOld, DayType
<1> QED BY <1>2, <1>3 DEF Pruned, ReportsInv, ReportsTyped, Times

LEMMA ReportHolds ==
  ASSUME ReportsInv, NEW reason \in Reasons, Report(reason)
  PROVE  ReportsInv'
<1> DEFINE id == <<Day(now), reason>>
           known == shard'[id] # NoTime
           r == [id |-> id, hashed |-> known,
                 created |-> IF known THEN shard'[id] ELSE now]
<1> USE DEF ReportsInv
<1>1. /\ shard' = Pruned(now)
      /\ sending' = sending \/ sending' = sending \cup {r}
      /\ UNCHANGED <<now, central, sweep, export>>
  BY DEF Report
<1>2. id \in ReportIds /\ id[1] = Day(now) /\ Day(now) \in Nat /\ now \in Nat
  <2>1. now \in Nat /\ now <= Horizon /\ Horizon \in Nat
    BY ReportsAssumption DEF ReportsTyped
  <2> QED BY <2>1, DayOrder, DayType DEF ReportIds
<1>3. shard' \in [ReportIds -> Times]
  BY <1>1, PrunedRows
<1>4. \A k \in ReportIds:
        \/ shard'[k] = shard[k]
        \/ shard'[k] = NoTime /\ shard[k] \in Nat /\ Day(now) > k[1]
  BY <1>1, PrunedRows
<1>5. /\ r \in Handler /\ r.id = id /\ r.hashed = known
      /\ known => r.created = shard'[id] /\ shard'[id] \in Nat
      /\ ~known => r.created = now
  <2>1. known => shard'[id] \in Nat
    BY <1>2, <1>3 DEF Times
  <2> HIDE DEF id
  <2> QED BY <2>1, <1>2 DEF Handler
<1>6. \A a \in sending': a \in sending \/ a = r
  BY <1>1
<1> HIDE DEF id, known, r
<1>7. ReportsTyped'
  BY <1>1, <1>3, <1>5, <1>6 DEF ReportsTyped
<1>8. \A k \in ReportIds, t \in Nat:
        Traced(k, t)' => Traced(k, t) \/ (k = id /\ known /\ t = shard'[id])
  BY <1>1, <1>5, <1>6 DEF Traced
<1>9. TracesAgree'
  <2>1. \A k \in ReportIds: shard'[k] # NoTime =>
          shard'[k] <= now' /\ Day(shard'[k]) = k[1]
    BY <1>1, <1>4 DEF TracesAgree
  <2>2. ASSUME NEW k \in ReportIds, NEW t \in Nat, Traced(k, t)'
        PROVE  /\ t <= now' /\ Day(t) = k[1]
               /\ IF shard'[k] = NoTime THEN Day(now) > k[1] ELSE t = shard'[k]
    <3>1. CASE Traced(k, t)
      BY <3>1, <1>1, <1>4, ReportsAssumption DEF TracesAgree
    <3>2. CASE k = id /\ known /\ t = shard'[id]
      BY <3>2, <2>1 DEF known
    <3> QED BY <3>1, <3>2, <2>2, <1>8
  <2> QED BY <1>1, <2>1, <2>2 DEF TracesAgree, Day
<1>10. FiledNow'
  BY <1>1, <1>2, <1>5, <1>6 DEF FiledNow, Day
<1>11. ExportOwes'
  BY <1>1, OwedStays
<1> QED BY <1>7, <1>9, <1>10, <1>11

(* The hash is there: nothing of this report has been seen, or somebody else
   has filed it.                                                             *)
LEMMA FilingHolds ==
  ASSUME ReportsInv, NEW r \in sending, ReportFiled(r)
  PROVE  ReportsInv'
<1> USE DEF ReportsInv
<1>1. /\ ~r.hashed /\ r \in Handler /\ r.created = now /\ r.id[1] = Day(now)
      /\ UNCHANGED <<now, central, sweep, export>>
  BY DEF ReportFiled, ReportsTyped, FiledNow
<1>2. r.id \in ReportIds /\ now \in Nat /\ Day(now) \in Nat
  BY <1>1, DayType DEF Handler, ReportsTyped
<1>3. ExportOwes'
  BY <1>1, OwedStays
<1>4. CASE shard[r.id] # NoTime
  <2>1. sending' \subseteq sending /\ shard' = shard
    BY <1>4 DEF ReportFiled
  <2>2. ReportsTyped' /\ FiledNow'
    BY <1>1, <2>1 DEF ReportsTyped, FiledNow, Day
  <2>3. TracesAgree'
    BY <1>1, <2>1, TracesStay DEF Traced
  <2> QED BY <2>2, <2>3, <1>3
<1>5. CASE shard[r.id] = NoTime
  <2> DEFINE q == [r EXCEPT !.hashed = TRUE]
  <2>1. /\ shard' = [shard EXCEPT ![r.id] = now]
        /\ sending' = (sending \ {r}) \cup {q}
    BY <1>1, <1>5 DEF ReportFiled
  <2>2. q \in Handler /\ q.id = r.id /\ q.created = now /\ q.hashed
    BY <1>1 DEF Handler
  <2>3. \A a \in sending': a \in sending \/ a = q
    BY <2>1
  <2> HIDE DEF q
  <2>4. /\ shard' \in [ReportIds -> Times]
        /\ \A k \in ReportIds:
             shard'[k] = IF k = r.id THEN now ELSE shard[k]
    BY <2>1, <1>2 DEF ReportsTyped, Times
  <2>5. ReportsTyped'
    BY <1>1, <2>2, <2>3, <2>4 DEF ReportsTyped
  <2>6. FiledNow'
    BY <1>1, <2>2, <2>3 DEF FiledNow, Day
  <2>7. \A t \in Nat: ~Traced(r.id, t)
    BY <1>1, <1>2, <1>5 DEF TracesAgree
  <2>8. \A k \in ReportIds, t \in Nat:
          Traced(k, t)' =>
            \/ Traced(k, t) /\ k # r.id
            \/ k = r.id /\ t = now
    BY <1>1, <2>2, <2>3, <2>7 DEF Traced
  <2>9. TracesAgree'
    <3>1. \A k \in ReportIds: shard'[k] # NoTime =>
            shard'[k] <= now' /\ Day(shard'[k]) = k[1]
      BY <1>1, <1>2, <2>4 DEF TracesAgree
    <3>2. ASSUME NEW k \in ReportIds, NEW t \in Nat, Traced(k, t)'
          PROVE  /\ t <= now' /\ Day(t) = k[1]
                 /\ IF shard'[k] = NoTime THEN Day(now) > k[1]
                    ELSE t = shard'[k]
      BY <3>2, <1>1, <1>2, <2>4, <2>8, ReportsAssumption DEF TracesAgree
    <3> QED BY <1>1, <3>1, <3>2 DEF TracesAgree, Day
  <2> QED BY <2>5, <2>6, <2>9, <1>3
<1> QED BY <1>4, <1>5

(* A report that is sent, or left to the maintenance, or lost with its pool. *)
LEMMA SendingHolds ==
  ASSUME ReportsInv,
         \/ \E r \in sending: ReportSent(r) \/ ReportDeferred(r)
         \/ Evict
  PROVE  ReportsInv'
<1> USE DEF ReportsInv
<1>1. ASSUME NEW r \in sending, ReportSent(r) PROVE ReportsInv'
  <2>1. /\ r.hashed /\ r.id \in ReportIds /\ r.created \in Nat
        /\ central' = Recorded(r.id, r.created) /\ sending' \subseteq sending
        /\ UNCHANGED <<now, shard, sweep, export>>
    BY <1>1 DEF ReportSent, ReportsTyped, Handler
  <2>2. /\ central' \in [ReportIds -> Times]
        /\ \A k \in ReportIds:
             \/ central'[k] = central[k]
             \/ k = r.id /\ central[k] = NoTime /\ central'[k] = r.created
    BY <2>1, RecordedRow
  <2>3. ReportsTyped' /\ FiledNow'
    BY <2>1, <2>2 DEF ReportsTyped, FiledNow, Day
  <2>4. \A k \in ReportIds, t \in Nat: Traced(k, t)' => Traced(k, t)
    BY <2>1, <2>2 DEF Traced
  <2> QED BY <2>1, <2>2, <2>3, <2>4, TracesStay, OwedStays
<1>2. ASSUME sending' \subseteq sending,
             UNCHANGED <<now, shard, central, sweep, export>>
      PROVE  ReportsInv'
  <2>1. ReportsTyped' /\ FiledNow'
    BY <1>2 DEF ReportsTyped, FiledNow, Day
  <2>2. \A k \in ReportIds, t \in Nat: Traced(k, t)' => Traced(k, t)
    BY <1>2 DEF Traced
  <2> QED BY <1>2, <2>1, <2>2, TracesStay, OwedStays
<1> QED BY <1>1, <1>2 DEF ReportDeferred, Evict

-----------------------------------------------------------------------------
(* Steps of the maintenance *)

(* A run holds copies of rows it read while they were there. *)
LEMMA RunHolds ==
  ASSUME ReportsInv, NEW w \in Runs, NEW run \in Sweep,
         sweep' = [sweep EXCEPT ![w] = run],
         \A r \in run.page: r \in sweep[w].page \/ r.created = shard[r.id],
         UNCHANGED <<now, shard, central, sending, export>>
  PROVE  ReportsInv'
<1> USE DEF ReportsInv
<1>1. ReportsTyped' /\ FiledNow'
  BY DEF ReportsTyped, FiledNow, Day
<1>2. \A x \in Runs: sweep'[x] = IF x = w THEN run ELSE sweep[x]
  BY DEF ReportsTyped
<1>3. \A id \in ReportIds, t \in Nat:
        Traced(id, t)' => Traced(id, t) \/ t = shard[id]
  BY <1>2 DEF Traced
<1> QED BY <1>1, <1>3, TracesStay, OwedStays

LEMMA NoPage ==
  /\ NoRun \in Sweep /\ NoRun.page = {}
  /\ FirstPage \in Sweep /\ FirstPage.page = {}
BY StartIsFirst DEF NoRun, FirstPage, Sweep

(* What is pruned from the queue is not owed to an export any more. *)
LEMMA ExpiryHolds ==
  ASSUME ReportsInv, PruneExpired,
         \/ UNCHANGED sweep
         \/ sweep' = [sweep EXCEPT !["scheduled"] = FirstPage],
         UNCHANGED <<now, shard, sending>>
  PROVE  ReportsInv'
<1> USE DEF ReportsInv
<1>1. /\ central' \in [ReportIds -> Times]
      /\ \A id \in ReportIds:
           central'[id] = IF id \in Kept THEN central[id] ELSE NoTime
  BY DEF PruneExpired, Kept, ReportsTyped, Times
<1>2. export' = [export EXCEPT !.owed = @ \cap Kept]
  BY DEF PruneExpired
<1>3. /\ sweep' \in [Runs -> Sweep]
      /\ \A w \in Runs: sweep'[w].page \subseteq sweep[w].page
  BY NoPage DEF ReportsTyped
<1>4. ReportsTyped' /\ FiledNow'
  BY <1>1, <1>2, <1>3 DEF ReportsTyped, FiledNow, Day, Export
<1>5. \A id \in ReportIds, t \in Nat: Traced(id, t)' => Traced(id, t)
  BY <1>1, <1>3, ReportsAssumption DEF Traced
<1>6. ExportOwes'
  <2>1. /\ export'.stage = export.stage /\ export'.cursor = export.cursor
        /\ export'.owed = export.owed \cap Kept
    BY <1>2 DEF ReportsTyped, Export
  <2>2. export.owed \subseteq ReportIds
    BY DEF ReportsTyped, Export
  <2> QED BY <1>1, <2>1, <2>2 DEF ExportOwes
<1> QED BY <1>4, <1>5, <1>6, TracesStay

LEMMA SweepHolds ==
  ASSUME ReportsInv, NEW w \in Runs, SweepStep(w) \/ SweepFails(w)
  PROVE  ReportsInv'
<1> USE DEF ReportsInv
<1>1. sweep \in [Runs -> Sweep] /\ sweep[w] \in Sweep
  BY DEF ReportsTyped
<1>2. CASE ReadPage(w)
  <2> DEFINE rows == Rows(sweep[w].cursor)
             page == {[id |-> id, created |-> shard[id]]:
                        id \in FirstRows(shard, rows)}
             read == [sweep[w] EXCEPT !.page = page]
             run == [read EXCEPT !.cursor = NextCursor(shard, rows)]
  <2>1. /\ shard \in [ReportIds -> Times] /\ rows \in SUBSET ReportIds
        /\ \A id \in rows: shard[id] \in Nat
    BY DEF ReportsTyped, Rows, Times
  <2>2. /\ FirstRows(shard, rows) \subseteq rows
        /\ NextCursor(shard, rows) \in Cursors \cup {NoTime}
    <3> HIDE DEF rows
    <3> QED BY <2>1, NextPage
  <2>3. page \in SUBSET ReportRow /\ \A r \in page: r.created = shard[r.id]
    BY <2>1, <2>2 DEF ReportRow
  <2>4. sweep' = [sweep EXCEPT ![w] = run]
        /\ UNCHANGED <<now, shard, central, sending, export>>
    BY <1>1, <1>2 DEF ReadPage
  <2> HIDE DEF rows, page
  <2>5. run \in Sweep /\ run.page = page
    BY <1>1, <2>2, <2>3 DEF Sweep
  <2> HIDE DEF run
  <2> QED BY <2>3, <2>4, <2>5, RunHolds
<1>3. CASE SweepRow(w)
  <2>1. PICK r \in sweep[w].page:
          /\ central' = Recorded(r.id, r.created)
          /\ sweep' = [sweep EXCEPT ![w].page = @ \ {r}]
          /\ UNCHANGED <<now, shard, sending, export>>
    BY <1>3 DEF SweepRow
  <2>2. r.id \in ReportIds /\ r.created \in Nat
    BY <1>1 DEF Sweep, ReportRow
  <2>3. /\ central' \in [ReportIds -> Times]
        /\ \A k \in ReportIds:
             \/ central'[k] = central[k]
             \/ k = r.id /\ central[k] = NoTime /\ central'[k] = r.created
    BY <2>1, <2>2, RecordedRow
  <2>4. /\ sweep' \in [Runs -> Sweep]
        /\ \A x \in Runs: sweep'[x].page \subseteq sweep[x].page
    BY <1>1, <2>1 DEF Sweep
  <2>5. ReportsTyped' /\ FiledNow'
    BY <2>1, <2>3, <2>4 DEF ReportsTyped, FiledNow, Day
  <2>6. \A k \in ReportIds, t \in Nat: Traced(k, t)' => Traced(k, t)
    BY <2>1, <2>3, <2>4 DEF Traced
  <2> QED BY <2>1, <2>3, <2>5, <2>6, TracesStay, OwedStays
<1>4. CASE EndSweep(w) \/ SweepFails(w)
  <2>1. /\ sweep' = [sweep EXCEPT ![w] = NoRun]
        /\ UNCHANGED <<now, shard, central, sending, export>>
    BY <1>4 DEF EndSweep, SweepFails
  <2> QED BY <2>1, NoPage, RunHolds
<1> QED BY <1>2, <1>3, <1>4 DEF SweepStep

-----------------------------------------------------------------------------
(* Steps of the export *)

LEMMA ExportHolds ==
  ASSUME ReportsInv, StartExport \/ ListPage \/ EndExport
  PROVE  ReportsInv'
<1> USE DEF ReportsInv
<1>1. UNCHANGED <<now, shard, central, sending, sweep>>
  BY DEF StartExport, ListPage, EndExport
<1>2. FiledNow' /\ TracesAgree'
  <2>1. \A id \in ReportIds, t \in Nat: Traced(id, t)' => Traced(id, t)
    BY <1>1 DEF Traced
  <2> QED BY <1>1, <2>1, TracesStay DEF FiledNow, Day
<1> SUFFICES export' \in Export /\ ExportOwes'
  BY <1>1, <1>2 DEF ReportsTyped
<1>3. \A id \in ReportIds: central[id] # NoTime => central[id] \in Nat
  BY DEF ReportsTyped, Times
<1>4. CASE StartExport
  <2>1. export' = [stage |-> "running", cursor |-> Start,
                   owed |-> {id \in ReportIds: central[id] # NoTime}]
    BY <1>4 DEF StartExport
  <2>2. /\ export' \in Export /\ export'.stage = "running"
        /\ export'.cursor = Start
        /\ \A id \in export'.owed: id \in ReportIds /\ central[id] # NoTime
    BY <2>1, StartIsFirst DEF Export
  <2> QED BY <1>1, <1>3, <2>2, StartIsFirst DEF ExportOwes, After, IdBefore
<1>5. CASE EndExport
  BY <1>5 DEF EndExport, NoExport, Export, ExportOwes
<1>6. CASE ListPage
  <2> DEFINE rows == Queued(export.cursor)
             next == NextCursor(central, rows)
             page == FirstRows(central, rows)
  <2>1. /\ export.stage = "running"
        /\ export' = [export EXCEPT
             !.stage = IF next = NoTime THEN "written" ELSE @,
             !.cursor = next, !.owed = @ \ page]
    BY <1>6 DEF ListPage
  <2>2. export \in Export /\ export.owed \subseteq rows
    BY <2>1 DEF ReportsTyped, Export, ExportOwes, Queued
  <2>3. /\ central \in [ReportIds -> Times] /\ rows \in SUBSET ReportIds
        /\ \A id \in rows: central[id] \in Nat
    BY <1>3 DEF ReportsTyped, Queued
  <2>4. /\ page \subseteq rows
        /\ next \in Cursors \cup {NoTime}
        /\ next = NoTime => page = rows
        /\ next # NoTime => \A id \in rows \ page: After(central[id], id, next)
    <3> HIDE DEF rows
    <3> QED BY <2>3, NextPage
  <2> HIDE DEF rows, next, page
  <2>5. /\ export' \in Export /\ export'.cursor = next
        /\ export'.owed = export.owed \ page
        /\ export'.stage = IF next = NoTime THEN "written" ELSE "running"
    BY <2>1, <2>2, <2>4 DEF Export
  <2>6. ExportOwes'
    <3>1. CASE next = NoTime
      BY <3>1, <2>2, <2>4, <2>5 DEF ExportOwes
    <3>2. CASE next # NoTime
      <4>1. \A id \in export'.owed:
              central[id] # NoTime /\ After(central[id], id, next)
        BY <3>2, <2>2, <2>3, <2>4, <2>5, ReportsAssumption
      <4>2. next \in Cursors /\ export'.stage = "running"
        BY <3>2, <2>4, <2>5
      <4> QED BY <1>1, <2>5, <4>1, <4>2 DEF ExportOwes, After, IdBefore
    <3> QED BY <3>1, <3>2
  <2> QED BY <2>5, <2>6
<1> QED BY <1>4, <1>5, <1>6

LEMMA ReportStepHolds == ReportsInv /\ ReportNext => ReportsInv'
<1> SUFFICES ASSUME ReportsInv, ReportNext PROVE ReportsInv'
  OBVIOUS
<1>1. CASE StartSweep \/ PruneReports
  BY <1>1, ExpiryHolds DEF StartSweep, PruneReports
<1>2. CASE Backfill
  <2>1. "operator" \in Runs
    BY DEF Runs
  <2> QED BY <1>2, <2>1, NoPage, RunHolds DEF Backfill
<1>3. CASE \E w \in Runs: SweepStep(w) \/ SweepFails(w)
  BY <1>3, SweepHolds
<1> QED BY <1>1, <1>2, <1>3, InstantHolds, ReportHolds, FilingHolds,
           SendingHolds, ExportHolds
      DEF ReportNext, Maintenance, Runs

(* The report, its copies and the listings of them hang together, for any
   calendar, limits and page size.                                           *)
THEOREM ReportsHold == Spec => []ReportsInv
<1>1. Init => ReportsInv
  BY ReportsInit
<1>2. ReportsInv /\ [Next]_vars => ReportsInv'
  <2> SUFFICES ASSUME ReportsInv, [Next]_vars, UNCHANGED reportVars
               PROVE  ReportsInv'
    BY ReportStepHolds DEF Next, vars, Decisions, Filing, Verifying
  <2>1. UNCHANGED <<now, shard, central, sending, sweep, export>>
    BY DEF reportVars
  <2>2. \A id \in ReportIds, t \in Nat: Traced(id, t)' => Traced(id, t)
    BY <2>1 DEF Traced
  <2>3. ReportsTyped' /\ FiledNow'
    BY <2>1 DEF ReportsInv, ReportsTyped, FiledNow, Day
  <2> QED BY <2>1, <2>2, <2>3, TracesStay, OwedStays DEF ReportsInv
<1> QED BY <1>1, <1>2, PTL DEF Spec

(* The review queue has the time a report was first filed at, whoever brought
   it there: its handler, the handler of the same report made again, or the
   maintenance (handlePeerSafety, centralizeModerationReports).              *)
THEOREM QueueIsFaithful == Spec => []CentralFaithful
<1>1. ReportsInv => CentralFaithful
  <2> SUFFICES ASSUME ReportsInv, NEW id \in ReportIds,
                      central[id] # NoTime, shard[id] # NoTime
               PROVE  central[id] = shard[id]
    BY DEF CentralFaithful
  <2>1. central[id] \in Nat /\ Traced(id, central[id])
    BY DEF ReportsInv, ReportsTyped, Times, Traced
  <2> QED BY <2>1 DEF ReportsInv, TracesAgree
<1> QED BY <1>1, ReportsHold, PTL

(* An export has every report that was in the queue from its beginning to its
   end, for any page size and however old the reports are that arrive between
   its pages (listModerationReports).                                        *)
THEOREM ExportIsComplete == Spec => []ExportComplete
<1>1. ReportsInv => ExportComplete
  BY DEF ReportsInv, ExportOwes, ExportComplete
<1> QED BY <1>1, ReportsHold, PTL

=============================================================================
