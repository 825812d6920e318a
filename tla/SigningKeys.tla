----------------------------- MODULE SigningKeys ------------------------------
(***************************************************************************)
(* The certificates a Worker isolate verifies identity tokens with         *)
(* (verificationKey and firebaseCertificates of auth.ts).  They are cached *)
(* for the lifetime of the response they came in, while the provider adds  *)
(* and withdraws keys, and several connections may ask for them at once:   *)
(* their answers come in any order.  Time is relative, so nothing bounds   *)
(* the length of a behaviour.                                              *)
(***************************************************************************)
EXTENDS Integers, FiniteSets, FiniteSetsExt

CONSTANTS
  Keys,         \* ids of signing keys
  MaxAges,      \* max-age of the responses
  MinLife,      \* 60 s in the code
  DefaultLife,  \* 300 s, for a response without max-age
  Requests,     \* bound: connections that wait for certificates
  KeyFaults,    \* bound: failed requests and new isolates
  NoAge         \* a response without max-age

ASSUME SigningKeysAssumption ==
  /\ MaxAges \ {NoAge} \subseteq Nat /\ MaxAges # {} /\ NoAge \notin Nat
  /\ IsFiniteSet(MaxAges)
  /\ MinLife \in Nat /\ DefaultLife \in Nat /\ DefaultLife >= MinLife
  /\ Requests \in Nat /\ KeyFaults \in Nat

VARIABLES
  provider,   \* what Google publishes: each key's state
  gone,       \* instants since a key was withdrawn
  cache,      \* certificateCache: the keys, and the instants they are left
  requests,   \* calls of firebaseCertificates that wait
  keyFaults   \* faults so far

keyVars == <<provider, gone, cache, requests, keyFaults>>

(* Math.max(60, Number(maxAge?.[1] ?? 300)) *)
Lifetime(maxAge) ==
  IF maxAge = NoAge THEN DefaultLife
  ELSE IF maxAge < MinLife THEN MinLife ELSE maxAge

Lifetimes == {Lifetime(maxAge): maxAge \in MaxAges}
Longest == Max(Lifetimes)

(* Ages beyond the longest lifetime make no difference. *)
Older(age) == IF age > Longest THEN age ELSE age + 1

Published == {k \in Keys: provider[k] = "published"}

(* certificateCache && certificateCache.expiresAt > now *)
Fresh(c) == c.left > 0

(* Tokens of these keys are verified without asking the provider. *)
Trusted == IF Fresh(cache) THEN cache.keys ELSE {}

EmptyCache == [keys |-> {}, left |-> 0]

-----------------------------------------------------------------------------
(* The provider *)

Publish(k) ==
  /\ provider[k] = "new"
  /\ provider' = [provider EXCEPT ![k] = "published"]
  /\ UNCHANGED <<gone, cache, requests, keyFaults>>

Withdraw(k) ==
  /\ provider[k] = "published"
  /\ provider' = [provider EXCEPT ![k] = "withdrawn"]
  /\ UNCHANGED <<gone, cache, requests, keyFaults>>

-----------------------------------------------------------------------------
(* firebaseCertificates *)

AskOnce ==
  /\ cache = EmptyCache
  /\ Cardinality(requests) < Requests
  /\ requests' = requests \cup {[answered |-> FALSE, keys |-> {}, life |-> 0,
                                 age |-> 0]}
  /\ UNCHANGED <<provider, gone, cache, keyFaults>>

(* Every connection that finds the cache stale asks, whoever else has asked.
   The time from which the answer's lifetime counts is read before.          *)
Ask ==
  /\ ~Fresh(cache)
  /\ Cardinality(requests) < Requests
  /\ requests' = requests \cup {[answered |-> FALSE, keys |-> {}, life |-> 0,
                                 age |-> 0]}
  /\ UNCHANGED <<provider, gone, cache, keyFaults>>

Answer(r) ==
  /\ ~r.answered
  /\ \E life \in Lifetimes:
       requests' = (requests \ {r}) \cup
         {[r EXCEPT !.answered = TRUE, !.keys = Published, !.life = life]}
  /\ UNCHANGED <<provider, gone, cache, keyFaults>>

CachedFromArrival(r) == [keys |-> r.keys, left |-> r.life]

(* expiresAt counts from the question, so an answer may come too late. *)
Cached(r) ==
  [keys |-> r.keys, left |-> IF r.life > r.age THEN r.life - r.age ELSE 0]

(* The last answer to arrive is the one that is kept. *)
Receive(r) ==
  /\ r.answered
  /\ cache' = Cached(r)
  /\ requests' = requests \ {r}
  /\ UNCHANGED <<provider, gone, keyFaults>>

(* The request fails or is not ok: its connection is refused. *)
RequestFails(r) ==
  /\ keyFaults < KeyFaults
  /\ requests' = requests \ {r}
  /\ keyFaults' = keyFaults + 1
  /\ UNCHANGED <<provider, gone, cache>>

(* The platform starts a new isolate. *)
NewIsolate ==
  /\ keyFaults < KeyFaults
  /\ cache' = EmptyCache /\ requests' = {}
  /\ keyFaults' = keyFaults + 1
  /\ UNCHANGED <<provider, gone>>

KeyTick ==
  /\ gone' = [k \in Keys |-> IF provider[k] = "withdrawn" THEN Older(gone[k])
                             ELSE 0]
  /\ cache' = [cache EXCEPT !.left = IF @ > 0 THEN @ - 1 ELSE 0]
  /\ requests' = {[r EXCEPT !.age = Older(@)]: r \in requests}
  /\ UNCHANGED <<provider, keyFaults>>

-----------------------------------------------------------------------------
KeyInit ==
  /\ provider = [k \in Keys |-> "new"]
  /\ gone = [k \in Keys |-> 0]
  /\ cache = EmptyCache
  /\ requests = {}
  /\ keyFaults = 0

Answers == \E r \in requests: Answer(r)
Receptions == \E r \in requests: Receive(r)

KeyNext ==
  \/ \E k \in Keys: Publish(k) \/ Withdraw(k)
  \/ Ask \/ Answers \/ Receptions \/ NewIsolate \/ KeyTick
  \/ \E r \in requests: RequestFails(r)

-----------------------------------------------------------------------------
(* No token is verified from the cache with a key that was withdrawn a whole
   lifetime ago, or will be before the cache expires: however slow an answer
   was, and although an older answer that comes later brings back a key that a
   newer one had already dropped (auth.ts 118-138).                          *)
TrustEnds ==
  \A k \in Trusted:
    provider[k] = "withdrawn" => gone[k] + cache.left <= Longest

(* What a connection can be verified with: the cache, or its own answer. *)
Verifiable(k) ==
  k \in Trusted \/ \E r \in requests: r.answered /\ k \in r.keys

(* Tokens of a new key are accepted in the end, unless it is withdrawn before:
   a fresh cache that does not hold the key refuses them and asks nobody, but
   it expires (auth.ts 103-116).                                             *)
NewKeysArrive ==
  \A k \in Keys: provider[k] = "published" ~>
                   Verifiable(k) \/ provider[k] = "withdrawn"

=============================================================================
