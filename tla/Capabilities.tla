----------------------------- MODULE Capabilities -----------------------------
(***************************************************************************)
(* Who may be online.  The Worker derives the capabilities of a connection *)
(* from the deployment's mode, the claims of the verified token or the     *)
(* registry of decisions in D1 (auth.ts, safety_authority.ts), and then    *)
(* hands the connection to the pool, while an operator issues and revokes  *)
(* decisions and retires the open session (fetch and MultiplayerOperator   *)
(* of index.ts, safety_operator.mjs).                                      *)
(***************************************************************************)
EXTENDS Integers, FiniteSets

CONSTANTS
  Uids,        \* identities
  Modes,       \* values of CAPABILITY_MODE that are deployed
  Claims,      \* nestariumCapabilities of a token
  Grants,      \* sets of capabilities an operator tries to issue
  Revisions,   \* bound: decisions about one identity
  Calls,       \* bound: calls of the operator at the same time
  CallFaults,  \* bound: failed calls
  None         \* undefined

(* A row of capability_decisions; the empty grant is a denial. *)
DecisionRow == [status: {"allowed", "denied", "revoked", "expired"},
                grant: Grants, revision: Nat]

ASSUME CapabilitiesAssumption ==
  /\ Modes \subseteq {"trusted_registry", "trusted_claims",
                      "protected_playtest"}
  /\ Revisions \in Nat /\ Calls \in Nat /\ CallFaults \in Nat
  /\ None \notin Nat /\ None \notin DecisionRow

VARIABLES
  capabilityMode,  \* CAPABILITY_MODE of the deployment
  decision,        \* rows of capability_decisions
  connecting,      \* connections between the Worker's read and the pool
  session,         \* open sockets of the pool
  calls,           \* issueCapability and revokeCapability calls under way
  callFaults       \* failures so far

capabilityVars == <<capabilityMode, decision, connecting, session, calls,
                    callFaults>>

-----------------------------------------------------------------------------
(* Decisions and claims.  Capabilities are the set of what is allowed. *)

SessionCapabilities == {"onlineBattle", "trading", "presetMessages",
                        "profileDiscovery"}

(* validateCapabilityDecision; the empty grant is a denial. *)
Valid(grant) ==
  /\ "profileDiscovery" \notin grant
  /\ "presetMessages" \in grant => "trading" \in grant
  /\ grant # {} => {"onlineBattle", "trading"} \cap grant # {}

(* capabilityDecisionForUid: a row is allowed, denied, revoked or expired. *)
Allowed(u) == decision[u] # None /\ decision[u].status = "allowed"

Revision(u) == IF decision[u] = None THEN 0 ELSE decision[u].revision

Registered(u) == IF Allowed(u) THEN decision[u].grant ELSE {}

PolicyVersion == 1

(* capabilitiesFor: the owner's playtest, or the claims of the token. *)
CapabilitiesFor(claim) ==
  IF capabilityMode = "protected_playtest"
  THEN SessionCapabilities \ {"profileDiscovery"}
  ELSE IF /\ capabilityMode = "trusted_claims" /\ claim # None
          /\ claim.policyVersion = PolicyVersion
          /\ claim.decision = "allow"
       THEN claim.grant ELSE {}

Granted(u, claim) ==
  IF capabilityMode = "trusted_registry" THEN Registered(u)
  ELSE CapabilitiesFor(claim)

-----------------------------------------------------------------------------
(* Connections *)

(* verifyFirebaseSession, which refuses who may neither battle nor trade. *)
VerifySession(u, claim) ==
  /\ connecting[u] = None
  /\ {"onlineBattle", "trading"} \cap Granted(u, claim) # {}
  /\ connecting' = [connecting EXCEPT ![u] =
       [revision |-> Revision(u), capabilities |-> Granted(u, claim)]]
  /\ UNCHANGED <<capabilityMode, decision, session, calls, callFaults>>

(* MatchmakingPool.fetch accepts the socket with what the Worker has read; the
   field current tells whether that was still the last decision.             *)
Admit(u) ==
  /\ connecting[u] # None
  /\ session' = [session EXCEPT ![u] =
       [capabilities |-> connecting[u].capabilities,
        current |-> connecting[u].revision = Revision(u)]]
  /\ connecting' = [connecting EXCEPT ![u] = None]
  /\ UNCHANGED <<capabilityMode, decision, calls, callFaults>>

Leave(u) ==
  /\ session[u] # None
  /\ session' = [session EXCEPT ![u] = None]
  /\ UNCHANGED <<capabilityMode, decision, connecting, calls, callFaults>>

-----------------------------------------------------------------------------
(* The operator *)

Call(u, stage) == [uid |-> u, stage |-> stage]

UnderWay == {c \in calls: c.stage # "failed"}

MayCall(u) == Revision(u) < Revisions /\ Cardinality(UnderWay) < Calls

(* issueCapabilityDecision: one batch, then the row is read again. *)
Issue(u, grant) ==
  /\ MayCall(u)
  /\ Valid(grant)
  /\ decision' = [decision EXCEPT ![u] =
       [status |-> IF grant = {} THEN "denied" ELSE "allowed",
        grant |-> grant, revision |-> Revision(u) + 1]]
  /\ calls' = calls \cup {Call(u, "reread")}
  /\ UNCHANGED <<capabilityMode, connecting, session, callFaults>>

(* Only a status other than allowed retires the subject. *)
Reread(c) ==
  /\ c.stage = "reread"
  /\ calls' = (calls \ {c}) \cup
       IF Allowed(c.uid) THEN {} ELSE {Call(c.uid, "retire")}
  /\ UNCHANGED <<capabilityMode, decision, connecting, session, callFaults>>

(* revokeCapabilityDecision, after which revokeCapability always retires. *)
RevokeUnretired(u) ==
  /\ decision[u] # None /\ MayCall(u)
  /\ decision' = [decision EXCEPT ![u].status = "revoked",
                                  ![u].revision = @ + 1]
  /\ UNCHANGED <<capabilityMode, connecting, session, calls, callFaults>>

Revoke(u) ==
  /\ decision[u] # None /\ MayCall(u)
  /\ decision' = [decision EXCEPT ![u].status = "revoked",
                                  ![u].revision = @ + 1]
  /\ calls' = calls \cup {Call(u, "retire")}
  /\ UNCHANGED <<capabilityMode, connecting, session, callFaults>>

(* expires_at passes, at any time. *)
Expire(u) ==
  /\ decision[u] # None /\ decision[u].status \in {"allowed", "denied"}
  /\ decision' = [decision EXCEPT ![u].status = "expired"]
  /\ UNCHANGED <<capabilityMode, connecting, session, calls, callFaults>>

(* retireCapabilitySubject closes the socket that is open now. *)
RetireSubject(c) ==
  /\ c.stage = "retire"
  /\ session' = [session EXCEPT ![c.uid] = None]
  /\ calls' = calls \ {c, Call(c.uid, "failed")}
  /\ UNCHANGED <<capabilityMode, decision, connecting, callFaults>>

(* The call fails after its write; the operator sees an error. *)
CallFails(c) ==
  /\ c.stage # "failed" /\ callFaults < CallFaults
  /\ calls' = (calls \ {c}) \cup {Call(c.uid, "failed")}
  /\ callFaults' = callFaults + 1
  /\ UNCHANGED <<capabilityMode, decision, connecting, session>>

-----------------------------------------------------------------------------
CapabilityInit ==
  /\ capabilityMode \in Modes
  /\ decision = [u \in Uids |-> None]
  /\ connecting = [u \in Uids |-> None]
  /\ session = [u \in Uids |-> None]
  /\ calls = {}
  /\ callFaults = 0

CapabilityNext ==
  \/ \E u \in Uids:
       \/ \E claim \in Claims: VerifySession(u, claim)
       \/ Admit(u) \/ Leave(u) \/ Revoke(u) \/ Expire(u)
       \/ \E grant \in Grants: Issue(u, grant)
  \/ \E c \in calls: Reread(c) \/ RetireSubject(c) \/ CallFails(c)

-----------------------------------------------------------------------------
(* Where the registry decides: when no call of the operator is under way or has
   failed, nobody is online under a decision that was revoked or replaced by a
   denial, except by a connection whose decision was read before it and that
   reached the pool after the retirement (index.ts 389-438, 2656-2676).      *)
RevocationHolds ==
  capabilityMode = "trusted_registry" =>
    \A u \in Uids:
      /\ session[u] # None /\ session[u].current
      /\ \A c \in calls: c.uid # u
      => decision[u].status \in {"allowed", "expired"}

=============================================================================
