-------------------------------- MODULE Safety --------------------------------
(***************************************************************************)
(* The safety authority and the gate before the pools: who is believed to  *)
(* be who (SigningKeys), who may be online (Capabilities), and what        *)
(* players report about each other (Reports).                              *)
(* The three share nothing: a token is verified before its uid is looked   *)
(* up, and reports are filed by whoever is online.  A behaviour therefore  *)
(* exercises one of them, and no property needs two.                       *)
(***************************************************************************)
EXTENDS Capabilities, Reports, SigningKeys

VARIABLE part  \* bound: the part that moves

vars == <<part, capabilityVars, reportVars, keyVars>>

Init ==
  /\ part \in {"decisions", "reports", "keys"}
  /\ CapabilityInit /\ ReportInit /\ KeyInit
  /\ part # "decisions" => capabilityMode = CHOOSE mode \in Modes: TRUE

Decisions(A) ==
  part = "decisions" /\ A /\ UNCHANGED <<part, reportVars, keyVars>>

Filing(A) ==
  part = "reports" /\ A /\ UNCHANGED <<part, capabilityVars, keyVars>>

Verifying(A) ==
  part = "keys" /\ A /\ UNCHANGED <<part, capabilityVars, reportVars>>

Next ==
  \/ Decisions(CapabilityNext)
  \/ Filing(ReportNext)
  \/ Verifying(KeyNext)

Spec == Init /\ [][Next]_vars

(* The maintenance is run again and again; players connect again and again, the
   provider answers, and time passes.                                        *)
FairSpec ==
  /\ Spec
  /\ WF_vars(Filing(Maintenance))
  /\ WF_vars(Verifying(Ask)) /\ WF_vars(Verifying(Answers))
  /\ WF_vars(Verifying(Receptions)) /\ WF_vars(Verifying(KeyTick))

=============================================================================
