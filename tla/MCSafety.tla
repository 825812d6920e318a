------------------------------- MODULE MCSafety -------------------------------
EXTENDS Safety

(* A grant, a denial, and one that validateCapabilityDecision refuses. *)
GrantsDef == { {"onlineBattle"}, {}, {"presetMessages"} }

(* No claim, one of this policy, and one of an older policy. *)
ClaimsDef ==
  { None,
    [policyVersion |-> 1, decision |-> "allow", grant |-> {"trading"}],
    [policyVersion |-> 0, decision |-> "allow", grant |-> {"trading"}] }

MaxAgesDef == {1, 3, NoAge}

=============================================================================
