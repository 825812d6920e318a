------------------------------- MODULE MCArena -------------------------------
EXTENDS Arena

CONSTANTS p1, p2, p3

(* The first and the second are too far apart until one of them has waited for
   a step; the third is near the second only.                                *)
AccountsDef ==
  p1 :> [rating |-> 1000, streak |-> 4] @@ p2 :> [rating |-> 1130, streak |-> 0]
    @@ p3 :> [rating |-> 1260, streak |-> 0]

(* Two players a window apart at once. *)
NearAccounts ==
  p1 :> [rating |-> 1000, streak |-> 0] @@ p2 :> [rating |-> 1050, streak |-> 0]

=============================================================================
