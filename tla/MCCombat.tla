------------------------------ MODULE MCCombat -------------------------------
(* Small instances of Combat for TLC. *)
EXTENDS Combat, TLC

FullHealth == [u \in Sides |-> [f \in Fighters |-> f]]

Strike(effect, cost, damage, amount) ==
  [effect |-> effect, cost |-> cost, damage |-> damage, amount |-> amount]

(* A cheap blow of uncertain strength, a shield, a cure and a drain. *)
AllAbilities == {Strike("damage", 1, {1, 2}, 0), Strike("shield", 1, {1}, 1),
                 Strike("heal", 2, {1}, 1), Strike("drain", 2, {1}, 1)}

Symmetry == Permutations(Sides)
=============================================================================
