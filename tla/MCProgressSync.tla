---------------------------- MODULE MCProgressSync ----------------------------
(* Small instances of ProgressSync for TLC.  Devices and plays are
   interchangeable, which the safety run uses.                               *)
EXTENDS ProgressSync, TLC

Symmetry == Permutations(Devices) \cup Permutations(Plays)
=============================================================================
