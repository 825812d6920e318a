------------------------------- MODULE MCPool --------------------------------
(* Small instances of Pool for TLC. *)
EXTENDS Pool, TLC

(* Players and kinds of animal are interchangeable in every safety run. *)
Symmetry == Permutations(Uids) \cup Permutations(Items)

(* The same where some players mix messages and the others do not. *)
MixedSymmetry == Permutations(Uids \ MixedUids) \cup Permutations(Items)

(* Bounds of the runs with many players or rows: sockets that the server has
   closed and whose close is still to be reported.                           *)
NoReplacement == closing = {}
OneReplacement == Cardinality(closing) <= 1
=============================================================================
