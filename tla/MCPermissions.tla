--------------------------- MODULE MCPermissions ---------------------------
(* Instances of Permissions: two web requests, a write outside the project, *)
(* a destructive action and a question.                                     *)
EXTENDS Permissions, TLC

CONSTANTS w1, w2, o1, d1, q1
WebPair == {w1, w2}
Symmetry == Permutations(WebPair)
=============================================================================
