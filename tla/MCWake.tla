------------------------------- MODULE MCWake -------------------------------
(* Instances of Wake for TLC. *)
EXTENDS Wake, TLC

CONSTANTS c1, c2, c3

ConsumerSymmetry == Permutations(Consumers)
=============================================================================
