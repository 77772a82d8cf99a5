----------------------------- MODULE MCAckQueue -----------------------------
(* Instances of AckQueue for TLC. *)
EXTENDS AckQueue

CONSTANTS o1, o2

(* Timeouts of two time units, and of one.                                 *)
Twos == [o \in Owners |-> 2]
Ones == [o \in Owners |-> 1]

=============================================================================
