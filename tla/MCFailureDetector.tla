------------------------- MODULE MCFailureDetector --------------------------
(* Instances of FailureDetector for TLC, in half or quarter seconds. *)
EXTENDS FailureDetector

CONSTANTS h1, p1, p2

NoVT == [o \in Owners |-> 0]
MinHeartbeat == [o \in Owners |-> 10]
MinHeartbeatFine == [o \in Owners |-> 20]

PeerSymmetry == Permutations(Owners \ Holders)
=============================================================================
