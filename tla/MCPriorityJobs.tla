--------------------------- MODULE MCPriorityJobs ---------------------------
(* Instances of PriorityJobs for TLC.                                      *)
EXTENDS PriorityJobs

CONSTANTS e1, e2, q1, q2

(* Two jobs share an id, and one has an id of its own.                     *)
Shared == [j \in Jobs |-> IF j < 3 THEN e1 ELSE e2]

=============================================================================
