---------------------------- MODULE MCPauseCache ----------------------------
(* Instances of PauseCache for TLC. *)
EXTENDS PauseCache

=============================================================================
