------------------------------ MODULE MCTurnLoop ------------------------------
(* Two interchangeable exec_command calls and one call that runs alone.      *)
EXTENDS TurnProperties

CONSTANTS exec1, exec2, patch1

ExecSymmetry == Permutations({exec1, exec2})
=============================================================================
