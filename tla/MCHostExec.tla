------------------------------ MODULE MCHostExec ------------------------------
(***************************************************************************)
(* Two overlapping calls on two processes.                                 *)
(***************************************************************************)
EXTENDS HostExec, TLC

CONSTANTS c1, c2

Symmetry == Permutations(Callers)
=============================================================================
