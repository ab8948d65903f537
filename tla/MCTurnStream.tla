----------------------------- MODULE MCTurnStream -----------------------------
(* One turn behind a stream, with two parallel calls and one that runs alone. *)
EXTENDS TurnStream

CONSTANTS exec1, exec2, patch1
=============================================================================
