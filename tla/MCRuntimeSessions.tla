--------------------------- MODULE MCRuntimeSessions ---------------------------
(***************************************************************************)
(* Two sessions and the functions the user may have under way for them.    *)
(***************************************************************************)
EXTENDS RuntimeSessions, TLC

CONSTANTS s1, s2, t1, t2

Symmetry == Permutations(Sessions) \union Permutations(Tasks)
=============================================================================
