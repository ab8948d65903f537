--------------------------- MODULE MCWorkspaceFileTree ---------------------------
(* Two reloads at a time and two changes of session or files. *)
EXTENDS WorkspaceFileTree
=============================================================================
