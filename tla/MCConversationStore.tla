-------------------------- MODULE MCConversationStore --------------------------
(* Two stores on one database file, and two sessions in it.                  *)
EXTENDS ConversationStore

CONSTANTS s1, s2, a, b
=============================================================================
