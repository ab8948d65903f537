----------------------------- MODULE ConfirmDialog -----------------------------
(***************************************************************************)
(* The confirm dialog (dialog-portal.tsx): one slot for the dialog shown,  *)
(* kept outside React, and the component's loading flag while what the     *)
(* user confirmed is under way. Whoever opens a dialog replaces the one in *)
(* the slot, and Escape closes it even then. Dialogs are numbered. What a  *)
(* dialog calls may answer at once, answer later, fail, or throw before it *)
(* returns; nothing in the repository opens a dialog yet.                  *)
(***************************************************************************)
EXTENDS Naturals

CONSTANT MaxDialogs

Dialogs == 1 .. MaxDialogs

VARIABLES
  open, dialog,  \* confirmDialogState
  loading,
  confirming,    \* dialogs whose onConfirm is under way
  confirmed,     \* dialogs whose onConfirm has succeeded
  threw          \* history variable: an onConfirm threw before it returned

confirmDialog == <<open, dialog, loading, confirming, confirmed, threw>>

Init ==
  /\ open = FALSE /\ dialog = 0 /\ loading = FALSE
  /\ confirming = {} /\ confirmed = {} /\ threw = FALSE

openConfirmDialog ==
  /\ dialog < MaxDialogs
  /\ open' = TRUE /\ dialog' = dialog + 1
  /\ UNCHANGED <<loading, confirming, confirmed, threw>>

\* onOpenChange: Escape, a click beside the dialog, or its cross.
Dismiss ==
  /\ open /\ open' = FALSE
  /\ UNCHANGED <<dialog, loading, confirming, confirmed, threw>>

Cancel == ~loading /\ Dismiss

\* Seeded bug: the buttons stay enabled.
confirmUnmarked ==
  /\ open /\ ~loading
  /\ confirming' = confirming \union {dialog}
  /\ UNCHANGED <<open, dialog, loading, confirmed, threw>>

confirm ==
  /\ open /\ ~loading
  /\ loading' = TRUE /\ confirming' = confirming \union {dialog}
  /\ UNCHANGED <<open, dialog, confirmed, threw>>

\* There is no promise yet whose finally would enable the buttons again.
confirmThrows ==
  /\ open /\ ~loading
  /\ loading' = TRUE /\ threw' = TRUE
  /\ UNCHANGED <<open, dialog, confirming, confirmed>>

\* closeConfirmDialog, and then the finally.
Confirmed(d) ==
  /\ d \in confirming /\ confirming' = confirming \ {d}
  /\ confirmed' = confirmed \union {d}
  /\ open' = FALSE /\ loading' = FALSE
  /\ UNCHANGED <<dialog, threw>>

\* The dialog stays, for another try.
ConfirmFails(d) ==
  /\ d \in confirming /\ confirming' = confirming \ {d}
  /\ loading' = FALSE
  /\ UNCHANGED <<open, dialog, confirmed, threw>>

Answer == \E d \in Dialogs : Confirmed(d) \/ ConfirmFails(d)

Next == openConfirmDialog \/ Dismiss \/ Cancel \/ confirm \/ confirmThrows \/ Answer

-----------------------------------------------------------------------------

\* Whatever is opened or dismissed meanwhile, one confirmed action is under way
\* at a time, the buttons are disabled as long, and a dialog whose action
\* succeeded cannot be confirmed once more. An onConfirm that throws before it
\* returns disables them for good, for every later dialog too
\* (dialog-portal.tsx:46-56).
OneConfirmation ==
  /\ \A d, e \in confirming : d = e
  /\ loading <=> confirming # {} \/ threw

ConfirmedOnce == open => dialog \notin confirmed

DialogRight ==
  /\ [](OneConfirmation /\ ConfirmedOnce)
  /\ loading ~> (~loading \/ threw)
=============================================================================
