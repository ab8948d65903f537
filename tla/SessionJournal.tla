---------------------------- MODULE SessionJournal ----------------------------
(***************************************************************************)
(* What the disk promises about the sessions of the history list, whoever  *)
(* writes it and whenever the page is reloaded: a session is a journal. A  *)
(* turn's work is kept first, then the turn is remembered, at the end of   *)
(* the session's history, and only then shown; nothing is ever taken back. *)
(* The first turn shown names the session, from then on the user does.     *)
(***************************************************************************)
EXTENDS Naturals, Sequences

CONSTANTS
  Sessions,
  Turns        \* the turns of all sessions, and the seed files

VARIABLE journal

NewEntry == [title |-> "New session", kept |-> {}, turns |-> << >>, shown |-> {}]

RememberedIn(s) == {journal[s].turns[k] : k \in DOMAIN journal[s].turns}

Init == journal = << >>

Create(s) ==
  /\ s \notin DOMAIN journal
  /\ journal' = [r \in DOMAIN journal \union {s} |-> IF r = s THEN NewEntry ELSE journal[r]]

\* Work that a failed turn left behind is kept with that of the next one.
Keep(s) ==
  \E work \in SUBSET Turns :
    journal' = [journal EXCEPT ![s].kept = @ \union work]

Remember(s, turn) ==
  /\ turn \in journal[s].kept
  /\ \A other \in DOMAIN journal : turn \notin RememberedIn(other)
  /\ journal' = [journal EXCEPT
       ![s].turns = Append(@, turn),
       ![s].title = IF journal[s].shown = {} THEN "user text" ELSE @]

Show(s, turn) ==
  /\ turn \in RememberedIn(s) \ journal[s].shown
  /\ journal' = [journal EXCEPT ![s].shown = @ \union {turn}]

Rename(s) == journal' = [journal EXCEPT ![s].title = "renamed"]

Next ==
  \/ \E s \in Sessions : Create(s)
  \/ \E s \in DOMAIN journal :
       \/ Keep(s) \/ Rename(s)
       \/ \E turn \in Turns : Remember(s, turn) \/ Show(s, turn)

Spec == Init /\ [][Next]_journal
=============================================================================
