---------------------------- MODULE RuntimeSessions ----------------------------
(***************************************************************************)
(* BrowserCodexRuntime and its stores: the sessions of the history list,   *)
(* the one WebContainer workspace they share, the rows in SQLite and the   *)
(* workspace snapshots in OPFS. The user creates, selects and renames      *)
(* sessions and runs turns; each of these is an async function that runs   *)
(* without interruption from one await to the next, and is here one action *)
(* per such stretch. A reload of the page ends them all.                   *)
(*                                                                         *)
(* The workspace is the set of its files: the seed files of the default    *)
(* tree and one file per turn, named for the session and the turn.         *)
(***************************************************************************)
EXTENDS Naturals, Sequences, FiniteSets

CONSTANTS
  Sessions,    \* session ids, crypto.randomUUID
  NoSession,   \* activeSession is undefined
  Tasks,       \* async functions that may be under way at a time
  MaxTurns,    \* bound on the turns
  Patient,     \* the user waits for what he started, other than restores
  Faulty       \* SQLite, OPFS and WebContainer calls may fail

ASSUME NamesAssumption == NoSession \notin Sessions
ASSUME PatientAssumption == Patient \in BOOLEAN
ASSUME FaultyAssumption == Faulty \in BOOLEAN
ASSUME TurnsAssumption == MaxTurns \in Nat

VARIABLES
  workspace,   \* the files of WebContainer's workspace directory
  active,      \* BrowserCodexRuntime.activeSession
  queue,       \* workspaceRestoreQueue
  task,        \* what each async function is doing
  rows,        \* the tables sessions and messages
  snapshots,   \* latest.wcsnap of each session
  nextTurn     \* numbers the turns

runtime == <<workspace, active, queue>>
disk == <<rows, snapshots>>
vars == <<runtime, disk, task, nextTurn>>

Seed == <<NoSession, 0>>

Files == {Seed} \union (Sessions \X (1 .. MaxTurns))

\* A RuntimeSession: history stands for wasmSession, a turn of messages for
\* the pair of rows the turn adds.
RuntimeSession(id, title, history, messages) ==
  [id |-> id, title |-> title, history |-> history, messages |-> messages]

NewSession(s) == RuntimeSession(s, "New session", << >>, {})

Undefined == NewSession(NoSession)

Idle == [kind |-> "none", at |-> "done", session |-> Undefined, turn |-> 0,
         files |-> {}, fellBack |-> FALSE]

Init ==
  /\ workspace = {} /\ active = Undefined /\ queue = << >>
  /\ task = [t \in Tasks |-> Idle]
  /\ rows = << >> /\ snapshots = << >>
  /\ nextTurn = 1

At(t, kinds, step) == task[t].kind \in kinds /\ task[t].at = step

Id(t) == task[t].session.id

MoveTo(t, step) == task' = [task EXCEPT ![t].at = step]

Finish(t) == task' = [task EXCEPT ![t] = Idle]

Begin(t, kind, step, session, turn) ==
  /\ task[t] = Idle
  /\ task' = [task EXCEPT ![t] = [kind |-> kind, at |-> step, session |-> session,
                                  turn |-> turn, files |-> {Seed}, fellBack |-> FALSE]]

\* A row is inserted or updated, a file written.
Put(files, s, content) ==
  [r \in DOMAIN files \union {s} |-> IF r = s THEN content ELSE files[r]]

Store(s, row) == rows' = Put(rows, s, row)

(***************************************************************************)
(* While a turn runs the buttons are disabled, and while anything else     *)
(* does they are not.                                                      *)
(***************************************************************************)
Enabled(kind) ==
  LET busy == {task[t].kind : t \in Tasks} \ {"none"}
  IN  /\ "turn" \notin busy
      /\ Patient => busy \subseteq (IF kind = "load" THEN {"load"} ELSE {})

(***************************************************************************)
(* createSession and loadSession replace the workspace: rm, then mount,    *)
(* which adds the files of the tree to those that are there.               *)
(***************************************************************************)
Create(t) ==
  /\ Enabled("create")
  /\ \E s \in Sessions \ DOMAIN rows :
       /\ \A u \in Tasks : Id(u) # s
       /\ Begin(t, "create", "clearing", NewSession(s), 0)
  /\ UNCHANGED <<runtime, disk, nextTurn>>

Load(t) ==
  /\ Enabled("load")
  /\ \E s \in DOMAIN rows : Begin(t, "load", "queued", NewSession(s), 0)
  /\ queue' = Append(queue, t)
  /\ UNCHANGED <<workspace, active, disk, nextTurn>>

ReadRow(t) ==
  /\ At(t, {"load"}, "queued") /\ Head(queue) = t
  /\ task' = [task EXCEPT ![t].session = rows[Id(t)], ![t].at = "reading"]
  /\ UNCHANGED <<runtime, disk, nextTurn>>

\* workspaceDirectory: the directories and the file are made by the first save.
HasSnapshot(s) == s \in DOMAIN snapshots

\* A missing snapshot is replaced by the default tree.
ReadSnapshot(t) ==
  /\ At(t, {"load"}, "reading")
  /\ task' = [task EXCEPT ![t].at = "clearing",
                          ![t].files = IF HasSnapshot(Id(t)) THEN snapshots[Id(t)] ELSE {Seed}]
  /\ UNCHANGED <<runtime, disk, nextTurn>>

\* Seeded bug: a restore does not remove what is there.
ClearUnlessRestoring(t) ==
  /\ At(t, {"create", "load"}, "clearing")
  /\ workspace' = IF task[t].kind = "load" THEN workspace ELSE {}
  /\ MoveTo(t, "mounting")
  /\ UNCHANGED <<active, queue, disk, nextTurn>>

Clear(t) ==
  /\ At(t, {"create", "load"}, "clearing")
  /\ workspace' = {}
  /\ MoveTo(t, "mounting")
  /\ UNCHANGED <<active, queue, disk, nextTurn>>

MountCreated(t) ==
  /\ At(t, {"create"}, "mounting")
  /\ workspace' = workspace \union {Seed}
  /\ MoveTo(t, "inserting")
  /\ UNCHANGED <<active, queue, disk, nextTurn>>

\* Seeded bug: a restore that is over stays in the queue.
MountRestoredQueued(t) ==
  /\ At(t, {"load"}, "mounting")
  /\ workspace' = workspace \union task[t].files
  /\ active' = task[t].session
  /\ Finish(t)
  /\ UNCHANGED <<queue, disk, nextTurn>>

MountRestored(t) ==
  /\ At(t, {"load"}, "mounting")
  /\ workspace' = workspace \union task[t].files
  /\ active' = task[t].session
  /\ queue' = Tail(queue)
  /\ Finish(t)
  /\ UNCHANGED <<disk, nextTurn>>

InsertRow(t) ==
  /\ At(t, {"create"}, "inserting")
  /\ Store(Id(t), task[t].session)
  /\ MoveTo(t, "exporting")
  /\ UNCHANGED <<runtime, snapshots, nextTurn>>

Export(t) ==
  /\ At(t, {"create", "turn"}, "exporting")
  /\ task' = [task EXCEPT ![t].files = workspace, ![t].at = "saving"]
  /\ UNCHANGED <<runtime, disk, nextTurn>>

SaveCreated(t) ==
  /\ At(t, {"create"}, "saving")
  /\ snapshots' = Put(snapshots, Id(t), task[t].files)
  /\ active' = task[t].session
  /\ Finish(t)
  /\ UNCHANGED <<workspace, queue, rows, nextTurn>>

(***************************************************************************)
(* runTurnStream, for the session that is active when it starts.           *)
(***************************************************************************)
Turn(t) ==
  /\ Enabled("turn") /\ active # Undefined /\ nextTurn <= MaxTurns
  /\ Begin(t, "turn", "running", active, nextTurn)
  /\ nextTurn' = nextTurn + 1
  /\ UNCHANGED <<runtime, disk>>

\* The tools of the turn change the workspace.
RunTools(t) ==
  /\ At(t, {"turn"}, "running")
  /\ workspace' = workspace \union {<<Id(t), task[t].turn>>}
  /\ MoveTo(t, "exporting")
  /\ UNCHANGED <<active, queue, disk, nextTurn>>

\* The core reports an error; its tools may have run.
TurnFails(t) ==
  /\ At(t, {"turn"}, "running")
  /\ workspace' \in {workspace, workspace \union {<<Id(t), task[t].turn>>}}
  /\ Finish(t)
  /\ UNCHANGED <<active, queue, disk, nextTurn>>

\* Seeded bug: the snapshot is not waited for, and a reload may come first.
SaveWorkspaceUnawaited(t) ==
  /\ At(t, {"turn"}, "saving")
  /\ MoveTo(t, "updating")
  /\ \/ snapshots' = Put(snapshots, Id(t), task[t].files)
     \/ UNCHANGED snapshots
  /\ UNCHANGED <<runtime, rows, nextTurn>>

SaveWorkspace(t) ==
  /\ At(t, {"turn"}, "saving")
  /\ MoveTo(t, "updating")
  /\ snapshots' = Put(snapshots, Id(t), task[t].files)
  /\ UNCHANGED <<runtime, rows, nextTurn>>

\* What saveTurn makes of the session the turn started with.
Saved(t) ==
  LET before == task[t].session
  IN  RuntimeSession(before.id,
        IF before.messages = {} THEN "user text" ELSE before.title,
        Append(before.history, task[t].turn),
        before.messages \union {task[t].turn})

\* The UPDATE leaves the messages table alone.
UpdateRow(t) ==
  /\ At(t, {"turn"}, "updating")
  /\ Store(Id(t), [Saved(t) EXCEPT !.messages = rows[Id(t)].messages])
  /\ MoveTo(t, "inserting")
  /\ UNCHANGED <<runtime, snapshots, nextTurn>>

InsertMessages(t) ==
  /\ At(t, {"turn"}, "inserting")
  /\ Store(Id(t), [rows[Id(t)] EXCEPT !.messages = @ \union {task[t].turn}])
  /\ active' = Saved(t)
  /\ Finish(t)
  /\ UNCHANGED <<workspace, queue, snapshots, nextTurn>>

(***************************************************************************)
(* renameSession.                                                          *)
(***************************************************************************)
Rename(t) ==
  /\ Enabled("rename")
  /\ \E s \in DOMAIN rows : Begin(t, "rename", "updating", NewSession(s), 0)
  /\ UNCHANGED <<runtime, disk, nextTurn>>

UpdateTitle(t) ==
  /\ At(t, {"rename"}, "updating")
  /\ Store(Id(t), [rows[Id(t)] EXCEPT !.title = "renamed"])
  /\ MoveTo(t, "reading")
  /\ UNCHANGED <<runtime, snapshots, nextTurn>>

ShowTitle(t) ==
  /\ At(t, {"rename"}, "reading")
  /\ active' = IF active.id = Id(t) THEN [active EXCEPT !.title = rows[Id(t)].title]
                                    ELSE active
  /\ Finish(t)
  /\ UNCHANGED <<workspace, queue, disk, nextTurn>>

(***************************************************************************)
(* Failures. A restore that cannot read or mount the snapshot falls back   *)
(* to the default tree once; any other failure ends the function where it  *)
(* stands, and nothing it did is undone.                                   *)
(***************************************************************************)
RestoreFallsBack(t) ==
  /\ Faulty /\ task[t].kind = "load" /\ ~task[t].fellBack
  /\ task[t].at \in {"reading", "clearing", "mounting"}
  /\ task' = [task EXCEPT ![t].at = "clearing", ![t].files = {Seed},
                          ![t].fellBack = TRUE]
  /\ UNCHANGED <<runtime, disk, nextTurn>>

\* Seeded bug: a restore that failed stays at the head of the queue.
RestoreFailsQueued(t) ==
  /\ Faulty /\ task[t].kind = "load"
  /\ \/ task[t].at = "queued" /\ Head(queue) = t
     \/ task[t].at \in {"clearing", "mounting"} /\ task[t].fellBack
  /\ Finish(t)
  /\ UNCHANGED <<runtime, disk, nextTurn>>

RestoreFails(t) ==
  /\ Faulty /\ task[t].kind = "load"
  /\ \/ task[t].at = "queued" /\ Head(queue) = t
     \/ task[t].at \in {"clearing", "mounting"} /\ task[t].fellBack
  /\ queue' = Tail(queue)
  /\ Finish(t)
  /\ UNCHANGED <<workspace, active, disk, nextTurn>>

\* saveTurn inserts two messages; a turn with one of them counts as without.
TaskFails(t) ==
  /\ Faulty /\ task[t].kind \in {"create", "rename", "turn"}
  /\ task[t].at # "running"
  /\ Finish(t)
  /\ UNCHANGED <<runtime, disk, nextTurn>>

\* The page is reloaded: a new WebContainer is booted, SQLite and OPFS stay.
Reload ==
  /\ active # Undefined \/ \E t \in Tasks : task[t] # Idle
  /\ workspace' = {} /\ active' = Undefined /\ queue' = << >>
  /\ task' = [t \in Tasks |-> Idle]
  /\ UNCHANGED <<disk, nextTurn>>

-----------------------------------------------------------------------------

Act(t) == Create(t) \/ Load(t) \/ Turn(t) \/ Rename(t)

Proceed(t) ==
  \/ ReadRow(t) \/ ReadSnapshot(t) \/ Clear(t) \/ MountCreated(t)
  \/ MountRestored(t) \/ InsertRow(t) \/ Export(t) \/ SaveCreated(t)
  \/ RunTools(t) \/ TurnFails(t) \/ SaveWorkspace(t) \/ UpdateRow(t)
  \/ InsertMessages(t) \/ UpdateTitle(t) \/ ShowTitle(t)
  \/ RestoreFallsBack(t) \/ RestoreFails(t) \/ TaskFails(t)

Next == Reload \/ \E t \in Tasks : Act(t) \/ Proceed(t)

Spec == Init /\ [][Next]_vars

(***************************************************************************)
(* Every await is answered, with a result or an error.                     *)
(***************************************************************************)
FairSpec == Spec /\ \A t \in Tasks : WF_vars(Proceed(t))

-----------------------------------------------------------------------------

SessionState ==
  [id : Sessions \union {NoSession}, title : {"New session", "user text", "renamed"},
   history : UNION {[1 .. n -> 1 .. MaxTurns] : n \in 0 .. MaxTurns},
   messages : SUBSET (1 .. MaxTurns)]

\* Rows and snapshots exist only for sessions, hold what their columns may
\* hold, and the queue holds exactly the restores that are under way
\* (index.ts:66-76, 393-406, storage.ts:16-31).
TypeOK ==
  /\ workspace \subseteq Files /\ active \in SessionState
  /\ DOMAIN rows \subseteq Sessions /\ DOMAIN snapshots \subseteq DOMAIN rows
  /\ \A s \in DOMAIN rows : rows[s] \in SessionState /\ rows[s].id = s
  /\ \A s \in DOMAIN snapshots : snapshots[s] \subseteq Files
  /\ \A t \in Tasks : /\ task[t].session \in SessionState
                      /\ task[t].files \subseteq Files
  /\ {queue[k] : k \in DOMAIN queue} = {t \in Tasks : task[t].kind = "load"}
  /\ nextTurn \in 1 .. MaxTurns + 1

OwnFiles(s) == {Seed} \union ({s} \X (1 .. MaxTurns))

TurnFiles(row) == {<<row.id, row.history[k]>> : k \in DOMAIN row.history}

\* "The browser runtime must serialize WebContainer mounts so rapid history
\* restores cannot interleave OPFS snapshot reads and workspace replacement"
\* (index.ts:397-399): no two functions replace the workspace at a time.
MountsSerialized ==
  Cardinality({t \in Tasks : task[t].at \in {"clearing", "mounting"}}) <= 1

RestoresSerialized ==
  Cardinality({t \in Tasks : /\ task[t].kind = "load"
                             /\ task[t].at # "queued"}) <= 1

\* The workspace of one session never gets into the snapshot of another.
SnapshotsIsolated ==
  \A s \in DOMAIN snapshots : snapshots[s] \subseteq OwnFiles(s)

\* Whenever nothing is under way, the workspace is that of the active session:
\* all that its snapshot holds and nothing of another session.
WorkspaceMatchesActive ==
  active # Undefined /\ (\A t \in Tasks : task[t] = Idle) =>
    /\ workspace \subseteq OwnFiles(active.id)
    /\ active.id \in DOMAIN snapshots => snapshots[active.id] \subseteq workspace

\* The sessions share one workspace directory and never see each other's
\* files: no two functions replace the workspace at a time, no snapshot holds a
\* file of another session, and at rest the workspace is that of the active one
\* (index.ts:133-180, 232-245, 393-406).
WorkspacesApart == MountsSerialized /\ SnapshotsIsolated /\ WorkspaceMatchesActive

\* The disk as a journal of sessions.
KeptOf(s) == IF s \in DOMAIN snapshots THEN {file[2] : file \in snapshots[s]} ELSE {}

Journal == INSTANCE SessionJournal WITH
  Turns <- 0 .. MaxTurns,
  journal <- [s \in DOMAIN rows |->
                [title |-> rows[s].title, kept |-> KeptOf(s),
                 turns |-> rows[s].history, shown |-> rows[s].messages]]

\* The rows and snapshots are a journal of the sessions, even if the page is
\* reloaded in the middle of saving: files are written before the core's
\* history and that before the transcript, a turn that the history holds is
\* never lost ("a storage or workspace failure does not break the core session
\* state", PLAN.md:180), and the title is the user's once a turn is shown
\* ("renames sessions in the history list and persists after reload",
\* tests/wasm/web-app.spec.ts:348) (index.ts:232-244, storage.ts:106-172).
JournalKept == Journal!Spec

\* Every function the user started ends, and restores never overlap with each
\* other: one that fails lets the next one in and no other (index.ts:400-404).
RestoresTakeTurns ==
  /\ [](RestoresSerialized)
  /\ \A t \in Tasks : task[t] # Idle ~> task[t] = Idle
=============================================================================
