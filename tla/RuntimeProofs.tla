----------------------------- MODULE RuntimeProofs -----------------------------
(***************************************************************************)
(* Theorems about RuntimeSessions, for any sessions, functions and turns.  *)
(* Whatever the user does and whatever fails: its types, and the queue of  *)
(* the restores. For a user who waits for what he started and storage that *)
(* works: sessions never see each other's files, and the disk implements   *)
(* SessionJournal.                                                         *)
(***************************************************************************)
EXTENDS RuntimeSessions, SequenceTheorems, FiniteSetTheorems, TLAPS

-----------------------------------------------------------------------------

(***************************************************************************)
(* Types. A history is as long as the turns it is made of, so its length   *)
(* is kept below the number of the next turn.                              *)
(***************************************************************************)
Kinds == {"none", "create", "load", "turn", "rename"}

Steps == {"done", "queued", "reading", "clearing", "mounting", "inserting",
          "exporting", "saving", "running", "updating"}

Titles == {"New session", "user text", "renamed"}

SessionRecord ==
  [id : Sessions \union {NoSession}, title : Titles, history : Seq(1 .. MaxTurns),
   messages : SUBSET (1 .. MaxTurns)]

TaskRecord ==
  [kind : Kinds, at : Steps, session : SessionRecord, turn : 0 .. MaxTurns,
   files : SUBSET Files, fellBack : BOOLEAN]

StateTyped ==
  /\ workspace \in SUBSET Files
  /\ active \in SessionRecord
  /\ task \in [Tasks -> TaskRecord]
  /\ DOMAIN rows \subseteq Sessions /\ rows \in [DOMAIN rows -> SessionRecord]
  /\ \A s \in DOMAIN rows : rows[s].id = s
  /\ DOMAIN snapshots \subseteq DOMAIN rows
  /\ snapshots \in [DOMAIN snapshots -> SUBSET Files]
  /\ nextTurn \in 1 .. MaxTurns + 1

Short(session) == Len(session.history) < nextTurn

HistoriesShort ==
  /\ Short(active)
  /\ \A s \in DOMAIN rows : Short(rows[s])
  /\ \A t \in Tasks :
       /\ Short(task[t].session)
       /\ task[t].kind = "turn" =>
            task[t].turn = nextTurn - 1 /\ Len(task[t].session.history) < task[t].turn

\* What each function works on is stored, but for a session being created.
SessionsStored ==
  /\ active.id = NoSession => active = Undefined
  /\ active.id # NoSession => active.id \in DOMAIN rows
  /\ \A t \in Tasks :
       /\ task[t].kind = "none" => task[t] = Idle
       /\ task[t].kind = "create" => Id(t) \in Sessions
       /\ At(t, {"create"}, "exporting") \/ At(t, {"create"}, "saving") => Id(t) \in DOMAIN rows
       /\ task[t].kind \in {"load", "turn", "rename"} => Id(t) \in DOMAIN rows

QueueInv ==
  /\ queue \in Seq(Tasks)
  /\ \A i, j \in 1 .. Len(queue) : queue[i] = queue[j] => i = j
  /\ \A t \in Tasks : task[t].kind = "load" <=> \E i \in 1 .. Len(queue) : queue[i] = t
  /\ \A t \in Tasks : task[t].kind = "load" /\ task[t].at # "queued" => queue[1] = t

BaseInv == StateTyped /\ HistoriesShort /\ SessionsStored /\ QueueInv

-----------------------------------------------------------------------------

LEMMA OthersKept ==
  ASSUME StateTyped, NEW t \in Tasks, Act(t) \/ Proceed(t)
  PROVE  /\ task' = [task EXCEPT ![t] = task'[t]]
         /\ \A u \in Tasks : u # t => task'[u] = task[u]
<1>1. DOMAIN task = Tasks
  BY DEF StateTyped
<1> QED
  BY <1>1 DEF Act, Proceed, Create, Load, Turn, Rename, ReadRow, ReadSnapshot, Clear,
     MountCreated, MountRestored, InsertRow, Export, SaveCreated, RunTools, TurnFails,
     SaveWorkspace, UpdateRow, InsertMessages, UpdateTitle, ShowTitle, RestoreFallsBack,
     RestoreFails, TaskFails, Begin, MoveTo, Finish

LEMMA NewSessionTyped ==
  ASSUME NEW s \in Sessions \union {NoSession}
  PROVE  NewSession(s) \in SessionRecord /\ Len(NewSession(s).history) = 0
BY DEF SessionRecord, NewSession, RuntimeSession, Titles

LEMMA IdleTyped == Idle \in TaskRecord
BY NewSessionTyped, TurnsAssumption DEF Idle, TaskRecord, Kinds, Steps, Undefined

LEMMA SavedTyped ==
  ASSUME NEW t, task[t] \in TaskRecord, task[t].turn \in 1 .. MaxTurns
  PROVE  /\ Saved(t) \in SessionRecord /\ Saved(t).id = Id(t)
         /\ Len(Saved(t).history) = Len(task[t].session.history) + 1
<1> DEFINE before == task[t].session
<1>1. before \in SessionRecord
  BY DEF TaskRecord
<1>2. /\ Append(before.history, task[t].turn) \in Seq(1 .. MaxTurns)
      /\ Len(Append(before.history, task[t].turn)) = Len(before.history) + 1
  BY <1>1, AppendProperties DEF SessionRecord
<1>3. before.messages \union {task[t].turn} \in SUBSET (1 .. MaxTurns)
  BY <1>1 DEF SessionRecord
<1> QED
  BY <1>1, <1>2, <1>3 DEF Saved, RuntimeSession, SessionRecord, Titles, Id

LEMMA BeginTyped ==
  ASSUME NEW t, NEW kind \in Kinds, NEW step \in Steps, NEW session \in SessionRecord,
         NEW turn \in 0 .. MaxTurns, DOMAIN task = Tasks, t \in Tasks,
         Begin(t, kind, step, session, turn)
  PROVE  task'[t] \in TaskRecord
BY DEF Begin, TaskRecord, Files

LEMMA TaskTyped ==
  ASSUME StateTyped, SessionsStored, NEW t \in Tasks, Act(t) \/ Proceed(t)
  PROVE  task' \in [Tasks -> TaskRecord]
<1> USE DEF StateTyped
<1>1. task[t] \in TaskRecord /\ DOMAIN task = Tasks
  OBVIOUS
<1>2. SUFFICES task'[t] \in TaskRecord
  BY OthersKept
<1>3. ASSUME NEW step \in Steps, MoveTo(t, step)
      PROVE  task'[t] \in TaskRecord
  BY <1>1, <1>3 DEF MoveTo, TaskRecord
<1>4. ASSUME Finish(t)
      PROVE  task'[t] \in TaskRecord
  BY <1>1, <1>4, IdleTyped DEF Finish
<1>5. CASE Create(t)
  BY <1>1, <1>5, NewSessionTyped, BeginTyped, TurnsAssumption DEF Create, Kinds, Steps
<1>6. CASE Load(t)
  BY <1>1, <1>6, NewSessionTyped, BeginTyped, TurnsAssumption DEF Load, Kinds, Steps
<1>7. CASE Turn(t)
  BY <1>1, <1>7, BeginTyped, TurnsAssumption DEF Turn, Kinds, Steps
<1>8. CASE Rename(t)
  BY <1>1, <1>8, NewSessionTyped, BeginTyped, TurnsAssumption DEF Rename, Kinds, Steps
<1>9. CASE ReadRow(t)
  <2>1. rows[Id(t)] \in SessionRecord
    BY <1>9 DEF SessionsStored, ReadRow, At
  <2> QED
    BY <1>1, <1>9, <2>1 DEF ReadRow, TaskRecord, Steps
<1>10. CASE ReadSnapshot(t)
  BY <1>1, <1>10 DEF ReadSnapshot, HasSnapshot, TaskRecord, Steps, Files
<1>11. CASE Export(t)
  BY <1>1, <1>11 DEF Export, TaskRecord, Steps
<1>12. CASE RestoreFallsBack(t)
  BY <1>1, <1>12 DEF RestoreFallsBack, TaskRecord, Steps, Files
<1>13. CASE \E step \in Steps : MoveTo(t, step)
  BY <1>3, <1>13
<1>14. CASE Finish(t)
  BY <1>4, <1>14
<1> QED
  BY <1>5, <1>6, <1>7, <1>8, <1>9, <1>10, <1>11, <1>12, <1>13, <1>14
  DEF Act, Proceed, Clear, MountCreated, MountRestored, InsertRow, SaveCreated, RunTools,
      TurnFails, SaveWorkspace, UpdateRow, InsertMessages, UpdateTitle, ShowTitle,
      RestoreFails, TaskFails, Steps

LEMMA TurnTyped ==
  ASSUME StateTyped, HistoriesShort, NEW t \in Tasks, task[t].kind = "turn"
  PROVE  /\ task[t].turn \in 1 .. MaxTurns /\ task[t].turn = nextTurn - 1
         /\ Saved(t) \in SessionRecord /\ Saved(t).id = Id(t)
         /\ Len(Saved(t).history) < nextTurn
<1>1. task[t] \in TaskRecord /\ task[t].session \in SessionRecord
  BY DEF StateTyped, TaskRecord
<1>2. Len(task[t].session.history) \in Nat /\ nextTurn \in Nat
  BY <1>1, LenProperties, TurnsAssumption DEF SessionRecord, StateTyped
<1>3. task[t].turn \in 1 .. MaxTurns /\ task[t].turn = nextTurn - 1
  BY <1>1, <1>2, TurnsAssumption DEF HistoriesShort, TaskRecord
<1> QED
  BY <1>1, <1>2, <1>3, SavedTyped DEF HistoriesShort

RowsFit ==
  /\ DOMAIN rows \subseteq Sessions /\ rows \in [DOMAIN rows -> SessionRecord]
  /\ \A s \in DOMAIN rows : rows[s].id = s /\ Short(rows[s])

LEMMA StoreTyped ==
  ASSUME StateTyped, HistoriesShort, NEW s \in Sessions, NEW row \in SessionRecord,
         row.id = s, Short(row), Store(s, row), nextTurn' = nextTurn
  PROVE  /\ DOMAIN rows' = DOMAIN rows \union {s} /\ rows'[s] = row
         /\ \A r \in DOMAIN rows : r # s => rows'[r] = rows[r]
         /\ DOMAIN rows' \subseteq Sessions /\ rows' \in [DOMAIN rows' -> SessionRecord]
         /\ \A r \in DOMAIN rows' : rows'[r].id = r /\ Len(rows'[r].history) < nextTurn
         /\ RowsFit'
<1>1. rows' = Put(rows, s, row) /\ rows \in [DOMAIN rows -> SessionRecord]
  BY DEF Store, StateTyped
<1>2. /\ DOMAIN rows' = DOMAIN rows \union {s} /\ rows'[s] = row
      /\ \A r \in DOMAIN rows : r # s => rows'[r] = rows[r]
      /\ rows' \in [DOMAIN rows' -> SessionRecord]
  BY <1>1 DEF Put
<1>3. ASSUME NEW r \in DOMAIN rows'
      PROVE  rows'[r].id = r /\ Len(rows'[r].history) < nextTurn
  BY <1>2 DEF StateTyped, HistoriesShort, Short
<1> QED
  BY <1>2, <1>3 DEF StateTyped, RowsFit, Short

LEMMA RowsTyped ==
  ASSUME StateTyped, SessionsStored, HistoriesShort, NEW t \in Tasks, Act(t) \/ Proceed(t)
  PROVE  RowsFit' /\ DOMAIN rows \subseteq DOMAIN rows'
<1>1. /\ task[t].session \in SessionRecord /\ Short(task[t].session)
      /\ \A s \in DOMAIN rows : rows[s] \in SessionRecord /\ rows[s].id = s /\ Short(rows[s])
      /\ DOMAIN rows \subseteq Sessions /\ rows \in [DOMAIN rows -> SessionRecord]
  BY DEF StateTyped, TaskRecord, HistoriesShort
<1>2. CASE UNCHANGED <<rows, nextTurn>>
  BY <1>1, <1>2 DEF RowsFit, Short
<1>3. CASE Turn(t)
  <2>1. \A s \in DOMAIN rows : Len(rows[s].history) \in Nat
    BY <1>1, LenProperties DEF SessionRecord
  <2> QED
    BY <1>1, <1>3, <2>1, TurnsAssumption DEF RowsFit, Short, Turn, disk, StateTyped
<1>4. CASE InsertRow(t)
  <2>1. Id(t) \in Sessions /\ nextTurn' = nextTurn
    BY <1>4 DEF SessionsStored, InsertRow, At
  <2>2. task[t].session.id = Id(t)
    BY DEF Id
  <2> QED
    BY <1>1, <1>4, <2>1, <2>2, StoreTyped DEF InsertRow
<1>5. CASE UpdateRow(t)
  <2> DEFINE row == [Saved(t) EXCEPT !.messages = rows[Id(t)].messages]
  <2>1. Id(t) \in DOMAIN rows /\ nextTurn' = nextTurn /\ task[t].kind = "turn"
    BY <1>5 DEF SessionsStored, UpdateRow, At
  <2>2. row \in SessionRecord /\ row.id = Id(t) /\ Short(row)
    BY SMTT(30), <1>1, <2>1, TurnTyped DEF SessionRecord, Short
  <2> QED
    BY ZenonT(30), <1>1, <1>5, <2>1, <2>2, StoreTyped DEF UpdateRow
<1>6. CASE InsertMessages(t)
  <2> DEFINE row == [rows[Id(t)] EXCEPT !.messages = @ \union {task[t].turn}]
  <2>1. Id(t) \in DOMAIN rows /\ nextTurn' = nextTurn /\ task[t].kind = "turn"
    BY <1>6 DEF SessionsStored, InsertMessages, At
  <2>2. row \in SessionRecord /\ row.id = Id(t) /\ Short(row)
    BY SMTT(30), <1>1, <2>1, TurnTyped DEF SessionRecord, Short
  <2> QED
    BY ZenonT(30), <1>1, <1>6, <2>1, <2>2, StoreTyped DEF InsertMessages
<1>7. CASE UpdateTitle(t)
  <2> DEFINE row == [rows[Id(t)] EXCEPT !.title = "renamed"]
  <2>1. Id(t) \in DOMAIN rows /\ nextTurn' = nextTurn
    BY <1>7 DEF SessionsStored, UpdateTitle, At
  <2>2. row \in SessionRecord /\ row.id = Id(t) /\ Short(row)
    <3>1. rows[Id(t)] \in SessionRecord /\ rows[Id(t)].id = Id(t) /\ Short(rows[Id(t)])
      BY <1>1, <2>1
    <3>2. "renamed" \in Titles
      BY DEF Titles
    <3> QED
      BY <3>1, <3>2 DEF SessionRecord, Short
  <2> QED
    BY ZenonT(30), <1>1, <1>7, <2>1, <2>2, StoreTyped DEF UpdateTitle
<1> QED
  BY <1>2, <1>3, <1>4, <1>5, <1>6, <1>7
  DEF Act, Proceed, Create, Load, Rename, ReadRow, ReadSnapshot, Clear, MountCreated,
      MountRestored, Export, SaveCreated, RunTools, TurnFails, SaveWorkspace, ShowTitle,
      RestoreFallsBack, RestoreFails, TaskFails, disk

LEMMA WorkspaceTyped ==
  ASSUME StateTyped, SessionsStored, HistoriesShort, NEW t \in Tasks, Act(t) \/ Proceed(t)
  PROVE  workspace' \in SUBSET Files /\ nextTurn' \in 1 .. MaxTurns + 1
<1>1. task[t] \in TaskRecord /\ workspace \in SUBSET Files /\ nextTurn \in 1 .. MaxTurns + 1
  BY DEF StateTyped
<1>2. CASE UNCHANGED <<workspace, nextTurn>>
  BY <1>1, <1>2
<1>3. CASE RunTools(t) \/ TurnFails(t)
  <2>1. task[t].kind = "turn"
    BY <1>3 DEF RunTools, TurnFails, At
  <2>2. Id(t) \in Sessions /\ task[t].turn \in 1 .. MaxTurns
    BY <2>1, TurnTyped DEF SessionsStored, StateTyped
  <2> QED
    BY <1>1, <1>3, <2>2 DEF RunTools, TurnFails, Files
<1> QED
  BY <1>1, <1>2, <1>3, TurnsAssumption
  DEF Act, Proceed, Create, Load, Turn, Rename, ReadRow, ReadSnapshot, Clear, MountCreated,
      MountRestored, InsertRow, Export, SaveCreated, SaveWorkspace, UpdateRow,
      InsertMessages, UpdateTitle, ShowTitle, RestoreFallsBack, RestoreFails, TaskFails,
      runtime, TaskRecord, Files

LEMMA SnapshotsTyped ==
  ASSUME StateTyped, SessionsStored, NEW t \in Tasks, Act(t) \/ Proceed(t)
  PROVE  /\ DOMAIN snapshots' \subseteq DOMAIN rows
         /\ snapshots' \in [DOMAIN snapshots' -> SUBSET Files]
<1>1. task[t].files \in SUBSET Files
  BY DEF StateTyped, TaskRecord
<1>2. CASE UNCHANGED snapshots
  BY <1>2 DEF StateTyped
<1>3. CASE SaveCreated(t) \/ SaveWorkspace(t)
  <2>1. snapshots' = Put(snapshots, Id(t), task[t].files)
    BY <1>3 DEF SaveCreated, SaveWorkspace
  <2>2. Id(t) \in DOMAIN rows
    BY <1>3 DEF SessionsStored, SaveCreated, SaveWorkspace, At
  <2> QED
    BY <1>1, <2>1, <2>2 DEF StateTyped, Put
<1> QED
  BY <1>2, <1>3
  DEF Act, Proceed, Create, Load, Turn, Rename, ReadRow, ReadSnapshot, Clear, MountCreated,
      MountRestored, InsertRow, Export, RunTools, TurnFails, UpdateRow, InsertMessages,
      UpdateTitle, ShowTitle, RestoreFallsBack, RestoreFails, TaskFails, disk

ActiveFits == active \in SessionRecord /\ Short(active)

LEMMA ActiveTyped ==
  ASSUME StateTyped, SessionsStored, HistoriesShort, NEW t \in Tasks, Act(t) \/ Proceed(t)
  PROVE  ActiveFits'
<1>1. /\ task[t].session \in SessionRecord /\ Short(task[t].session)
      /\ active \in SessionRecord /\ Short(active)
      /\ Len(active.history) \in Nat
  BY LenProperties DEF StateTyped, TaskRecord, HistoriesShort, SessionRecord
<1>2. CASE UNCHANGED <<active, nextTurn>>
  BY <1>1, <1>2 DEF ActiveFits, Short
<1>3. CASE Turn(t)
  BY <1>1, <1>3, TurnsAssumption DEF ActiveFits, Short, Turn, runtime, StateTyped
<1>4. CASE MountRestored(t) \/ SaveCreated(t)
  BY <1>1, <1>4 DEF ActiveFits, Short, MountRestored, SaveCreated
<1>5. CASE InsertMessages(t)
  BY <1>5, TurnTyped DEF ActiveFits, Short, InsertMessages, At
<1>6. CASE ShowTitle(t)
  <2>1. Id(t) \in DOMAIN rows
    BY <1>6 DEF SessionsStored, ShowTitle, At
  <2>2. rows[Id(t)].title \in Titles
    BY <2>1 DEF StateTyped, SessionRecord
  <2> QED
    BY <1>1, <1>6, <2>2 DEF ActiveFits, Short, ShowTitle, SessionRecord
<1> QED
  BY <1>2, <1>3, <1>4, <1>5, <1>6
  DEF Act, Proceed, Create, Load, Rename, ReadRow, ReadSnapshot, Clear, MountCreated,
      InsertRow, Export, RunTools, TurnFails, SaveWorkspace, UpdateRow, UpdateTitle,
      RestoreFallsBack, RestoreFails, TaskFails, runtime

TasksShort ==
  \A t \in Tasks :
    /\ Short(task[t].session)
    /\ task[t].kind = "turn" =>
         task[t].turn = nextTurn - 1 /\ Len(task[t].session.history) < task[t].turn

LEMMA TasksStayShort ==
  ASSUME StateTyped, SessionsStored, HistoriesShort, NEW t \in Tasks, Act(t) \/ Proceed(t)
  PROVE  TasksShort'
<1>1. /\ task[t] \in TaskRecord /\ DOMAIN task = Tasks /\ nextTurn \in Nat \ {0}
      /\ \A s \in DOMAIN rows : Short(rows[s])
      /\ \A u \in Tasks : Len(task[u].session.history) \in Nat
      /\ Len(active.history) \in Nat /\ Short(active)
      /\ TasksShort
  BY LenProperties, TurnsAssumption DEF StateTyped, HistoriesShort, TasksShort, TaskRecord, SessionRecord
<1>2. \A u \in Tasks : u # t => task'[u] = task[u]
  BY OthersKept
<1>3. \A s : Len(NewSession(s).history) = 0
  BY DEF NewSession, RuntimeSession
<1>4. CASE Turn(t)
  <2>1. \A u \in Tasks : task[u].kind # "turn"
    BY <1>4 DEF Turn, Enabled
  <2>2. task'[t].session = active /\ task'[t].turn = nextTurn /\ nextTurn' = nextTurn + 1
    BY <1>1, <1>4 DEF Turn, Begin
  <2> QED
    BY <1>1, <1>2, <2>1, <2>2 DEF TasksShort, Short
<1>5. ASSUME nextTurn' = nextTurn, task'[t].kind \in {"turn"} => task'[t].kind = task[t].kind,
             task'[t].session = task[t].session, task'[t].turn = task[t].turn
      PROVE  TasksShort'
  BY <1>1, <1>2, <1>5 DEF TasksShort, Short
<1>6. ASSUME nextTurn' = nextTurn, task'[t].kind # "turn",
             Len(task'[t].session.history) < nextTurn
      PROVE  TasksShort'
  BY <1>1, <1>2, <1>6 DEF TasksShort, Short
<1>7. CASE Finish(t) /\ nextTurn' = nextTurn
  <2>1. task'[t].kind = "none" /\ Len(task'[t].session.history) = 0
    BY <1>1, <1>3, <1>7 DEF Finish, Idle, Undefined
  <2> QED
    BY <1>1, <1>6, <1>7, <2>1
<1>8. CASE nextTurn' = nextTurn /\ \E step \in Steps : MoveTo(t, step)
  BY <1>1, <1>5, <1>8 DEF MoveTo, TaskRecord
<1>9. CASE Create(t) \/ Load(t) \/ Rename(t)
  <2>1. task'[t].kind # "turn" /\ Len(task'[t].session.history) = 0 /\ nextTurn' = nextTurn
    BY <1>1, <1>3, <1>9 DEF Create, Load, Rename, Begin
  <2> QED
    BY <1>1, <1>6, <2>1
<1>10. CASE ReadRow(t)
  <2>1. Id(t) \in DOMAIN rows /\ task[t].kind = "load"
    BY <1>10 DEF ReadRow, At, SessionsStored
  <2>2. task'[t].kind = "load" /\ task'[t].session = rows[Id(t)] /\ nextTurn' = nextTurn
    BY <1>1, <1>10, <2>1 DEF ReadRow, TaskRecord
  <2> QED
    BY <1>1, <1>6, <2>1, <2>2 DEF Short
<1>11. CASE ReadSnapshot(t) \/ Export(t) \/ RestoreFallsBack(t)
  BY <1>1, <1>5, <1>11 DEF ReadSnapshot, Export, RestoreFallsBack, TaskRecord
<1> QED
  BY <1>4, <1>7, <1>8, <1>9, <1>10, <1>11
  DEF Act, Proceed, Clear, MountCreated, MountRestored, InsertRow, SaveCreated, RunTools,
      TurnFails, SaveWorkspace, UpdateRow, InsertMessages, UpdateTitle, ShowTitle,
      RestoreFails, TaskFails, Steps

LEMMA StoredKept ==
  ASSUME StateTyped, SessionsStored, HistoriesShort, QueueInv, NEW t \in Tasks, Act(t) \/ Proceed(t)
  PROVE  SessionsStored'
<1>1. /\ task[t] \in TaskRecord /\ DOMAIN task = Tasks
      /\ \A s \in DOMAIN rows : rows[s].id = s /\ s \in Sessions
  BY DEF StateTyped
<1>2. \A u \in Tasks : u # t => task'[u] = task[u]
  BY OthersKept
<1>3. DOMAIN rows \subseteq DOMAIN rows' /\ NoSession \notin DOMAIN rows'
  BY RowsTyped, NamesAssumption DEF RowsFit
<1> DEFINE OfTask(x) ==
      /\ x.kind = "none" => x = Idle
      /\ x.kind = "create" => x.session.id \in Sessions
      /\ x.kind = "create" /\ x.at \in {"exporting", "saving"} => x.session.id \in DOMAIN rows'
      /\ x.kind \in {"load", "turn", "rename"} => x.session.id \in DOMAIN rows'
<1>4. \A u \in Tasks : u # t => OfTask(task[u])
  BY <1>3 DEF SessionsStored, Id, At
<1>5. SUFFICES /\ active'.id = NoSession => active' = Undefined
               /\ active'.id # NoSession => active'.id \in DOMAIN rows'
               /\ OfTask(task'[t])
  BY <1>2, <1>4 DEF SessionsStored, Id, At
<1>6. CASE /\ UNCHANGED active /\ OfTask(task'[t])
  BY <1>3, <1>6 DEF SessionsStored
<1>7. CASE Create(t)
  <2> PICK s \in Sessions : Begin(t, "create", "clearing", NewSession(s), 0)
    BY <1>7 DEF Create
  <2>1. task'[t].kind = "create" /\ task'[t].at = "clearing" /\ task'[t].session.id = s
    BY <1>1 DEF Begin, NewSession, RuntimeSession
  <2> QED
    BY <1>6, <1>7, <2>1 DEF Create, runtime
<1>8. CASE Load(t)
  <2> PICK s \in DOMAIN rows : Begin(t, "load", "queued", NewSession(s), 0)
    BY <1>8 DEF Load
  <2>1. task'[t].kind = "load" /\ task'[t].session.id = s
    BY <1>1 DEF Begin, NewSession, RuntimeSession
  <2> QED
    BY <1>3, <1>6, <1>8, <2>1 DEF Load
<1>9. CASE Rename(t)
  <2> PICK s \in DOMAIN rows : Begin(t, "rename", "updating", NewSession(s), 0)
    BY <1>9 DEF Rename
  <2>1. task'[t].kind = "rename" /\ task'[t].session.id = s
    BY <1>1 DEF Begin, NewSession, RuntimeSession
  <2> QED
    BY <1>3, <1>6, <1>9, <2>1 DEF Rename, runtime
<1>10. CASE Turn(t)
  <2>1. task'[t].kind = "turn" /\ task'[t].session = active
    BY <1>1, <1>10 DEF Turn, Begin
  <2> QED
    BY <1>3, <1>6, <1>10, <2>1 DEF Turn, runtime, SessionsStored
<1>11. CASE ReadRow(t)
  <2>1. task[t].kind = "load" /\ Id(t) \in DOMAIN rows
    BY <1>11 DEF ReadRow, At, SessionsStored
  <2>2. task'[t].kind = "load" /\ task'[t].session.id = Id(t)
    BY <1>1, <1>11, <2>1 DEF ReadRow, TaskRecord
  <2> QED
    BY <1>3, <1>6, <1>11, <2>1, <2>2 DEF ReadRow, runtime
\* A step that goes on with what the function works on.
<1>12. ASSUME task'[t].kind = task[t].kind, task'[t].session = task[t].session,
              task[t].kind # "none",
              task'[t].kind = "create" /\ task'[t].at \in {"exporting", "saving"} => Id(t) \in DOMAIN rows'
       PROVE  OfTask(task'[t])
  BY <1>3, <1>12 DEF SessionsStored, Id
<1>13. CASE InsertRow(t)
  <2>1. rows' = Put(rows, Id(t), task[t].session) /\ UNCHANGED active /\ task[t].kind = "create"
        /\ MoveTo(t, "exporting")
    BY <1>13 DEF InsertRow, Store, runtime, At
  <2>2. Id(t) \in DOMAIN rows'
    BY <2>1 DEF Put
  <2>3. task'[t].kind = task[t].kind /\ task'[t].session = task[t].session
    BY <1>1, <2>1 DEF MoveTo, TaskRecord
  <2> QED
    BY <1>6, <1>12, <2>1, <2>2, <2>3
<1>14. CASE ReadSnapshot(t) \/ Clear(t) \/ MountCreated(t) \/ RunTools(t) \/ SaveWorkspace(t)
            \/ UpdateRow(t) \/ UpdateTitle(t) \/ RestoreFallsBack(t)
  <2>1. /\ task'[t].kind = task[t].kind /\ task'[t].session = task[t].session
        /\ task[t].kind # "none" /\ UNCHANGED active
        /\ task'[t].kind = "create" => task'[t].at \in {"mounting", "inserting"}
    BY <1>1, <1>14 DEF ReadSnapshot, Clear, MountCreated, RunTools, SaveWorkspace, UpdateRow,
       UpdateTitle, RestoreFallsBack, MoveTo, TaskRecord, At, runtime
  <2> QED
    BY <1>6, <1>12, <2>1
<1>15. CASE Export(t)
  <2>1. /\ task'[t].kind = task[t].kind /\ task'[t].session = task[t].session
        /\ task[t].kind # "none" /\ UNCHANGED active
        /\ task[t].kind = "create" => task[t].at = "exporting"
    BY <1>1, <1>15 DEF Export, TaskRecord, At, runtime
  <2> QED
    BY <1>3, <1>6, <1>12, <2>1 DEF SessionsStored, At
<1>16. ASSUME Finish(t)
       PROVE  OfTask(task'[t])
  BY <1>1, <1>16 DEF Finish, Idle
<1>17. CASE TurnFails(t) \/ RestoreFails(t) \/ TaskFails(t)
  BY <1>6, <1>16, <1>17 DEF TurnFails, RestoreFails, TaskFails, runtime
<1>18. CASE MountRestored(t) \/ SaveCreated(t)
  <2>1. active' = task[t].session /\ Id(t) \in DOMAIN rows /\ Finish(t)
    BY <1>18 DEF MountRestored, SaveCreated, At, SessionsStored
  <2> QED
    BY <1>3, <1>16, <2>1 DEF Id
<1>19. CASE InsertMessages(t)
  <2>1. active' = Saved(t) /\ Id(t) \in DOMAIN rows /\ Finish(t) /\ task[t].kind = "turn"
    BY <1>19 DEF InsertMessages, At, SessionsStored
  <2>2. Saved(t).id = Id(t)
    BY <2>1, TurnTyped
  <2> QED
    BY <1>3, <1>16, <2>1, <2>2
<1>20. CASE ShowTitle(t)
  <2>1. Id(t) \in DOMAIN rows /\ Finish(t) /\ active \in SessionRecord
    BY <1>20 DEF ShowTitle, At, SessionsStored, StateTyped
  <2>2. CASE active.id = Id(t)
    BY <1>3, <1>16, <1>20, <2>1, <2>2 DEF ShowTitle, SessionRecord
  <2>3. CASE active.id # Id(t)
    BY <1>6, <1>16, <1>20, <2>1, <2>3 DEF ShowTitle
  <2> QED
    BY <2>2, <2>3
<1> QED
  BY <1>7, <1>8, <1>9, <1>10, <1>11, <1>13, <1>14, <1>15, <1>17, <1>18, <1>19, <1>20
  DEF Act, Proceed

-----------------------------------------------------------------------------

(***************************************************************************)
(* The queue: a restore enters at its end, and only its head does anything.*)
(***************************************************************************)
LEMMA QueueSame ==
  ASSUME QueueInv, NEW t \in Tasks, UNCHANGED queue,
         \A u \in Tasks : u # t => task'[u] = task[u],
         task'[t].kind = "load" <=> task[t].kind = "load",
         task'[t].kind = "load" /\ task'[t].at # "queued" => queue[1] = t
  PROVE  QueueInv'
BY DEF QueueInv

LEMMA QueueEntered ==
  ASSUME QueueInv, NEW t \in Tasks, queue' = Append(queue, t),
         \A u \in Tasks : u # t => task'[u] = task[u],
         task[t].kind # "load", task'[t].kind = "load", task'[t].at = "queued"
  PROVE  QueueInv'
<1>1. /\ queue \in Seq(Tasks)
      /\ \A i, j \in 1 .. Len(queue) : queue[i] = queue[j] => i = j
      /\ \A u \in Tasks : task[u].kind = "load" <=> \E i \in 1 .. Len(queue) : queue[i] = u
      /\ \A u \in Tasks : task[u].kind = "load" /\ task[u].at # "queued" => queue[1] = u
  BY DEF QueueInv
<1>2. /\ queue' \in Seq(Tasks) /\ Len(queue) \in Nat /\ Len(queue') = Len(queue) + 1
      /\ \A i \in 1 .. Len(queue) : queue'[i] = queue[i]
      /\ queue'[Len(queue) + 1] = t
  BY <1>1, AppendProperties, LenProperties
<1>3. \A i \in 1 .. Len(queue) : queue[i] # t
  BY <1>1
<1>4. \A i, j \in 1 .. Len(queue') : queue'[i] = queue'[j] => i = j
  BY <1>1, <1>2, <1>3
<1>5. ASSUME NEW u \in Tasks
      PROVE  task'[u].kind = "load" <=> \E i \in 1 .. Len(queue') : queue'[i] = u
  <2>1. CASE u = t
    BY <1>2, <2>1
  <2>2. CASE u # t
    BY <1>1, <1>2, <2>2
  <2> QED
    BY <2>1, <2>2
<1>6. ASSUME NEW u \in Tasks, task'[u].kind = "load", task'[u].at # "queued"
      PROVE  queue'[1] = u
  BY <1>1, <1>2, <1>6
<1> QED
  BY <1>2, <1>4, <1>5, <1>6 DEF QueueInv

LEMMA QueueLeft ==
  ASSUME QueueInv, NEW t \in Tasks, queue' = Tail(queue),
         \A u \in Tasks : u # t => task'[u] = task[u],
         task[t].kind = "load", queue[1] = t, task'[t].kind # "load"
  PROVE  QueueInv'
<1>1. /\ queue \in Seq(Tasks)
      /\ \A i, j \in 1 .. Len(queue) : queue[i] = queue[j] => i = j
      /\ \A u \in Tasks : task[u].kind = "load" <=> \E i \in 1 .. Len(queue) : queue[i] = u
      /\ \A u \in Tasks : task[u].kind = "load" /\ task[u].at # "queued" => queue[1] = u
  BY DEF QueueInv
<1>2. Len(queue) \in Nat \ {0} /\ queue # << >>
  BY <1>1, LenProperties
<1>3. /\ queue' \in Seq(Tasks) /\ Len(queue') = Len(queue) - 1
      /\ \A i \in 1 .. Len(queue') : queue'[i] = queue[i + 1]
  BY <1>1, <1>2, HeadTailProperties
<1>4. \A i, j \in 1 .. Len(queue') : queue'[i] = queue'[j] => i = j
  BY <1>1, <1>2, <1>3
<1>5. ASSUME NEW u \in Tasks
      PROVE  task'[u].kind = "load" <=> \E i \in 1 .. Len(queue') : queue'[i] = u
  <2>1. CASE u = t
    <3>1. \A i \in 1 .. Len(queue') : queue[i + 1] # t
      BY <1>1, <1>2, <1>3
    <3> QED
      BY <1>3, <2>1, <3>1
  <2>2. CASE u # t
    <3>1. ASSUME NEW i \in 1 .. Len(queue), queue[i] = u
          PROVE  i - 1 \in 1 .. Len(queue') /\ queue'[i - 1] = u
      BY <1>2, <1>3, <2>2, <3>1
    <3>2. ASSUME NEW i \in 1 .. Len(queue'), queue'[i] = u
          PROVE  i + 1 \in 1 .. Len(queue) /\ queue[i + 1] = u
      BY <1>2, <1>3, <3>2
    <3>3. task'[u].kind = task[u].kind
      BY <2>2
    <3>4. task[u].kind = "load" <=> \E i \in 1 .. Len(queue) : queue[i] = u
      BY <1>1
    <3>5. ASSUME \E i \in 1 .. Len(queue) : queue[i] = u
          PROVE  \E i \in 1 .. Len(queue') : queue'[i] = u
      BY <3>1, <3>5
    <3>6. ASSUME \E i \in 1 .. Len(queue') : queue'[i] = u
          PROVE  \E i \in 1 .. Len(queue) : queue[i] = u
      BY <3>2, <3>6
    <3> QED
      BY <3>3, <3>4, <3>5, <3>6
  <2> QED
    BY <2>1, <2>2
<1>6. ASSUME NEW u \in Tasks, task'[u].kind = "load", task'[u].at # "queued"
      PROVE  queue'[1] = u
  <2>1. u # t /\ task[u].kind = "load" /\ task[u].at # "queued"
    BY <1>6
  <2> QED
    BY <1>1, <2>1
<1> QED
  BY <1>3, <1>4, <1>5, <1>6 DEF QueueInv

LEMMA QueueKept ==
  ASSUME StateTyped, QueueInv, NEW t \in Tasks, Act(t) \/ Proceed(t)
  PROVE  QueueInv'
<1>1. /\ task[t] \in TaskRecord /\ DOMAIN task = Tasks
      /\ \A u \in Tasks : u # t => task'[u] = task[u]
  BY OthersKept DEF StateTyped
<1>2. /\ queue \in Seq(Tasks)
      /\ task[t].kind = "load" => Len(queue) \in Nat \ {0} /\ queue # << >>
      /\ task[t].kind = "load" /\ task[t].at # "queued" => queue[1] = t
  BY LenProperties DEF QueueInv
<1>3. task[t].kind = "load" => Head(queue) = queue[1]
  BY <1>2, HeadTailProperties
<1>4. CASE Load(t)
  <2>1. task[t].kind # "load" /\ task'[t].kind = "load" /\ task'[t].at = "queued"
        /\ queue' = Append(queue, t)
    BY <1>1, <1>4 DEF Load, Begin, Idle
  <2> QED
    BY <1>1, <2>1, QueueEntered
<1>5. CASE MountRestored(t) \/ RestoreFails(t)
  <2>1. task[t].kind = "load" /\ queue[1] = t /\ queue' = Tail(queue) /\ task'[t].kind # "load"
    BY <1>1, <1>2, <1>3, <1>5 DEF MountRestored, RestoreFails, At, Finish, Idle
  <2> QED
    BY <1>1, <2>1, QueueLeft
<1>6. CASE Create(t) \/ Turn(t) \/ Rename(t)
  <2>1. task[t].kind # "load" /\ task'[t].kind # "load" /\ UNCHANGED queue
    BY <1>1, <1>6 DEF Create, Turn, Rename, Begin, Idle, runtime
  <2> QED
    BY <1>1, <2>1, QueueSame
<1>7. CASE ReadRow(t)
  <2>1. task[t].kind = "load" /\ task'[t].kind = "load" /\ queue[1] = t /\ UNCHANGED queue
    BY <1>1, <1>3, <1>7 DEF ReadRow, At, TaskRecord, runtime
  <2> QED
    BY <1>1, <2>1, QueueSame
<1>8. CASE ReadSnapshot(t) \/ Clear(t) \/ MountCreated(t) \/ RestoreFallsBack(t) \/ InsertRow(t)
           \/ Export(t) \/ RunTools(t) \/ SaveWorkspace(t) \/ UpdateRow(t) \/ UpdateTitle(t)
  <2>1. task'[t].kind = task[t].kind /\ task[t].at # "queued" /\ UNCHANGED queue
    BY <1>1, <1>8 DEF ReadSnapshot, Clear, MountCreated, RestoreFallsBack, InsertRow, Export,
       RunTools, SaveWorkspace, UpdateRow, UpdateTitle, MoveTo, TaskRecord, At, runtime
  <2> QED
    BY <1>1, <1>2, <2>1, QueueSame
<1>9. CASE SaveCreated(t) \/ TurnFails(t) \/ InsertMessages(t) \/ ShowTitle(t) \/ TaskFails(t)
  <2>1. task[t].kind # "load" /\ task'[t].kind # "load" /\ UNCHANGED queue
    BY <1>1, <1>9 DEF SaveCreated, TurnFails, InsertMessages, ShowTitle, TaskFails, Finish,
       Idle, At, runtime
  <2> QED
    BY <1>1, <2>1, QueueSame
<1> QED
  BY <1>4, <1>5, <1>6, <1>7, <1>8, <1>9 DEF Act, Proceed

-----------------------------------------------------------------------------

LEMMA BaseInit == Init => BaseInv
<1> SUFFICES ASSUME Init PROVE BaseInv
  OBVIOUS
<1>1. Undefined \in SessionRecord /\ Len(Undefined.history) = 0 /\ Undefined.id = NoSession
  BY NewSessionTyped DEF Undefined, NewSession, RuntimeSession
<1>2. Idle \in TaskRecord /\ Idle.kind = "none" /\ Idle.session = Undefined
  BY IdleTyped DEF Idle
<1>3. task = [t \in Tasks |-> Idle] /\ active = Undefined /\ queue = << >> /\ nextTurn = 1
  BY DEF Init
<1>4. DOMAIN rows = {} /\ DOMAIN snapshots = {}
  BY DEF Init
<1>5. StateTyped
  BY <1>1, <1>2, <1>3, <1>4, TurnsAssumption DEF Init, StateTyped
<1>6. HistoriesShort
  BY <1>1, <1>2, <1>3, <1>4 DEF HistoriesShort, Short
<1>7. SessionsStored
  BY <1>1, <1>2, <1>3 DEF SessionsStored, At
<1>8. QueueInv
  BY <1>2, <1>3 DEF QueueInv
<1> QED
  BY <1>5, <1>6, <1>7, <1>8 DEF BaseInv

LEMMA BaseStep == BaseInv /\ [Next]_vars => BaseInv'
<1> SUFFICES ASSUME BaseInv, [Next]_vars PROVE BaseInv'
  OBVIOUS
<1> USE DEF BaseInv
<1>1. CASE UNCHANGED vars
  <2>1. /\ workspace' = workspace /\ active' = active /\ queue' = queue /\ task' = task
        /\ rows' = rows /\ snapshots' = snapshots /\ nextTurn' = nextTurn
    BY <1>1 DEF vars, runtime, disk
  <2> QED
    BY <2>1 DEF StateTyped, HistoriesShort, Short, SessionsStored, Id, At, QueueInv
<1>2. CASE Reload
  <2>1. Undefined \in SessionRecord /\ Len(Undefined.history) = 0 /\ Undefined.id = NoSession
    BY NewSessionTyped DEF Undefined, NewSession, RuntimeSession
  <2>2. Idle \in TaskRecord /\ Idle.kind = "none" /\ Idle.session = Undefined
    BY IdleTyped DEF Idle
  <2>3. /\ task' = [t \in Tasks |-> Idle] /\ active' = Undefined /\ queue' = << >>
        /\ workspace' = {} /\ rows' = rows /\ snapshots' = snapshots /\ nextTurn' = nextTurn
    BY <1>2 DEF Reload, disk
  <2>4. StateTyped'
    BY <2>1, <2>2, <2>3 DEF StateTyped
  <2>5. nextTurn \in Nat \ {0}
    BY TurnsAssumption DEF StateTyped
  <2>6. HistoriesShort'
    BY <2>1, <2>2, <2>3, <2>5 DEF HistoriesShort, Short
  <2>7. SessionsStored'
    BY <2>1, <2>2, <2>3 DEF SessionsStored, At
  <2>8. QueueInv'
    BY <2>2, <2>3 DEF QueueInv
  <2> QED
    BY <2>4, <2>6, <2>7, <2>8
<1>3. CASE \E t \in Tasks : Act(t) \/ Proceed(t)
  <2> PICK t \in Tasks : Act(t) \/ Proceed(t)
    BY <1>3
  <2>1. RowsFit' /\ DOMAIN rows \subseteq DOMAIN rows'
    BY RowsTyped
  <2>2. StateTyped'
    BY <2>1, TaskTyped, WorkspaceTyped, SnapshotsTyped, ActiveTyped
    DEF StateTyped, RowsFit, ActiveFits
  <2>3. HistoriesShort'
    BY <2>1, ActiveTyped, TasksStayShort DEF HistoriesShort, RowsFit, ActiveFits, TasksShort
  <2> QED
    BY <2>2, <2>3, StoredKept, QueueKept
<1> QED
  BY <1>1, <1>2, <1>3 DEF Next

\* The base invariant holds whatever the user starts and whatever fails.
THEOREM BaseInvariant == Spec => []BaseInv
BY BaseInit, BaseStep, PTL DEF Spec

-----------------------------------------------------------------------------

LEMMA AtMostOne ==
  ASSUME NEW S, NEW x, \A y \in S : y = x
  PROVE  Cardinality(S) <= 1
<1>1. CASE S = {}
  BY <1>1, FS_EmptySet
<1>2. CASE S # {}
  <2>1. S = {x}
    BY <1>2
  <2>2. Cardinality({x}) = 1
    BY FS_Singleton
  <2> QED
    BY <2>1, <2>2
<1> QED
  BY <1>1, <1>2

LEMMA ShortHistory ==
  ASSUME NEW h \in Seq(1 .. MaxTurns), Len(h) <= MaxTurns
  PROVE  h \in UNION {[1 .. n -> 1 .. MaxTurns] : n \in 0 .. MaxTurns}
<1>1. Len(h) \in 0 .. MaxTurns /\ h \in [1 .. Len(h) -> 1 .. MaxTurns]
  BY LenProperties, TurnsAssumption
<1> QED
  BY <1>1

LEMMA RecordShort ==
  ASSUME NEW session \in SessionRecord, Short(session), nextTurn \in 1 .. MaxTurns + 1
  PROVE  session \in SessionState
<1>1. session.history \in Seq(1 .. MaxTurns) /\ Len(session.history) <= MaxTurns
  BY LenProperties, TurnsAssumption DEF SessionRecord, Short
<1>2. session.history \in UNION {[1 .. n -> 1 .. MaxTurns] : n \in 0 .. MaxTurns}
  BY <1>1, ShortHistory
<1> QED
  BY <1>2 DEF SessionRecord, SessionState, Titles

\* Rows and snapshots exist only for sessions, hold what their columns may
\* hold, and the queue holds exactly the restores under way (storage.ts:16-31,
\* index.ts:393-406).
THEOREM TypeCorrect == Spec => []TypeOK
<1>1. BaseInv => TypeOK
  <2> SUFFICES ASSUME BaseInv PROVE TypeOK
    OBVIOUS
  <2>1. \A session \in SessionRecord : Short(session) => session \in SessionState
    BY RecordShort DEF BaseInv, StateTyped
  <2>2. active \in SessionState
    BY <2>1 DEF BaseInv, StateTyped, HistoriesShort
  <2>3. \A s \in DOMAIN rows : rows[s] \in SessionState /\ rows[s].id = s
    BY <2>1 DEF BaseInv, StateTyped, HistoriesShort
  <2>4. \A t \in Tasks : task[t].session \in SessionState /\ task[t].files \subseteq Files
    BY <2>1 DEF BaseInv, StateTyped, HistoriesShort, TaskRecord
  <2>5. {queue[k] : k \in DOMAIN queue} = {t \in Tasks : task[t].kind = "load"}
    <3>1. DOMAIN queue = 1 .. Len(queue) /\ \A k \in 1 .. Len(queue) : queue[k] \in Tasks
      BY LenProperties DEF BaseInv, QueueInv
    <3> QED
      BY <3>1 DEF BaseInv, QueueInv
  <2> QED
    BY <2>2, <2>3, <2>4, <2>5 DEF TypeOK, BaseInv, StateTyped
<1> QED
  BY <1>1, BaseInvariant, PTL

\* Restores never overlap, whatever else goes on and whatever fails
\* (index.ts:397-406).
THEOREM RestoresNeverOverlap == Spec => []RestoresSerialized
<1>1. BaseInv => RestoresSerialized
  <2> SUFFICES ASSUME BaseInv PROVE RestoresSerialized
    OBVIOUS
  <2> DEFINE running == {t \in Tasks : task[t].kind = "load" /\ task[t].at # "queued"}
  <2>1. \A t \in running : t = queue[1]
    BY DEF BaseInv, QueueInv
  <2>2. Cardinality(running) <= 1
    BY <2>1, AtMostOne
  <2> QED
    BY <2>2 DEF RestoresSerialized
<1> QED
  BY <1>1, BaseInvariant, PTL

-----------------------------------------------------------------------------

(***************************************************************************)
(* A user who waits for what he started, and storage that works.           *)
(***************************************************************************)
Alone ==
  \A t, u \in Tasks :
    task[t].kind \in {"create", "turn", "rename"} /\ task[u].kind # "none" => t = u

\* A function that has not touched anything yet, or is over.
Calm(t) ==
  \/ task[t].kind = "none"
  \/ task[t].kind = "load" /\ task[t].at = "queued"

StepsOf(kind) ==
  CASE kind = "none" -> {"done"}
    [] kind = "create" -> {"clearing", "mounting", "inserting", "exporting", "saving"}
    [] kind = "load" -> {"queued", "reading", "clearing", "mounting"}
    [] kind = "turn" -> {"running", "exporting", "saving", "updating", "inserting"}
    [] kind = "rename" -> {"updating", "reading"}

StepRight(t) == task[t].at \in StepsOf(task[t].kind)

\* The workspace is on its way from one session to another.
Between(t) ==
  \/ task[t].at = "mounting"
  \/ task[t].kind = "create" /\ task[t].at \in {"inserting", "exporting", "saving"}

Matches ==
  /\ workspace \subseteq OwnFiles(active.id)
  /\ active.id \in DOMAIN snapshots => snapshots[active.id] \subseteq workspace

\* The row of the active session is behind it, or ahead of it.
Writing(t) == At(t, {"turn"}, "inserting") \/ At(t, {"rename"}, "reading")

CreateRight(t) == task[t].kind = "create" =>
  /\ task[t].session = NewSession(Id(t))
  /\ task[t].at \in {"clearing", "mounting", "inserting"} => Id(t) \notin DOMAIN rows
  /\ task[t].at \in {"exporting", "saving"} =>
       Id(t) \in DOMAIN rows \ DOMAIN snapshots /\ rows[Id(t)] = task[t].session
  /\ task[t].at = "mounting" => workspace = {}
  /\ task[t].at \in {"inserting", "exporting", "saving"} => workspace = {Seed}
  /\ task[t].at = "saving" => task[t].files = {Seed}

LoadRight(t) == task[t].kind = "load" =>
  /\ task[t].at \in {"reading", "clearing", "mounting"} => task[t].session = rows[Id(t)]
  /\ task[t].at \in {"clearing", "mounting"} =>
       task[t].files = IF HasSnapshot(Id(t)) THEN snapshots[Id(t)] ELSE {Seed}
  /\ task[t].at = "mounting" => workspace = {}

TurnFile(t) == <<Id(t), task[t].turn>>

\* The work of a turn is kept before the turn is remembered, and its number is
\* new until then.
TurnRight(t) == task[t].kind = "turn" =>
  /\ task[t].session = active
  /\ task[t].at \in {"exporting", "saving"} => TurnFile(t) \in workspace
  /\ task[t].at = "saving" => task[t].files = workspace
  /\ task[t].at \in {"updating", "inserting"} =>
       Id(t) \in DOMAIN snapshots /\ TurnFile(t) \in snapshots[Id(t)]
  /\ task[t].at = "inserting" => rows[Id(t)] = [Saved(t) EXCEPT !.messages = active.messages]
  /\ \A s \in DOMAIN rows :
       /\ task[t].at # "inserting" =>
            \A k \in 1 .. Len(rows[s].history) : rows[s].history[k] < task[t].turn
       /\ \A turn \in rows[s].messages : turn < task[t].turn

RenameRight(t) == At(t, {"rename"}, "reading") =>
  /\ rows[Id(t)].title = "renamed"
  /\ active.id # NoSession =>
       rows[active.id] = IF active.id = Id(t) THEN [active EXCEPT !.title = "renamed"] ELSE active

TurnsPast ==
  \A s \in DOMAIN rows :
    /\ \A k \in 1 .. Len(rows[s].history) : rows[s].history[k] < nextTurn
    /\ \A turn \in rows[s].messages : turn < nextTurn

\* The active session is what is in the workspace and on the disk, but for what
\* t is changing.
ActiveRight(t) == active.id # NoSession =>
  /\ ~Between(t) => Matches
  /\ ~Writing(t) => rows[active.id] = active

TaskRight(t) ==
  /\ StepRight(t) /\ CreateRight(t) /\ LoadRight(t) /\ TurnRight(t) /\ RenameRight(t)

\* Only the function that is not calm can be in the middle of a change.
ActiveStored ==
  active.id # NoSession =>
    /\ (\A t \in Tasks : ~Between(t)) => Matches
    /\ (\A t \in Tasks : ~Writing(t)) => rows[active.id] = active

DiskRight == TurnsPast /\ SnapshotsIsolated

WaitingInv ==
  BaseInv /\ Alone /\ (\A t \in Tasks : TaskRight(t)) /\ ActiveStored /\ DiskRight

-----------------------------------------------------------------------------

\* All functions but t are calm, before and after a step of t.
SoloStep(t) ==
  \A u \in Tasks \ {t} : Calm(u) /\ task'[u] = task[u]

LEMMA SoloBefore ==
  ASSUME WaitingInv, NEW t \in Tasks, SoloStep(t)
  PROVE  TaskRight(t) /\ ActiveRight(t) /\ DiskRight
<1>1. \A u \in Tasks \ {t} : ~Between(u) /\ ~Writing(u)
  BY DEF SoloStep, Calm, Between, Writing, At, WaitingInv, BaseInv, SessionsStored, Idle
<1>2. ActiveRight(t)
  BY <1>1 DEF WaitingInv, ActiveStored, ActiveRight
<1> QED
  BY <1>2 DEF WaitingInv

LEMMA SoloAfter ==
  ASSUME WaitingInv, NEW t \in Tasks, SoloStep(t), BaseInv', Alone',
         TaskRight(t)', ActiveRight(t)', DiskRight'
  PROVE  WaitingInv'
<1>1. ASSUME NEW u \in Tasks \ {t}
      PROVE  TaskRight(u)'
  <2>1. task'[u] = task[u] /\ Calm(u) /\ StepRight(u)
    BY DEF SoloStep, WaitingInv, TaskRight
  <2>2. StepRight(u)'
    BY <2>1 DEF StepRight
  <2>3. CreateRight(u)' /\ LoadRight(u)' /\ TurnRight(u)' /\ RenameRight(u)'
    BY <2>1 DEF Calm, CreateRight, LoadRight, TurnRight, RenameRight, At
  <2> QED
    BY <2>2, <2>3 DEF TaskRight
<1>2. ActiveStored'
  BY DEF ActiveRight, ActiveStored
<1> QED
  BY <1>1, <1>2 DEF WaitingInv

LEMMA SoloCreateTurnRename ==
  ASSUME Patient, BaseInv, NEW t \in Tasks, Create(t) \/ Turn(t) \/ Rename(t)
  PROVE  SoloStep(t) /\ Alone'
<1>1. \A u \in Tasks : task[u].kind = "none"
  BY DEF Create, Turn, Rename, Enabled
<1>2. \A u \in Tasks \ {t} : task'[u] = task[u]
  BY OthersKept DEF BaseInv, Act
<1> QED
  BY <1>1, <1>2 DEF SoloStep, Calm, Alone

LEMMA SoloProceed ==
  ASSUME BaseInv, Alone, NEW t \in Tasks, Proceed(t), task[t].kind # "none",
         task'[t].kind \in {"none", task[t].kind}
  PROVE  SoloStep(t) /\ Alone'
<1>1. \A u \in Tasks \ {t} : task'[u] = task[u] /\ task[u].kind \in Kinds
  BY OthersKept DEF BaseInv, StateTyped, TaskRecord
<1>2. CASE task[t].kind # "load"
  <2>1. \A u \in Tasks \ {t} : task[u].kind = "none"
    BY <1>2 DEF Alone, BaseInv, StateTyped, TaskRecord, Kinds
  <2> QED
    BY <1>1, <2>1 DEF SoloStep, Calm, Alone
<1>3. CASE task[t].kind = "load"
  <2>1. \A u \in Tasks \ {t} : task[u].kind \in {"none", "load"}
    BY <1>1, <1>3 DEF Alone, Kinds
  <2>2. queue[1] = t
    <3>1. CASE task[t].at # "queued"
      BY <1>3, <3>1 DEF BaseInv, QueueInv
    <3>2. CASE task[t].at = "queued"
      <4>1. Head(queue) = t
        BY <1>3, <3>2 DEF Proceed, ReadRow, ReadSnapshot, Clear, MountCreated, MountRestored,
           InsertRow, Export, SaveCreated, RunTools, TurnFails, SaveWorkspace, UpdateRow,
           InsertMessages, UpdateTitle, ShowTitle, RestoreFallsBack, RestoreFails, TaskFails, At
      <4>2. queue \in Seq(Tasks) /\ queue # << >>
        BY <1>3, LenProperties DEF BaseInv, QueueInv
      <4> QED
        BY <4>1, <4>2, HeadTailProperties
    <3> QED
      BY <3>1, <3>2
  <2>3. \A u \in Tasks \ {t} : task[u].kind = "load" => task[u].at = "queued"
    BY <2>2 DEF BaseInv, QueueInv
  <2> QED
    BY <1>1, <1>3, <2>1, <2>3 DEF SoloStep, Calm, Alone
<1> QED
  BY <1>2, <1>3

LEMMA ProceedKinds ==
  ASSUME StateTyped, NEW t \in Tasks, Proceed(t)
  PROVE  task[t].kind # "none" /\ task'[t].kind \in {"none", task[t].kind}
<1>1. task[t] \in TaskRecord /\ DOMAIN task = Tasks
  BY DEF StateTyped
<1> QED
  BY <1>1 DEF Proceed, ReadRow, ReadSnapshot, Clear, MountCreated, MountRestored, InsertRow,
     Export, SaveCreated, RunTools, TurnFails, SaveWorkspace, UpdateRow, InsertMessages,
     UpdateTitle, ShowTitle, RestoreFallsBack, RestoreFails, TaskFails, At, MoveTo, Finish,
     Idle, TaskRecord

-----------------------------------------------------------------------------

\* What is left when a function is over or has begun.
LEMMA NoneRight ==
  ASSUME NEW t \in Tasks, task'[t] = Idle
  PROVE  TaskRight(t)' /\ ~Between(t)' /\ ~Writing(t)'
BY DEF Idle, TaskRight, StepRight, StepsOf, CreateRight, LoadRight, TurnRight, RenameRight, At,
   Between, Writing

LEMMA DiskSame ==
  ASSUME DiskRight, UNCHANGED disk, StateTyped,
         nextTurn' = nextTurn \/ nextTurn' = nextTurn + 1
  PROVE  DiskRight'
<1>1. rows' = rows /\ snapshots' = snapshots
  BY DEF disk
<1>2. nextTurn \in Nat /\ \A s \in DOMAIN rows : /\ \A k \in 1 .. Len(rows[s].history) : rows[s].history[k] \in Nat
                                                /\ \A turn \in rows[s].messages : turn \in Nat
  BY TurnsAssumption DEF StateTyped, SessionRecord
<1>3. TurnsPast'
  BY <1>1, <1>2 DEF DiskRight, TurnsPast
<1> QED
  BY <1>1, <1>3 DEF DiskRight, SnapshotsIsolated

LEMMA TurnsPastStored ==
  ASSUME TurnsPast, NEW s \in DOMAIN rows, NEW row, nextTurn' = nextTurn,
         DOMAIN rows' = DOMAIN rows, rows'[s] = row,
         \A r \in DOMAIN rows : r # s => rows'[r] = rows[r],
         \A k \in 1 .. Len(row.history) : row.history[k] < nextTurn,
         \A turn \in row.messages : turn < nextTurn
  PROVE  TurnsPast'
<1> SUFFICES ASSUME NEW r \in DOMAIN rows
             PROVE  /\ \A k \in 1 .. Len(rows'[r].history) : rows'[r].history[k] < nextTurn
                    /\ \A turn \in rows'[r].messages : turn < nextTurn
  BY DEF TurnsPast
<1>1. CASE r = s
  BY <1>1
<1>2. CASE r # s
  BY <1>2 DEF TurnsPast
<1> QED
  BY <1>1, <1>2

-----------------------------------------------------------------------------

(***************************************************************************)
(* Creating a session.                                                     *)
(***************************************************************************)
LEMMA CreateStep ==
  ASSUME BaseInv, NEW t \in Tasks, TaskRight(t), ActiveRight(t), DiskRight, Create(t)
  PROVE  TaskRight(t)' /\ ActiveRight(t)' /\ DiskRight'
<1>1. task[t] = Idle /\ DOMAIN task = Tasks
  BY DEF Create, Begin, BaseInv, StateTyped
<1> PICK s \in Sessions \ DOMAIN rows : Begin(t, "create", "clearing", NewSession(s), 0)
  BY DEF Create
<1>2. /\ task'[t].kind = "create" /\ task'[t].at = "clearing"
      /\ task'[t].session = NewSession(s) /\ NewSession(s).id = s
      /\ workspace' = workspace /\ active' = active /\ rows' = rows /\ snapshots' = snapshots
      /\ nextTurn' = nextTurn
  BY <1>1 DEF Begin, NewSession, RuntimeSession, Create, runtime, disk
<1>3. TaskRight(t)'
  BY <1>2 DEF TaskRight, StepRight, StepsOf, CreateRight, LoadRight, TurnRight, RenameRight, At, Id
<1>4. ActiveRight(t)'
  BY <1>1, <1>2 DEF ActiveRight, Between, Writing, Matches, At, Idle
<1> QED
  BY <1>2, <1>3, <1>4, DiskSame DEF BaseInv, disk

LEMMA CreateClearStep ==
  ASSUME BaseInv, NEW t \in Tasks, TaskRight(t), ActiveRight(t), DiskRight,
         Clear(t) \/ MountCreated(t), task[t].kind = "create"
  PROVE  TaskRight(t)' /\ ActiveRight(t)' /\ DiskRight'
<1>1. task[t] \in TaskRecord /\ DOMAIN task = Tasks
  BY DEF BaseInv, StateTyped
<1>2. /\ task'[t].kind = "create" /\ task'[t].session = task[t].session
      /\ active' = active /\ rows' = rows /\ snapshots' = snapshots /\ nextTurn' = nextTurn
      /\ \/ task[t].at = "clearing" /\ task'[t].at = "mounting" /\ workspace' = {}
         \/ task[t].at = "mounting" /\ task'[t].at = "inserting"
            /\ workspace' = workspace \union {Seed}
  BY <1>1 DEF Clear, MountCreated, MoveTo, At, disk, TaskRecord
<1>3. CreateRight(t)'
  BY <1>2 DEF TaskRight, CreateRight, Id
<1>4. TaskRight(t)'
  BY <1>2, <1>3 DEF TaskRight, StepRight, StepsOf, LoadRight, TurnRight, RenameRight, At
<1>5. ActiveRight(t)'
  BY <1>2 DEF ActiveRight, Between, Writing, At
<1> QED
  BY <1>2, <1>4, <1>5, DiskSame DEF BaseInv, disk

LEMMA InsertRowStep ==
  ASSUME BaseInv, NEW t \in Tasks, TaskRight(t), ActiveRight(t), DiskRight, InsertRow(t)
  PROVE  TaskRight(t)' /\ ActiveRight(t)' /\ DiskRight'
<1> DEFINE s == Id(t)
<1>1. task[t] \in TaskRecord /\ DOMAIN task = Tasks
  BY DEF BaseInv, StateTyped
<1>2. /\ task[t].kind = "create" /\ task[t].at = "inserting"
      /\ task'[t].kind = "create" /\ task'[t].session = task[t].session
      /\ task'[t].at = "exporting" /\ workspace' = workspace
      /\ active' = active /\ snapshots' = snapshots /\ nextTurn' = nextTurn
      /\ rows' = Put(rows, s, task[t].session)
  BY <1>1 DEF InsertRow, MoveTo, At, runtime, TaskRecord, Store
<1>3. /\ task[t].session = NewSession(s) /\ s \notin DOMAIN rows /\ workspace = {Seed}
      /\ DOMAIN snapshots \subseteq DOMAIN rows
  BY <1>2 DEF TaskRight, CreateRight, BaseInv, StateTyped
<1>4. /\ DOMAIN rows' = DOMAIN rows \union {s} /\ rows'[s] = NewSession(s)
      /\ \A r \in DOMAIN rows : rows'[r] = rows[r]
  BY <1>2, <1>3 DEF Put
<1>5. CreateRight(t)'
  BY <1>2, <1>3, <1>4 DEF CreateRight, Id
<1>6. TaskRight(t)'
  BY <1>2, <1>5 DEF TaskRight, StepRight, StepsOf, LoadRight, TurnRight, RenameRight, At
<1>7. ActiveRight(t)'
  BY <1>2, <1>4 DEF ActiveRight, Between, Writing, At, BaseInv, SessionsStored
<1>8. NewSession(s).history = << >> /\ NewSession(s).messages = {}
  BY DEF NewSession, RuntimeSession
<1>9. TurnsPast'
  BY <1>2, <1>4, <1>8 DEF DiskRight, TurnsPast
<1> QED
  BY <1>2, <1>6, <1>7, <1>9 DEF DiskRight, SnapshotsIsolated

LEMMA CreateExportStep ==
  ASSUME BaseInv, NEW t \in Tasks, TaskRight(t), ActiveRight(t), DiskRight,
         Export(t), task[t].kind = "create"
  PROVE  TaskRight(t)' /\ ActiveRight(t)' /\ DiskRight'
<1>1. task[t] \in TaskRecord /\ DOMAIN task = Tasks
  BY DEF BaseInv, StateTyped
<1>2. /\ task[t].at = "exporting"
      /\ task'[t].kind = "create" /\ task'[t].session = task[t].session
      /\ task'[t].at = "saving" /\ workspace' = workspace /\ task'[t].files = workspace
      /\ active' = active /\ snapshots' = snapshots /\ nextTurn' = nextTurn /\ rows' = rows
  BY <1>1 DEF Export, At, runtime, disk, TaskRecord
<1>3. CreateRight(t)'
  BY <1>2 DEF TaskRight, CreateRight, Id
<1>4. TaskRight(t)'
  BY <1>2, <1>3 DEF TaskRight, StepRight, StepsOf, LoadRight, TurnRight, RenameRight, At
<1>5. ActiveRight(t)'
  BY <1>2 DEF ActiveRight, Between, Writing, At
<1> QED
  BY <1>2, <1>4, <1>5, DiskSame DEF BaseInv, disk

LEMMA SaveCreatedStep ==
  ASSUME BaseInv, NEW t \in Tasks, TaskRight(t), ActiveRight(t), DiskRight, SaveCreated(t)
  PROVE  TaskRight(t)' /\ ActiveRight(t)' /\ DiskRight'
<1> DEFINE s == Id(t)
<1>1. task[t] \in TaskRecord /\ DOMAIN task = Tasks
  BY DEF BaseInv, StateTyped
<1>2. /\ task[t].kind = "create" /\ task[t].at = "saving" /\ task'[t] = Idle
      /\ active' = task[t].session /\ nextTurn' = nextTurn /\ rows' = rows
      /\ workspace' = workspace /\ snapshots' = Put(snapshots, s, task[t].files)
  BY <1>1 DEF SaveCreated, Finish, At
<1>3. /\ workspace = {Seed} /\ task[t].files = {Seed} /\ rows[s] = task[t].session
      /\ s \in DOMAIN rows
  BY <1>2 DEF TaskRight, CreateRight
<1>4. /\ DOMAIN snapshots' = DOMAIN snapshots \union {s} /\ snapshots'[s] = {Seed}
      /\ \A r \in DOMAIN snapshots : r # s => snapshots'[r] = snapshots[r]
  BY <1>2, <1>3 DEF Put
<1>5. Matches' /\ rows'[active'.id] = active'
  BY <1>2, <1>3, <1>4 DEF Matches, OwnFiles, Id
<1>6. TaskRight(t)' /\ ActiveRight(t)'
  BY <1>2, <1>5, NoneRight DEF ActiveRight
<1>7. SnapshotsIsolated'
  BY <1>4 DEF DiskRight, SnapshotsIsolated, OwnFiles
<1> QED
  BY <1>2, <1>6, <1>7 DEF DiskRight, TurnsPast

(***************************************************************************)
(* Restoring a session.                                                    *)
(***************************************************************************)
LEMMA LoadStep ==
  ASSUME Patient, BaseInv', WaitingInv, NEW t \in Tasks, Load(t)
  PROVE  WaitingInv'
<1>1. /\ task[t] = Idle /\ DOMAIN task = Tasks
      /\ \A u \in Tasks : u # t => task'[u] = task[u]
      /\ \A u \in Tasks : task[u].kind \in {"none", "load"}
  BY OthersKept DEF Load, Begin, Enabled, WaitingInv, BaseInv, StateTyped, Act
<1>2. /\ task'[t].kind = "load" /\ task'[t].at = "queued"
      /\ workspace' = workspace /\ active' = active /\ rows' = rows /\ snapshots' = snapshots
      /\ nextTurn' = nextTurn
  BY <1>1 DEF Begin, Load, disk
<1>3. Alone'
  BY <1>1, <1>2 DEF Alone
<1>4. TaskRight(t)'
  BY <1>2 DEF TaskRight, StepRight, StepsOf, CreateRight, LoadRight, TurnRight, RenameRight, At
<1>5. ASSUME NEW u \in Tasks, u # t
      PROVE  TaskRight(u)'
  <2>1. task'[u] = task[u] /\ task[u].kind \in {"none", "load"} /\ TaskRight(u)
    BY <1>1, <1>5 DEF WaitingInv
  <2>2. StepRight(u)'
    BY <2>1 DEF StepRight, TaskRight
  <2>3. LoadRight(u)'
    BY <1>2, <2>1 DEF TaskRight, LoadRight, Id, HasSnapshot
  <2> QED
    BY <2>1, <2>2, <2>3 DEF TaskRight, CreateRight, TurnRight, RenameRight, At
<1>6. ActiveStored'
  <2>1. \A u \in Tasks : Between(u) => Between(u)'
    BY <1>1 DEF Between, Idle
  <2>2. \A u \in Tasks : Writing(u) => Writing(u)'
    BY <1>1 DEF Writing, At, Idle
  <2> QED
    BY <1>2, <2>1, <2>2 DEF WaitingInv, ActiveStored, Matches
<1>7. DiskRight'
  BY <1>2, DiskSame DEF WaitingInv, BaseInv, disk
<1> QED
  BY <1>3, <1>4, <1>5, <1>6, <1>7 DEF WaitingInv

LEMMA RestoreStep ==
  ASSUME BaseInv, NEW t \in Tasks, TaskRight(t), ActiveRight(t), DiskRight,
         ReadRow(t) \/ ReadSnapshot(t) \/ Clear(t), task[t].kind = "load"
  PROVE  TaskRight(t)' /\ ActiveRight(t)' /\ DiskRight'
<1>1. task[t] \in TaskRecord /\ DOMAIN task = Tasks /\ Id(t) \in DOMAIN rows
      /\ rows[Id(t)].id = Id(t)
  BY DEF BaseInv, StateTyped, SessionsStored
<1>2. /\ task'[t].kind = "load"
      /\ active' = active /\ rows' = rows /\ snapshots' = snapshots /\ nextTurn' = nextTurn
      /\ task[t].at \in {"queued", "reading", "clearing"}
  BY <1>1 DEF ReadRow, ReadSnapshot, Clear, MoveTo, At, disk, runtime, TaskRecord
<1>3. LoadRight(t)' /\ task'[t].at \in {"reading", "clearing", "mounting"}
      /\ (task'[t].at # "mounting" => workspace' = workspace)
  <2>1. CASE ReadRow(t)
    BY <1>1, <1>2, <2>1 DEF ReadRow, TaskRecord, LoadRight, Id, runtime
  <2>2. CASE ReadSnapshot(t)
    BY <1>1, <1>2, <2>2 DEF ReadSnapshot, TaskRecord, TaskRight, LoadRight, Id, At, HasSnapshot, runtime
  <2>3. CASE Clear(t)
    BY <1>1, <1>2, <2>3 DEF Clear, MoveTo, TaskRecord, TaskRight, LoadRight, Id, At, HasSnapshot
  <2> QED
    BY <2>1, <2>2, <2>3
<1>4. TaskRight(t)'
  BY <1>2, <1>3 DEF TaskRight, StepRight, StepsOf, CreateRight, TurnRight, RenameRight, At
<1>5. ActiveRight(t)'
  BY <1>2, <1>3 DEF ActiveRight, Between, Writing, At, Matches
<1> QED
  BY <1>2, <1>4, <1>5, DiskSame DEF BaseInv, disk

LEMMA MountRestoredStep ==
  ASSUME BaseInv, NEW t \in Tasks, TaskRight(t), ActiveRight(t), DiskRight, MountRestored(t)
  PROVE  TaskRight(t)' /\ ActiveRight(t)' /\ DiskRight'
<1>1. task[t] \in TaskRecord /\ DOMAIN task = Tasks
  BY DEF BaseInv, StateTyped
<1>2. /\ task[t].kind = "load" /\ task[t].at = "mounting" /\ task'[t] = Idle
      /\ active' = task[t].session /\ nextTurn' = nextTurn /\ rows' = rows
      /\ workspace' = workspace \union task[t].files /\ snapshots' = snapshots
  BY <1>1 DEF MountRestored, Finish, At, disk
<1>3. /\ workspace = {} /\ rows[Id(t)] = task[t].session
      /\ task[t].files = IF HasSnapshot(Id(t)) THEN snapshots[Id(t)] ELSE {Seed}
  BY <1>2 DEF TaskRight, LoadRight
<1>4. Matches' /\ rows'[active'.id] = active'
  BY <1>2, <1>3 DEF Matches, OwnFiles, Id, HasSnapshot, DiskRight, SnapshotsIsolated
<1>5. TaskRight(t)' /\ ActiveRight(t)'
  BY <1>2, <1>4, NoneRight DEF ActiveRight
<1> QED
  BY <1>2, <1>5, DiskSame DEF BaseInv, disk

(***************************************************************************)
(* A turn.                                                                 *)
(***************************************************************************)
LEMMA TurnStep ==
  ASSUME BaseInv, NEW t \in Tasks, TaskRight(t), ActiveRight(t), DiskRight, Turn(t)
  PROVE  TaskRight(t)' /\ ActiveRight(t)' /\ DiskRight'
<1>1. task[t] = Idle /\ DOMAIN task = Tasks
  BY DEF Turn, Begin, BaseInv, StateTyped
<1>2. /\ task'[t].kind = "turn" /\ task'[t].at = "running"
      /\ task'[t].session = active /\ task'[t].turn = nextTurn
      /\ workspace' = workspace /\ active' = active /\ rows' = rows /\ snapshots' = snapshots
      /\ nextTurn' = nextTurn + 1
  BY <1>1 DEF Begin, Turn, runtime, disk
<1>3. TurnRight(t)'
  BY <1>2 DEF TurnRight, DiskRight, TurnsPast
<1>4. TaskRight(t)'
  BY <1>2, <1>3 DEF TaskRight, StepRight, StepsOf, CreateRight, LoadRight, RenameRight, At
<1>5. ActiveRight(t)'
  BY <1>1, <1>2 DEF ActiveRight, Between, Writing, Matches, At, Idle
<1> QED
  BY <1>2, <1>4, <1>5, DiskSame DEF BaseInv, disk

\* What a turn that is under way may rely on.
LEMMA TurnFacts ==
  ASSUME BaseInv, NEW t \in Tasks, TaskRight(t), ActiveRight(t), task[t].kind = "turn"
  PROVE  /\ task[t] \in TaskRecord /\ DOMAIN task = Tasks
         /\ task[t].session = active /\ active \in SessionRecord
         /\ Id(t) = active.id /\ Id(t) \in DOMAIN rows /\ active.id # NoSession
         /\ task[t].turn \in 1 .. MaxTurns /\ task[t].turn = nextTurn - 1
         /\ TurnFile(t) \in OwnFiles(active.id)
         /\ Matches
         /\ task[t].at # "inserting" => rows[active.id] = active
<1>1. /\ task[t] \in TaskRecord /\ DOMAIN task = Tasks /\ task[t].session = active
      /\ Id(t) = active.id /\ Id(t) \in DOMAIN rows /\ active \in SessionRecord
  BY DEF BaseInv, StateTyped, SessionsStored, TaskRight, TurnRight, Id
<1>2. active.id # NoSession
  BY <1>1, NamesAssumption DEF BaseInv, StateTyped
<1>3. task[t].turn \in 1 .. MaxTurns /\ task[t].turn = nextTurn - 1
  BY TurnTyped DEF BaseInv
<1>4. ~Between(t)
  BY DEF TaskRight, StepRight, StepsOf, Between
<1>5. task[t].at # "inserting" => ~Writing(t)
  BY DEF Writing, At
<1> QED
  BY <1>1, <1>2, <1>3, <1>4, <1>5 DEF ActiveRight, TurnFile, OwnFiles

LEMMA RunToolsStep ==
  ASSUME BaseInv, NEW t \in Tasks, TaskRight(t), ActiveRight(t), DiskRight,
         RunTools(t) \/ TurnFails(t)
  PROVE  TaskRight(t)' /\ ActiveRight(t)' /\ DiskRight'
<1>1. /\ task[t].kind = "turn" /\ task[t].at = "running"
      /\ active' = active /\ rows' = rows /\ snapshots' = snapshots /\ nextTurn' = nextTurn
      /\ workspace' \in {workspace, workspace \union {TurnFile(t)}}
  BY DEF RunTools, TurnFails, At, disk, TurnFile
<1>2. /\ task[t] \in TaskRecord /\ DOMAIN task = Tasks
      /\ TurnFile(t) \in OwnFiles(active.id) /\ Matches /\ rows[active.id] = active
  BY <1>1, TurnFacts
<1>3. Matches' /\ rows'[active'.id] = active'
  BY <1>1, <1>2 DEF Matches
<1>4. CASE RunTools(t)
  <2>1. /\ task'[t].kind = "turn" /\ task'[t].at = "exporting"
        /\ task'[t].session = task[t].session /\ task'[t].turn = task[t].turn
        /\ workspace' = workspace \union {TurnFile(t)}
    BY <1>1, <1>2, <1>4 DEF RunTools, MoveTo, TaskRecord, TurnFile
  <2>2. TurnRight(t)'
    BY <1>1, <2>1 DEF TaskRight, TurnRight, TurnFile, Id
  <2> QED
    BY <1>1, <1>3, <2>1, <2>2, DiskSame
    DEF TaskRight, StepRight, StepsOf, CreateRight, LoadRight, RenameRight, At, ActiveRight,
        BaseInv, disk
<1>5. CASE TurnFails(t)
  <2>1. task'[t] = Idle
    BY <1>2, <1>5 DEF TurnFails, Finish
  <2> QED
    BY <1>1, <1>3, <2>1, NoneRight, DiskSame DEF ActiveRight, BaseInv, disk
<1> QED
  BY <1>4, <1>5

LEMMA TurnExportStep ==
  ASSUME BaseInv, NEW t \in Tasks, TaskRight(t), ActiveRight(t), DiskRight,
         Export(t), task[t].kind = "turn"
  PROVE  TaskRight(t)' /\ ActiveRight(t)' /\ DiskRight'
<1>1. /\ task[t] \in TaskRecord /\ DOMAIN task = Tasks /\ Matches
      /\ task[t].at = "exporting" /\ rows[active.id] = active
  BY TurnFacts DEF Export, At
<1>2. /\ task'[t].kind = "turn" /\ task'[t].session = task[t].session
      /\ task'[t].turn = task[t].turn
      /\ task'[t].at = "saving" /\ workspace' = workspace /\ task'[t].files = workspace
      /\ active' = active /\ snapshots' = snapshots /\ nextTurn' = nextTurn /\ rows' = rows
  BY <1>1 DEF Export, runtime, disk, TaskRecord
<1>3. TurnRight(t)'
  BY <1>1, <1>2 DEF TaskRight, TurnRight, TurnFile, Id
<1>4. TaskRight(t)'
  BY <1>2, <1>3 DEF TaskRight, StepRight, StepsOf, CreateRight, LoadRight, RenameRight, At
<1>5. ActiveRight(t)'
  BY <1>1, <1>2 DEF ActiveRight, Matches
<1> QED
  BY <1>2, <1>4, <1>5, DiskSame DEF BaseInv, disk

LEMMA SaveWorkspaceStep ==
  ASSUME BaseInv, NEW t \in Tasks, TaskRight(t), ActiveRight(t), DiskRight, SaveWorkspace(t)
  PROVE  TaskRight(t)' /\ ActiveRight(t)' /\ DiskRight'
<1>1. task[t].kind = "turn" /\ task[t].at = "saving"
  BY DEF SaveWorkspace, At
<1>2. /\ task[t] \in TaskRecord /\ DOMAIN task = Tasks /\ Matches /\ Id(t) = active.id
      /\ rows[active.id] = active
      /\ task[t].files = workspace /\ TurnFile(t) \in workspace
  BY <1>1, TurnFacts DEF TaskRight, TurnRight
<1>3. /\ task'[t].kind = "turn" /\ task'[t].session = task[t].session
      /\ task'[t].turn = task[t].turn
      /\ task'[t].at = "updating" /\ workspace' = workspace
      /\ active' = active /\ nextTurn' = nextTurn /\ rows' = rows
      /\ snapshots' = Put(snapshots, Id(t), task[t].files)
  BY <1>1, <1>2 DEF SaveWorkspace, MoveTo, runtime, TaskRecord
<1>4. /\ DOMAIN snapshots' = DOMAIN snapshots \union {Id(t)} /\ snapshots'[Id(t)] = workspace
      /\ \A r \in DOMAIN snapshots : r # Id(t) => snapshots'[r] = snapshots[r]
  BY <1>2, <1>3 DEF Put
<1>5. TurnRight(t)'
  BY <1>1, <1>2, <1>3, <1>4 DEF TaskRight, TurnRight, TurnFile, Id
<1>6. TaskRight(t)'
  BY <1>3, <1>5 DEF TaskRight, StepRight, StepsOf, CreateRight, LoadRight, RenameRight, At
<1>7. Matches' /\ SnapshotsIsolated'
  BY <1>2, <1>3, <1>4 DEF Matches, DiskRight, SnapshotsIsolated
<1> QED
  BY <1>2, <1>3, <1>6, <1>7 DEF ActiveRight, DiskRight, TurnsPast

LEMMA UpdateRowStep ==
  ASSUME BaseInv, NEW t \in Tasks, TaskRight(t), ActiveRight(t), DiskRight, UpdateRow(t)
  PROVE  TaskRight(t)' /\ ActiveRight(t)' /\ DiskRight'
<1> DEFINE s == Id(t)
           row == [Saved(t) EXCEPT !.messages = active.messages]
<1>1. task[t].kind = "turn" /\ task[t].at = "updating"
  BY DEF UpdateRow, At
<1>2. /\ task[t] \in TaskRecord /\ DOMAIN task = Tasks /\ Matches /\ s = active.id
      /\ rows[s] = active /\ task[t].session = active /\ active \in SessionRecord
      /\ task[t].turn \in 1 .. MaxTurns /\ task[t].turn = nextTurn - 1 /\ s \in DOMAIN rows
      /\ s \in DOMAIN snapshots /\ TurnFile(t) \in snapshots[s]
  BY <1>1, TurnFacts DEF TaskRight, TurnRight
<1>3. /\ task'[t].kind = "turn" /\ task'[t].session = task[t].session
      /\ task'[t].turn = task[t].turn
      /\ task'[t].at = "inserting" /\ workspace' = workspace
      /\ active' = active /\ nextTurn' = nextTurn /\ snapshots' = snapshots
      /\ rows' = Put(rows, s, [Saved(t) EXCEPT !.messages = rows[s].messages])
  BY <1>1, <1>2 DEF UpdateRow, Store, MoveTo, runtime, TaskRecord
<1>4. /\ DOMAIN rows' = DOMAIN rows /\ rows'[s] = row
      /\ \A r \in DOMAIN rows : r # s => rows'[r] = rows[r]
  BY <1>2, <1>3 DEF Put
<1>5. row.history = Append(active.history, task[t].turn) /\ row.messages = active.messages
  BY <1>2 DEF Saved, RuntimeSession
<1>6. /\ active.history \in Seq(1 .. MaxTurns) /\ Len(row.history) = Len(active.history) + 1
      /\ Len(active.history) \in Nat
      /\ \A k \in 1 .. Len(active.history) : row.history[k] = active.history[k]
      /\ row.history[Len(active.history) + 1] = task[t].turn
  BY <1>2, <1>5, AppendProperties, LenProperties DEF SessionRecord
<1>7. \A r \in DOMAIN rows : \A turn \in rows[r].messages : turn < task[t].turn
  BY <1>1 DEF TaskRight, TurnRight
<1>8. TurnRight(t)'
  <2>1. Saved(t)' = Saved(t)
    BY <1>3 DEF Saved
  <2>2. ASSUME NEW r \in DOMAIN rows'
        PROVE  \A turn \in rows'[r].messages : turn < task'[t].turn
    <3>1. rows'[r].messages = rows[r].messages /\ r \in DOMAIN rows
      BY <1>2, <1>4, <1>5
    <3> QED
      BY <1>3, <1>7, <3>1
  <2> QED
    BY <1>2, <1>3, <1>4, <2>1, <2>2 DEF TurnRight, TurnFile, Id
<1>9. TaskRight(t)'
  BY <1>3, <1>8 DEF TaskRight, StepRight, StepsOf, CreateRight, LoadRight, RenameRight, At
<1>10. TurnsPast'
  <2>1. nextTurn \in Nat
    BY TurnsAssumption DEF BaseInv, StateTyped
  <2>2. \A k \in 1 .. Len(row.history) : row.history[k] < nextTurn
    BY <1>2, <1>6, <2>1 DEF DiskRight, TurnsPast
  <2>3. \A turn \in row.messages : turn < nextTurn
    BY <1>2, <1>5 DEF DiskRight, TurnsPast
  <2> QED
    BY <1>2, <1>3, <1>4, <2>2, <2>3, TurnsPastStored DEF DiskRight
<1> QED
  BY <1>2, <1>3, <1>9, <1>10 DEF ActiveRight, Writing, At, Matches, DiskRight, SnapshotsIsolated

LEMMA InsertMessagesStep ==
  ASSUME BaseInv, NEW t \in Tasks, TaskRight(t), ActiveRight(t), DiskRight, InsertMessages(t)
  PROVE  TaskRight(t)' /\ ActiveRight(t)' /\ DiskRight'
<1> DEFINE s == Id(t)
           row == [rows[s] EXCEPT !.messages = @ \union {task[t].turn}]
<1>1. task[t].kind = "turn" /\ task[t].at = "inserting"
  BY DEF InsertMessages, At
<1>2. /\ task[t] \in TaskRecord /\ DOMAIN task = Tasks /\ Matches /\ s = active.id
      /\ task[t].session = active /\ active \in SessionRecord /\ s \in DOMAIN rows
      /\ rows[s] = [Saved(t) EXCEPT !.messages = active.messages]
      /\ task[t].turn \in 1 .. MaxTurns /\ task[t].turn = nextTurn - 1
  BY <1>1, TurnFacts DEF TaskRight, TurnRight
<1>3. /\ task'[t] = Idle /\ active' = Saved(t) /\ workspace' = workspace
      /\ nextTurn' = nextTurn /\ snapshots' = snapshots /\ rows' = Put(rows, s, row)
  BY <1>2 DEF InsertMessages, Store, Finish
<1>4. /\ DOMAIN rows' = DOMAIN rows /\ rows'[s] = row
      /\ \A r \in DOMAIN rows : r # s => rows'[r] = rows[r]
  BY <1>2, <1>3 DEF Put
<1>5. Saved(t).id = s /\ row = Saved(t)
  <2>1. rows[s] = [Saved(t) EXCEPT !.messages = active.messages]
    BY <1>2
  <2>2. /\ Saved(t).messages = active.messages \union {task[t].turn}
        /\ Saved(t) = [id |-> Saved(t).id, title |-> Saved(t).title,
                       history |-> Saved(t).history, messages |-> Saved(t).messages]
        /\ Saved(t).id = s
    BY <1>2 DEF Saved, RuntimeSession, Id
  <2> QED
    BY <2>1, <2>2
<1>6. Matches' /\ rows'[active'.id] = active'
  BY <1>2, <1>3, <1>4, <1>5 DEF Matches
<1>7. TurnsPast'
  <2>1. nextTurn \in Nat /\ rows[s].history = row.history
        /\ row.messages = rows[s].messages \union {task[t].turn}
    BY <1>2, TurnsAssumption DEF BaseInv, StateTyped, SessionRecord
  <2>2. /\ \A k \in 1 .. Len(rows[s].history) : rows[s].history[k] < nextTurn
        /\ \A turn \in rows[s].messages : turn < nextTurn
    BY <1>2 DEF DiskRight, TurnsPast
  <2>3. \A turn \in row.messages : turn < nextTurn
    BY <1>2, <2>1, <2>2
  <2> QED
    BY <1>2, <1>3, <1>4, <2>1, <2>2, <2>3, TurnsPastStored DEF DiskRight
<1> QED
  BY <1>3, <1>6, <1>7, NoneRight DEF ActiveRight, DiskRight, SnapshotsIsolated

(***************************************************************************)
(* Renaming a session.                                                     *)
(***************************************************************************)
LEMMA RenameStep ==
  ASSUME BaseInv, NEW t \in Tasks, TaskRight(t), ActiveRight(t), DiskRight, Rename(t)
  PROVE  TaskRight(t)' /\ ActiveRight(t)' /\ DiskRight'
<1>1. task[t] = Idle /\ DOMAIN task = Tasks
  BY DEF Rename, Begin, BaseInv, StateTyped
<1>2. /\ task'[t].kind = "rename" /\ task'[t].at = "updating"
      /\ workspace' = workspace /\ active' = active /\ rows' = rows /\ snapshots' = snapshots
      /\ nextTurn' = nextTurn
  BY <1>1 DEF Begin, Rename, runtime, disk
<1>3. TaskRight(t)'
  BY <1>2 DEF TaskRight, StepRight, StepsOf, CreateRight, LoadRight, TurnRight, RenameRight, At
<1>4. ActiveRight(t)'
  BY <1>1, <1>2 DEF ActiveRight, Between, Writing, Matches, At, Idle
<1> QED
  BY <1>2, <1>3, <1>4, DiskSame DEF BaseInv, disk

LEMMA UpdateTitleStep ==
  ASSUME BaseInv, NEW t \in Tasks, TaskRight(t), ActiveRight(t), DiskRight, UpdateTitle(t)
  PROVE  TaskRight(t)' /\ ActiveRight(t)' /\ DiskRight'
<1> DEFINE s == Id(t)
           row == [rows[s] EXCEPT !.title = "renamed"]
<1>1. /\ task[t].kind = "rename" /\ task[t].at = "updating" /\ s \in DOMAIN rows
      /\ task[t] \in TaskRecord /\ DOMAIN task = Tasks /\ rows[s] \in SessionRecord
  BY DEF UpdateTitle, At, BaseInv, SessionsStored, StateTyped
<1>2. /\ task'[t].kind = "rename" /\ task'[t].session = task[t].session
      /\ task'[t].at = "reading" /\ workspace' = workspace
      /\ active' = active /\ nextTurn' = nextTurn /\ snapshots' = snapshots
      /\ rows' = Put(rows, s, row)
  BY <1>1 DEF UpdateTitle, Store, MoveTo, runtime, TaskRecord
<1>3. /\ DOMAIN rows' = DOMAIN rows /\ rows'[s] = row
      /\ \A r \in DOMAIN rows : r # s => rows'[r] = rows[r]
  BY <1>1, <1>2 DEF Put
<1>4. row.history = rows[s].history /\ row.messages = rows[s].messages /\ row.title = "renamed"
  BY <1>1 DEF SessionRecord
<1>5. active.id # NoSession => rows[active.id] = active /\ active.id \in DOMAIN rows
  BY <1>1 DEF ActiveRight, Writing, At, BaseInv, SessionsStored
<1>6. RenameRight(t)'
  <2>1. Id(t)' = s /\ rows'[s].title = "renamed"
    BY <1>2, <1>3, <1>4 DEF Id
  <2>2. ASSUME active.id # NoSession
        PROVE  rows'[active.id] = IF active.id = s THEN [active EXCEPT !.title = "renamed"]
                                                  ELSE active
    BY <1>3, <1>5, <2>2
  <2> QED
    BY <1>2, <2>1, <2>2 DEF RenameRight
<1>7. TaskRight(t)'
  BY <1>2, <1>6 DEF TaskRight, StepRight, StepsOf, CreateRight, LoadRight, TurnRight
<1>8. ActiveRight(t)'
  BY <1>1, <1>2 DEF ActiveRight, Between, Writing, At, Matches
<1>9. TurnsPast'
  <2>1. /\ \A k \in 1 .. Len(rows[s].history) : rows[s].history[k] < nextTurn
        /\ \A turn \in rows[s].messages : turn < nextTurn
    BY <1>1 DEF DiskRight, TurnsPast
  <2> QED
    BY <1>1, <1>2, <1>3, <1>4, <2>1, TurnsPastStored DEF DiskRight
<1> QED
  BY <1>2, <1>7, <1>8, <1>9 DEF DiskRight, SnapshotsIsolated

LEMMA ShowTitleStep ==
  ASSUME BaseInv, NEW t \in Tasks, TaskRight(t), ActiveRight(t), DiskRight, ShowTitle(t)
  PROVE  TaskRight(t)' /\ ActiveRight(t)' /\ DiskRight'
<1>1. /\ task[t].kind = "rename" /\ task[t].at = "reading"
      /\ DOMAIN task = Tasks /\ active \in SessionRecord
      /\ rows[Id(t)].title = "renamed"
      /\ active.id # NoSession =>
           rows[active.id] = IF active.id = Id(t) THEN [active EXCEPT !.title = "renamed"] ELSE active
  BY DEF ShowTitle, At, BaseInv, StateTyped, TaskRight, RenameRight
<1>2. /\ task'[t] = Idle /\ workspace' = workspace
      /\ rows' = rows /\ nextTurn' = nextTurn /\ snapshots' = snapshots
      /\ active' = IF active.id = Id(t) THEN [active EXCEPT !.title = "renamed"] ELSE active
  BY <1>1 DEF ShowTitle, Finish, disk
<1>3. active'.id = active.id
  BY <1>1, <1>2 DEF SessionRecord
<1>4. active.id # NoSession => Matches' /\ rows'[active'.id] = active'
  BY <1>1, <1>2, <1>3 DEF ActiveRight, Between, Matches
<1> QED
  BY <1>2, <1>3, <1>4, NoneRight, DiskSame DEF ActiveRight, BaseInv, disk

-----------------------------------------------------------------------------

LEMMA WaitingInit == Init => WaitingInv
<1> SUFFICES ASSUME Init PROVE WaitingInv
  OBVIOUS
<1>1. \A t \in Tasks : task[t] = Idle
  BY DEF Init
<1>2. Alone
  BY <1>1 DEF Alone, Idle
<1>3. \A t \in Tasks : TaskRight(t)
  BY <1>1 DEF Idle, TaskRight, StepRight, StepsOf, CreateRight, LoadRight, TurnRight, RenameRight, At
<1>4. ActiveStored
  BY DEF Init, ActiveStored, Undefined, NewSession, RuntimeSession
<1>5. DiskRight
  BY DEF Init, DiskRight, TurnsPast, SnapshotsIsolated
<1> QED
  BY <1>2, <1>3, <1>4, <1>5, BaseInit DEF WaitingInv

LEMMA WaitingStep ==
  ASSUME Patient, ~Faulty
  PROVE  WaitingInv /\ [Next]_vars => WaitingInv'
<1> SUFFICES ASSUME WaitingInv, [Next]_vars PROVE WaitingInv'
  OBVIOUS
<1>1. BaseInv /\ BaseInv'
  BY BaseStep DEF WaitingInv
<1>2. CASE UNCHANGED vars
  <2>1. /\ workspace' = workspace /\ active' = active /\ queue' = queue /\ task' = task
        /\ rows' = rows /\ snapshots' = snapshots /\ nextTurn' = nextTurn
    BY <1>2 DEF vars, runtime, disk
  <2>2. Alone'
    BY <2>1 DEF WaitingInv, Alone
  <2>3. ASSUME NEW t \in Tasks PROVE TaskRight(t)'
    <3>1. /\ StepRight(t) /\ CreateRight(t) /\ LoadRight(t) /\ TurnRight(t) /\ RenameRight(t)
      BY DEF WaitingInv, TaskRight
    <3>2. StepRight(t)'
      BY <2>1, <3>1 DEF StepRight
    <3>3. CreateRight(t)'
      BY <2>1, <3>1, Zenon DEF CreateRight, Id
    <3>4. LoadRight(t)'
      BY <2>1, <3>1, Zenon DEF LoadRight, Id, HasSnapshot
    <3>5. TurnRight(t)'
      BY <2>1, <3>1, Zenon DEF TurnRight, Id, TurnFile, Saved
    <3>6. RenameRight(t)'
      BY <2>1, <3>1, Zenon DEF RenameRight, Id, At
    <3> QED
      BY <3>2, <3>3, <3>4, <3>5, <3>6 DEF TaskRight
  <2>4. ActiveStored'
    BY <2>1 DEF WaitingInv, ActiveStored, Between, Writing, At, Matches
  <2>5. DiskRight'
    BY <2>1 DEF WaitingInv, DiskRight, TurnsPast, SnapshotsIsolated
  <2> QED
    BY <1>1, <2>2, <2>3, <2>4, <2>5 DEF WaitingInv
<1>3. CASE Reload
  <2>1. /\ active' = Undefined /\ rows' = rows /\ snapshots' = snapshots /\ nextTurn' = nextTurn
        /\ \A t \in Tasks : task'[t] = Idle
    BY <1>3 DEF Reload, disk
  <2>2. Alone'
    BY <2>1 DEF Alone, Idle
  <2>3. \A t \in Tasks : TaskRight(t)'
    BY <2>1, NoneRight
  <2>4. ActiveStored'
    BY <2>1 DEF ActiveStored, Undefined, NewSession, RuntimeSession
  <2>5. DiskRight'
    BY <2>1 DEF WaitingInv, DiskRight, TurnsPast, SnapshotsIsolated
  <2> QED
    BY <1>1, <2>2, <2>3, <2>4, <2>5 DEF WaitingInv
<1>4. ASSUME NEW t \in Tasks, Load(t)
      PROVE  WaitingInv'
  BY <1>1, <1>4, LoadStep
<1>5. ASSUME NEW t \in Tasks, Create(t) \/ Turn(t) \/ Rename(t)
      PROVE  WaitingInv'
  <2>1. SoloStep(t) /\ Alone'
    BY <1>1, <1>5, SoloCreateTurnRename
  <2>2. TaskRight(t) /\ ActiveRight(t) /\ DiskRight
    BY <2>1, SoloBefore
  <2>3. TaskRight(t)' /\ ActiveRight(t)' /\ DiskRight'
    BY <1>1, <1>5, <2>2, CreateStep, TurnStep, RenameStep
  <2> QED
    BY <1>1, <2>1, <2>3, SoloAfter
<1>6. ASSUME NEW t \in Tasks, Proceed(t)
      PROVE  WaitingInv'
  <2>1. task[t].kind # "none" /\ task'[t].kind \in {"none", task[t].kind}
    BY <1>1, <1>6, ProceedKinds DEF BaseInv
  <2>2. SoloStep(t) /\ Alone'
    BY <1>1, <1>6, <2>1, SoloProceed DEF WaitingInv
  <2>3. TaskRight(t) /\ ActiveRight(t) /\ DiskRight
    BY <2>2, SoloBefore
  <2>4. TaskRight(t)' /\ ActiveRight(t)' /\ DiskRight'
    <3>1. CASE ReadRow(t) \/ ReadSnapshot(t)
      <4>1. task[t].kind = "load"
        BY <3>1 DEF ReadRow, ReadSnapshot, At
      <4> QED
        BY <1>1, <2>3, <3>1, <4>1, RestoreStep
    <3>2. CASE Clear(t)
      <4>1. task[t].kind \in {"create", "load"}
        BY <3>2 DEF Clear, At
      <4> QED
        BY <1>1, <2>3, <3>2, <4>1, RestoreStep, CreateClearStep
    <3>3. CASE MountCreated(t)
      <4>1. task[t].kind = "create"
        BY <3>3 DEF MountCreated, At
      <4> QED
        BY <1>1, <2>3, <3>3, <4>1, CreateClearStep
    <3>4. CASE Export(t)
      <4>1. task[t].kind \in {"create", "turn"}
        BY <3>4 DEF Export, At
      <4> QED
        BY <1>1, <2>3, <3>4, <4>1, CreateExportStep, TurnExportStep
    <3>5. CASE InsertRow(t) \/ SaveCreated(t) \/ MountRestored(t)
      BY <1>1, <2>3, <3>5, InsertRowStep, SaveCreatedStep, MountRestoredStep
    <3>6. CASE RunTools(t) \/ TurnFails(t) \/ SaveWorkspace(t) \/ UpdateRow(t) \/ InsertMessages(t)
      BY <1>1, <2>3, <3>6, RunToolsStep, SaveWorkspaceStep, UpdateRowStep, InsertMessagesStep
    <3>7. CASE UpdateTitle(t) \/ ShowTitle(t)
      BY <1>1, <2>3, <3>7, UpdateTitleStep, ShowTitleStep
    <3> QED
      BY <1>6, <3>1, <3>2, <3>3, <3>4, <3>5, <3>6, <3>7
      DEF Proceed, RestoreFallsBack, RestoreFails, TaskFails
  <2> QED
    BY <1>1, <2>2, <2>4, SoloAfter
<1> QED
  BY <1>2, <1>3, <1>4, <1>5, <1>6 DEF Next, Act

THEOREM WaitingInvariant ==
  ASSUME Patient, ~Faulty
  PROVE  Spec => []WaitingInv
BY WaitingInit, WaitingStep, PTL DEF Spec

-----------------------------------------------------------------------------

\* The sessions share one workspace directory and never see each other's files
\* (index.ts:133-180, 232-245, 393-406).
THEOREM SessionsApart ==
  ASSUME Patient, ~Faulty
  PROVE  Spec => []WorkspacesApart
<1>1. WaitingInv => WorkspacesApart
  <2> SUFFICES ASSUME WaitingInv PROVE WorkspacesApart
    OBVIOUS
  <2>1. MountsSerialized
    <3> DEFINE mounting == {t \in Tasks : task[t].at \in {"clearing", "mounting"}}
    <3>1. ASSUME NEW t \in mounting, NEW u \in mounting
          PROVE  t = u
      <4>1. task[t].kind \in {"create", "load"} /\ task[u].kind \in {"create", "load"}
        BY DEF WaitingInv, TaskRight, StepRight, StepsOf, BaseInv, StateTyped, TaskRecord, Kinds
      <4>2. CASE task[t].kind = "create" \/ task[u].kind = "create"
        BY <4>1, <4>2 DEF WaitingInv, Alone
      <4>3. CASE task[t].kind = "load" /\ task[u].kind = "load"
        BY <4>3 DEF WaitingInv, BaseInv, QueueInv
      <4> QED
        BY <4>1, <4>2, <4>3
    <3>2. Cardinality(mounting) <= 1
      <4>1. CASE mounting = {}
        <5>1. \A t \in mounting : t = 0
          BY <4>1
        <5> QED
          BY <5>1, AtMostOne
      <4>2. CASE mounting # {}
        <5> PICK x \in mounting : TRUE
          BY <4>2
        <5>1. \A t \in mounting : t = x
          BY <3>1
        <5> QED
          BY <5>1, AtMostOne
      <4> QED
        BY <4>1, <4>2
    <3> QED
      BY <3>2 DEF MountsSerialized
  <2>2. WorkspaceMatchesActive
    <3> SUFFICES ASSUME active # Undefined, \A t \in Tasks : task[t] = Idle
                 PROVE  Matches
      BY DEF WorkspaceMatchesActive, Matches
    <3>1. \A t \in Tasks : ~Between(t)
      BY DEF Between, Idle
    <3>2. active.id # NoSession
      BY DEF WaitingInv, BaseInv, SessionsStored
    <3> QED
      BY <3>1, <3>2 DEF WaitingInv, ActiveStored
  <2> QED
    BY <2>1, <2>2 DEF WorkspacesApart, WaitingInv, DiskRight
<1> QED
  BY <1>1, WaitingInvariant, PTL

-----------------------------------------------------------------------------

(***************************************************************************)
(* The refinement: what each step is to the journal.                       *)
(***************************************************************************)
Entry(s) == [title |-> rows[s].title, kept |-> KeptOf(s),
             turns |-> rows[s].history, shown |-> rows[s].messages]

TheJournal == [s \in DOMAIN rows |-> Entry(s)]

LEMMA JournalInit == Init => Journal!Init
<1> SUFFICES ASSUME Init PROVE Journal!Init
  OBVIOUS
<1>1. rows = << >>
  BY DEF Init
<1> QED
  BY <1>1 DEF Journal!Init

LEMMA EntriesSame ==
  ASSUME rows' = rows, snapshots' = snapshots
  PROVE  TheJournal' = TheJournal
BY DEF TheJournal, Entry, KeptOf

LEMMA InsertRowCreates ==
  ASSUME BaseInv, NEW t \in Tasks, TaskRight(t), InsertRow(t)
  PROVE  Journal!Next
<1> PICK s : s = Id(t)
  OBVIOUS
<1>1. /\ task[t].kind = "create" /\ task[t].at = "inserting"
      /\ snapshots' = snapshots /\ rows' = Put(rows, s, task[t].session)
  BY DEF InsertRow, At, Store
<1>2. /\ task[t].session = NewSession(s) /\ s \notin DOMAIN rows /\ s \in Sessions
      /\ DOMAIN snapshots \subseteq DOMAIN rows
  BY <1>1 DEF TaskRight, CreateRight, BaseInv, StateTyped, SessionsStored
<1>3. /\ DOMAIN rows' = DOMAIN rows \union {s} /\ rows'[s] = NewSession(s)
      /\ \A r \in DOMAIN rows : rows'[r] = rows[r]
  BY <1>1, <1>2 DEF Put
<1>4. Entry(s)' = Journal!NewEntry
  <2>1. KeptOf(s)' = {}
    BY <1>1, <1>2 DEF KeptOf
  <2>2. Entry(s)' = [title |-> rows'[s].title, kept |-> KeptOf(s)',
                     turns |-> rows'[s].history, shown |-> rows'[s].messages]
    BY DEF Entry
  <2>3. /\ rows'[s].title = "New session" /\ rows'[s].history = << >>
        /\ rows'[s].messages = {}
    <3>1. /\ NewSession(s).title = "New session" /\ NewSession(s).history = << >>
          /\ NewSession(s).messages = {}
      BY DEF NewSession, RuntimeSession
    <3> QED
      BY <1>3, <3>1
  <2> QED
    BY <2>1, <2>2, <2>3 DEF Journal!NewEntry
<1>5. \A r \in DOMAIN rows : Entry(r)' = Entry(r)
  BY <1>1, <1>3 DEF Entry, KeptOf
<1>6. TheJournal' = [r \in DOMAIN TheJournal \union {s} |->
                       IF r = s THEN Journal!NewEntry ELSE TheJournal[r]]
  BY <1>2, <1>3, <1>4, <1>5 DEF TheJournal
<1>7. s \notin DOMAIN TheJournal
  BY <1>2 DEF TheJournal
<1> QED
  BY <1>2, <1>6, <1>7 DEF Journal!Next, Journal!Create, TheJournal, Entry

LEMMA EntryUpdates ==
  ASSUME NEW s
  PROVE  /\ \A new : [Entry(s) EXCEPT !.kept = new] =
                      [title |-> rows[s].title, kept |-> new,
                       turns |-> rows[s].history, shown |-> rows[s].messages]
         /\ \A new, name : [Entry(s) EXCEPT !.turns = new, !.title = name] =
                      [title |-> name, kept |-> KeptOf(s),
                       turns |-> new, shown |-> rows[s].messages]
<1> USE DEF Entry
<1> DEFINE Fields == {"title", "kept", "turns", "shown"}
<1>1. ASSUME NEW x, NEW y, x = [f \in Fields |-> x[f]], y = [f \in Fields |-> y[f]],
             x.title = y.title, x.kept = y.kept, x.turns = y.turns, x.shown = y.shown
      PROVE  x = y
  <2>1. \A f \in Fields : x[f] = y[f]
    BY <1>1
  <2> QED
    BY <1>1, <2>1
<1>2. ASSUME NEW new
      PROVE  [Entry(s) EXCEPT !.kept = new] =
             [title |-> rows[s].title, kept |-> new,
              turns |-> rows[s].history, shown |-> rows[s].messages]
  <2> DEFINE x == [Entry(s) EXCEPT !.kept = new]
             y == [title |-> rows[s].title, kept |-> new,
                   turns |-> rows[s].history, shown |-> rows[s].messages]
  <2>1. x = [f \in Fields |-> x[f]] /\ y = [f \in Fields |-> y[f]]
    OBVIOUS
  <2>2. x.title = y.title /\ x.kept = y.kept /\ x.turns = y.turns /\ x.shown = y.shown
    OBVIOUS
  <2> HIDE DEF x, y
  <2>3. x = y
    BY <1>1, <2>1, <2>2
  <2> QED
    BY <2>3 DEF x, y
<1>3. ASSUME NEW new, NEW name
      PROVE  [Entry(s) EXCEPT !.turns = new, !.title = name] =
             [title |-> name, kept |-> KeptOf(s), turns |-> new, shown |-> rows[s].messages]
  <2> DEFINE x == [Entry(s) EXCEPT !.turns = new, !.title = name]
             y == [title |-> name, kept |-> KeptOf(s), turns |-> new, shown |-> rows[s].messages]
  <2>1. x = [f \in Fields |-> x[f]] /\ y = [f \in Fields |-> y[f]]
    OBVIOUS
  <2>2. x.title = y.title /\ x.kept = y.kept /\ x.turns = y.turns /\ x.shown = y.shown
    OBVIOUS
  <2> HIDE DEF x, y
  <2>3. x = y
    BY <1>1, <2>1, <2>2
  <2> QED
    BY <2>3 DEF x, y
<1> QED
  BY <1>2, <1>3

LEMMA EntryChanged ==
  ASSUME NEW s \in DOMAIN rows, DOMAIN rows' = DOMAIN rows,
         \A r \in DOMAIN rows : r # s => Entry(r)' = Entry(r)
  PROVE  /\ TheJournal' = [TheJournal EXCEPT ![s] = Entry(s)']
         /\ s \in DOMAIN TheJournal /\ TheJournal[s] = Entry(s)
BY DEF TheJournal

LEMMA RowChanged ==
  ASSUME NEW s \in DOMAIN rows, NEW row, snapshots' = snapshots, rows' = Put(rows, s, row)
  PROVE  /\ TheJournal' = [TheJournal EXCEPT ![s] = [title |-> row.title, kept |-> KeptOf(s),
                                                   turns |-> row.history, shown |-> row.messages]]
         /\ s \in DOMAIN TheJournal /\ TheJournal[s] = Entry(s)
<1>1. DOMAIN rows' = DOMAIN rows /\ rows'[s] = row
      /\ \A r \in DOMAIN rows : r # s => rows'[r] = rows[r]
  BY DEF Put
<1>2. \A r \in DOMAIN rows : r # s => Entry(r)' = Entry(r)
  BY <1>1 DEF Entry, KeptOf
<1>3. Entry(s)' = [title |-> row.title, kept |-> KeptOf(s),
                   turns |-> row.history, shown |-> row.messages]
  BY <1>1 DEF Entry, KeptOf
<1> QED
  BY <1>1, <1>2, <1>3, EntryChanged

LEMMA SnapshotChanged ==
  ASSUME NEW s \in DOMAIN rows, NEW files, rows' = rows, snapshots' = Put(snapshots, s, files)
  PROVE  /\ TheJournal' = [TheJournal EXCEPT ![s] = [title |-> rows[s].title, kept |-> {file[2] : file \in files},
                                                   turns |-> rows[s].history, shown |-> rows[s].messages]]
         /\ s \in DOMAIN TheJournal /\ TheJournal[s] = Entry(s)
<1>1. /\ DOMAIN snapshots' = DOMAIN snapshots \union {s} /\ snapshots'[s] = files
      /\ \A r \in DOMAIN snapshots : r # s => snapshots'[r] = snapshots[r]
  BY DEF Put
<1>2. ASSUME NEW r \in DOMAIN rows, r # s
      PROVE  Entry(r)' = Entry(r)
  <2>1. KeptOf(r)' = KeptOf(r)
    BY <1>1, <1>2 DEF KeptOf
  <2> QED
    BY <2>1 DEF Entry
<1>3. KeptOf(s)' = {file[2] : file \in files}
  BY <1>1 DEF KeptOf
<1>4. Entry(s)' = [title |-> rows[s].title, kept |-> {file[2] : file \in files},
                   turns |-> rows[s].history, shown |-> rows[s].messages]
  BY <1>3 DEF Entry
<1> QED
  BY <1>2, <1>4, EntryChanged

LEMMA SavingKeeps ==
  ASSUME BaseInv, NEW t \in Tasks, TaskRight(t), ActiveRight(t), SaveCreated(t) \/ SaveWorkspace(t)
  PROVE  Journal!Next
<1> PICK s : s = Id(t)
  OBVIOUS
<1> DEFINE files == task[t].files
           work == {file[2] : file \in files}
<1>1. /\ rows' = rows /\ snapshots' = Put(snapshots, s, files) /\ s \in DOMAIN rows
      /\ files \in SUBSET Files /\ s \in Sessions
  BY DEF SaveCreated, SaveWorkspace, BaseInv, StateTyped, TaskRecord, SessionsStored, At
<1>2. work \in SUBSET (0 .. MaxTurns)
  BY <1>1, TurnsAssumption DEF Files, Seed
<1>3. KeptOf(s) \subseteq work
  <2>1. CASE SaveCreated(t)
    BY <2>1 DEF SaveCreated, At, TaskRight, CreateRight, KeptOf
  <2>2. CASE SaveWorkspace(t)
    <3>1. files = workspace /\ Matches /\ s = active.id
      BY <2>2, TurnFacts DEF SaveWorkspace, At, TaskRight, TurnRight
    <3> QED
      BY <3>1 DEF Matches, KeptOf
  <2> QED
    BY <2>1, <2>2
<1>4. /\ TheJournal' = [TheJournal EXCEPT ![s] = [title |-> rows[s].title, kept |-> work,
                                                  turns |-> rows[s].history, shown |-> rows[s].messages]]
      /\ s \in DOMAIN TheJournal /\ TheJournal[s] = Entry(s)
  BY <1>1, SnapshotChanged
<1>5. KeptOf(s) \union work = work
  BY <1>3
<1>6. TheJournal' = [TheJournal EXCEPT ![s] = [TheJournal[s] EXCEPT !.kept = @ \union work]]
  <2>1. TheJournal[s].kept \union work = work
    BY <1>4, <1>5 DEF Entry
  <2>2. [TheJournal[s] EXCEPT !.kept = work] =
          [title |-> rows[s].title, kept |-> work,
           turns |-> rows[s].history, shown |-> rows[s].messages]
    BY ZenonT(30), <1>4, EntryUpdates
  <2>3. TheJournal' = [TheJournal EXCEPT ![s] = [TheJournal[s] EXCEPT !.kept = work]]
    BY <1>4, <2>2
  <2> QED
    BY <2>1, <2>3
<1>7. Journal!Keep(s)
  BY <1>2, <1>6 DEF Journal!Keep, TheJournal, Entry
<1> QED
  BY <1>4, <1>7 DEF Journal!Next, TheJournal, Entry

LEMMA UpdateRowRemembers ==
  ASSUME BaseInv, NEW t \in Tasks, TaskRight(t), ActiveRight(t), UpdateRow(t)
  PROVE  Journal!Next
<1> PICK s, turn : s = Id(t) /\ turn = task[t].turn
  OBVIOUS
<1> DEFINE row == [Saved(t) EXCEPT !.messages = rows[s].messages]
<1>1. /\ task[t].kind = "turn" /\ task[t].at = "updating"
      /\ snapshots' = snapshots /\ rows' = Put(rows, s, row)
  BY DEF UpdateRow, At, Store
<1>2. /\ s = active.id /\ rows[s] = active /\ task[t].session = active /\ active \in SessionRecord
      /\ turn \in 1 .. MaxTurns /\ s \in DOMAIN rows
      /\ s \in DOMAIN snapshots /\ <<s, turn>> \in snapshots[s]
  BY <1>1, TurnFacts DEF TaskRight, TurnRight, TurnFile
<1>3. /\ row.title = IF rows[s].messages = {} THEN "user text" ELSE rows[s].title
      /\ row.history = Append(rows[s].history, turn) /\ row.messages = rows[s].messages
  BY <1>2 DEF Saved, RuntimeSession
<1>4. /\ TheJournal' = [TheJournal EXCEPT ![s] = [title |-> row.title, kept |-> KeptOf(s),
                                                  turns |-> row.history, shown |-> row.messages]]
      /\ s \in DOMAIN TheJournal /\ TheJournal[s] = Entry(s)
  BY <1>1, <1>2, RowChanged
<1>5. TheJournal' = [TheJournal EXCEPT
                       ![s].turns = Append(@, turn),
                       ![s].title = IF TheJournal[s].shown = {} THEN "user text" ELSE @]
  <2> DEFINE turns == Append(TheJournal[s].turns, turn)
             title == IF TheJournal[s].shown = {} THEN "user text" ELSE TheJournal[s].title
  <2>1. turns = row.history /\ title = row.title
    <3>1. /\ TheJournal[s].title = rows[s].title /\ TheJournal[s].turns = rows[s].history
          /\ TheJournal[s].shown = rows[s].messages
      BY <1>4 DEF Entry
    <3> QED
      BY <1>3, <3>1
  <2>2. TheJournal' = [TheJournal EXCEPT ![s] =
                         [title |-> title, kept |-> KeptOf(s),
                          turns |-> turns, shown |-> rows[s].messages]]
    BY <1>3, <1>4, <2>1
  <2> HIDE DEF turns, title
  <2>3. [TheJournal[s] EXCEPT !.turns = turns, !.title = title] =
          [title |-> title, kept |-> KeptOf(s), turns |-> turns, shown |-> rows[s].messages]
    <3>1. [Entry(s) EXCEPT !.turns = turns, !.title = title] =
            [title |-> title, kept |-> KeptOf(s), turns |-> turns, shown |-> rows[s].messages]
      BY EntryUpdates
    <3> QED
      BY <1>4, <3>1
  <2>4. TheJournal' = [TheJournal EXCEPT ![s].turns = turns, ![s].title = title]
    BY <1>4, <2>2, <2>3 DEF TheJournal
  <2> QED
    BY <1>4, <2>4 DEF turns, title, TheJournal
<1>6. turn \in TheJournal[s].kept
  BY <1>2, <1>4 DEF Entry, KeptOf
<1>7. ASSUME NEW r \in DOMAIN TheJournal, NEW k \in DOMAIN TheJournal[r].turns
      PROVE  TheJournal[r].turns[k] # turn
  <2>1. r \in DOMAIN rows /\ k \in 1 .. Len(rows[r].history)
        /\ TheJournal[r].turns[k] = rows[r].history[k]
    BY <1>7 DEF TheJournal, Entry, BaseInv, StateTyped, SessionRecord
  <2>2. rows[r].history[k] < turn
    BY <1>1, <2>1 DEF TaskRight, TurnRight
  <2> QED
    BY <1>2, <2>1, <2>2
<1>8. \A r \in DOMAIN TheJournal :
        turn \notin {TheJournal[r].turns[k] : k \in DOMAIN TheJournal[r].turns}
  BY SMTT(30), <1>7
<1>9. Journal!Remember(s, turn)
  BY <1>5, <1>6, <1>8 DEF Journal!Remember, Journal!RememberedIn, TheJournal, Entry
<1> QED
  BY <1>2, <1>4, <1>9 DEF Journal!Next, TheJournal, Entry

LEMMA InsertMessagesShows ==
  ASSUME BaseInv, NEW t \in Tasks, TaskRight(t), ActiveRight(t), InsertMessages(t)
  PROVE  Journal!Next
<1> PICK s, turn : s = Id(t) /\ turn = task[t].turn
  OBVIOUS
<1> DEFINE row == [rows[s] EXCEPT !.messages = @ \union {turn}]
<1>1. /\ task[t].kind = "turn" /\ task[t].at = "inserting"
      /\ snapshots' = snapshots /\ rows' = Put(rows, s, row)
  BY DEF InsertMessages, At, Store
<1>2. /\ s \in DOMAIN rows /\ rows[s] \in SessionRecord /\ active \in SessionRecord
      /\ turn \in 1 .. MaxTurns /\ task[t].session = active
      /\ rows[s].history = Append(active.history, turn)
      /\ rows[s] = [Saved(t) EXCEPT !.messages = active.messages]
      /\ \A other \in rows[s].messages : other < turn
  <2>1. /\ Id(t) \in DOMAIN rows /\ active \in SessionRecord
        /\ task[t].turn \in 1 .. MaxTurns /\ task[t].session = active
    BY <1>1, TurnFacts
  <2>2. rows[s] \in SessionRecord
    BY <2>1 DEF BaseInv, StateTyped
  <2>3. /\ rows[s] = [Saved(t) EXCEPT !.messages = active.messages]
        /\ \A other \in rows[s].messages : other < turn
    BY <1>1, <2>1 DEF TaskRight, TurnRight
  <2>4. Saved(t).history = Append(active.history, turn)
    BY <2>1 DEF Saved, RuntimeSession
  <2>5. Saved(t) = [id |-> Saved(t).id, title |-> Saved(t).title,
                    history |-> Saved(t).history, messages |-> Saved(t).messages]
    BY DEF Saved, RuntimeSession
  <2> QED
    BY <2>1, <2>2, <2>3, <2>4, <2>5
<1>3. /\ row.title = rows[s].title /\ row.history = rows[s].history
      /\ row.messages = rows[s].messages \union {turn}
  BY <1>2 DEF SessionRecord
<1>4. /\ TheJournal' = [TheJournal EXCEPT ![s] = [title |-> row.title, kept |-> KeptOf(s),
                                                  turns |-> row.history, shown |-> row.messages]]
      /\ s \in DOMAIN TheJournal /\ TheJournal[s] = Entry(s)
  BY <1>1, <1>2, RowChanged
<1>5. TheJournal' = [TheJournal EXCEPT ![s] = [TheJournal[s] EXCEPT !.shown = @ \union {turn}]]
  <2>1. [Entry(s) EXCEPT !.shown = rows[s].messages \union {turn}] =
          [title |-> row.title, kept |-> KeptOf(s), turns |-> row.history, shown |-> row.messages]
    BY <1>3 DEF Entry
  <2>2. Entry(s).shown = rows[s].messages
    BY DEF Entry
  <2> QED
    BY <1>4, <2>1, <2>2
<1>6. turn \notin TheJournal[s].shown
  BY <1>2, <1>4 DEF Entry
<1>7. \E k \in DOMAIN TheJournal[s].turns : TheJournal[s].turns[k] = turn
  <2>1. /\ Len(active.history) + 1 \in DOMAIN Append(active.history, turn)
        /\ Append(active.history, turn)[Len(active.history) + 1] = turn
    BY SMTT(30), <1>2, AppendProperties, LenProperties DEF SessionRecord
  <2> QED
    BY <1>2, <1>4, <2>1 DEF Entry
<1>8. Journal!Show(s, turn)
  BY <1>5, <1>6, <1>7 DEF Journal!Show, Journal!RememberedIn, TheJournal, Entry
<1> QED
  BY <1>2, <1>4, <1>8 DEF Journal!Next, TheJournal, Entry

LEMMA UpdateTitleRenames ==
  ASSUME BaseInv, NEW t \in Tasks, UpdateTitle(t)
  PROVE  Journal!Next
<1> PICK s : s = Id(t)
  OBVIOUS
<1> DEFINE row == [rows[s] EXCEPT !.title = "renamed"]
<1>1. /\ snapshots' = snapshots /\ rows' = Put(rows, s, row)
      /\ s \in DOMAIN rows /\ rows[s] \in SessionRecord
  BY DEF UpdateTitle, At, Store, BaseInv, StateTyped, SessionsStored
<1>2. row.title = "renamed" /\ row.history = rows[s].history /\ row.messages = rows[s].messages
  BY <1>1 DEF SessionRecord
<1>3. /\ TheJournal' = [TheJournal EXCEPT ![s] = [title |-> row.title, kept |-> KeptOf(s),
                                                  turns |-> row.history, shown |-> row.messages]]
      /\ s \in DOMAIN TheJournal /\ TheJournal[s] = Entry(s)
  BY <1>1, RowChanged
<1>4. TheJournal' = [TheJournal EXCEPT ![s] = [TheJournal[s] EXCEPT !.title = "renamed"]]
  <2>1. [Entry(s) EXCEPT !.title = "renamed"] =
          [title |-> row.title, kept |-> KeptOf(s), turns |-> row.history, shown |-> row.messages]
    BY <1>2 DEF Entry
  <2> QED
    BY <1>3, <2>1
<1>5. Journal!Rename(s)
  BY <1>4 DEF Journal!Rename, TheJournal, Entry
<1> QED
  BY <1>3, <1>5 DEF Journal!Next, TheJournal, Entry

LEMMA JournalStep ==
  ASSUME Patient, ~Faulty
  PROVE  WaitingInv /\ [Next]_vars => Journal!Next \/ TheJournal' = TheJournal
<1> SUFFICES ASSUME WaitingInv, [Next]_vars PROVE Journal!Next \/ TheJournal' = TheJournal
  OBVIOUS
<1>1. BaseInv
  BY DEF WaitingInv
<1>2. CASE UNCHANGED disk
  BY <1>2, EntriesSame DEF disk
<1>3. ASSUME NEW t \in Tasks, InsertRow(t) \/ SaveCreated(t) \/ SaveWorkspace(t) \/ UpdateRow(t)
                              \/ InsertMessages(t) \/ UpdateTitle(t)
      PROVE  Journal!Next
  <2>1. Proceed(t)
    BY <1>3 DEF Proceed
  <2>2. task[t].kind # "none" /\ task'[t].kind \in {"none", task[t].kind}
    BY <1>1, <2>1, ProceedKinds DEF BaseInv
  <2>3. SoloStep(t)
    BY <1>1, <2>1, <2>2, SoloProceed DEF WaitingInv
  <2>4. TaskRight(t) /\ ActiveRight(t)
    BY <2>3, SoloBefore
  <2> QED
    BY <1>1, <1>3, <2>4, InsertRowCreates, SavingKeeps, UpdateRowRemembers,
       InsertMessagesShows, UpdateTitleRenames
<1>4. CASE UNCHANGED vars
  BY <1>2, <1>4 DEF vars
<1>5. CASE Reload
  BY <1>2, <1>5 DEF Reload
<1>6. ASSUME NEW t \in Tasks, Act(t)
      PROVE  UNCHANGED disk
  BY <1>6 DEF Act, Create, Load, Turn, Rename
<1>7. ASSUME NEW t \in Tasks, Proceed(t)
      PROVE  Journal!Next \/ UNCHANGED disk
  BY <1>3, <1>7 DEF Proceed, ReadRow, ReadSnapshot, Clear, MountCreated, MountRestored, Export,
     RunTools, TurnFails, ShowTitle, RestoreFallsBack, RestoreFails, TaskFails
<1> QED
  BY <1>2, <1>4, <1>5, <1>6, <1>7 DEF Next

\* The rows and snapshots are a journal of the sessions, even if the page is
\* reloaded in the middle of saving (index.ts:232-244, storage.ts:106-172).
THEOREM DiskIsJournal ==
  ASSUME Patient, ~Faulty
  PROVE  Spec => JournalKept
<1>1. WaitingInv /\ [Next]_vars => [Journal!Next]_TheJournal
  BY JournalStep
<1>2. Spec => []WaitingInv
  BY WaitingInvariant
<1>3. Spec => Journal!Init /\ [][Journal!Next]_TheJournal
  BY <1>1, <1>2, JournalInit, PTL DEF Spec
<1>4. JournalKept <=> Journal!Init /\ [][Journal!Next]_TheJournal
  BY DEF JournalKept, Journal!Spec, TheJournal, Entry
<1> QED
  BY <1>3, <1>4
=============================================================================
