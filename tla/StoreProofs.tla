------------------------------ MODULE StoreProofs ------------------------------
(***************************************************************************)
(* Theorems about ConversationStore, for any number of stores, sessions,   *)
(* turns and failures: the connections of a page, the migration of an      *)
(* old database, and what a reload of the page brings back.                *)
(***************************************************************************)
EXTENDS ConversationStore, WellFoundedInduction, SequenceTheorems, FiniteSetTheorems, TLAPS

Stages == {"none", "connect", "table_info", "rename", "create", "copy", "drop",
           "create tables", "open"}

\* The promise in the page's map is the only attempt there is, every store that
\* joined one joined that, and it is over for a store that is initialized.
ConnectionInv ==
  /\ databases \in Stores \union {NoStore}
  /\ attempt \in [Stores -> Stages]
  /\ joined \in [Stores -> Stores \union {NoStore}]
  /\ initialized \subseteq Stores
  /\ \A s \in Stores : attempt[s] # "none" <=> s = databases
  /\ \A s \in Stores : joined[s] \in {NoStore, databases}
  /\ \A s \in initialized : databases # NoStore /\ joined[s] = databases /\ At(databases, "open")

\* A connection is left open by a failure, and each failure leaves one at most.
LeakInv == faults \in 0 .. MaxFaults /\ leaked \in 0 .. faults

RowRecord ==
  [title : Titles, created : 0 .. MaxTime, updated : 0 .. MaxTime, history : Seq(1 .. MaxTime)]

TableTyped(table) ==
  /\ DOMAIN table \subseteq Sessions
  /\ table \in [DOMAIN table -> RowRecord]
  /\ \A id \in DOMAIN table : table[id].created <= table[id].updated /\ table[id].updated <= clock

\* Where the rows are at each stage of the migration.
StageRight(s) ==
  /\ At(s, "rename") => schema = "with column"
  /\ At(s, "create") => schema = "missing"
  /\ At(s, "copy") => schema = "without column" /\ DOMAIN sessions = {}
  /\ At(s, "drop") => schema = "without column" /\ sessions = renamed
  /\ At(s, "create tables") => schema # "with column"
  /\ At(s, "open") => schema = "without column"

FileInv ==
  /\ schema \in {"missing", "with column", "without column"}
  /\ TableTyped(sessions) /\ TableTyped(renamed)
  /\ schema = "missing" => sessions = << >>
  /\ schema = "with column" => DOMAIN renamed = {}
  /\ \A s \in Stores : StageRight(s)

\* What an uninterrupted migration has put aside is back.
CopiedBack == ~interrupted /\ ~InMigration => DOMAIN renamed \subseteq DOMAIN sessions

MessageRecord ==
  [session : Sessions, role : {"user", "assistant"}, turn : Nat, created : Nat]

MessagesInv ==
  /\ messages \in Seq(MessageRecord)
  /\ \A k \in DOMAIN messages : messages[k].session \in Kept

Operation ==
  [kind : {"none", "create", "rename", "turn"},
   at : {"done", "insert", "update", "read", "insert user", "insert assistant"},
   id : Sessions \union {NoSession}, title : Titles, now : 0 .. MaxTime]

\* An operation runs on an open store, and works on a session that is stored
\* or, to create it, on a new one.
WorkInv ==
  /\ clock \in 2 .. MaxTime
  /\ op \in Operation
  /\ op # NoOp => initialized # {} /\ op.now = clock
  /\ op.kind = "create" => op.id \in Sessions
  /\ op.kind \in {"rename", "turn"} => op.id \in DOMAIN sessions
  /\ DOMAIN held = {"id", "row", "messages"} /\ held = [f \in DOMAIN held |-> held[f]]
  /\ held.id \in Sessions \union {NoSession} /\ held.row \in RowRecord
  /\ held.id # NoSession => held.id \in DOMAIN sessions /\ initialized # {}

StoreInv == ConnectionInv /\ LeakInv /\ FileInv /\ CopiedBack /\ MessagesInv /\ WorkInv

-----------------------------------------------------------------------------

LEMMA NoRows == DOMAIN << >> = {} /\ << >> \in [{} -> RowRecord]
OBVIOUS

LEMMA OnlyOne ==
  ASSUME ConnectionInv, NEW s \in Stores, attempt[s] # "none"
  PROVE  /\ databases = s /\ \A u \in Stores : u # s => attempt[u] = "none"
         /\ attempt[s] # "open" => initialized = {}
BY DEF ConnectionInv, At

LEMMA SchemaMoves ==
  ASSUME ConnectionInv, NEW s \in Stores, Schema(s)
  PROVE  /\ attempt[s] \notin {"none", "open"} /\ attempt'[s] \in Stages \ {"none"}
         /\ attempt' = [attempt EXCEPT ![s] = attempt'[s]]
         /\ UNCHANGED <<databases, joined, initialized, work, clock, faults, interrupted>>
<1>1. DOMAIN attempt = Stores
  BY DEF ConnectionInv
<1> QED
  BY <1>1 DEF Schema, Connect, TableInfo, RenameTable, CreateTable, CopyRows, DropTable,
     CreateTables, At, MoveTo, Stages

LEMMA ConnectionKept == StoreInv /\ [Next]_vars => ConnectionInv'
<1> SUFFICES ASSUME StoreInv, [Next]_vars PROVE ConnectionInv'
  OBVIOUS
<1> USE NamesAssumption
<1>1. ConnectionInv
  BY DEF StoreInv
<1>2. CASE UNCHANGED connection
  BY <1>1, <1>2 DEF ConnectionInv, connection, At
<1>3. ASSUME NEW s \in Stores, InitStore(s)
      PROVE  ConnectionInv'
  <2>1. /\ joined[s] = NoStore /\ initialized' = initialized
        /\ joined' = [joined EXCEPT ![s] = databases']
    BY <1>3 DEF InitStore
  <2>2. s \notin initialized
    BY <1>1, <2>1 DEF ConnectionInv
  <2>3. CASE databases = NoStore
    <3>1. databases' = s /\ attempt' = [attempt EXCEPT ![s] = "connect"]
      BY <1>3, <2>3 DEF InitStore
    <3>2. initialized = {}
      BY <1>1, <2>3 DEF ConnectionInv
    <3> QED
      BY <1>1, <2>1, <2>3, <3>1, <3>2 DEF ConnectionInv, Stages, At
  <2>4. CASE databases # NoStore
    <3>1. databases' = databases /\ attempt' = attempt
      BY <1>3, <2>4 DEF InitStore
    <3> QED
      BY <1>1, <2>1, <2>2, <2>4, <3>1 DEF ConnectionInv, At
  <2> QED
    BY <2>3, <2>4
<1>4. ASSUME NEW s \in Stores, Schema(s)
      PROVE  ConnectionInv'
  <2>1. /\ attempt[s] \notin {"none", "open"} /\ attempt'[s] \in Stages \ {"none"}
        /\ attempt' = [attempt EXCEPT ![s] = attempt'[s]]
        /\ databases' = databases /\ joined' = joined /\ initialized' = initialized
    BY <1>1, <1>4, SchemaMoves
  <2>2. initialized = {}
    BY <1>1, <2>1, OnlyOne
  <2>3. \A u \in Stores : u # s => attempt'[u] = attempt[u]
    BY <1>1, <2>1 DEF ConnectionInv
  <2>4. attempt' \in [Stores -> Stages]
    BY <1>1, <2>1 DEF ConnectionInv
  <2> QED
    BY <1>1, <2>1, <2>2, <2>3, <2>4 DEF ConnectionInv
<1>5. ASSUME NEW s \in Stores, InitDone(s)
      PROVE  ConnectionInv'
  <2>1. databases = s
    BY <1>1, <1>5, OnlyOne DEF InitDone, At
  <2> QED
    BY <1>1, <1>5, <2>1 DEF ConnectionInv, InitDone, Waiting, At
<1>6. ASSUME NEW s \in Stores, InitFails(s)
      PROVE  ConnectionInv'
  <2>1. databases = s /\ initialized = {} /\ \A u \in Stores : u # s => attempt[u] = "none"
    BY <1>1, <1>6, OnlyOne DEF InitFails
  <2>2. /\ databases' = NoStore /\ attempt' = [attempt EXCEPT ![s] = "none"]
        /\ initialized' = initialized
        /\ joined' = [u \in Stores |-> IF u \in Waiting(s) THEN NoStore ELSE joined[u]]
    BY <1>6, <2>1 DEF InitFails
  <2>3. joined' = [u \in Stores |-> NoStore]
    BY <1>1, <2>1, <2>2 DEF ConnectionInv, Waiting
  <2>4. attempt' = [u \in Stores |-> "none"]
    BY <1>1, <2>1, <2>2 DEF ConnectionInv
  <2> QED
    BY <2>1, <2>2, <2>3, <2>4 DEF ConnectionInv, Stages, At
<1>7. CASE Reload
  BY <1>7 DEF Reload, ConnectionInv, Stages
<1> QED
  BY <1>2, <1>3, <1>4, <1>5, <1>6, <1>7
  DEF Next, vars, createSession, renameSession, saveTurn, loadSession, Begin, Statement,
      InsertSession, UpdateTitle, ReadSummary, UpdateSession, InsertUserMessage,
      InsertAssistantMessage, Unfailed, StatementFails

LEMMA LeaksCounted == LeakInv /\ [Next]_vars => LeakInv'
<1> SUFFICES ASSUME LeakInv, [Next]_vars PROVE LeakInv'
  OBVIOUS
<1> USE BoundsAssumption
<1>1. CASE UNCHANGED <<leaked, faults>>
  BY <1>1 DEF LeakInv
<1>2. ASSUME NEW s \in Stores, InitFails(s) PROVE LeakInv'
  BY <1>2 DEF InitFails, Fault, Leaves, LeakInv
<1>3. CASE Reload
  BY <1>3 DEF Reload, Fault, LeakInv
<1>4. CASE StatementFails
  BY <1>4 DEF StatementFails, Fault, connection, LeakInv
<1> QED
  BY <1>1, <1>2, <1>3, <1>4
  DEF Next, vars, connection, InitStore, Schema, Connect, TableInfo, RenameTable, CreateTable,
      CopyRows, DropTable, CreateTables, MoveTo, InitDone, createSession, renameSession, saveTurn,
      loadSession, Begin, Statement, InsertSession, UpdateTitle, ReadSummary, UpdateSession,
      InsertUserMessage, InsertAssistantMessage, Unfailed

\* The steps that leave the file alone.
FileSame == UNCHANGED file /\ TableTyped(sessions)' /\ TableTyped(renamed)'

LEMMA StillTyped ==
  ASSUME FileInv, WorkInv, UNCHANGED file, clock' \in {clock, clock + 1}
  PROVE  FileSame
<1>1. sessions' = sessions /\ renamed' = renamed
  BY DEF file
<1>2. clock \in Nat
  BY BoundsAssumption DEF WorkInv
<1>3. ASSUME NEW table, TableTyped(table)
      PROVE  \A id \in DOMAIN table : table[id].updated <= clock'
  <2>1. \A id \in DOMAIN table : table[id].updated \in Nat /\ table[id].updated <= clock
    BY <1>3, BoundsAssumption DEF TableTyped, RowRecord
  <2> QED
    BY <1>2, <2>1
<1> QED
  BY <1>1, <1>3 DEF FileSame, FileInv, TableTyped

LEMMA SchemaKeeps ==
  ASSUME StoreInv, NEW s \in Stores, Schema(s)
  PROVE  FileInv' /\ CopiedBack' /\ Kept' = Kept /\ messages' = messages
<1>1. /\ attempt[s] \notin {"none", "open"} /\ attempt'[s] \in Stages \ {"none"}
      /\ attempt' = [attempt EXCEPT ![s] = attempt'[s]]
      /\ clock' = clock /\ interrupted' = interrupted
      /\ DOMAIN attempt = Stores
  BY SchemaMoves DEF StoreInv, ConnectionInv
<1>2. \A u \in Stores : u # s => attempt[u] = "none" /\ attempt'[u] = "none"
  BY <1>1, OnlyOne DEF StoreInv
<1>3. /\ StageRight(s) /\ FileInv /\ CopiedBack
  BY DEF StoreInv, FileInv
<1>4. SUFFICES /\ TableTyped(sessions)' /\ TableTyped(renamed)' /\ StageRight(s)'
               /\ schema' \in {"missing", "with column", "without column"}
               /\ schema' = "missing" => sessions' = << >>
               /\ schema' = "with column" => DOMAIN renamed' = {}
               /\ ~interrupted /\ attempt'[s] \notin {"create", "copy"} =>
                    DOMAIN renamed' \subseteq DOMAIN sessions'
               /\ Kept' = Kept /\ messages' = messages
  BY <1>1, <1>2 DEF FileInv, StageRight, At, CopiedBack, InMigration
<1>5. ~InMigration <=> attempt[s] \notin {"create", "copy"}
  BY <1>2 DEF InMigration
<1>6. TableTyped(sessions) /\ TableTyped(renamed)
  BY <1>3 DEF FileInv
<1>7. CASE Connect(s) \/ TableInfo(s)
  <2>1. /\ schema' = schema /\ sessions' = sessions /\ renamed' = renamed /\ messages' = messages
        /\ attempt'[s] \in {"table_info", "rename", "create tables"}
        /\ attempt[s] \in {"connect", "table_info"}
        /\ attempt'[s] = "rename" => schema = "with column"
        /\ attempt'[s] = "create tables" => schema # "with column"
    BY <1>1, <1>7 DEF Connect, TableInfo, MoveTo, At, file
  <2>2. TableTyped(sessions)' /\ TableTyped(renamed)'
    BY <1>1, <1>6, <2>1 DEF TableTyped
  <2> QED
    BY <1>3, <1>5, <2>1, <2>2 DEF FileInv, CopiedBack, StageRight, At, Kept
<1>8. CASE RenameTable(s)
  <2>1. /\ schema' = "missing" /\ sessions' = << >> /\ renamed' = sessions /\ messages' = messages
        /\ attempt'[s] = "create" /\ attempt[s] = "rename"
    BY <1>1, <1>8 DEF RenameTable, MoveTo, At
  <2>2. DOMAIN renamed = {}
    BY <1>3, <2>1 DEF StageRight, At, FileInv
  <2>3. TableTyped(sessions)' /\ TableTyped(renamed)'
    BY <1>1, <1>6, <2>1 DEF TableTyped
  <2> QED
    BY <2>1, <2>2, <2>3 DEF StageRight, At, Kept
<1>9. CASE CreateTable(s)
  <2>1. /\ schema' = "without column" /\ sessions' = sessions /\ renamed' = renamed
        /\ messages' = messages /\ attempt'[s] = "copy" /\ attempt[s] = "create"
    BY <1>1, <1>9 DEF CreateTable, MoveTo, At
  <2>2. DOMAIN sessions = {}
    <3>1. sessions = << >>
      BY <1>3, <2>1 DEF StageRight, At, FileInv
    <3> QED
      BY <3>1, NoRows
  <2>3. TableTyped(sessions)' /\ TableTyped(renamed)'
    BY <1>1, <1>6, <2>1 DEF TableTyped
  <2> QED
    BY <2>1, <2>2, <2>3 DEF StageRight, At, Kept
<1>10. CASE CopyRows(s)
  <2>1. /\ schema' = schema /\ sessions' = renamed /\ renamed' = renamed
        /\ messages' = messages /\ attempt'[s] = "drop" /\ attempt[s] = "copy"
    BY <1>1, <1>10 DEF CopyRows, MoveTo, At
  <2>2. DOMAIN sessions = {} /\ schema = "without column"
    BY <1>3, <2>1 DEF StageRight, At
  <2>3. TableTyped(sessions)' /\ TableTyped(renamed)'
    BY <1>1, <1>6, <2>1 DEF TableTyped
  <2> QED
    BY <2>1, <2>2, <2>3 DEF StageRight, At, Kept
<1>11. CASE DropTable(s)
  <2>1. /\ schema' = schema /\ sessions' = sessions /\ renamed' = << >>
        /\ messages' = messages /\ attempt'[s] = "create tables" /\ attempt[s] = "drop"
    BY <1>1, <1>11 DEF DropTable, MoveTo, At
  <2>2. sessions = renamed /\ schema = "without column"
    BY <1>3, <2>1 DEF StageRight, At
  <2>3. TableTyped(sessions)'
    BY <1>1, <1>6, <2>1 DEF TableTyped
  <2>4. DOMAIN renamed' = {} /\ renamed' \in [{} -> RowRecord]
    BY <2>1, NoRows
  <2>5. TableTyped(renamed)'
    BY <2>4 DEF TableTyped
  <2> QED
    BY <2>1, <2>2, <2>3, <2>4, <2>5 DEF StageRight, At, Kept
<1>12. CASE CreateTables(s)
  <2>1. /\ schema' = IF schema = "missing" THEN "without column" ELSE schema
        /\ sessions' = sessions /\ renamed' = renamed
        /\ messages' = messages /\ attempt'[s] = "open" /\ attempt[s] = "create tables"
    BY <1>1, <1>12 DEF CreateTables, MoveTo, At
  <2>2. schema # "with column"
    BY <1>3, <2>1 DEF StageRight, At
  <2>3. TableTyped(sessions)' /\ TableTyped(renamed)'
    BY <1>1, <1>6, <2>1 DEF TableTyped
  <2> QED
    BY <1>3, <1>5, <2>1, <2>2, <2>3 DEF FileInv, CopiedBack, StageRight, At, Kept
<1> QED
  BY <1>7, <1>8, <1>9, <1>10, <1>11, <1>12 DEF Schema

-----------------------------------------------------------------------------

LEMMA OpenStore ==
  ASSUME StoreInv, initialized # {}
  PROVE  /\ schema = "without column" /\ ~InMigration
         /\ \A s \in Stores : attempt[s] \in {"none", "open"}
<1>1. /\ databases \in Stores /\ attempt[databases] = "open"
      /\ \A s \in Stores : attempt[s] # "none" => s = databases
  BY DEF StoreInv, ConnectionInv, At
<1> QED
  BY <1>1 DEF StoreInv, FileInv, StageRight, At, InMigration

LEMMA OpRunning ==
  ASSUME StoreInv, op.kind # "none"
  PROVE  /\ initialized # {} /\ op.now = clock /\ op.now \in 1 .. MaxTime
         /\ clock \in 2 .. MaxTime /\ op \in Operation /\ op # NoOp
<1>1. op # NoOp
  BY DEF NoOp
<1>2. initialized # {} /\ op.now = clock /\ clock \in 2 .. MaxTime /\ op \in Operation
  BY <1>1 DEF StoreInv, WorkInv
<1>3. clock \in 1 .. MaxTime
  BY <1>2, BoundsAssumption
<1> QED
  BY <1>1, <1>2, <1>3

LEMMA RowsWritten ==
  ASSUME StoreInv, initialized # {}, TableTyped(sessions)',
         DOMAIN sessions \subseteq DOMAIN sessions',
         UNCHANGED <<schema, renamed, attempt, clock, interrupted>>
  PROVE  FileInv' /\ CopiedBack' /\ Kept \subseteq Kept'
<1>1. /\ schema = "without column" /\ ~InMigration
      /\ \A s \in Stores : attempt[s] \in {"none", "open"}
  BY OpenStore
<1>2. TableTyped(renamed)'
  BY DEF StoreInv, FileInv, TableTyped
<1>3. CopiedBack' /\ Kept \subseteq Kept'
  BY <1>1 DEF StoreInv, CopiedBack, InMigration, Kept
<1>4. \A s \in Stores : StageRight(s)'
  BY <1>1 DEF StageRight, At
<1> QED
  BY <1>1, <1>2, <1>3, <1>4 DEF FileInv

LEMMA TitlesTyped ==
  /\ NewTitle \in Titles
  /\ \A t \in 1 .. MaxTime : Turn(t) \in Titles /\ <<"named", t>> \in Titles
BY DEF Titles, Turn

LEMMA HistoryTyped ==
  ASSUME StoreInv, op.kind # "none"
  PROVE  History \in Seq(1 .. MaxTime)
<1>1. held.row.history \in Seq(1 .. MaxTime)
  BY DEF StoreInv, WorkInv, RowRecord
<1> QED
  BY <1>1, OpRunning, AppendProperties DEF History

LEMMA StatementKeeps ==
  ASSUME StoreInv, Statement
  PROVE  FileInv' /\ CopiedBack' /\ Kept \subseteq Kept'
<1>1. /\ op.kind # "none" /\ UNCHANGED <<schema, renamed, attempt, clock, interrupted>>
  BY DEF Statement, InsertSession, UpdateTitle, ReadSummary, UpdateSession, InsertUserMessage,
     InsertAssistantMessage, Doing, Unfailed, connection
<1>2. /\ initialized # {} /\ op.now = clock /\ op.now \in 1 .. MaxTime /\ op \in Operation
      /\ clock \in 2 .. MaxTime /\ MaxTime \in Nat
  BY <1>1, OpRunning, BoundsAssumption
<1>3. /\ DOMAIN sessions \subseteq Sessions /\ sessions \in [DOMAIN sessions -> RowRecord]
      /\ \A id \in DOMAIN sessions : /\ sessions[id].created <= sessions[id].updated
                                     /\ sessions[id].updated <= clock
                                     /\ sessions[id].created \in Nat
                                     /\ sessions[id].updated \in Nat
  <2>1. TableTyped(sessions)
    BY DEF StoreInv, FileInv
  <2>2. \A id \in DOMAIN sessions : sessions[id] \in RowRecord
    BY <2>1 DEF TableTyped
  <2>3. \A r \in RowRecord : r.created \in Nat /\ r.updated \in Nat
    BY <1>2 DEF RowRecord
  <2> QED
    BY <2>1, <2>2, <2>3 DEF TableTyped
<1>4. CASE UNCHANGED sessions
  <2>1. TableTyped(sessions)'
    BY <1>1, <1>3, <1>4 DEF TableTyped
  <2> QED
    BY <1>1, <1>2, <1>4, <2>1, RowsWritten
<1>5. CASE InsertSession
  <2> DEFINE row == Row(op.title, op.now, << >>)
  <2>1. /\ op.id \in Sessions
        /\ sessions' = [i \in DOMAIN sessions \union {op.id} |->
                          IF i = op.id THEN row ELSE sessions[i]]
    BY <1>5 DEF InsertSession, Doing, StoreInv, WorkInv
  <2>2. row \in RowRecord /\ row.created = op.now /\ row.updated = op.now
    <3>1. op.title \in Titles
      BY <1>2 DEF Operation
    <3>2. op.now \in 0 .. MaxTime /\ << >> \in Seq(1 .. MaxTime)
      BY <1>2
    <3> QED
      BY <3>1, <3>2 DEF Row, RowRecord
  <2>3. TableTyped(sessions)'
    BY <1>1, <1>2, <1>3, <2>1, <2>2 DEF TableTyped
  <2> QED
    BY <1>1, <1>2, <2>1, <2>3, RowsWritten
<1>6. CASE UpdateTitle \/ UpdateSession
  <2>1. op.id \in DOMAIN sessions
    BY <1>6 DEF UpdateTitle, UpdateSession, Doing, StoreInv, WorkInv
  <2>2. PICK row \in RowRecord : /\ sessions' = [sessions EXCEPT ![op.id] = row]
                                 /\ row.created = sessions[op.id].created /\ row.updated = op.now
    <3>1. sessions[op.id] \in RowRecord /\ op.title \in Titles /\ op.now \in 0 .. MaxTime
      BY <1>2, <1>3, <2>1 DEF Operation
    <3>2. CASE UpdateTitle
      <4> DEFINE row == [sessions[op.id] EXCEPT !.title = op.title, !.updated = op.now]
      <4>1. row \in RowRecord /\ row.created = sessions[op.id].created /\ row.updated = op.now
        BY <3>1 DEF RowRecord
      <4>2. sessions' = [sessions EXCEPT ![op.id] = row]
        BY <2>1, <3>2 DEF UpdateTitle
      <4> QED
        BY <4>1, <4>2
    <3>3. CASE UpdateSession
      <4> DEFINE row == [sessions[op.id] EXCEPT !.title = op.title, !.updated = op.now,
                                                !.history = History]
      <4>1. row \in RowRecord /\ row.created = sessions[op.id].created /\ row.updated = op.now
        BY <1>1, <3>1, HistoryTyped DEF RowRecord
      <4>2. sessions' = [sessions EXCEPT ![op.id] = row]
        BY <2>1, <3>3 DEF UpdateSession
      <4> QED
        BY <4>1, <4>2
    <3> QED
      BY <1>6, <3>2, <3>3
  <2>3. TableTyped(sessions)'
    BY <1>1, <1>2, <1>3, <2>1, <2>2 DEF TableTyped
  <2> QED
    BY <1>1, <1>2, <2>2, <2>3, RowsWritten
<1> QED
  BY <1>4, <1>5, <1>6 DEF Statement, ReadSummary, InsertUserMessage, InsertAssistantMessage

LEMMA FileKept == StoreInv /\ [Next]_vars => FileInv' /\ CopiedBack' /\ Kept \subseteq Kept'
<1> SUFFICES ASSUME StoreInv, [Next]_vars PROVE FileInv' /\ CopiedBack' /\ Kept \subseteq Kept'
  OBVIOUS
<1>1. FileInv /\ WorkInv /\ ConnectionInv /\ CopiedBack
  BY DEF StoreInv
\* The file stays, and every attempt where it is or ends.
<1>2. ASSUME UNCHANGED file, clock' \in {clock, clock + 1},
             \A s \in Stores : attempt'[s] \in {attempt[s], "none", "connect"},
             interrupted' \/ (~interrupted /\ (InMigration => InMigration'))
      PROVE  FileInv' /\ CopiedBack' /\ Kept \subseteq Kept'
  <2>1. schema' = schema /\ sessions' = sessions /\ renamed' = renamed
    BY <1>2 DEF file
  <2>2. TableTyped(sessions)' /\ TableTyped(renamed)'
    BY <1>1, <1>2, StillTyped DEF FileSame
  <2>3. \A s \in Stores : StageRight(s)'
    BY <1>1, <1>2, <2>1 DEF FileInv, StageRight, At
  <2> QED
    BY <1>1, <1>2, <2>1, <2>2, <2>3 DEF FileInv, CopiedBack, Kept
<1>3. CASE UNCHANGED <<file, attempt, interrupted>> /\ clock' \in {clock, clock + 1}
  <2>1. InMigration => InMigration'
    BY <1>3 DEF InMigration
  <2> QED
    BY <1>2, <1>3, <2>1
<1>4. ASSUME NEW s \in Stores, InitStore(s)
      PROVE  FileInv' /\ CopiedBack' /\ Kept \subseteq Kept'
  <2>1. /\ UNCHANGED file /\ clock' = clock /\ interrupted' = interrupted
        /\ attempt' = attempt \/ (databases = NoStore /\ attempt' = [attempt EXCEPT ![s] = "connect"])
    BY <1>4 DEF InitStore, work
  <2>2. \A u \in Stores : attempt'[u] \in {attempt[u], "connect"}
    BY <1>1, <2>1 DEF ConnectionInv
  <2>3. InMigration => InMigration'
    BY <1>1, <2>1, NamesAssumption DEF ConnectionInv, InMigration
  <2> QED
    BY <1>2, <2>1, <2>2, <2>3
<1>5. ASSUME NEW s \in Stores, InitFails(s)
      PROVE  FileInv' /\ CopiedBack' /\ Kept \subseteq Kept'
  <2>1. /\ UNCHANGED file /\ clock' = clock /\ attempt' = [attempt EXCEPT ![s] = "none"]
        /\ interrupted' <=> interrupted \/ attempt[s] \in {"create", "copy"}
        /\ attempt[s] # "none"
    BY <1>5 DEF InitFails
  <2>2. \A u \in Stores : attempt'[u] \in {attempt[u], "none"}
    BY <1>1, <2>1 DEF ConnectionInv
  <2>3. InMigration => attempt[s] \in {"create", "copy"}
    BY <1>1, <2>1 DEF ConnectionInv, InMigration
  <2> QED
    BY <1>2, <2>1, <2>2, <2>3
<1>6. CASE Reload
  <2>1. /\ UNCHANGED file /\ clock' = clock /\ attempt' = [s \in Stores |-> "none"]
        /\ interrupted' <=> interrupted \/ InMigration
    BY <1>6 DEF Reload
  <2> QED
    BY <1>2, <2>1
<1>7. ASSUME NEW s \in Stores, Schema(s)
      PROVE  FileInv' /\ CopiedBack' /\ Kept \subseteq Kept'
  BY <1>7, SchemaKeeps
<1>8. CASE Statement
  BY <1>8, StatementKeeps
<1> QED
  BY <1>3, <1>4, <1>5, <1>6, <1>7, <1>8
  DEF Next, vars, createSession, renameSession, saveTurn, loadSession, Begin, StatementFails,
      InitDone, connection

-----------------------------------------------------------------------------

LEMMA MessagesKept == StoreInv /\ [Next]_vars => MessagesInv'
<1> SUFFICES ASSUME StoreInv, [Next]_vars PROVE MessagesInv'
  OBVIOUS
<1>1. Kept \subseteq Kept'
  BY FileKept
<1>2. messages \in Seq(MessageRecord) /\ \A k \in DOMAIN messages : messages[k].session \in Kept
  BY DEF StoreInv, MessagesInv
<1>3. CASE UNCHANGED messages
  BY <1>1, <1>2, <1>3 DEF MessagesInv
<1>4. CASE InsertUserMessage \/ InsertAssistantMessage
  <2>1. op.kind = "turn"
    BY <1>4 DEF InsertUserMessage, InsertAssistantMessage, Doing
  <2>2. op.id \in DOMAIN sessions /\ op.id \in Sessions /\ op.now \in 1 .. MaxTime
    BY <2>1, OpRunning DEF StoreInv, WorkInv, FileInv, TableTyped
  <2>3. op.now \in Nat /\ op.now - 1 \in Nat
    BY <2>2, BoundsAssumption
  <2>4. PICK message \in MessageRecord : /\ messages' = Append(messages, message)
                                         /\ message.session = op.id
    <3>1. UserMessage \in MessageRecord /\ AssistantMessage \in MessageRecord
          /\ UserMessage.session = op.id /\ AssistantMessage.session = op.id
      BY <2>2, <2>3 DEF UserMessage, AssistantMessage, Message, MessageRecord
    <3> QED
      BY <1>4, <3>1 DEF InsertUserMessage, InsertAssistantMessage
  <2>5. /\ messages' \in Seq(MessageRecord)
        /\ \A k \in DOMAIN messages' :
             \/ k \in DOMAIN messages /\ messages'[k] = messages[k]
             \/ messages'[k] = message
    BY <1>2, <2>4, AppendProperties, LenProperties
  <2>6. op.id \in Kept
    BY <2>2 DEF Kept
  <2> QED
    BY <1>1, <1>2, <2>4, <2>5, <2>6 DEF MessagesInv
<1> QED
  BY <1>3, <1>4
  DEF Next, vars, file, InitStore, Schema, Connect, TableInfo, RenameTable, CreateTable, CopyRows,
      DropTable, CreateTables, InitDone, InitFails, createSession, renameSession, saveTurn,
      loadSession, Begin, Statement, InsertSession, UpdateTitle, ReadSummary, UpdateSession,
      StatementFails, Reload

-----------------------------------------------------------------------------

HeldInv ==
  /\ DOMAIN held = {"id", "row", "messages"} /\ held = [f \in DOMAIN held |-> held[f]]
  /\ held.id \in Sessions \union {NoSession} /\ held.row \in RowRecord
  /\ held.id # NoSession => held.id \in DOMAIN sessions /\ initialized # {}

OpInv ==
  /\ clock \in 2 .. MaxTime
  /\ op \in Operation
  /\ op # NoOp => initialized # {} /\ op.now = clock
  /\ op.kind = "create" => op.id \in Sessions
  /\ op.kind \in {"rename", "turn"} => op.id \in DOMAIN sessions

LEMMA NoOpTyped == NoOp \in Operation /\ NoOp.kind = "none"
BY TitlesTyped, BoundsAssumption DEF NoOp, Operation

LEMMA UnheldTyped ==
  /\ DOMAIN Unheld = {"id", "row", "messages"} /\ Unheld = [f \in DOMAIN Unheld |-> Unheld[f]]
  /\ Unheld.id = NoSession /\ Unheld.row \in RowRecord
BY TitlesTyped, BoundsAssumption DEF Unheld, Row, RowRecord

\* An initialized store stays so until a reload, and what is stored under it.
StaysOpen ==
  initialized # {} => initialized' # {} /\ DOMAIN sessions \subseteq DOMAIN sessions'

LEMMA OpenStays ==
  ASSUME StoreInv, [Next]_vars
  PROVE  Reload \/ StaysOpen
<1> SUFFICES ASSUME ~Reload, initialized # {}
             PROVE  initialized' # {} /\ DOMAIN sessions \subseteq DOMAIN sessions'
  BY DEF StaysOpen
<1>1. \A s \in Stores : ~Schema(s)
  BY OpenStore, SchemaMoves DEF StoreInv
<1>2. initialized \subseteq initialized'
  BY DEF Next, vars, connection, InitStore, Schema, Connect, TableInfo, RenameTable, CreateTable,
     CopyRows, DropTable, CreateTables, MoveTo, InitDone, InitFails, createSession, renameSession,
     saveTurn, loadSession, Begin, Statement, InsertSession, UpdateTitle, ReadSummary,
     UpdateSession, InsertUserMessage, InsertAssistantMessage, Unfailed, StatementFails
<1>3. DOMAIN sessions \subseteq DOMAIN sessions'
  BY <1>1 DEF Next, vars, file, InitStore, InitDone, InitFails, createSession, renameSession,
     saveTurn, loadSession, Begin, Statement, InsertSession, UpdateTitle, ReadSummary,
     UpdateSession, InsertUserMessage, InsertAssistantMessage, StatementFails
<1> QED
  BY <1>2, <1>3

LEMMA OpKept == StoreInv /\ [Next]_vars => OpInv'
<1> SUFFICES ASSUME StoreInv, [Next]_vars PROVE OpInv'
  OBVIOUS
<1> USE BoundsAssumption
<1>1. OpInv /\ HeldInv /\ DOMAIN sessions \subseteq Sessions
  BY DEF StoreInv, WorkInv, OpInv, HeldInv, FileInv, TableTyped
<1>2. CASE op' = NoOp /\ clock' = clock
  BY <1>1, <1>2, NoOpTyped DEF OpInv
<1>3. ASSUME StaysOpen, op.kind # "none", clock' = clock,
             \/ op' = op
             \/ \E at \in {"read", "insert user", "insert assistant"} : op' = [op EXCEPT !.at = at]
      PROVE  OpInv'
  <2>1. op \in Operation /\ op # NoOp /\ initialized # {} /\ op.now = clock
    BY <1>3, OpRunning
  <2>2. initialized' # {} /\ DOMAIN sessions \subseteq DOMAIN sessions'
    BY <1>3, <2>1 DEF StaysOpen
  <2>3. op' \in Operation /\ op'.kind = op.kind /\ op'.id = op.id /\ op'.now = op.now
    BY <1>3, <2>1 DEF Operation
  <2> QED
    BY <1>1, <1>3, <2>1, <2>2, <2>3 DEF OpInv
<1>4. CASE createSession \/ renameSession \/ saveTurn
  <2>1. PICK kind \in {"create", "rename", "turn"}, at \in {"insert", "update"},
             id \in Sessions, title \in Titles :
             /\ Begin(kind, at, id, title)
             /\ kind \in {"rename", "turn"} => id \in DOMAIN sessions
    <3>1. CASE createSession
      BY <3>1, TitlesTyped DEF createSession
    <3>2. CASE renameSession
      <4>1. clock \in 1 .. MaxTime
        BY <1>1 DEF OpInv
      <4> QED
        BY <1>1, <3>2, <4>1, TitlesTyped DEF renameSession
    <3>3. CASE saveTurn
      <4>1. held.id \in DOMAIN sessions /\ held.row.title \in Titles
        BY <1>1, <3>3 DEF saveTurn, HeldInv, RowRecord
      <4>2. clock + 1 \in 1 .. MaxTime
        BY <1>1, <3>3 DEF saveTurn, Begin, OpInv
      <4> QED
        BY <1>1, <3>3, <4>1, <4>2, TitlesTyped DEF saveTurn
    <3> QED
      BY <1>4, <3>1, <3>2, <3>3
  <2>2. /\ op' = [kind |-> kind, at |-> at, id |-> id, title |-> title, now |-> clock + 1]
        /\ clock' = clock + 1 /\ clock < MaxTime /\ initialized # {}
        /\ initialized' = initialized /\ sessions' = sessions
    BY <2>1 DEF Begin, connection, file
  <2>3. clock' \in 2 .. MaxTime
    BY <1>1, <2>2 DEF OpInv
  <2>4. op' \in Operation /\ op'.kind = kind /\ op'.id = id /\ op'.now = clock'
    <3>1. clock + 1 \in 0 .. MaxTime
      BY <2>2, <2>3
    <3> QED
      BY <2>1, <2>2, <3>1 DEF Operation
  <2> QED
    BY <2>1, <2>2, <2>3, <2>4 DEF OpInv
<1>5. CASE Statement /\ StaysOpen
  <2>1. /\ op.kind # "none" /\ clock' = clock
        /\ \/ op' = NoOp
           \/ \E at \in {"read", "insert user", "insert assistant"} : op' = [op EXCEPT !.at = at]
    BY <1>5 DEF Statement, InsertSession, UpdateTitle, ReadSummary, UpdateSession,
       InsertUserMessage, InsertAssistantMessage, Doing, Proceed, Unfailed
  <2> QED
    BY <1>2, <1>3, <1>5, <2>1
<1>6. CASE StatementFails \/ Reload
  BY <1>2, <1>6 DEF StatementFails, Reload
<1>7. CASE UNCHANGED <<op, clock>> /\ StaysOpen
  <2>1. CASE op.kind = "none"
    BY <1>1, <1>7, <2>1 DEF OpInv, StaysOpen
  <2>2. CASE op.kind # "none"
    BY <1>3, <1>7, <2>2
  <2> QED
    BY <2>1, <2>2
<1>8. Reload \/ StaysOpen
  BY OpenStays
<1> QED
  BY <1>4, <1>5, <1>6, <1>7, <1>8
  DEF Next, vars, work, InitStore, Schema, Connect, TableInfo, RenameTable, CreateTable, CopyRows,
      DropTable, CreateTables, MoveTo, InitDone, InitFails, loadSession

LEMMA HeldKept == StoreInv /\ [Next]_vars => HeldInv'
<1> SUFFICES ASSUME StoreInv, [Next]_vars PROVE HeldInv'
  OBVIOUS
<1>1. /\ HeldInv /\ DOMAIN sessions \subseteq Sessions
      /\ \A id \in DOMAIN sessions : sessions[id] \in RowRecord
  BY DEF StoreInv, WorkInv, HeldInv, FileInv, TableTyped
<1>2. CASE UNCHANGED held /\ StaysOpen
  BY <1>1, <1>2 DEF HeldInv, StaysOpen
<1>3. CASE Reload
  BY <1>3, UnheldTyped DEF Reload, HeldInv
<1>4. CASE loadSession
  <2> PICK id \in DOMAIN sessions : /\ held' = RuntimeSession(id) /\ initialized # {}
                                   /\ sessions' = sessions /\ initialized' = initialized
    BY <1>4 DEF loadSession, file, connection
  <2> QED
    BY <1>1 DEF HeldInv, RuntimeSession
<1>5. CASE InsertSession
  <2>1. /\ op.id \in DOMAIN sessions' /\ op.id \in Sessions
        /\ held' = [id |-> op.id, row |-> Row(op.title, op.now, << >>), messages |-> << >>]
        /\ initialized # {} /\ initialized' = initialized
    BY <1>5, OpRunning DEF InsertSession, Doing, StoreInv, WorkInv, Unfailed, connection
  <2>2. op.title \in Titles /\ op.now \in 0 .. MaxTime
    BY DEF StoreInv, WorkInv, Operation
  <2>3. Row(op.title, op.now, << >>) \in RowRecord
    BY <2>2 DEF Row, RowRecord
  <2> QED
    BY <2>1, <2>3 DEF HeldInv
<1>6. CASE ReadSummary /\ StaysOpen
  <2>1. /\ op.id \in DOMAIN sessions /\ initialized' = initialized /\ sessions' = sessions
        /\ held' = IF held.id = op.id
                   THEN [held EXCEPT !.row = [held.row EXCEPT !.title = sessions[op.id].title,
                                                              !.updated = sessions[op.id].updated]]
                   ELSE held
    BY <1>1, <1>6 DEF ReadSummary, Doing, StoreInv, WorkInv, Unfailed, connection, HeldInv
  <2>2. [held.row EXCEPT !.title = sessions[op.id].title,
                         !.updated = sessions[op.id].updated] \in RowRecord
    BY <1>1, <2>1 DEF HeldInv, RowRecord
  <2> QED
    BY <1>1, <2>1, <2>2 DEF HeldInv
<1>7. CASE InsertAssistantMessage
  <2>1. /\ op.id \in DOMAIN sessions /\ initialized # {} /\ op.kind # "none"
        /\ initialized' = initialized /\ sessions' = sessions
        /\ held'.id = op.id /\ DOMAIN held' = {"id", "row", "messages"}
        /\ held' = [f \in DOMAIN held' |-> held'[f]]
        /\ held'.row = [held.row EXCEPT !.title = op.title, !.updated = op.now,
                                        !.history = History]
    BY <1>7, OpRunning DEF InsertAssistantMessage, Doing, StoreInv, WorkInv, Unfailed, connection
  <2>2. op.title \in Titles /\ op.now \in 0 .. MaxTime
    BY DEF StoreInv, WorkInv, Operation
  <2>3. History \in Seq(1 .. MaxTime)
    BY <2>1, HistoryTyped
  <2>4. held'.row \in RowRecord
    BY <1>1, <2>1, <2>2, <2>3 DEF HeldInv, RowRecord
  <2> QED
    BY <1>1, <2>1, <2>4 DEF HeldInv
<1>8. Reload \/ StaysOpen
  BY OpenStays
<1> QED
  BY <1>2, <1>3, <1>4, <1>5, <1>6, <1>7, <1>8
  DEF Next, vars, work, InitStore, Schema, Connect, TableInfo, RenameTable, CreateTable, CopyRows,
      DropTable, CreateTables, MoveTo, InitDone, InitFails, createSession, renameSession, saveTurn,
      Begin, Statement, UpdateTitle, UpdateSession, InsertUserMessage, StatementFails

LEMMA StoreInit == Init => StoreInv
<1> SUFFICES ASSUME Init PROVE StoreInv
  OBVIOUS
<1>1. /\ databases = NoStore /\ initialized = {} /\ attempt = [s \in Stores |-> "none"]
      /\ joined = [s \in Stores |-> NoStore] /\ held = Unheld /\ op = NoOp
      /\ clock = 2 /\ interrupted = FALSE /\ renamed = << >>
  BY DEF Init, PageLoaded
<1>2. ConnectionInv
  BY <1>1, NamesAssumption DEF ConnectionInv, Stages
<1>3. LeakInv
  <2>1. faults = 0 /\ leaked = 0
    BY Zenon DEF Init, PageLoaded
  <2>2. 0 \in 0 .. MaxFaults /\ 0 \in 0 .. 0
    BY BoundsAssumption
  <2> QED
    BY <2>1, <2>2, Zenon DEF LeakInv
<1>4. /\ schema \in {"missing", "with column"}
      /\ schema = "missing" => sessions = << >>
      /\ TableTyped(sessions) /\ messages \in Seq(MessageRecord)
      /\ \A k \in DOMAIN messages : messages[k].session \in DOMAIN sessions
  <2>1. CASE schema = "missing" /\ sessions = << >> /\ messages = << >>
    BY <2>1, NoRows DEF TableTyped
  <2>2. ASSUME NEW id \in Sessions, sessions = [i \in {id} |-> Row(Turn(1), 1, << 1 >>)],
               messages = <<Message(id, "user", 1, 0), Message(id, "assistant", 1, 1)>>
        PROVE  /\ TableTyped(sessions) /\ messages \in Seq(MessageRecord)
               /\ \A k \in DOMAIN messages : messages[k].session \in DOMAIN sessions
    <3>1. 1 \in 1 .. MaxTime /\ 1 \in 0 .. MaxTime
      BY BoundsAssumption
    <3>2. <<1>> \in Seq(1 .. MaxTime)
      BY <3>1
    <3>8. Turn(1) \in Titles
      BY <3>1, TitlesTyped
    <3>3. Row(Turn(1), 1, <<1>>) \in RowRecord
      BY <3>1, <3>2, <3>8 DEF Row, RowRecord
    <3>4. TableTyped(sessions)
      BY <1>1, <2>2, <3>3 DEF TableTyped, Row
    <3>5. Message(id, "user", 1, 0) \in MessageRecord /\ Message(id, "assistant", 1, 1) \in MessageRecord
      BY DEF Message, MessageRecord
    <3>6. messages \in Seq(MessageRecord) /\ \A k \in DOMAIN messages : messages[k].session = id
      BY <2>2, <3>5 DEF Message
    <3> QED
      BY <2>2, <3>4, <3>6
  <2> QED
    BY <2>1, <2>2 DEF Init
<1>5. TableTyped(renamed) /\ DOMAIN renamed = {}
  BY <1>1, NoRows DEF TableTyped
<1>6. FileInv
  BY <1>1, <1>4, <1>5 DEF FileInv, StageRight, At
<1>7. CopiedBack /\ MessagesInv
  BY <1>4, <1>5 DEF CopiedBack, MessagesInv, Kept
<1>8. WorkInv
  BY <1>1, NoOpTyped, UnheldTyped, BoundsAssumption DEF WorkInv
<1> QED
  BY <1>2, <1>3, <1>6, <1>7, <1>8 DEF StoreInv

LEMMA StoreStep == StoreInv /\ [Next]_vars => StoreInv'
<1> SUFFICES ASSUME StoreInv, [Next]_vars PROVE StoreInv'
  OBVIOUS
<1>1. LeakInv'
  BY LeaksCounted DEF StoreInv
<1>2. ConnectionInv' /\ FileInv' /\ CopiedBack' /\ MessagesInv' /\ OpInv' /\ HeldInv'
  BY ConnectionKept, FileKept, MessagesKept, OpKept, HeldKept
<1> QED
  BY <1>1, <1>2 DEF StoreInv, WorkInv, OpInv, HeldInv

\* The connection, the stages of the migration and the rows, at every step.
THEOREM StoreInvariant == Spec => []StoreInv
BY StoreInit, StoreStep, PTL DEF Spec

-----------------------------------------------------------------------------

\* The stores of a page never use two connections to the database file nor open
\* two at a time; any other open one is left by a failure to set up its tables,
\* one by each at most; and an initialized store has a connection whose tables
\* exist (storage.ts:15-31, 232-277).
THEOREM TypeCorrect == Spec => []TypeOK
<1>1. StoreInv => TypeOK
  <2> SUFFICES ASSUME StoreInv PROVE TypeOK
    OBVIOUS
  <2>1. Cardinality({s \in Stores : attempt[s] # "none"}) <= 1
    <3> DEFINE attempts == {s \in Stores : attempt[s] # "none"}
    <3>1. attempts \subseteq {databases}
      BY DEF StoreInv, ConnectionInv
    <3>2. IsFiniteSet({databases}) /\ Cardinality({databases}) = 1
      BY FS_Singleton
    <3> HIDE DEF attempts
    <3>3. Cardinality(attempts) <= 1
      BY <3>1, <3>2, FS_Subset
    <3> QED
      BY <3>3 DEF attempts
  <2>2. \A s \in initialized : joined[s] # NoStore /\ At(joined[s], "open")
    BY DEF StoreInv, ConnectionInv
  <2>3. ASSUME NEW table, TableTyped(table), NEW id \in DOMAIN table
        PROVE  id \in Sessions /\ RowType(table[id])
    <3>1. table[id] \in RowRecord /\ id \in Sessions /\ table[id].created <= table[id].updated
      BY <2>3 DEF TableTyped
    <3>2. table[id].updated \in table[id].created .. MaxTime
      BY <3>1, BoundsAssumption DEF RowRecord
    <3>4. table[id].history \in Seq(1 .. MaxTime)
      BY <3>1 DEF RowRecord
    <3>5. ASSUME NEW moments \in Seq(1 .. MaxTime), NEW k \in DOMAIN moments
          PROVE  moments[k] \in 1 .. MaxTime
      <4>1. k \in 1 .. Len(moments)
        OBVIOUS
      <4> QED
        BY <4>1, ElementOfSeq
    <3>3. \A k \in DOMAIN table[id].history : table[id].history[k] \in 1 .. MaxTime
      BY <3>4, <3>5
    <3> QED
      BY <3>1, <3>2, <3>3 DEF RowType, RowRecord
  <2>4. /\ \A id \in DOMAIN sessions : id \in Sessions /\ RowType(sessions[id])
        /\ \A id \in DOMAIN renamed : id \in Sessions /\ RowType(renamed[id])
    BY <2>3 DEF StoreInv, FileInv
  <2> QED
    BY <2>1, <2>2, <2>4 DEF TypeOK, StoreInv, LeakInv, FileInv, MessagesInv, Kept
<1> QED
  BY <1>1, StoreInvariant, PTL

\* A migration that fails or is cut off at any statement destroys no session, and
\* one that is not cut off between its RENAME and its INSERT leaves each of them
\* in the list an open store shows (storage.ts:279-316).
THEOREM MigrationKeepsSessions == Spec => SessionsSurvive
<1>1. StoreInv /\ [Next]_vars => [Kept \subseteq DOMAIN sessions' \union DOMAIN renamed']_file
  BY FileKept DEF Kept
<1>2. StoreInv => (initialized # {} /\ ~interrupted => Kept = DOMAIN sessions)
  BY OpenStore DEF StoreInv, CopiedBack, Kept
<1> QED
  BY <1>1, <1>2, StoreInvariant, PTL DEF Spec, SessionsSurvive

-----------------------------------------------------------------------------
(***************************************************************************)
(* The transcript of a session: rowids of one session, each at its rank.   *)
(***************************************************************************)
\* A set of natural numbers with zero and with the successor of each of its
\* members has them all.
LEMMA SetInduction ==
  ASSUME NEW S \in SUBSET Nat, 0 \in S, \A n \in Nat : n \in S => n + 1 \in S
  PROVE  S = Nat
<1> DEFINE T == Nat \ S
<1>1. SUFFICES ASSUME T # {} PROVE FALSE
  OBVIOUS
<1>2. PICK x \in T : \A y \in T : ~(<<y, x>> \in OpToRel(<, Nat))
  <2>1. T \subseteq Nat
    OBVIOUS
  <2> HIDE DEF T
  <2> QED
    BY <1>1, <2>1, WFMin, NatLessThanWellFounded
<1>3. x \in Nat /\ x # 0 /\ x \notin S
  OBVIOUS
<1>4. x - 1 \in Nat /\ (x - 1) + 1 = x
  BY <1>3
<1>5. x - 1 \in T
  BY <1>3, <1>4
<1>6. <<x - 1, x>> \in OpToRel(<, Nat)
  BY <1>3, <1>4 DEF OpToRel
<1> QED
  BY <1>2, <1>5, <1>6

\* The rows before one, and how many they are.
Below(rows, j) == {i \in rows : i < j}

Rank(rows, j) == Cardinality(Below(rows, j))

LEMMA BelowNext ==
  ASSUME NEW n \in Nat, NEW rows, rows \subseteq 1 .. n, NEW k \in Nat, NEW l, l = k + 1
  PROVE  Below(rows, l) = Below(rows, k) \union (rows \intersect {k})
<1>1. \A x \in rows : x < l <=> x < k \/ x = k
  OBVIOUS
<1> QED
  BY <1>1, Zenon DEF Below

LEMMA BelowFinite ==
  ASSUME NEW n \in Nat, NEW rows, rows \subseteq 1 .. n
  PROVE  /\ IsFiniteSet(rows) /\ Cardinality(rows) \in Nat
         /\ \A j \in Nat : IsFiniteSet(Below(rows, j)) /\ Rank(rows, j) \in Nat
<1>1. IsFiniteSet(1 .. n)
  BY FS_Interval
<1>2. \A S : S \subseteq 1 .. n => IsFiniteSet(S) /\ Cardinality(S) \in Nat
  BY <1>1, FS_Subset, FS_CardinalityType
<1>3. \A j : Below(rows, j) \subseteq 1 .. n
  BY DEF Below
<1> QED
  BY <1>2, <1>3 DEF Rank

\* A row is ranked before the later ones and below the number of rows.
LEMMA RankGrows ==
  ASSUME NEW n \in Nat, NEW rows, rows \subseteq 1 .. n
  PROVE  /\ \A x, y \in rows : x < y => Rank(rows, x) < Rank(rows, y)
         /\ \A j \in rows : Rank(rows, j) < Cardinality(rows)
<1>0. \A x \in rows : x \in Nat /\ x >= 1 /\ x <= n
  OBVIOUS
<1>1. ASSUME NEW i \in rows, NEW S, Below(rows, i) \subseteq S, i \in S, S \subseteq rows
      PROVE  Rank(rows, i) < Cardinality(S)
  <2>1. IsFiniteSet(S)
    BY <1>1, BelowFinite, FS_Subset
  <2>2. i \notin Below(rows, i)
    BY DEF Below
  <2>3. Below(rows, i) # S
    BY <1>1, <2>2
  <2>4. Cardinality(Below(rows, i)) < Cardinality(S)
    BY <1>1, <2>1, <2>3, FS_Subset, FS_CardinalityType
  <2> QED
    BY <2>4 DEF Rank
<1>2. ASSUME NEW i \in rows, NEW j \in rows, i < j
      PROVE  Rank(rows, i) < Rank(rows, j)
  <2>0. \A x \in rows : x < i => x < j
    BY <1>0, <1>2
  <2>1. Below(rows, i) \subseteq Below(rows, j) /\ i \in Below(rows, j) /\ Below(rows, j) \subseteq rows
    BY <1>2, <2>0, Zenon DEF Below
  <2> QED
    BY <1>1, <2>1 DEF Rank
<1>3. \A j \in rows : Below(rows, j) \subseteq rows
  BY DEF Below
<1> QED
  BY <1>1, <1>2, <1>3

\* No two rows have one rank.
LEMMA RankOne ==
  ASSUME NEW n \in Nat, NEW rows, rows \subseteq 1 .. n,
         NEW i \in rows, NEW j \in rows, Rank(rows, i) = Rank(rows, j)
  PROVE  i = j
<1>0. \A x \in rows : x \in Nat /\ x >= 1 /\ x <= n
  OBVIOUS
<1>1. i \in Nat /\ j \in Nat /\ Rank(rows, i) \in Nat /\ Rank(rows, j) \in Nat
  BY <1>0, BelowFinite
<1>2. ASSUME NEW x \in rows, NEW y \in rows, x < y PROVE Rank(rows, x) < Rank(rows, y)
  BY <1>2, RankGrows, Zenon
<1>3. PICK p, q : p = Rank(rows, i) /\ q = Rank(rows, j)
  OBVIOUS
<1>4. (i < j => p < q) /\ (j < i => q < p) /\ p = q /\ p \in Nat
  BY <1>1, <1>2, <1>3
<1> QED
  BY <1>1, <1>4

\* Every rank below the number of rows is taken.
LEMMA RankTaken ==
  ASSUME NEW n \in Nat, NEW rows, rows \subseteq 1 .. n,
         NEW r \in Nat, r < Cardinality(rows)
  PROVE  \E j \in rows : Rank(rows, j) = r
<1>0. \A x \in rows : x \in Nat /\ x >= 1 /\ x <= n
  OBVIOUS
<1> DEFINE T == {m \in Nat : \A q \in Nat : q < Rank(rows, m + 1) =>
                    \E j \in rows : Rank(rows, j) = q}
<1>1. 0 \in T
  <2>0. \A x \in rows : ~(x < 0 + 1)
    BY <1>0
  <2>1. Below(rows, 0 + 1) = {}
    BY <2>0, Zenon DEF Below
  <2>2. Rank(rows, 0 + 1) = 0
    BY <2>1, FS_EmptySet DEF Rank
  <2> QED
    BY <2>2
<1>2. ASSUME NEW m \in Nat, m \in T PROVE m + 1 \in T
  <2>1. PICK k \in Nat, l \in Nat : k = m + 1 /\ l = k + 1
    OBVIOUS
  <2>2. \A q \in Nat : q < Rank(rows, k) => \E j \in rows : Rank(rows, j) = q
    BY <1>2, <2>1
  <2>3. Rank(rows, k) \in Nat /\ Rank(rows, l) \in Nat /\ IsFiniteSet(Below(rows, k))
    BY BelowFinite
  <2>4. CASE k \in rows
    <3>1. Below(rows, l) = Below(rows, k) \union {k} /\ k \notin Below(rows, k)
      <4>1. Below(rows, l) = Below(rows, k) \union (rows \intersect {k})
        BY <2>1, BelowNext
      <4> QED
        BY <2>4, <4>1 DEF Below
    <3>2. Rank(rows, l) = Rank(rows, k) + 1
      BY <2>3, <3>1, FS_AddElement DEF Rank
    <3>3. \A q \in Nat : q < Rank(rows, l) => q < Rank(rows, k) \/ q = Rank(rows, k)
      BY <2>3, <3>2
    <3>4. \A q \in Nat : q < Rank(rows, l) => \E j \in rows : Rank(rows, j) = q
      BY <2>2, <2>4, <3>3
    <3> QED
      BY <2>1, <3>4
  <2>5. CASE k \notin rows
    <3>1. Below(rows, l) = Below(rows, k)
      <4>1. Below(rows, l) = Below(rows, k) \union (rows \intersect {k})
        BY <2>1, BelowNext
      <4> QED
        BY <2>5, <4>1, Zenon
    <3>2. \A q \in Nat : q < Rank(rows, l) => \E j \in rows : Rank(rows, j) = q
      BY <2>2, <3>1 DEF Rank
    <3> QED
      BY <2>1, <3>2
  <2> QED
    BY <2>4, <2>5
<1>3. T = Nat
  <2>1. T \in SUBSET Nat
    OBVIOUS
  <2> HIDE DEF T
  <2> QED
    BY <1>1, <1>2, <2>1, SetInduction
<1>4. Below(rows, n + 1) = rows
  <2>1. \A x \in rows : x < n + 1
    BY <1>0
  <2> QED
    BY <2>1, Zenon DEF Below
<1>5. Rank(rows, n + 1) = Cardinality(rows)
  BY <1>4 DEF Rank
<1> QED
  BY <1>3, <1>5

\* The rows of a session in the table, whose times do not decrease.
RowsOf(list, id) == {k \in DOMAIN list : list[k].session = id}

InTime(list) == \A j, k \in DOMAIN list : j < k => list[j].created <= list[k].created

Kth(list, id, k) ==
  LET Before(i, j) == \/ list[i].created < list[j].created
                      \/ list[i].created = list[j].created /\ i < j
  IN  CHOOSE j \in RowsOf(list, id) :
        Cardinality({i \in RowsOf(list, id) : Before(i, j)}) = k - 1

Transcript(list, id) ==
  [k \in 1 .. Cardinality(RowsOf(list, id)) |-> list[Kth(list, id, k)]]

LEMMA ReadsTranscript == \A id : messagesForSession(id) = Transcript(messages, id)
BY Zenon DEF messagesForSession, Transcript, Kth, RowsOf

LEMMA RowsBounded ==
  ASSUME NEW list \in Seq(MessageRecord), NEW id
  PROVE  RowsOf(list, id) \subseteq 1 .. Len(list) /\ Len(list) \in Nat
         /\ DOMAIN list = 1 .. Len(list)
BY DEF RowsOf

\* In the order of their times, the k-th message is the row of rank k - 1.
Stands(at, list, id) ==
  \A k \in 1 .. Cardinality(RowsOf(list, id)) :
    /\ at[k] \in RowsOf(list, id) /\ Rank(RowsOf(list, id), at[k]) = k - 1
    /\ Transcript(list, id)[k] = list[at[k]]

LEMMA TranscriptStands ==
  ASSUME NEW list \in Seq(MessageRecord), InTime(list), NEW id
  PROVE  /\ Transcript(list, id) \in Seq(MessageRecord)
         /\ Len(Transcript(list, id)) = Cardinality(RowsOf(list, id))
         /\ \E at : Stands(at, list, id)
<1> PICK rows, n : rows = RowsOf(list, id) /\ n = Len(list)
  OBVIOUS
<1>1. n \in Nat /\ rows \subseteq 1 .. n /\ DOMAIN list = 1 .. n /\ Cardinality(rows) \in Nat
  BY RowsBounded, BelowFinite
<1>2. ASSUME NEW i \in rows, NEW j \in rows
      PROVE  \/ list[i].created < list[j].created
             \/ list[i].created = list[j].created /\ i < j
             <=> i < j
  <2>1. i \in 1 .. n /\ j \in 1 .. n
    BY <1>1
  <2>2. list[i] \in MessageRecord /\ list[j] \in MessageRecord
    BY <1>1, <2>1
  <2>3. PICK p \in Nat, q \in Nat : p = list[i].created /\ q = list[j].created
    BY <2>2 DEF MessageRecord
  <2>4. (i < j => p <= q) /\ (j < i => q <= p) /\ (i = j => p = q)
    BY <1>1, <2>1, <2>3 DEF InTime
  <2> QED
    BY <2>1, <2>3, <2>4
<1>3. \A j \in rows : {i \in rows : \/ list[i].created < list[j].created
                                    \/ list[i].created = list[j].created /\ i < j}
                      = Below(rows, j)
  BY <1>2, Zenon DEF Below
<1>4. \A k : Kth(list, id, k) = CHOOSE j \in rows :
                Cardinality({i \in rows : \/ list[i].created < list[j].created
                                          \/ list[i].created = list[j].created /\ i < j}) = k - 1
  BY Zenon DEF Kth
<1>5. ASSUME NEW k \in 1 .. Cardinality(rows)
      PROVE  Kth(list, id, k) \in rows /\ Rank(rows, Kth(list, id, k)) = k - 1
  <2>1. k - 1 \in Nat /\ k - 1 < Cardinality(rows)
    BY <1>1
  <2>2. \E j \in rows : Rank(rows, j) = k - 1
    BY <1>1, <2>1, RankTaken
  <2>3. \E j \in rows :
           Cardinality({i \in rows : \/ list[i].created < list[j].created
                                     \/ list[i].created = list[j].created /\ i < j}) = k - 1
    BY <1>3, <2>2, Zenon DEF Rank
  <2>4. /\ Kth(list, id, k) \in rows
        /\ Cardinality({i \in rows :
             \/ list[i].created < list[Kth(list, id, k)].created
             \/ list[i].created = list[Kth(list, id, k)].created /\ i < Kth(list, id, k)}) = k - 1
    BY <1>4, <2>3, Zenon
  <2> QED
    BY <1>3, <2>4, Zenon DEF Rank
<1>6. PICK at : at = [k \in 1 .. Cardinality(rows) |-> Kth(list, id, k)]
  OBVIOUS
<1>7. \A k \in 1 .. Cardinality(rows) :
        /\ at[k] \in rows /\ Rank(rows, at[k]) = k - 1
        /\ Transcript(list, id)[k] = list[at[k]] /\ list[at[k]] \in MessageRecord
  <2>1. TAKE k \in 1 .. Cardinality(rows)
  <2>2. at[k] = Kth(list, id, k) /\ Transcript(list, id)[k] = list[Kth(list, id, k)]
    BY <1>6, Zenon DEF Transcript
  <2>3. at[k] \in rows /\ Rank(rows, at[k]) = k - 1
    BY <1>5, <2>2
  <2>4. list[at[k]] \in MessageRecord
    BY <1>1, <2>3
  <2> QED
    BY <2>2, <2>3, <2>4
<1>8. Stands(at, list, id)
  BY <1>7 DEF Stands
<1>9. PICK t : t = Transcript(list, id)
  OBVIOUS
<1>10. t = [k \in 1 .. Cardinality(rows) |-> t[k]]
  BY <1>9 DEF Transcript
<1>11. \A k \in 1 .. Cardinality(rows) : t[k] \in MessageRecord
  BY <1>7, <1>9
<1>12. t \in Seq(MessageRecord) /\ Len(t) = Cardinality(rows)
  BY <1>1, <1>10, <1>11
<1> QED
  BY <1>8, <1>9, <1>12

LEMMA NoTranscript ==
  ASSUME NEW list \in Seq(MessageRecord), InTime(list), NEW id, RowsOf(list, id) = {}
  PROVE  Transcript(list, id) = << >>
<1>1. PICK t : t = Transcript(list, id)
  OBVIOUS
<1>2. t \in Seq(MessageRecord) /\ Len(t) = 0
  BY <1>1, TranscriptStands, FS_EmptySet
<1> QED
  BY <1>1, <1>2, EmptySeq

\* A later message goes behind those of its session and leaves the others alone.
Grows(list, m, longer) ==
  \A id : Transcript(longer, id) =
            IF m.session = id THEN Append(Transcript(list, id), m) ELSE Transcript(list, id)

LEMMA TranscriptsGrow ==
  \A list \in Seq(MessageRecord), m \in MessageRecord :
    InTime(Append(list, m)) => Grows(list, m, Append(list, m))
<1> TAKE list \in Seq(MessageRecord), m \in MessageRecord
<1> HAVE InTime(Append(list, m))
<1> PICK longer : longer = Append(list, m)
  OBVIOUS
<1>0. InTime(longer)
  OBVIOUS
<1> SUFFICES ASSUME NEW id
             PROVE  Transcript(longer, id) =
               IF m.session = id THEN Append(Transcript(list, id), m) ELSE Transcript(list, id)
  BY Zenon DEF Grows
<1> PICK n, old, new : n = Len(list) /\ old = RowsOf(list, id) /\ new = RowsOf(longer, id)
  OBVIOUS
<1> PICK s, t : s = Transcript(list, id) /\ t = Transcript(longer, id)
  OBVIOUS
<1>1. /\ n \in Nat /\ DOMAIN list = 1 .. n /\ longer \in Seq(MessageRecord)
      /\ Len(longer) = n + 1 /\ DOMAIN longer = 1 .. n + 1
      /\ \A k \in 1 .. n : longer[k] = list[k]
      /\ longer[n + 1] = m
  BY AppendProperties
<1>2. InTime(list)
  <2>1. \A j, k \in 1 .. n : j \in 1 .. n + 1 /\ k \in 1 .. n + 1
    BY <1>1
  <2> QED
    BY <1>0, <1>1, <2>1 DEF InTime
<1>3. new = IF m.session = id THEN old \union {n + 1} ELSE old
  <2>1. \A k : k \in 1 .. n + 1 <=> k \in 1 .. n \/ k = n + 1
    BY <1>1
  <2>2. \A k : k \in new <=> k \in old \/ (k = n + 1 /\ m.session = id)
    BY <1>1, <2>1 DEF RowsOf
  <2> QED
    BY <2>2
<1>4. old \subseteq 1 .. n /\ new \subseteq 1 .. n + 1
  BY <1>1, RowsBounded
<1>5. /\ IsFiniteSet(old) /\ Cardinality(old) \in Nat
      /\ Cardinality(new) \in Nat /\ n + 1 \notin old /\ n + 1 \in Nat
  <2>1. n + 1 \in Nat /\ n + 1 \notin 1 .. n
    BY <1>1
  <2> QED
    BY <1>1, <1>4, <2>1, BelowFinite
<1>6. \A j \in old : Below(new, j) = Below(old, j) /\ Rank(new, j) = Rank(old, j)
  <2>1. \A j \in old : ~(n + 1 < j)
    BY <1>1, <1>4
  <2>2. \A j \in old : Below(new, j) = Below(old, j)
    BY <1>3, <2>1, Zenon DEF Below
  <2> QED
    BY <2>2, Zenon DEF Rank
<1>7. /\ s \in Seq(MessageRecord) /\ Len(s) = Cardinality(old)
      /\ t \in Seq(MessageRecord) /\ Len(t) = Cardinality(new)
  BY <1>1, <1>2, TranscriptStands
<1>8. PICK at : \A k \in 1 .. Cardinality(old) :
                  at[k] \in old /\ Rank(old, at[k]) = k - 1 /\ s[k] = list[at[k]]
  <2>1. PICK at : Stands(at, list, id)
    BY <1>2, TranscriptStands
  <2> QED
    BY <2>1 DEF Stands
<1>9. PICK to : \A k \in 1 .. Cardinality(new) :
                  to[k] \in new /\ Rank(new, to[k]) = k - 1 /\ t[k] = longer[to[k]]
  <2>1. PICK to : Stands(to, longer, id)
    BY <1>0, <1>1, TranscriptStands
  <2> QED
    BY <2>1 DEF Stands
<1>10. ASSUME NEW k \in 1 .. Cardinality(old), k \in 1 .. Cardinality(new)
       PROVE  t[k] = s[k]
  <2>1. at[k] \in old /\ at[k] \in new /\ to[k] \in new /\ Rank(new, at[k]) = Rank(new, to[k])
    BY <1>3, <1>6, <1>8, <1>9, <1>10
  <2>2. at[k] = to[k]
    BY <1>4, <1>5, <2>1, RankOne
  <2> QED
    BY <1>1, <1>4, <1>8, <1>9, <1>10, <2>1, <2>2
<1>11. CASE m.session # id
  <2>1. new = old
    BY <1>3, <1>11
  <2>2. Len(s) = Len(t) /\ \A k \in 1 .. Len(s) : t[k] = s[k]
    BY <1>7, <1>10, <2>1
  <2>3. s = t
    BY <1>7, <2>2, SeqEqual
  <2> QED
    BY <1>11, <2>3
<1>12. CASE m.session = id
  <2>1. Cardinality(new) = Cardinality(old) + 1
    BY <1>3, <1>5, <1>12, FS_AddElement
  <2>2. PICK c \in Nat : c = Cardinality(old)
    BY <1>5
  <2>3. t[c + 1] = m
    <3>1. c + 1 \in 1 .. Cardinality(new)
      BY <2>1, <2>2
    <3>2. to[c + 1] \in new /\ Rank(new, to[c + 1]) = c /\ t[c + 1] = longer[to[c + 1]]
      <4>1. PICK k : k = c + 1
        OBVIOUS
      <4>2. k - 1 = c /\ k \in 1 .. Cardinality(new)
        BY <2>2, <3>1, <4>1
      <4>3. to[k] \in new /\ Rank(new, to[k]) = k - 1 /\ t[k] = longer[to[k]]
        BY <1>9, <4>2
      <4> QED
        BY <4>1, <4>2, <4>3
    <3>3. to[c + 1] \notin old
      <4>1. SUFFICES ASSUME to[c + 1] \in old PROVE FALSE
        OBVIOUS
      <4>2. Rank(old, to[c + 1]) = c
        BY <1>6, <3>2, <4>1
      <4>3. Rank(old, to[c + 1]) < c
        BY <1>1, <1>4, <2>2, <4>1, RankGrows
      <4> QED
        BY <2>2, <4>2, <4>3
    <3>4. to[c + 1] = n + 1
      BY <1>3, <1>12, <3>2, <3>3
    <3> QED
      BY <1>1, <3>2, <3>4
  <2>4. \A k \in 1 .. c : t[k] = s[k]
    BY <1>10, <2>1, <2>2
  <2>5. PICK u : u = Append(s, m)
    OBVIOUS
  <2>6. /\ u \in Seq(MessageRecord) /\ Len(u) = c + 1 /\ u[c + 1] = m
        /\ \A k \in 1 .. c : u[k] = s[k]
    BY <1>7, <2>2, <2>5, AppendProperties
  <2>7. Len(t) = c + 1 /\ \A k \in 1 .. c + 1 : k \in 1 .. c \/ k = c + 1
    BY <1>7, <2>1, <2>2
  <2>8. t = u
    BY <1>7, <2>3, <2>4, <2>6, <2>7, SeqEqual
  <2> QED
    BY <1>12, <2>5, <2>8
<1> QED
  BY <1>11, <1>12

-----------------------------------------------------------------------------
(***************************************************************************)
(* The stages of the operations.                                           *)
(***************************************************************************)
Idle == op = NoOp
Inserting == Doing("create", "insert")
Renaming == Doing("rename", "update")
Reading == Doing("rename", "read")
Updating == Doing("turn", "update")
Asking == Doing("turn", "insert user")
Answering == Doing("turn", "insert assistant")

\* A session is created under a new id, and a turn is saved in the one held.
StageInv ==
  /\ Idle \/ Inserting \/ Renaming \/ Reading \/ Updating \/ Asking \/ Answering
  /\ Inserting => op.id \notin Kept
  /\ Updating \/ Asking \/ Answering => op.id = held.id

LEMMA OneStage ==
  /\ Idle => op.kind = "none" /\ op.at = "done"
  /\ Idle => ~(Inserting \/ Renaming \/ Reading \/ Updating \/ Asking \/ Answering)
  /\ Inserting => ~(Renaming \/ Reading \/ Updating \/ Asking \/ Answering)
  /\ Renaming => ~(Reading \/ Updating \/ Asking \/ Answering)
  /\ Reading => ~(Updating \/ Asking \/ Answering)
  /\ Updating => ~(Asking \/ Answering)
  /\ Asking => ~Answering
<1>1. Idle => op.kind = "none" /\ op.at = "done"
  BY DEF Idle, NoOp
<1>2. /\ Inserting => op.kind = "create"
      /\ Renaming => op.kind = "rename" /\ op.at = "update"
      /\ Reading => op.kind = "rename" /\ op.at = "read"
      /\ Updating => op.kind = "turn" /\ op.at = "update"
      /\ Asking => op.kind = "turn" /\ op.at = "insert user"
      /\ Answering => op.kind = "turn" /\ op.at = "insert assistant"
  BY Zenon DEF Inserting, Renaming, Reading, Updating, Asking, Answering, Doing
<1> QED
  BY <1>1, <1>2, Zenon

\* Operation, its sets as parameters (the names of the stages have spaces).
OpRecord(kinds, stages, ids, titles, times) ==
  [kind : kinds, at : stages, id : ids, title : titles, now : times]

LEMMA RecordMoves ==
  ASSUME NEW kinds, NEW stages, NEW ids, NEW titles, NEW times,
         op \in OpRecord(kinds, stages, ids, titles, times), NEW at, op' = [op EXCEPT !.at = at]
  PROVE  /\ op'.kind = op.kind /\ op'.at = at /\ op'.id = op.id /\ op'.title = op.title
         /\ op'.now = op.now
BY DEF OpRecord

LEMMA Proceeds ==
  ASSUME StoreInv, NEW at, at # "done", Proceed(at)
  PROVE  /\ op'.kind = op.kind /\ op'.at = at /\ op'.id = op.id /\ op'.title = op.title
         /\ op'.now = op.now
<1>1. PICK kinds, stages, ids, titles, times : op \in OpRecord(kinds, stages, ids, titles, times)
  <2>1. op \in Operation
    BY Zenon DEF StoreInv, WorkInv
  <2> QED
    BY <2>1, ZenonT(30) DEF Operation, OpRecord
<1>2. op' = [op EXCEPT !.at = at]
  BY Zenon DEF Proceed
<1> QED
  BY <1>1, <1>2, RecordMoves, Zenon

LEMMA Finishes == Proceed("done") => Idle'
BY Zenon DEF Proceed, Idle

\* From which stage to which a step goes.
SameOp == op'.id = op.id /\ op'.title = op.title /\ op'.now = op.now

LEMMA StatementMoves ==
  ASSUME StoreInv
  PROVE  /\ InsertSession => Inserting /\ Idle'
         /\ UpdateTitle => Renaming /\ Reading' /\ SameOp
         /\ ReadSummary => Reading /\ Idle'
         /\ UpdateSession => Updating /\ Asking' /\ SameOp
         /\ InsertUserMessage => Asking /\ Answering' /\ SameOp
         /\ InsertAssistantMessage => Answering /\ Idle'
<1>1. InsertSession => Inserting /\ Idle'
  BY Finishes, Zenon DEF InsertSession, Inserting
<1>2. ReadSummary => Reading /\ Idle'
  BY Finishes, Zenon DEF ReadSummary, Reading
<1>3. InsertAssistantMessage => Answering /\ Idle'
  BY Finishes, Zenon DEF InsertAssistantMessage, Answering
<1>4. ASSUME UpdateTitle PROVE Renaming /\ Reading' /\ SameOp
  <2>1. Renaming /\ Proceed("read")
    BY <1>4, Zenon DEF UpdateTitle, Renaming
  <2>2. op'.kind = op.kind /\ op'.at = "read" /\ SameOp
    <3>1. "read" # "done"
      BY Zenon
    <3> QED
      BY <2>1, <3>1, Proceeds, Zenon DEF SameOp
  <2> QED
    BY <2>1, <2>2, Zenon DEF Renaming, Reading, Doing
<1>5. ASSUME UpdateSession PROVE Updating /\ Asking' /\ SameOp
  <2>1. Updating /\ Proceed("insert user")
    BY <1>5, Zenon DEF UpdateSession, Updating
  <2>2. op'.kind = op.kind /\ op'.at = "insert user" /\ SameOp
    <3>1. "insert user" # "done"
      BY Zenon
    <3> QED
      BY <2>1, <3>1, Proceeds, Zenon DEF SameOp
  <2> QED
    BY <2>1, <2>2, Zenon DEF Updating, Asking, Doing
<1>6. ASSUME InsertUserMessage PROVE Asking /\ Answering' /\ SameOp
  <2>1. Asking /\ Proceed("insert assistant")
    BY <1>6, Zenon DEF InsertUserMessage, Asking
  <2>2. op'.kind = op.kind /\ op'.at = "insert assistant" /\ SameOp
    <3>1. "insert assistant" # "done"
      BY Zenon
    <3> QED
      BY <2>1, <3>1, Proceeds, Zenon DEF SameOp
  <2> QED
    BY <2>1, <2>2, Zenon DEF Asking, Answering, Doing
<1> QED
  BY <1>1, <1>2, <1>3, <1>4, <1>5, <1>6, Zenon

LEMMA Begins ==
  ASSUME NEW kind, NEW at, NEW id, NEW title, Begin(kind, at, id, title)
  PROVE  /\ Idle /\ Doing(kind, at)' /\ op'.id = id /\ op'.title = title /\ clock' = clock + 1
         /\ initialized # {}
         /\ UNCHANGED <<sessions, renamed, messages, held, torn>>
BY DEF Begin, Idle, Doing, file

LEMMA OperationBegins ==
  /\ createSession => Idle /\ Inserting' /\ op'.id \notin Kept
  /\ renameSession => Idle /\ Renaming'
  /\ saveTurn => Idle /\ Updating' /\ op'.id = held.id
<1>1. createSession => Idle /\ Inserting' /\ op'.id \notin Kept
  <2>1. createSession => \E id : id \notin Kept /\ Begin("create", "insert", id, NewTitle)
    BY Zenon DEF createSession, Kept
  <2> QED
    BY <2>1, Begins, Zenon DEF Inserting
<1>2. renameSession => Idle /\ Renaming'
  <2>1. renameSession => \E id, title : Begin("rename", "update", id, title)
    BY Zenon DEF renameSession
  <2> QED
    BY <2>1, Begins, Zenon DEF Renaming
<1>3. saveTurn => Idle /\ Updating' /\ op'.id = held.id
  <2>1. saveTurn => \E title : Begin("turn", "update", held.id, title)
    BY Zenon DEF saveTurn
  <2> QED
    BY <2>1, Begins, Zenon DEF Updating
<1> QED
  BY <1>1, <1>2, <1>3, Zenon

LEMMA OperationStarts ==
  ASSUME createSession \/ renameSession \/ saveTurn
  PROVE  /\ clock' = clock + 1 /\ initialized # {}
         /\ UNCHANGED <<sessions, renamed, messages, held, torn>>
<1>1. \E kind, at, id, title : Begin(kind, at, id, title)
  BY Zenon DEF createSession, renameSession, saveTurn
<1> QED
  BY <1>1, Begins

\* What the steps of the connection leave alone.
Quiet ==
  /\ UNCHANGED <<op, held, torn, clock, messages>>
  /\ initialized = {} \/ UNCHANGED <<sessions, renamed>>

Starting == createSession \/ renameSession \/ saveTurn

LEMMA StepKinds ==
  ASSUME StoreInv, [Next]_vars
  PROVE  Quiet \/ Reload \/ StatementFails \/ Starting \/ loadSession \/ Statement
<1>1. CASE UNCHANGED vars
  BY <1>1 DEF vars, file, work, Quiet
<1>2. ASSUME NEW s \in Stores, InitStore(s) \/ InitDone(s) \/ InitFails(s) PROVE Quiet
  BY <1>2 DEF InitStore, InitDone, InitFails, Quiet, file, work
<1>3. ASSUME NEW s \in Stores, Schema(s) PROVE Quiet
  <2>1. UNCHANGED <<work, clock>> /\ messages' = messages /\ initialized = {}
    BY <1>3, SchemaMoves, SchemaKeeps, OnlyOne DEF StoreInv
  <2> QED
    BY <2>1 DEF Quiet, work
<1> QED
  BY <1>1, <1>2, <1>3 DEF Next, Starting

\* The steps that follow an operation leave it alone or end it.
LEMMA QuietStages ==
  ASSUME op' = op
  PROVE  /\ (Inserting' <=> Inserting) /\ (Renaming' <=> Renaming)
         /\ (Reading' <=> Reading) /\ (Updating' <=> Updating)
         /\ (Asking' <=> Asking) /\ (Answering' <=> Answering) /\ (Idle' <=> Idle)
BY Zenon DEF Inserting, Renaming, Reading, Updating, Asking, Answering, Idle, Doing

LEMMA Ends ==
  ASSUME Idle'
  PROVE  ~(Inserting \/ Renaming \/ Reading \/ Updating \/ Asking \/ Answering)'
<1>1. op' = NoOp
  BY Zenon DEF Idle
<1>2. op'.kind = "none"
  BY <1>1 DEF NoOp
<1> QED
  BY <1>2, Zenon DEF Inserting, Renaming, Reading, Updating, Asking, Answering, Doing

LEMMA OneStageNext ==
  /\ Inserting' => ~(Renaming \/ Reading \/ Updating \/ Asking \/ Answering)'
  /\ Renaming' => ~(Inserting \/ Reading \/ Updating \/ Asking \/ Answering)'
  /\ Reading' => ~(Inserting \/ Renaming \/ Updating \/ Asking \/ Answering)'
  /\ Updating' => ~(Inserting \/ Renaming \/ Reading \/ Asking \/ Answering)'
  /\ Asking' => ~(Inserting \/ Renaming \/ Reading \/ Updating \/ Answering)'
  /\ Answering' => ~(Inserting \/ Renaming \/ Reading \/ Updating \/ Asking)'
<1>2. /\ Inserting' => op'.kind = "create"
      /\ Renaming' => op'.kind = "rename" /\ op'.at = "update"
      /\ Reading' => op'.kind = "rename" /\ op'.at = "read"
      /\ Updating' => op'.kind = "turn" /\ op'.at = "update"
      /\ Asking' => op'.kind = "turn" /\ op'.at = "insert user"
      /\ Answering' => op'.kind = "turn" /\ op'.at = "insert assistant"
  BY Zenon DEF Inserting, Renaming, Reading, Updating, Asking, Answering, Doing
<1> QED
  BY <1>2, Zenon

\* An operation that runs keeps its stage, or goes on to the next.
LEMMA Interrupted == StatementFails \/ Reload => Idle'
BY Zenon DEF StatementFails, Reload, Idle

LEMMA Loads ==
  ASSUME loadSession
  PROVE  /\ Idle /\ op' = op /\ UNCHANGED <<sessions, renamed, messages, clock>>
         /\ \E id \in DOMAIN sessions : held' = RuntimeSession(id) /\ torn' = torn \ {id}
BY DEF loadSession, Idle, file

LEMMA StageKept == StoreInv /\ StageInv /\ [Next]_vars => StageInv'
<1> SUFFICES ASSUME StoreInv, StageInv, [Next]_vars PROVE StageInv'
  OBVIOUS
<1>1. CASE Idle'
  BY <1>1, Ends, Zenon DEF StageInv
<1>2. CASE Starting
  <2>1. held' = held /\ Kept' = Kept
    BY <1>2, OperationStarts DEF Starting, Kept
  <2>2. CASE createSession
    BY <2>1, <2>2, OperationBegins, OneStageNext, Zenon DEF StageInv
  <2>3. CASE renameSession
    BY <2>1, <2>3, OperationBegins, OneStageNext, Zenon DEF StageInv
  <2>4. CASE saveTurn
    BY <2>1, <2>4, OperationBegins, OneStageNext, Zenon DEF StageInv
  <2> QED
    BY <1>2, <2>2, <2>3, <2>4 DEF Starting
<1>3. CASE loadSession
  BY <1>1, <1>3, Loads, Zenon DEF Idle
<1>4. CASE Quiet
  <2>1. op' = op /\ held' = held
    BY <1>4, Zenon DEF Quiet
  <2>2. Inserting => Kept' = Kept
    <3>1. Inserting => initialized # {}
      <4>1. Inserting => op.kind = "create" /\ "create" # "none"
        BY Zenon DEF Inserting, Doing
      <4> QED
        BY <4>1, OpRunning, Zenon
    <3> QED
      BY <1>4, <3>1 DEF Quiet, Kept
  <2> QED
    BY <2>1, <2>2, QuietStages, Zenon DEF StageInv
<1>5. CASE Statement
  <2>1. CASE UpdateTitle
    BY <2>1, StatementMoves, OneStageNext, Zenon DEF StageInv
  <2>2. CASE UpdateSession
    <3>1. held' = held
      BY <2>2, Zenon DEF UpdateSession
    <3> QED
      BY <2>2, <3>1, StatementMoves, OneStageNext, Zenon DEF StageInv, SameOp
  <2>3. CASE InsertUserMessage
    <3>1. held' = held
      BY <2>3, Zenon DEF InsertUserMessage
    <3> QED
      BY <2>3, <3>1, StatementMoves, OneStageNext, Zenon DEF StageInv, SameOp
  <2>4. CASE InsertSession \/ ReadSummary \/ InsertAssistantMessage
    BY <1>1, <2>4, StatementMoves, Zenon
  <2> QED
    BY <1>5, <2>1, <2>2, <2>3, <2>4, Zenon DEF Statement
<1> QED
  BY <1>1, <1>2, <1>3, <1>4, <1>5, StepKinds, Interrupted, Zenon

-----------------------------------------------------------------------------
(***************************************************************************)
(* The times of the messages: no message is later than the operation that  *)
(* runs, and until it answers all are earlier.                             *)
(***************************************************************************)
NotLater(list, time) ==
  \A k \in DOMAIN list : list[k].turn <= time /\ list[k].created <= time

TimesInv ==
  /\ InTime(messages) /\ NotLater(messages, clock)
  /\ ~Idle /\ ~Answering => \A k \in DOMAIN messages : messages[k].created < clock

LEMMA MessageTyped ==
  ASSUME StoreInv, Asking \/ Answering
  PROVE  /\ UserMessage \in MessageRecord /\ AssistantMessage \in MessageRecord
         /\ UserMessage.session = op.id /\ AssistantMessage.session = op.id
         /\ UserMessage.turn = clock /\ AssistantMessage.turn = clock
         /\ UserMessage.created = clock - 1 /\ AssistantMessage.created = clock
         /\ UserMessage.role = "user" /\ AssistantMessage.role = "assistant"
         /\ op.id \in DOMAIN sessions /\ op.id \in Sessions /\ op.now = clock /\ clock \in 2 .. MaxTime
         /\ messages \in Seq(MessageRecord)
<1>1. op.kind = "turn" /\ op.kind # "none"
  BY Zenon DEF Asking, Answering, Doing
<1>2. op.now = clock /\ clock \in 2 .. MaxTime
  BY <1>1, OpRunning
<1>3. op.id \in DOMAIN sessions /\ DOMAIN sessions \subseteq Sessions
  BY <1>1 DEF StoreInv, WorkInv, FileInv, TableTyped
<1>4. clock \in Nat /\ clock - 1 \in Nat
  BY <1>2, BoundsAssumption
<1> QED
  BY <1>2, <1>3, <1>4 DEF UserMessage, AssistantMessage, Message, MessageRecord, StoreInv, MessagesInv

NoneLater(list, m) == \A k \in DOMAIN list : list[k].created <= m.created

OneMore(list, m, longer) ==
  \A k \in DOMAIN longer : (k \in DOMAIN list /\ longer[k] = list[k]) \/ longer[k] = m

LEMMA InTimeGrows ==
  ASSUME NEW list \in Seq(MessageRecord), NEW m \in MessageRecord, InTime(list),
         NoneLater(list, m), NEW longer, longer = Append(list, m)
  PROVE  InTime(longer) /\ OneMore(list, m, longer)
<1> USE DEF NoneLater, OneMore
<1>1. PICK n \in Nat : /\ n = Len(list) /\ DOMAIN list = 1 .. n /\ DOMAIN longer = 1 .. n + 1
                       /\ \A k \in 1 .. n : longer[k] = list[k]
                       /\ longer[n + 1] = m
  BY AppendProperties
<1>2. \A k \in 1 .. n + 1 : k \in 1 .. n \/ k = n + 1
  BY <1>1
<1>3. ASSUME NEW j \in 1 .. n + 1, NEW k \in 1 .. n + 1, j < k
      PROVE  longer[j].created <= longer[k].created
  <2>1. j \in 1 .. n
    BY <1>1, <1>3
  <2>2. CASE k \in 1 .. n
    BY <1>1, <1>3, <2>1, <2>2 DEF InTime
  <2>3. CASE k = n + 1
    BY <1>1, <2>1, <2>3
  <2> QED
    BY <1>2, <2>2, <2>3
<1> QED
  BY <1>1, <1>2, <1>3 DEF InTime

LEMMA TimesKept == StoreInv /\ StageInv /\ TimesInv /\ [Next]_vars => TimesInv'
<1> SUFFICES ASSUME StoreInv, StageInv, TimesInv, [Next]_vars PROVE TimesInv'
  OBVIOUS
<1>0. /\ clock \in Nat /\ messages \in Seq(MessageRecord)
      /\ \A k \in DOMAIN messages : messages[k].turn \in Nat /\ messages[k].created \in Nat
  <2>1. clock \in Nat /\ messages \in Seq(MessageRecord)
    BY BoundsAssumption DEF StoreInv, WorkInv, MessagesInv
  <2>2. \A k \in DOMAIN messages : messages[k] \in MessageRecord
    BY <2>1
  <2> QED
    BY <2>1, <2>2 DEF MessageRecord
<1>1. CASE messages' = messages /\ clock' = clock /\ (Idle' \/ (~Idle /\ ~Answering) \/ Answering')
  BY <1>1, Zenon DEF TimesInv
<1>2. CASE Starting
  <2>1. messages' = messages /\ clock' = clock + 1
    BY <1>2, OperationStarts DEF Starting
  <2>2. NotLater(messages, clock + 1) /\ \A k \in DOMAIN messages : messages[k].created < clock + 1
    BY <1>0 DEF TimesInv, NotLater
  <2> QED
    BY <2>1, <2>2, Zenon DEF TimesInv
<1>3. CASE loadSession \/ Quiet
  <2>1. messages' = messages /\ clock' = clock /\ op' = op
    BY <1>3, Loads DEF Quiet
  <2> QED
    BY <2>1, QuietStages, Zenon DEF TimesInv
<1>4. CASE StatementFails \/ Reload
  <2>1. messages' = messages /\ clock' = clock
    BY <1>4 DEF StatementFails, Reload, file
  <2> QED
    BY <1>1, <1>4, <2>1, Interrupted, Zenon
<1>5. CASE InsertSession \/ UpdateTitle \/ ReadSummary \/ UpdateSession
  <2>1. messages' = messages /\ clock' = clock
    BY <1>5 DEF InsertSession, UpdateTitle, ReadSummary, UpdateSession, Unfailed
  <2>2. Idle' \/ (~Idle /\ ~Answering)
    BY <1>5, StatementMoves, OneStage, Zenon
  <2> QED
    BY <1>1, <2>1, <2>2, Zenon
<1>6. ASSUME NEW m \in MessageRecord, messages' = Append(messages, m), clock' = clock,
             m.turn = clock, m.created \in Nat, m.created <= clock,
             \A k \in DOMAIN messages : messages[k].created <= m.created,
             Idle' \/ Answering'
      PROVE  TimesInv'
  <2>0. PICK longer : longer = Append(messages, m)
    OBVIOUS
  <2>1. /\ InTime(messages')
        /\ \A k \in DOMAIN messages' :
             (k \in DOMAIN messages /\ messages'[k] = messages[k]) \/ messages'[k] = m
    <3>1. InTime(messages)
      BY Zenon DEF TimesInv
    <3>2. InTime(longer) /\ OneMore(messages, m, longer)
      <4>1. messages \in Seq(MessageRecord) /\ m \in MessageRecord
        BY <1>0
      <4>2. NoneLater(messages, m)
        BY <1>6 DEF NoneLater
      <4> QED
        BY <2>0, <3>1, <4>1, <4>2, InTimeGrows, Zenon
    <3>3. messages' = longer
      BY <1>6, <2>0
    <3> QED
      BY <3>2, <3>3, Zenon DEF OneMore
  <2>2. NotLater(messages', clock)
    BY <1>0, <1>6, <2>1 DEF NotLater, TimesInv
  <2> QED
    BY <1>6, <2>1, <2>2, Zenon DEF TimesInv
<1>7. CASE InsertUserMessage
  <2>1. Asking /\ Answering' /\ ~Idle /\ ~Answering
    BY <1>7, StatementMoves, OneStage, Zenon
  <2>2. messages' = Append(messages, UserMessage) /\ clock' = clock
    BY <1>7 DEF InsertUserMessage, Unfailed
  <2>3. \A k \in DOMAIN messages : messages[k].created < clock
    BY <2>1, Zenon DEF TimesInv
  <2>4. /\ UserMessage \in MessageRecord /\ UserMessage.turn = clock
        /\ UserMessage.created = clock - 1 /\ clock \in 2 .. MaxTime
    BY <2>1, MessageTyped
  <2>5. UserMessage.created \in Nat /\ UserMessage.created <= clock
    BY <1>0, <2>4
  <2>6. \A k \in DOMAIN messages : messages[k].created <= UserMessage.created
    BY <1>0, <2>3, <2>4
  <2> QED
    BY <1>6, <2>1, <2>2, <2>4, <2>5, <2>6
<1>8. CASE InsertAssistantMessage
  <2>1. Answering /\ Idle'
    BY <1>8, StatementMoves, Zenon
  <2>2. messages' = Append(messages, AssistantMessage) /\ clock' = clock
    BY <1>8 DEF InsertAssistantMessage, Unfailed
  <2>3. /\ AssistantMessage \in MessageRecord /\ AssistantMessage.turn = clock
        /\ AssistantMessage.created = clock
    BY <2>1, MessageTyped
  <2>4. \A k \in DOMAIN messages : messages[k].created <= AssistantMessage.created
    BY <2>3 DEF TimesInv, NotLater
  <2>5. AssistantMessage.created \in Nat /\ AssistantMessage.created <= clock
    BY <1>0, <2>3
  <2> QED
    BY <1>6, <2>1, <2>2, <2>3, <2>4, <2>5
<1> QED
  BY <1>2, <1>3, <1>4, <1>5, <1>7, <1>8, StepKinds, Zenon DEF Statement

-----------------------------------------------------------------------------
(***************************************************************************)
(* Answers stand behind their questions.                                   *)
(***************************************************************************)
LEMMA ReadsTranscriptNext == \A id : messagesForSession(id)' = Transcript(messages', id)
BY Zenon DEF messagesForSession, Transcript, Kth, RowsOf

LEMMA TranscriptNotLater ==
  ASSUME NEW list \in Seq(MessageRecord), InTime(list), NEW time, NotLater(list, time), NEW id
  PROVE  NotLater(Transcript(list, id), time)
<1>1. PICK rows, t : rows = RowsOf(list, id) /\ t = Transcript(list, id)
  OBVIOUS
<1>2. PICK at : Stands(at, list, id)
  BY TranscriptStands
<1>3. t \in Seq(MessageRecord) /\ Len(t) = Cardinality(rows)
  BY <1>1, TranscriptStands
<1>4. \A k \in DOMAIN t : at[k] \in DOMAIN list /\ t[k] = list[at[k]]
  BY <1>1, <1>2, <1>3 DEF Stands, RowsOf
<1> QED
  BY <1>1, <1>4, Zenon DEF NotLater

OneLonger(t, m, longer, n) ==
  /\ n \in Nat /\ n = Len(t) /\ DOMAIN t = 1 .. n /\ DOMAIN longer = 1 .. n + 1
  /\ \A k \in 1 .. n : longer[k] = t[k]
  /\ longer[n + 1] = m /\ Len(longer) = n + 1

LEMMA AppendShape ==
  \A t \in Seq(MessageRecord), m \in MessageRecord : OneLonger(t, m, Append(t, m), Len(t))
<1> TAKE t \in Seq(MessageRecord), m \in MessageRecord
<1> QED
  BY AppendProperties DEF OneLonger

\* The question an answer of this turn would follow.
Asked(t, turn) == t # << >> /\ t[Len(t)].role = "user" /\ t[Len(t)].turn = turn

LEMMA OneMoreFollows ==
  ASSUME NEW t \in Seq(MessageRecord), NEW m \in MessageRecord, AnswersFollowQuestions(t),
         NotLater(t, m.turn), m.role = "assistant" => Asked(t, m.turn),
         NEW longer, longer = Append(t, m)
  PROVE  AnswersFollowQuestions(longer) /\ (m.role = "user" => Asked(longer, m.turn))
<1>1. PICK n \in Nat : /\ n = Len(t) /\ DOMAIN t = 1 .. n /\ DOMAIN longer = 1 .. n + 1
                       /\ \A k \in 1 .. n : longer[k] = t[k]
                       /\ longer[n + 1] = m /\ Len(longer) = n + 1
  <2>1. OneLonger(t, m, longer, Len(t))
    BY AppendShape, Zenon
  <2> QED
    BY <2>1, Zenon DEF OneLonger
<1>2. \A k \in 1 .. n + 1 : k \in 1 .. n \/ k = n + 1
  BY <1>1
<1>3. ASSUME NEW k \in 1 .. n
      PROVE  /\ longer[k].role = "assistant" =>
                  /\ k > 1 /\ longer[k - 1].role = "user"
                  /\ longer[k - 1].turn = longer[k].turn
             /\ k > 1 => longer[k - 1].turn <= longer[k].turn
  <2>1. k > 1 => k - 1 \in 1 .. n
    BY <1>1
  <2>2. longer[k] = t[k] /\ (k > 1 => longer[k - 1] = t[k - 1])
    BY <1>1, <2>1
  <2> QED
    BY <1>1, <2>2 DEF AnswersFollowQuestions
<1>4. n + 1 > 1 => n \in 1 .. n /\ longer[n] = t[n] /\ t[n].turn <= m.turn
  BY <1>1 DEF NotLater
<1>5. m.role = "assistant" => n >= 1 /\ t[n].role = "user" /\ t[n].turn = m.turn
  <2>1. t # << >> => n >= 1
    BY <1>1, EmptySeq
  <2> QED
    BY <1>1, <2>1 DEF Asked
<1>6. PICK k : k = n + 1
  OBVIOUS
<1>7. k - 1 = n /\ k \in 1 .. n + 1 /\ longer[k] = m
  BY <1>1, <1>6
<1>8. /\ longer[k].role = "assistant" =>
            /\ k > 1 /\ longer[k - 1].role = "user"
            /\ longer[k - 1].turn = longer[k].turn
      /\ k > 1 => longer[k - 1].turn <= longer[k].turn
  BY <1>1, <1>4, <1>5, <1>6, <1>7
<1>9. AnswersFollowQuestions(longer)
  BY <1>1, <1>2, <1>3, <1>6, <1>8, Zenon DEF AnswersFollowQuestions
<1>10. m.role = "user" => Asked(longer, m.turn)
  <2>1. longer # << >>
    BY <1>1
  <2> QED
    BY <1>1, <2>1 DEF Asked
<1> QED
  BY <1>9, <1>10

AnswersInv ==
  /\ \A id \in Sessions : AnswersFollowQuestions(Transcript(messages, id))
  /\ Answering => Asked(Transcript(messages, op.id), clock)

\* What the two inserts of a turn add to the transcripts.
Adds(m) ==
  \A id : Transcript(messages', id) =
            IF op.id = id THEN Append(Transcript(messages, id), m) ELSE Transcript(messages, id)

LEMMA InsertAdds ==
  ASSUME StoreInv, TimesInv', NEW m \in MessageRecord, m.session = op.id,
         messages' = Append(messages, m)
  PROVE  Adds(m)
<1>1. PICK longer : longer = Append(messages, m)
  OBVIOUS
<1>2. InTime(longer) /\ messages \in Seq(MessageRecord)
  <2>1. InTime(messages')
    BY Zenon DEF TimesInv
  <2> QED
    BY <1>1, <2>1 DEF StoreInv, MessagesInv
<1>3. Grows(messages, m, longer)
  BY <1>1, <1>2, TranscriptsGrow, Zenon
<1> QED
  BY <1>1, <1>3, Zenon DEF Adds, Grows

LEMMA UserAdds ==
  ASSUME StoreInv, TimesInv', InsertUserMessage
  PROVE  Adds(UserMessage)
<1>1. Asking
  BY StatementMoves
<1>2. messages' = Append(messages, UserMessage)
  BY DEF InsertUserMessage
<1> QED
  BY <1>1, <1>2, MessageTyped, InsertAdds, Zenon

LEMMA AssistantAdds ==
  ASSUME StoreInv, TimesInv', InsertAssistantMessage
  PROVE  Adds(AssistantMessage)
<1>1. Answering
  BY StatementMoves
<1>2. messages' = Append(messages, AssistantMessage)
  BY DEF InsertAssistantMessage
<1> QED
  BY <1>1, <1>2, MessageTyped, InsertAdds, Zenon


\* Until its question is stored, a turn has no answer to store.
LEMMA StillUnasked ==
  ASSUME StoreInv, Starting \/ Reload \/ StatementFails \/ loadSession
                   \/ InsertSession \/ UpdateTitle \/ ReadSummary \/ UpdateSession
  PROVE  messages' = messages /\ ~Answering'
<1>1. CASE Starting
  <2>1. Inserting' \/ Renaming' \/ Updating'
    BY <1>1, OperationBegins, Zenon DEF Starting
  <2> QED
    BY <1>1, <2>1, OperationStarts, OneStageNext, Zenon DEF Starting
<1>2. CASE Reload \/ StatementFails
  <2>1. messages' = messages
    BY <1>2 DEF Reload, StatementFails, file
  <2> QED
    BY <1>2, <2>1, Interrupted, Ends, Zenon
<1>3. CASE loadSession
  BY <1>3, Loads, QuietStages, OneStage, Zenon
<1>4. CASE InsertSession \/ UpdateTitle \/ ReadSummary \/ UpdateSession
  <2>1. messages' = messages
    BY <1>4, Zenon DEF InsertSession, UpdateTitle, ReadSummary, UpdateSession
  <2>2. Idle' \/ Reading' \/ Asking'
    BY <1>4, StatementMoves, Zenon
  <2> QED
    BY <2>1, <2>2, OneStageNext, Ends, Zenon
<1> QED
  BY <1>1, <1>2, <1>3, <1>4, Zenon

LEMMA AnswersKept ==
  StoreInv /\ StageInv /\ TimesInv /\ TimesInv' /\ AnswersInv /\ [Next]_vars => AnswersInv'
<1> SUFFICES ASSUME StoreInv, StageInv, TimesInv, TimesInv', AnswersInv, [Next]_vars
             PROVE  AnswersInv'
  OBVIOUS
<1>0. /\ messages \in Seq(MessageRecord) /\ InTime(messages) /\ NotLater(messages, clock)
      /\ \A id : Transcript(messages, id) \in Seq(MessageRecord)
      /\ \A id : NotLater(Transcript(messages, id), clock)
  <2>1. messages \in Seq(MessageRecord) /\ InTime(messages) /\ NotLater(messages, clock)
    BY Zenon DEF StoreInv, MessagesInv, TimesInv
  <2> QED
    BY <2>1, TranscriptStands, TranscriptNotLater
<1>1. CASE messages' = messages /\ ~Answering'
  BY <1>1, Zenon DEF AnswersInv
<1>2. CASE Quiet
  <2>1. messages' = messages /\ op' = op /\ clock' = clock
    BY <1>2, Zenon DEF Quiet
  <2> QED
    BY <2>1, QuietStages, Zenon DEF AnswersInv
<1>3. CASE InsertUserMessage
  <2>1. Asking /\ Answering' /\ SameOp /\ Adds(UserMessage) /\ clock' = clock
    BY <1>3, StatementMoves, UserAdds DEF InsertUserMessage, Unfailed
  <2>2. /\ UserMessage \in MessageRecord /\ UserMessage.role = "user"
        /\ UserMessage.turn = clock /\ op.id \in Sessions
    BY <2>1, MessageTyped
  <2>3. PICK m : m = UserMessage
    OBVIOUS
  <2>4. PICK t, longer : t = Transcript(messages, op.id) /\ longer = Append(t, m)
    OBVIOUS
  <2>5. AnswersFollowQuestions(longer) /\ Asked(longer, clock)
    <3>1. t \in Seq(MessageRecord) /\ AnswersFollowQuestions(t) /\ NotLater(t, m.turn)
      BY <1>0, <2>2, <2>3, <2>4 DEF AnswersInv
    <3>2. m \in MessageRecord /\ m.role = "user" /\ m.turn = clock
      BY <2>2, <2>3
    <3>3. ~(m.role = "assistant")
      BY <3>2
    <3> QED
      BY <2>4, <3>1, <3>2, <3>3, OneMoreFollows
  <2>6. Transcript(messages', op.id) = longer
    BY <2>1, <2>3, <2>4, Zenon DEF Adds
  <2>7. \A id \in Sessions : AnswersFollowQuestions(Transcript(messages', id))
    BY <2>1, <2>3, <2>4, <2>5, Zenon DEF Adds, AnswersInv
  <2>8. op'.id = op.id
    BY <2>1 DEF SameOp
  <2> QED
    BY <2>1, <2>5, <2>6, <2>7, <2>8, Zenon DEF AnswersInv
<1>4. CASE InsertAssistantMessage
  <2>1. Answering /\ ~Answering' /\ Adds(AssistantMessage)
    BY <1>4, StatementMoves, Ends, AssistantAdds, Zenon
  <2>2. /\ AssistantMessage \in MessageRecord
        /\ AssistantMessage.turn = clock /\ op.id \in Sessions
    BY <2>1, MessageTyped
  <2>3. PICK m : m = AssistantMessage
    OBVIOUS
  <2>4. PICK t, longer : t = Transcript(messages, op.id) /\ longer = Append(t, m)
    OBVIOUS
  <2>5. AnswersFollowQuestions(longer)
    <3>1. t \in Seq(MessageRecord) /\ AnswersFollowQuestions(t) /\ NotLater(t, m.turn)
      BY <1>0, <2>2, <2>3, <2>4 DEF AnswersInv
    <3>2. m \in MessageRecord /\ Asked(t, m.turn)
      BY <2>1, <2>2, <2>3, <2>4 DEF AnswersInv
    <3> QED
      BY <2>4, <3>1, <3>2, OneMoreFollows
  <2>6. \A id \in Sessions : AnswersFollowQuestions(Transcript(messages', id))
    BY <2>1, <2>3, <2>4, <2>5, Zenon DEF Adds, AnswersInv
  <2> QED
    BY <2>1, <2>6, Zenon DEF AnswersInv
<1> QED
  BY <1>1, <1>2, <1>3, <1>4, StillUnasked, StepKinds, Zenon DEF Statement

-----------------------------------------------------------------------------
(***************************************************************************)
(* What the page remembers of a session no operation of which failed.      *)
(***************************************************************************)
Known == held.id # NoSession /\ held.id \notin torn

Question == Message(op.id, "user", op.now, op.now - 1)

MessagesShown == held.messages = Transcript(messages, held.id)

QuestionStored == Transcript(messages, held.id) = Append(held.messages, Question)

\* The page has the messages that are stored, but for a question that waits for
\* its answer.
MessagesRemembered ==
  /\ held.messages \in Seq(MessageRecord)
  /\ Known => IF Answering THEN QuestionStored ELSE MessagesShown

LEMMA Unchanged ==
  /\ held' = held /\ messages' = messages => (MessagesShown' <=> MessagesShown)
  /\ held' = held /\ torn' = torn => (Known' <=> Known)
  /\ SameOp => Question' = Question
BY Zenon DEF MessagesShown, Known, SameOp, Question, Message

LEMMA AppendTwo ==
  \A s \in Seq(MessageRecord), x, y \in MessageRecord :
    s \o <<x, y>> \in Seq(MessageRecord) /\ s \o <<x, y>> = Append(Append(s, x), y)
OBVIOUS

\* After an operation that failed, the session is not known.
LEMMA FailureForgets ==
  ASSUME StageInv, StatementFails
  PROVE  /\ held' = held /\ messages' = messages /\ sessions' = sessions /\ Idle'
         /\ Known' => Known /\ held.id # op.id /\ ~(Updating \/ Asking \/ Answering)
<1>1. /\ held' = held /\ torn' = torn \union {op.id} /\ messages' = messages
      /\ sessions' = sessions
  BY DEF StatementFails, file
<1>2. Known' => Known /\ held.id # op.id
  BY <1>1 DEF Known
<1> QED
  BY <1>1, <1>2, Interrupted, Zenon DEF StageInv

LEMMA NewHeld ==
  ASSUME StoreInv, StageInv, TimesInv, InsertSession
  PROVE  /\ held'.id = op.id /\ held'.messages = << >> /\ messages' = messages
         /\ held'.row = sessions'[op.id] /\ Transcript(messages, op.id) = << >>
<1>1. /\ held' = [id |-> op.id, row |-> Row(op.title, op.now, << >>), messages |-> << >>]
      /\ sessions' = [i \in DOMAIN sessions \union {op.id} |->
                        IF i = op.id THEN Row(op.title, op.now, << >>) ELSE sessions[i]]
      /\ messages' = messages
  BY DEF InsertSession
<1>2. op.id \notin Kept
  BY StatementMoves DEF StageInv
<1>3. RowsOf(messages, op.id) = {}
  BY <1>2 DEF StoreInv, MessagesInv, RowsOf
<1>4. messages \in Seq(MessageRecord) /\ InTime(messages)
  BY Zenon DEF StoreInv, MessagesInv, TimesInv
<1>5. Transcript(messages, op.id) = << >>
  BY <1>3, <1>4, NoTranscript
<1> QED
  BY <1>1, <1>5

LEMMA Forgotten == Reload => ~Known' /\ held'.messages = << >>
BY DEF Reload, Unheld, Known

LEMMA SummaryRead ==
  ASSUME StoreInv, ReadSummary
  PROVE  /\ held'.id = held.id /\ held'.messages = held.messages /\ torn' = torn
         /\ messages' = messages /\ sessions' = sessions
         /\ held'.row = IF held.id = op.id
                        THEN [held.row EXCEPT !.title = sessions[held.id].title,
                                              !.updated = sessions[held.id].updated]
                        ELSE held.row
<1>1. DOMAIN held = {"id", "row", "messages"} /\ held = [f \in DOMAIN held |-> held[f]]
  BY DEF StoreInv, WorkInv
<1>2. /\ torn' = torn /\ messages' = messages /\ sessions' = sessions
      /\ held' = IF held.id = op.id
                 THEN [held EXCEPT !.row = [held.row EXCEPT !.title = sessions[op.id].title,
                                                            !.updated = sessions[op.id].updated]]
                 ELSE held
  BY <1>1 DEF ReadSummary, Unfailed
<1> QED
  BY <1>1, <1>2

LEMMA MessagesHeld ==
  StoreInv /\ StageInv /\ TimesInv /\ TimesInv' /\ MessagesRemembered /\ [Next]_vars
    => MessagesRemembered'
<1> SUFFICES ASSUME StoreInv, StageInv, TimesInv, TimesInv', MessagesRemembered, [Next]_vars
             PROVE  MessagesRemembered'
  OBVIOUS
<1>0. /\ messages \in Seq(MessageRecord) /\ InTime(messages)
      /\ \A id : Transcript(messages, id) \in Seq(MessageRecord)
  <2>1. messages \in Seq(MessageRecord) /\ InTime(messages)
    BY Zenon DEF StoreInv, MessagesInv, TimesInv
  <2> QED
    BY <2>1, TranscriptStands
<1>1. CASE held' = held /\ messages' = messages /\ torn' = torn /\ ~Answering /\ ~Answering'
  BY <1>1, Unchanged, Zenon DEF MessagesRemembered
<1>2. CASE Quiet
  <2>1. op' = op /\ held' = held /\ torn' = torn /\ messages' = messages /\ SameOp
    BY <1>2, Zenon DEF Quiet, SameOp
  <2> QED
    BY <2>1, QuietStages, Unchanged, Zenon DEF MessagesRemembered, QuestionStored
<1>3. CASE Starting
  BY <1>1, <1>3, OperationStarts, OperationBegins, StillUnasked, OneStage, Zenon DEF Starting
<1>4. CASE Reload
  <2>1. ~Known' /\ held'.messages = << >>
    BY <1>4, Forgotten
  <2>2. held'.messages \in Seq(MessageRecord)
    BY <2>1
  <2> QED
    BY <2>1, <2>2, Zenon DEF MessagesRemembered
<1>5. CASE StatementFails
  BY <1>5, FailureForgets, Unchanged, Ends, Zenon DEF MessagesRemembered
<1>6. CASE loadSession
  <2>1. PICK id \in DOMAIN sessions : held' = RuntimeSession(id)
    BY <1>6, Loads
  <2>2. held'.id = id /\ held'.messages = messagesForSession(id)
    BY <2>1 DEF RuntimeSession
  <2>3. MessagesShown' /\ held'.messages \in Seq(MessageRecord)
    <3>1. messages' = messages
      BY <1>6, Loads
    <3> QED
      BY <1>0, <2>2, <3>1, ReadsTranscript DEF MessagesShown
  <2>4. ~Answering'
    BY <1>6, StillUnasked
  <2> QED
    BY <2>3, <2>4, Zenon DEF MessagesRemembered
<1>7. CASE InsertSession
  <2>1. MessagesShown' /\ held'.messages \in Seq(MessageRecord)
    <3>1. /\ held'.id = op.id /\ held'.messages = << >> /\ messages' = messages
          /\ Transcript(messages, op.id) = << >>
      BY <1>7, NewHeld
    <3>2. held'.messages \in Seq(MessageRecord)
      BY <3>1
    <3> QED
      BY <3>1, <3>2, Zenon DEF MessagesShown
  <2>2. ~Answering'
    BY <1>7, StillUnasked
  <2> QED
    BY <2>1, <2>2, Zenon DEF MessagesRemembered
<1>8. CASE UpdateTitle \/ UpdateSession
  <2>1. held' = held /\ torn' = torn
    BY <1>8 DEF UpdateTitle, UpdateSession, Unfailed
  <2> QED
    BY <1>1, <1>8, <2>1, StillUnasked, StatementMoves, OneStage, Zenon
<1>9. CASE ReadSummary
  <2>1. ~Answering /\ ~Answering' /\ messages' = messages
    BY <1>9, StillUnasked, StatementMoves, OneStage, Zenon
  <2>2. held'.messages = held.messages /\ (Known' <=> Known) /\ (MessagesShown' <=> MessagesShown)
    BY <1>9, SummaryRead, Zenon DEF Known, MessagesShown
  <2> QED
    BY <2>1, <2>2, Zenon DEF MessagesRemembered
<1>10. CASE InsertUserMessage
  <2>1. Asking /\ Answering' /\ SameOp /\ ~Answering
    BY <1>10, StatementMoves, OneStage, Zenon
  <2>2. held' = held /\ torn' = torn
    BY <1>10 DEF InsertUserMessage, Unfailed
  <2>3. Transcript(messages', held.id) = Append(Transcript(messages, held.id), Question)
    <3>1. op.id = held.id
      BY <2>1, Zenon DEF StageInv
    <3>2. Adds(Question)
      BY <1>10, UserAdds, Zenon DEF UserMessage, Question
    <3> QED
      BY <3>1, <3>2, Zenon DEF Adds
  <2>4. Known => QuestionStored'
    <3>1. Known => held.messages = Transcript(messages, held.id)
      BY <2>1, Zenon DEF MessagesRemembered, MessagesShown
    <3>2. Question' = Question
      BY <2>1, Unchanged
    <3> QED
      BY <2>2, <2>3, <3>1, <3>2, Zenon DEF QuestionStored
  <2> QED
    BY <2>1, <2>2, <2>4, Unchanged, Zenon DEF MessagesRemembered
<1>11. CASE InsertAssistantMessage
  <2>1. Answering /\ ~Answering'
    BY <1>11, StatementMoves, Ends, Zenon
  <2>2. op.id = held.id
    BY <2>1, Zenon DEF StageInv
  <2>3. Question \in MessageRecord /\ AssistantMessage \in MessageRecord
    BY <2>1, MessageTyped, Zenon DEF UserMessage, Question
  <2>4. /\ held'.id = op.id /\ torn' = torn
        /\ held'.messages = held.messages \o <<Question, AssistantMessage>>
    BY <1>11 DEF InsertAssistantMessage, Unfailed, UserMessage, Question
  <2>5. held.messages \in Seq(MessageRecord)
    BY DEF MessagesRemembered
  <2>6. /\ held'.messages \in Seq(MessageRecord)
        /\ held'.messages = Append(Append(held.messages, Question), AssistantMessage)
    BY <2>3, <2>4, <2>5, AppendTwo, Zenon
  <2>7. Transcript(messages', held.id) = Append(Transcript(messages, held.id), AssistantMessage)
    BY <1>11, <2>2, AssistantAdds, Zenon DEF Adds
  <2>8. Known' => MessagesShown'
    <3>1. Known' => Known
      BY <2>2, <2>4 DEF Known
    <3>2. Known => Transcript(messages, held.id) = Append(held.messages, Question)
      BY <2>1, Zenon DEF MessagesRemembered, QuestionStored
    <3> QED
      BY <2>2, <2>4, <2>6, <2>7, <3>1, <3>2, Zenon DEF MessagesShown
  <2> QED
    BY <2>1, <2>6, <2>8, Zenon DEF MessagesRemembered
<1> QED
  BY <1>2, <1>3, <1>4, <1>5, <1>6, <1>7, <1>8, <1>9, <1>10, <1>11, StepKinds, Zenon DEF Statement

Retitled(row, title, updated) == [row EXCEPT !.title = title, !.updated = updated]

Rewritten(row, title, updated, history) ==
  [row EXCEPT !.title = title, !.updated = updated, !.history = history]

RowShown == held.row = sessions[held.id]

RowRetitled ==
  sessions[held.id] = Retitled(held.row, sessions[held.id].title, sessions[held.id].updated)

RowWritten == sessions[held.id] = Rewritten(held.row, op.title, op.now, History)

\* The page has the row that is stored, but for what the statement that was
\* answered has changed: a title, or what a turn writes.
RowRemembered ==
  Known => /\ Idle \/ Inserting \/ Renaming \/ Updating => RowShown
           /\ Reading => IF held.id = op.id THEN RowRetitled ELSE RowShown
           /\ Asking \/ Answering => RowWritten

LEMMA RetitledAgain ==
  \A row \in RowRecord : \A title, updated :
    /\ Retitled(row, title, updated).title = title
    /\ Retitled(row, title, updated).updated = updated
BY DEF Retitled, RowRecord

LEMMA SameRow ==
  /\ held' = held /\ sessions' = sessions => (RowShown' <=> RowShown) /\ (RowRetitled' <=> RowRetitled)
  /\ held' = held /\ sessions' = sessions /\ SameOp => (RowWritten' <=> RowWritten)
BY Zenon DEF RowShown, RowRetitled, RowWritten, History, SameOp

\* The writes of a rename and of a turn, as rows.
LEMMA RowsChange ==
  ASSUME StoreInv, UpdateTitle \/ UpdateSession
  PROVE  /\ op.id \in DOMAIN sessions
         /\ UpdateTitle => sessions'[op.id] = Retitled(sessions[op.id], op.title, op.now)
         /\ UpdateSession => sessions'[op.id] = Rewritten(sessions[op.id], op.title, op.now, History)
         /\ \A id \in DOMAIN sessions : id # op.id => sessions'[id] = sessions[id]
         /\ held' = held /\ torn' = torn
<1>1. op.id \in DOMAIN sessions
  BY DEF UpdateTitle, UpdateSession, Doing, StoreInv, WorkInv
<1>2. sessions[op.id] \in RowRecord /\ sessions \in [DOMAIN sessions -> RowRecord]
  BY <1>1 DEF StoreInv, FileInv, TableTyped
<1>3. held' = held /\ torn' = torn
  BY DEF UpdateTitle, UpdateSession, Unfailed
<1>4. CASE UpdateTitle
  <2>1. sessions' = [sessions EXCEPT ![op.id] = [sessions[op.id] EXCEPT !.title = op.title,
                                                                      !.updated = op.now]]
    BY <1>1, <1>4 DEF UpdateTitle
  <2>2. ~UpdateSession
    BY <1>4, StatementMoves, OneStage, Zenon
  <2> QED
    BY <1>1, <1>3, <2>1, <2>2 DEF Retitled
<1>5. CASE UpdateSession
  <2>1. sessions' = [sessions EXCEPT ![op.id] = [sessions[op.id] EXCEPT !.title = op.title,
                                               !.updated = op.now, !.history = History]]
    BY <1>1, <1>5 DEF UpdateSession
  <2>2. ~UpdateTitle
    BY <1>5, StatementMoves, OneStage, Zenon
  <2> QED
    BY <1>1, <1>3, <2>1, <2>2 DEF Rewritten
<1> QED
  BY <1>4, <1>5

LEMMA RowHeld ==
  StoreInv /\ StageInv /\ TimesInv /\ RowRemembered /\ [Next]_vars => RowRemembered'
<1> SUFFICES ASSUME StoreInv, StageInv, TimesInv, RowRemembered, [Next]_vars
             PROVE  RowRemembered'
  OBVIOUS
<1>0. /\ Known => held.id \in DOMAIN sessions /\ initialized # {}
      /\ held.row \in RowRecord
  BY DEF StoreInv, WorkInv, Known
<1>1. CASE RowShown' /\ ~Reading' /\ ~Asking' /\ ~Answering'
  BY <1>1, Zenon DEF RowRemembered
<1>2. CASE Quiet
  <2>1. op' = op /\ held' = held /\ torn' = torn /\ SameOp /\ (sessions' = sessions \/ ~Known)
    BY <1>0, <1>2 DEF Quiet, SameOp
  <2>2. (Known' => Known) /\ op'.id = op.id /\ held'.id = held.id
    BY <2>1, Unchanged, Zenon
  <2>3. Known => sessions' = sessions
    BY <2>1
  <2> QED
    BY <2>1, <2>2, <2>3, QuietStages, SameRow, Zenon DEF RowRemembered
<1>3. CASE Starting
  <2>1. Inserting' \/ Renaming' \/ Updating'
    BY <1>3, OperationBegins, Zenon DEF Starting
  <2>2. Idle /\ held' = held /\ torn' = torn /\ sessions' = sessions
    BY <1>3, OperationStarts, OperationBegins, Zenon DEF Starting
  <2>3. Known' => RowShown'
    BY <2>2, Unchanged, SameRow, Zenon DEF RowRemembered
  <2>4. ~Reading' /\ ~Asking' /\ ~Answering'
    BY <2>1, OneStageNext, Zenon
  <2> QED
    BY <2>3, <2>4, Zenon DEF RowRemembered
<1>4. CASE Reload
  BY <1>4, Forgotten, Zenon DEF RowRemembered
<1>5. CASE StatementFails
  <2>1. /\ held' = held /\ sessions' = sessions /\ Idle'
        /\ Known' => Known /\ held.id # op.id /\ ~(Updating \/ Asking \/ Answering)
    BY <1>5, FailureForgets
  <2>2. Known' => RowShown
    BY <2>1, Zenon DEF RowRemembered, StageInv
  <2> QED
    BY <2>1, <2>2, SameRow, Ends, Zenon DEF RowRemembered
<1>6. CASE loadSession
  <2>1. PICK id \in DOMAIN sessions : held' = RuntimeSession(id)
    BY <1>6, Loads
  <2>2. held'.id = id /\ held'.row = sessions[id] /\ sessions' = sessions /\ Idle'
    BY <1>6, <2>1, Loads DEF RuntimeSession, Idle
  <2>3. RowShown'
    BY <2>2 DEF RowShown
  <2> QED
    BY <1>1, <2>2, <2>3, Ends, Zenon
<1>7. CASE InsertSession
  <2>1. RowShown' /\ Idle'
    BY <1>7, NewHeld, StatementMoves, Zenon DEF RowShown
  <2> QED
    BY <1>1, <2>1, Ends, Zenon
<1>8. CASE UpdateTitle
  <2>1. Renaming /\ Reading' /\ SameOp /\ held' = held /\ torn' = torn
    BY <1>8, RowsChange, StatementMoves, Zenon
  <2>2. Known => RowShown
    BY <2>1, Zenon DEF RowRemembered
  <2>3. ASSUME Known, held.id = op.id PROVE RowRetitled'
    <3>1. sessions'[held.id] = Retitled(held.row, op.title, op.now)
      BY <1>8, <2>2, <2>3, RowsChange, Zenon DEF RowShown
    <3>2. sessions'[held.id].title = op.title /\ sessions'[held.id].updated = op.now
      <4>1. /\ Retitled(held.row, op.title, op.now).title = op.title
            /\ Retitled(held.row, op.title, op.now).updated = op.now
        BY <1>0, RetitledAgain
      <4> QED
        BY <3>1, <4>1, Zenon
    <3> QED
      BY <2>1, <3>1, <3>2, Zenon DEF RowRetitled
  <2>4. ASSUME Known, held.id # op.id PROVE RowShown'
    <3>1. sessions'[held.id] = sessions[held.id]
      BY <1>0, <1>8, <2>4, RowsChange
    <3> QED
      BY <2>1, <2>2, <2>4, <3>1, Zenon DEF RowShown
  <2>5. op'.id = op.id /\ held'.id = held.id /\ (Known' <=> Known)
    BY <2>1, Unchanged, Zenon DEF SameOp
  <2> QED
    BY <2>1, <2>3, <2>4, <2>5, OneStageNext, Ends, Zenon DEF RowRemembered
<1>9. CASE ReadSummary
  <2>1. Reading /\ Idle'
    BY <1>9, StatementMoves
  <2>2. Known' => Known
    <3>1. held'.id = held.id /\ torn' = torn
      BY <1>9, SummaryRead
    <3> QED
      BY <3>1, Zenon DEF Known
  <2>3. ASSUME Known PROVE RowShown'
    <3>1. IF held.id = op.id THEN RowRetitled ELSE RowShown
      BY <2>1, <2>3, Zenon DEF RowRemembered
    <3> QED
      BY <1>9, <3>1, SummaryRead, Zenon DEF RowShown, RowRetitled, Retitled
  <2> QED
    BY <2>1, <2>2, <2>3, Ends, Zenon DEF RowRemembered
<1>10. CASE UpdateSession
  <2>1. Updating /\ Asking' /\ SameOp /\ held' = held /\ torn' = torn
    BY <1>10, RowsChange, StatementMoves, Zenon
  <2>2. Known => RowShown
    BY <2>1, Zenon DEF RowRemembered
  <2>3. op.id = held.id
    BY <2>1, Zenon DEF StageInv
  <2>4. ASSUME Known PROVE RowWritten'
    <3>1. sessions'[held.id] = Rewritten(held.row, op.title, op.now, History)
      BY <1>10, <2>2, <2>3, <2>4, RowsChange, Zenon DEF RowShown
    <3> QED
      BY <2>1, <3>1, Zenon DEF RowWritten, History, SameOp
  <2> QED
    BY <2>1, <2>4, Unchanged, OneStageNext, Ends, Zenon DEF RowRemembered
<1>11. CASE InsertUserMessage
  <2>1. Asking /\ Answering' /\ SameOp
    BY <1>11, StatementMoves
  <2>2. held' = held /\ torn' = torn /\ sessions' = sessions
    BY <1>11 DEF InsertUserMessage, Unfailed
  <2>3. Known' => RowWritten'
    BY <2>1, <2>2, Unchanged, SameRow, Zenon DEF RowRemembered
  <2> QED
    BY <2>1, <2>3, OneStageNext, Ends, Zenon DEF RowRemembered
<1>12. CASE InsertAssistantMessage
  <2>1. Answering /\ Idle' /\ op.id = held.id
    BY <1>12, StatementMoves, Zenon DEF StageInv
  <2>2. /\ held'.id = op.id /\ torn' = torn /\ sessions' = sessions
        /\ held'.row = Rewritten(held.row, op.title, op.now, History)
    BY <1>12 DEF InsertAssistantMessage, Unfailed, Rewritten
  <2>3. Known' => RowShown'
    <3>1. Known' => Known
      BY <2>1, <2>2, Zenon DEF Known
    <3> QED
      BY <2>1, <2>2, <3>1, Zenon DEF RowRemembered, RowWritten, RowShown
  <2> QED
    BY <2>1, <2>3, Ends, Zenon DEF RowRemembered
<1> QED
  BY <1>2, <1>3, <1>4, <1>5, <1>6, <1>7, <1>8, <1>9, <1>10, <1>11, <1>12, StepKinds, Zenon
  DEF Statement

-----------------------------------------------------------------------------

\* What is stored and what the page remembers of it, at every stage.
Inductive ==
  StoreInv /\ StageInv /\ TimesInv /\ AnswersInv /\ MessagesRemembered /\ RowRemembered

LEMMA InductiveStep == Inductive /\ [Next]_vars => Inductive'
BY StoreStep, StageKept, TimesKept, AnswersKept, MessagesHeld, RowHeld, Zenon DEF Inductive

LEMMA ShownAgain == Inductive => ReloadShowsTheSame
<1> SUFFICES ASSUME Inductive PROVE ReloadShowsTheSame
  OBVIOUS
<1>1. HeldIsStored
  <2> SUFFICES ASSUME Idle, Known PROVE held = RuntimeSession(held.id)
    BY Zenon DEF HeldIsStored, Idle, Known
  <2>1. held.row = sessions[held.id]
    BY Zenon DEF Inductive, RowRemembered, RowShown
  <2>2. held.messages = messagesForSession(held.id)
    BY OneStage, ReadsTranscript, Zenon DEF Inductive, MessagesRemembered, MessagesShown
  <2>3. DOMAIN held = {"id", "row", "messages"} /\ held = [f \in DOMAIN held |-> held[f]]
    BY DEF Inductive, StoreInv, WorkInv
  <2>4. PICK shown : shown = RuntimeSession(held.id)
    OBVIOUS
  <2>5. /\ DOMAIN shown = {"id", "row", "messages"} /\ shown = [f \in DOMAIN shown |-> shown[f]]
        /\ shown.id = held.id /\ shown.row = held.row /\ shown.messages = held.messages
    BY <2>1, <2>2, <2>4 DEF RuntimeSession
  <2>6. held = shown
    BY <2>3, <2>5
  <2> QED
    BY <2>4, <2>6
<1>2. \A id \in DOMAIN sessions : AnswersFollowQuestions(messagesForSession(id))
  <2>1. DOMAIN sessions \subseteq Sessions
    BY DEF Inductive, StoreInv, FileInv, TableTyped
  <2> QED
    BY <2>1, ReadsTranscript DEF Inductive, AnswersInv
<1> QED
  BY <1>1, <1>2 DEF ReloadShowsTheSame

LEMMA InductiveInit == Init => Inductive
<1> SUFFICES ASSUME Init PROVE Inductive
  OBVIOUS
<1>1. StoreInv /\ op = NoOp /\ held = Unheld /\ clock = 2
  BY StoreInit DEF Init, PageLoaded
<1>2. Idle /\ StageInv
  BY <1>1, OneStage, Zenon DEF StageInv, Idle
<1>3. MessagesRemembered /\ RowRemembered
  <2>1. held.messages = << >> /\ held.id = NoSession
    BY <1>1 DEF Unheld
  <2>2. held.messages \in Seq(MessageRecord)
    BY <2>1
  <2> QED
    BY <2>1, <2>2, Zenon DEF MessagesRemembered, RowRemembered, Known
<1>4. CASE messages = << >>
  <2>1. TimesInv
    BY <1>2, <1>4 DEF TimesInv, InTime, NotLater
  <2>2. messages \in Seq(MessageRecord) /\ InTime(messages) /\ \A id : RowsOf(messages, id) = {}
    BY <1>4, <2>1 DEF TimesInv, RowsOf
  <2>3. \A id : Transcript(messages, id) = << >>
    BY <2>2, NoTranscript
  <2>4. AnswersFollowQuestions(<< >>)
    BY DEF AnswersFollowQuestions
  <2>5. AnswersInv
    BY <1>2, <2>3, <2>4, OneStage, Zenon DEF AnswersInv
  <2> QED
    BY <1>1, <1>2, <1>3, <2>1, <2>5 DEF Inductive
<1>5. ASSUME NEW sid \in Sessions,
             messages = <<Message(sid, "user", 1, 0), Message(sid, "assistant", 1, 1)>>
      PROVE  Inductive
  <2> PICK x, y, one : /\ x = Message(sid, "user", 1, 0) /\ y = Message(sid, "assistant", 1, 1)
                       /\ one = Append(<< >>, x)
    OBVIOUS
  <2>1. /\ x \in MessageRecord /\ y \in MessageRecord /\ x.session = sid /\ y.session = sid
        /\ x.created = 0 /\ y.created = 1 /\ x.turn = 1 /\ y.turn = 1
        /\ x.role = "user" /\ y.role = "assistant"
    BY DEF Message, MessageRecord
  <2>2. << >> \in Seq(MessageRecord) /\ one \in Seq(MessageRecord) /\ messages = Append(one, y)
    BY <1>5, <2>1
  <2>3. one = <<x>> /\ messages = <<x, y>>
    BY <1>5
  <2>4. TimesInv
    BY <1>1, <1>2, <2>1, <2>3 DEF TimesInv, InTime, NotLater
  <2>5. InTime(<< >>) /\ InTime(one) /\ \A id : RowsOf(<< >>, id) = {}
    BY <2>3 DEF InTime, RowsOf
  <2>6. ASSUME NEW id \in Sessions PROVE AnswersFollowQuestions(Transcript(messages, id))
    <3>1. Transcript(<< >>, id) = << >>
      BY <2>2, <2>5, NoTranscript
    <3>2. Grows(<< >>, x, one) /\ Grows(one, y, messages)
      BY <2>1, <2>2, <2>4, <2>5, TranscriptsGrow, Zenon DEF TimesInv
    <3>3. Transcript(messages, id) \in {<< >>, <<x, y>>}
      BY <2>1, <2>2, <2>3, <3>1, <3>2 DEF Grows
    <3> QED
      BY <2>1, <3>3 DEF AnswersFollowQuestions
  <2>7. AnswersInv
    BY <1>2, <2>6, OneStage, Zenon DEF AnswersInv
  <2> QED
    BY <1>1, <1>2, <1>3, <2>4, <2>7 DEF Inductive
<1> QED
  BY <1>4, <1>5 DEF Init

\* What the page holds of a session no operation of which failed is what a reload
\* brings back, and in every transcript an answer stands right behind its question
\* and turns stand in the order they ran (storage.ts:88-193).
THEOREM PageShowsWhatIsStored == Spec => []ReloadShowsTheSame
BY InductiveInit, InductiveStep, ShownAgain, PTL DEF Spec
=============================================================================
