--------------------------- MODULE ConversationStore ---------------------------
(***************************************************************************)
(* TursoConversationStore (storage.ts): the connection that all stores of  *)
(* a page share, the migration of an old database, and the operations on   *)
(* sessions and messages. Every SQL statement commits by itself; it may    *)
(* fail, and the page may be reloaded before it. RuntimeSessions overlaps  *)
(* the operations; here they come one after the other.                     *)
(*                                                                         *)
(* A title, a text and a trace are what the properties tell apart: the     *)
(* turn they come from. Each operation starts at least a millisecond after *)
(* the one before it, and the clock is not set back. No code closes a      *)
(* connection; that one which is still open keeps nobody from opening the  *)
(* file again is assumed of the database.                                  *)
(***************************************************************************)
EXTENDS Naturals, Sequences, FiniteSets

CONSTANTS
  Stores,      \* TursoConversationStore objects, for one path
  NoStore,     \* the page's map has no promise for the path
  Sessions,    \* session ids
  NoSession,   \* undefined
  MaxTime,     \* bound on the clock, and so on the operations
  MaxFaults    \* bound on failing statements and reloads

ASSUME BoundsAssumption == MaxTime \in Nat \ {0, 1} /\ MaxFaults \in Nat
ASSUME NamesAssumption == NoStore \notin Stores /\ NoSession \notin Sessions

VARIABLES
  \* the database file
  schema,      \* the table sessions: missing, with or without the old column
  sessions,    \* its rows
  renamed,     \* the rows of sessions_with_workspace_snapshot
  messages,    \* the rows of messages, in the order they were inserted
  \* the page
  databases,   \* the store whose promise __browserCodexTursoDatabases holds
  attempt,     \* where the connection a store has started stands
  joined,      \* whose promise the init of a store waits for or got
  initialized, \* stores whose db is set
  leaked,      \* open connections that no store has: their tables failed
  held,        \* the RuntimeSession the caller has
  op,          \* the operation under way
  \* the environment, and history variables for the properties
  clock, faults,
  torn,        \* sessions with a failed operation since they were loaded
  interrupted  \* a migration ended between its RENAME and its INSERT

file == <<schema, sessions, renamed, messages>>
connection == <<databases, attempt, joined, initialized, leaked>>
work == <<held, op, torn>>
vars == <<file, connection, work, clock, faults, interrupted>>

Row(title, now, history) ==
  [title |-> title, created |-> now, updated |-> now, history |-> history]

Message(id, role, turn, created) ==
  [session |-> id, role |-> role, turn |-> turn, created |-> created]

\* "New session", which an empty title becomes too.
NewTitle == <<"new", 0>>

Turn(now) == <<"turn", now>>

NoOp == [kind |-> "none", at |-> "done", id |-> NoSession, title |-> NewTitle, now |-> 0]

\* rowid breaks the ties of ORDER BY created_at.
messagesForSession(id) ==
  LET Before(j, k) == \/ messages[j].created < messages[k].created
                      \/ messages[j].created = messages[k].created /\ j < k
      rowids == {k \in DOMAIN messages : messages[k].session = id}
      Kth(k) == CHOOSE j \in rowids : Cardinality({i \in rowids : Before(i, j)}) = k - 1
  IN  [k \in 1 .. Cardinality(rowids) |-> messages[Kth(k)]]

RuntimeSession(id) ==
  [id |-> id, row |-> sessions[id], messages |-> messagesForSession(id)]

Unheld == [id |-> NoSession, row |-> Row(NewTitle, 0, << >>), messages |-> << >>]

PageLoaded ==
  /\ databases = NoStore /\ initialized = {} /\ leaked = 0
  /\ attempt = [s \in Stores |-> "none"] /\ joined = [s \in Stores |-> NoStore]
  /\ held = Unheld /\ op = NoOp /\ torn = {}

\* An empty database, or one of version 1 with a session of one turn.
Init ==
  /\ PageLoaded /\ clock = 2 /\ faults = 0 /\ interrupted = FALSE
  /\ renamed = << >>
  /\ \/ schema = "missing" /\ sessions = << >> /\ messages = << >>
     \/ /\ schema = "with column"
        /\ \E id \in Sessions :
             /\ sessions = [i \in {id} |-> Row(Turn(1), 1, <<1>>)]
             /\ messages = <<Message(id, "user", 1, 0), Message(id, "assistant", 1, 1)>>

(***************************************************************************)
(* init and connectSharedDatabase. A promise that fails is forgotten, by   *)
(* the map and by the stores that waited for it.                           *)
(***************************************************************************)
\* Seeded bug: a store looks for a promise before another has stored its own.
InitUnshared(s) ==
  /\ joined[s] = NoStore
  /\ databases' = s
  /\ joined' = [joined EXCEPT ![s] = s]
  /\ attempt' = [attempt EXCEPT ![s] = "connect"]
  /\ UNCHANGED <<file, initialized, leaked, work, clock, faults, interrupted>>

InitStore(s) ==
  /\ joined[s] = NoStore
  /\ IF databases = NoStore
     THEN /\ databases' = s
          /\ attempt' = [attempt EXCEPT ![s] = "connect"]
     ELSE UNCHANGED <<databases, attempt>>
  /\ joined' = [joined EXCEPT ![s] = databases']
  /\ UNCHANGED <<file, initialized, leaked, work, clock, faults, interrupted>>

At(s, step) == attempt[s] = step

MoveTo(s, step) ==
  /\ attempt' = [attempt EXCEPT ![s] = step]
  /\ UNCHANGED <<databases, joined, initialized, leaked, work, clock, faults, interrupted>>

Connect(s) == At(s, "connect") /\ MoveTo(s, "table_info") /\ UNCHANGED file

\* migrateSessionSchema, and then initializeSchema.
TableInfo(s) ==
  /\ At(s, "table_info")
  /\ MoveTo(s, IF schema = "with column" THEN "rename" ELSE "create tables")
  /\ UNCHANGED file

RenameTable(s) ==
  /\ At(s, "rename")
  /\ schema' = "missing" /\ sessions' = << >> /\ renamed' = sessions
  /\ UNCHANGED messages
  /\ MoveTo(s, "create")

\* Seeded bug: the old table is dropped before its rows are copied.
DropTableFirst(s) ==
  /\ At(s, "create")
  /\ schema' = "without column" /\ renamed' = << >>
  /\ UNCHANGED <<sessions, messages>>
  /\ MoveTo(s, "copy")

CreateTable(s) ==
  /\ At(s, "create")
  /\ schema' = "without column"
  /\ UNCHANGED <<sessions, renamed, messages>>
  /\ MoveTo(s, "copy")

CopyRows(s) ==
  /\ At(s, "copy")
  /\ sessions' = renamed
  /\ UNCHANGED <<schema, renamed, messages>>
  /\ MoveTo(s, "drop")

DropTable(s) ==
  /\ At(s, "drop")
  /\ renamed' = << >>
  /\ UNCHANGED <<schema, sessions, messages>>
  /\ MoveTo(s, "create tables")

CreateTables(s) ==
  /\ At(s, "create tables")
  /\ schema' = IF schema = "missing" THEN "without column" ELSE schema
  /\ UNCHANGED <<sessions, renamed, messages>>
  /\ MoveTo(s, "open")

Waiting(s) == {u \in Stores \ initialized : joined[u] = s}

InitDone(s) ==
  /\ At(s, "open") /\ Waiting(s) # {}
  /\ initialized' = initialized \union Waiting(s)
  /\ UNCHANGED <<file, databases, attempt, joined, leaked, work, clock, faults, interrupted>>

Fault == faults < MaxFaults /\ faults' = faults + 1

InMigration == \E s \in Stores : attempt[s] \in {"create", "copy"}

\* A connection that was opened stays open when its tables cannot be set up.
Leaves(s) == leaked' = IF At(s, "connect") THEN leaked ELSE leaked + 1

\* Seeded bug: the map keeps the promise that failed.
InitFailsRemembered(s) ==
  /\ Fault /\ attempt[s] \notin {"none", "open"}
  /\ attempt' = [attempt EXCEPT ![s] = "none"] /\ Leaves(s)
  /\ joined' = [u \in Stores |-> IF u \in Waiting(s) THEN NoStore ELSE joined[u]]
  /\ interrupted' = (interrupted \/ attempt[s] \in {"create", "copy"})
  /\ UNCHANGED <<file, databases, initialized, work, clock>>

InitFails(s) ==
  /\ Fault /\ attempt[s] \notin {"none", "open"}
  /\ attempt' = [attempt EXCEPT ![s] = "none"] /\ Leaves(s)
  /\ databases' = IF databases = s THEN NoStore ELSE databases
  /\ joined' = [u \in Stores |-> IF u \in Waiting(s) THEN NoStore ELSE joined[u]]
  /\ interrupted' = (interrupted \/ attempt[s] \in {"create", "copy"})
  /\ UNCHANGED <<file, initialized, work, clock>>

Reload ==
  /\ Fault
  /\ databases' = NoStore /\ initialized' = {} /\ leaked' = 0
  /\ attempt' = [s \in Stores |-> "none"] /\ joined' = [s \in Stores |-> NoStore]
  /\ held' = Unheld /\ op' = NoOp /\ torn' = {}
  /\ interrupted' = (interrupted \/ InMigration)
  /\ UNCHANGED <<file, clock>>

(***************************************************************************)
(* The operations of an initialized store.                                 *)
(***************************************************************************)
Begin(kind, at, id, title) ==
  /\ op = NoOp /\ initialized # {} /\ clock < MaxTime
  /\ clock' = clock + 1
  /\ op' = [kind |-> kind, at |-> at, id |-> id, title |-> title, now |-> clock + 1]
  /\ UNCHANGED <<file, connection, held, torn, faults, interrupted>>

createSession ==
  \E id \in Sessions : /\ id \notin DOMAIN sessions \union DOMAIN renamed
                       /\ Begin("create", "insert", id, NewTitle)

\* titleFromUserText: an empty title is that of a new session.
renameSession ==
  \E id \in DOMAIN sessions, title \in {NewTitle, <<"named", clock>>} :
    Begin("rename", "update", id, title)

\* The first turn names the session.
saveTurn ==
  /\ held.id # NoSession
  /\ Begin("turn", "update", held.id,
           IF held.messages = << >> THEN Turn(clock + 1) ELSE held.row.title)

loadSession ==
  \E id \in DOMAIN sessions :
    /\ op = NoOp /\ initialized # {}
    /\ held' = RuntimeSession(id) /\ torn' = torn \ {id}
    /\ UNCHANGED <<file, connection, op, clock, faults, interrupted>>

Doing(kind, at) == op.kind = kind /\ op.at = at

Proceed(at) == op' = IF at = "done" THEN NoOp ELSE [op EXCEPT !.at = at]

Unfailed == UNCHANGED <<schema, renamed, connection, torn, clock, faults, interrupted>>

InsertSession ==
  /\ Doing("create", "insert")
  /\ sessions' = [i \in DOMAIN sessions \union {op.id} |->
                    IF i = op.id THEN Row(op.title, op.now, << >>) ELSE sessions[i]]
  /\ held' = [id |-> op.id, row |-> Row(op.title, op.now, << >>), messages |-> << >>]
  /\ Proceed("done")
  /\ UNCHANGED messages /\ Unfailed

UpdateTitle ==
  /\ Doing("rename", "update")
  /\ sessions' = [sessions EXCEPT ![op.id].title = op.title, ![op.id].updated = op.now]
  /\ Proceed("read")
  /\ UNCHANGED <<held, messages>> /\ Unfailed

\* The caller puts the title and the time it gets back into what it holds.
ReadSummary ==
  /\ Doing("rename", "read")
  /\ held' = IF held.id = op.id
             THEN [held EXCEPT !.row.title = sessions[op.id].title,
                               !.row.updated = sessions[op.id].updated]
             ELSE held
  /\ Proceed("done")
  /\ UNCHANGED <<sessions, messages>> /\ Unfailed

History == Append(held.row.history, op.now)

UpdateSession ==
  /\ Doing("turn", "update")
  /\ sessions' = [sessions EXCEPT ![op.id].title = op.title,
                    ![op.id].updated = op.now, ![op.id].history = History]
  /\ Proceed("insert user")
  /\ UNCHANGED <<held, messages>> /\ Unfailed

\* Seeded bug: a turn counts as begun two milliseconds before it is saved.
UserMessageEarlier == Message(op.id, "user", op.now, op.now - 2)

UserMessage == Message(op.id, "user", op.now, op.now - 1)

AssistantMessage == Message(op.id, "assistant", op.now, op.now)

InsertUserMessage ==
  /\ Doing("turn", "insert user")
  /\ messages' = Append(messages, UserMessage)
  /\ Proceed("insert assistant")
  /\ UNCHANGED <<held, sessions>> /\ Unfailed

InsertAssistantMessage ==
  /\ Doing("turn", "insert assistant")
  /\ messages' = Append(messages, AssistantMessage)
  /\ held' = [id |-> op.id, messages |-> held.messages \o <<UserMessage, AssistantMessage>>,
              row |-> [held.row EXCEPT !.title = op.title, !.updated = op.now,
                                       !.history = History]]
  /\ Proceed("done")
  /\ UNCHANGED sessions /\ Unfailed

StatementFails ==
  /\ Fault /\ op # NoOp
  /\ op' = NoOp /\ torn' = torn \union {op.id}
  /\ UNCHANGED <<file, connection, held, clock, interrupted>>

-----------------------------------------------------------------------------

Schema(s) ==
  \/ Connect(s) \/ TableInfo(s) \/ RenameTable(s) \/ CreateTable(s)
  \/ CopyRows(s) \/ DropTable(s) \/ CreateTables(s)

Statement ==
  \/ InsertSession \/ UpdateTitle \/ ReadSummary
  \/ UpdateSession \/ InsertUserMessage \/ InsertAssistantMessage

Next ==
  \/ \E s \in Stores : InitStore(s) \/ Schema(s) \/ InitDone(s) \/ InitFails(s)
  \/ createSession \/ renameSession \/ saveTurn \/ loadSession
  \/ Statement \/ StatementFails \/ Reload

Spec == Init /\ [][Next]_vars

(***************************************************************************)
(* Statements are answered, and whoever wants the store calls init again   *)
(* after it failed, as every operation of the runtime does.                *)
(***************************************************************************)
FairSpec ==
  /\ Spec
  /\ \A s \in Stores : WF_vars(InitStore(s)) /\ WF_vars(Schema(s)) /\ WF_vars(InitDone(s))

-----------------------------------------------------------------------------

Titles == {NewTitle} \union ({"turn", "named"} \X (1 .. MaxTime))

RowType(row) == /\ row.title \in Titles
                /\ row.created \in 0 .. MaxTime /\ row.updated \in row.created .. MaxTime
                /\ \A k \in DOMAIN row.history : row.history[k] \in 1 .. MaxTime

\* The stores of a page never use two connections to the database file nor
\* open two at a time, whatever fails and whoever retries, and any other that
\* is open is one whose tables could not be set up: it costs a failure each. A
\* store that is initialized has a connection whose tables exist, and rows hold
\* what their columns may (storage.ts:15-31, 232-277).
TypeOK ==
  /\ Cardinality({s \in Stores : attempt[s] # "none"}) <= 1
  /\ faults \in 0 .. MaxFaults /\ leaked \in 0 .. faults
  /\ \A s \in initialized : joined[s] # NoStore /\ At(joined[s], "open")
  /\ schema \in {"missing", "with column", "without column"}
  /\ \A id \in DOMAIN sessions : id \in Sessions /\ RowType(sessions[id])
  /\ \A id \in DOMAIN renamed : id \in Sessions /\ RowType(renamed[id])
  /\ schema = "missing" => sessions = << >>
  /\ \A k \in DOMAIN messages :
       messages[k].session \in DOMAIN sessions \union DOMAIN renamed

\* A connection that could not be opened does not keep any store from opening
\* it later: both memos forget it (storage.ts:39-49, 242-247), if the database
\* does not mind those that were left open.
StoresOpen == <>[](initialized = Stores)

Kept == DOMAIN sessions \union DOMAIN renamed

\* A migration that fails or is cut off at any statement destroys no session,
\* and one that is not cut off between its RENAME and its INSERT leaves each
\* of them in the list an open store shows (storage.ts:279-316).
SessionsSurvive ==
  /\ [][Kept \subseteq DOMAIN sessions' \union DOMAIN renamed']_file
  /\ [](initialized # {} /\ ~interrupted => Kept = DOMAIN sessions)

HeldIsStored ==
  op = NoOp /\ held.id # NoSession /\ held.id \notin torn => held = RuntimeSession(held.id)

AnswersFollowQuestions(transcript) ==
  \A k \in DOMAIN transcript :
    /\ transcript[k].role = "assistant" =>
         /\ k > 1 /\ transcript[k - 1].role = "user"
         /\ transcript[k - 1].turn = transcript[k].turn
    /\ k > 1 => transcript[k - 1].turn <= transcript[k].turn

\* A reload of the page brings back what the page held of a session after any
\* sequence of turns and renames that succeeded, and in every transcript an
\* answer stands right behind its question and turns stand in the order they
\* ran, even when inserts failed or were cut off (storage.ts:88-193).
ReloadShowsTheSame ==
  /\ HeldIsStored
  /\ \A id \in DOMAIN sessions : AnswersFollowQuestions(messagesForSession(id))
=============================================================================
