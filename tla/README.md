# browser-codex: models, checks and proofs

browser-codex runs the turn loop of a coding agent in the browser. A Rust core,
compiled to WebAssembly, talks to a model provider and dispatches tool calls; a
TypeScript runtime gives it a WebContainer for files and processes, a SQLite
database for conversations and OPFS for workspace snapshots; a React page drives
the runtime. This directory holds TLA+ models of the parts with state and
control of their own, the TLC configurations that check them, and theorems that
TLAPS has proved about them. Line numbers refer to the repository's files.

- [Inventory](#inventory)
- [Modules](#modules)
- [Runs](#runs)
- [Fairness](#fairness)
- [Refinement](#refinement)
- [Proofs](#proofs)
- [Disagreements between code and documents](#disagreements)
- [What is not modelled](#what-is-not-modelled)
- [Plan](#plan)

## Inventory

### Rust core (`crates/codex-browser-core/src`)

**Prompt history** (`history.rs`, `models.rs`). State: the list of items of the
conversation. Operations: `push_input`, `push_response`, and `for_prompt`, which
copies the list and normalizes it: calls without an output get one that says
"aborted", outputs without a call are dropped, images are replaced by a note, long
outputs are truncated. Hard: items are paired by family and id over four passes,
so each pass must leave alone what the one before established. Correct when
every request is paired and text-only, holds of a long output its beginning and its
end, cut once, says "aborted" only where no output exists, and drops nothing else.

**Output truncation** (`output_truncation.rs`). No state: shortens a text in its
middle, and an output of several items from its end. Hard: budgets in bytes or tokens,
characters of several bytes at the cut. Correct when nothing is cut in two,
the budget is kept and used, and the marker is true.

**Session turn loop** (`session.rs`, `events.rs`). State: the history, the turn
counter, and, during a turn, the iteration, the sampling attempt and the tool
calls of the response. `run_turn_with_event_sink` alternates sampling requests
and tool batches until a response asks for nothing more. Hard: a stream may
close before it completed, after some of its calls were received; these are run
and the request is retried. Tools of a batch run concurrently. A cancellation
token may be set at any await and is consulted at a few points only. The sink
that receives the events may fail at each of them. Correct when each request is
valid and extends the one before it, tools run once and in order, the events
tell what really happened, and the turn ends.

**Tools** (`tools/registry.rs`, `tools/exec.rs`, `tools/apply_patch.rs`, `approval.rs`).
Stateless apart from the host they call: a call is parsed, asks for approval, runs;
every error becomes an output. Hard: approvals while other calls of the batch run;
the hunks of a patch are applied one after the other without rollback; their lines
are searched for more and more leniently and applied all at once. Correct when
nothing denied is done, the files after a failed patch are those of a beginning
of it, and a patch changes the lines it names and no others.

**Path policy** (`path.rs`). No state: makes what a model writes an absolute path
below `/workspace`. Correct when it agrees with what the host makes of the path. Hard:
the policy knows slashes only, the host backslashes too.

**WASM adapter** (`wasm_case.rs`). Wraps a turn in a ReadableStream; its cancel
callback sets the token, its controller is the event sink. Hard: the stream is
closed by the consumer while the turn goes on.

### Runtime (`packages/browser-runtime/src`)

**WebContainer host** (`webcontainer-host.ts`). State: the table of running
processes, for each its output so far and how much of it was returned. `start`,
`pollOutput`, `writeStdin` and `kill` each wait for the process or a timer and
may overlap. Correct when the table holds just the processes the model was told
are running, each of their outputs is returned once, in order and to its end, and
every call returns. The file system calls are stateless translations of paths.

**Browser runtime** (`index.ts`). State: the memoized `init`, the WebContainer all
runtimes of a page share, the active session, the queue of restores. `createSession`,
`loadSession`, `runTurnStream`, `renameSession` share one workspace directory and await
at every step. Hard: they overlap, they fail in the middle, and the page can be
reloaded between any two steps.

**Conversation store** (`storage.ts`). State: two SQL tables and the connection that all
stores of a page share. Each statement is atomic; an operation of several
statements, the migration of an old database among them, is not a transaction.
**Workspace snapshots** (`workspace-snapshots.ts`). State: one file per session in OPFS.
Correct when a reload at any point brings back a conversation that remembers no
work whose files are gone, and no operation destroys a session.

### Web application (`apps/web/src`, `packages/ui/src`)

`routes/index.tsx` calls the runtime, and by the controls it disables decides
which functions of it can overlap: while a turn runs it starts no other and
restores no session; while anything else is under way it disables nothing. It has
no control that stops a turn. It keeps the session shown, the list, the rename
form, one approval prompt, a terminal with the shell of the session shown, and a
file tree that is read directory by directory. `dialog-portal.tsx` has one confirm
dialog for all. Hard: every handler is an async function that goes on after the state
it started from has changed. Correct when the page ends up showing what is there, and
what the user types goes where the page says.

### How they interact

```
 page ──runTurnStream──▶ runtime ──ReadableStream──▶ WASM adapter ──▶ session turn loop
  ▲   ◀─approval prompt─┐   │                                          │        │
  │                     │   ├─▶ conversation store (SQLite)            │        └─▶ prompt history
  │                     │   ├─▶ workspace snapshots (OPFS)             ▼
  └─ sessions, messages,┘   └─▶ WebContainer host ◀─────── tools, path policy
     files, terminal
```

PROJECT.json lists the hazards of this code line by line, with the properties
that would notice them and, where there is none, why.

## Modules

| Module | Models | Theorems |
| --- | --- | --- |
| `PromptHistory` | operators: items, `for_prompt` and its passes (`history.rs:61-308`) | |
| `PromptProofs` | | lemmas about `PromptHistory`, for lists of any length |
| `ConversationHistory` | state: a `History` filled with any items; properties of its prompts | |
| `ConversationProofs` | | theorems about `ConversationHistory`, `OutputTruncation` and `PatchText` |
| `PatchText` | what an update does to the text of a file (`apply_patch.rs:541-717`) | |
| `OutputTruncation` | `truncate_text` and the truncation of outputs (`output_truncation.rs`) | |
| `TurnLoop` | `Session::run_turn_with_event_sink` and all it calls | |
| `TurnProperties` | the types and properties of `TurnLoop` | |
| `TurnStream` | `TurnLoop` behind the `ReadableStream` of the WASM adapter, and its reader | |
| `TurnProofs` | | theorems about `TurnLoop` and `TurnStream` |
| `ToolCalls` | `exec_command`, `apply_patch` and the approvals they wait for | |
| `HostExec` | `WebContainerHostExec` with its processes and callers | |
| `HostProofs` | | theorems about `HostExec` |
| `WorkspacePaths` | operators: the path policy and the paths of the host | |
| `WorkspaceFiles` | the host's file system calls and the files of a snapshot | |
| `RuntimeBoot` | the memoized `init` of the runtimes of a page and what they share | |
| `RuntimeSessions` | `BrowserCodexRuntime`, the store, the snapshots and the page's controls | |
| `SessionJournal` | abstract: what the disk promises about a session | |
| `RuntimeProofs` | | theorems about `RuntimeSessions` and that it implements `SessionJournal` |
| `ConversationStore` | the store: connection, migration, statements, order of messages | |
| `StoreProofs` | | theorems about `ConversationStore` |
| `AgentChat` | the page: its state, controls and async functions | |
| `ChatProofs` | | theorems about `AgentChat` |
| `TerminalPanel`, `WorkspaceFileTree`, `ConfirmDialog` | the widgets with state of their own | |
| `WidgetProofs` | | theorems about `RuntimeBoot`, `TerminalPanel`, `ConfirmDialog`, `ToolCalls`, `WorkspacePaths` and `WorkspaceFiles`, as `MCWidgets` composes them, and about `WorkspaceFileTree` |

Each `MC*` module instantiates one of these, with symmetry sets only. Two of them
hold several parts that share no state: `MCModelTexts` (the three computations on
texts) and `MCWidgets` (boot, terminal, dialog, tools, files). There the
variable `part` picks one part at the start, and the others rest in one
initial state, so that the states of a run are the sum of those of its parts.

Operators whose comment begins with "Seeded bug" are not part of any specification:
each is a plausible mistake in the code, which one property must notice when it takes
the place of the definition it follows. PROJECT.json pairs them under "mutants".

**PromptHistory.** An item is a record of its kind (message, call, output), its
family (function, custom, search), its call id, the side that wrote it, for a tool
search the party that executes it, and a body: text within the budget of an
output or over it, text over it that was cut once or once more, an image or "aborted".
That is what the four passes tell apart. The budget is 1.2 times the limit
(`history.rs:212`), and a text that is cut gets a marker on top of it, so it stays over the
budget and a second pass would cut it again; the core builds each prompt from the whole
outputs of the history, so none is cut twice. A limit is assumed that "aborted" and
the note in place of an image fit; the one in use is 512 KiB (`session.rs:58`, `:279`). `ForPrompt` composes the
passes in the code's order, including the cloned item positions: a missing output is
inserted right behind its call. A pass that another one reads is a function over
lists (`Retained`, `Rendered`), so that TLC works its argument out once.

**PatchText.** A line is its words and how they are set (spaces behind, spaces before,
typographic characters), which is what the four leniencies of `seek_sequence` tell
apart. A chunk is context, old and new lines and the end-of-file flag.
`compute_replacements` goes from chunk to chunk, a result is a set of at most one;
`apply_replacements` sorts them, which says at which place each comes, and splices
from the last. Both are recursive functions, so that they can be proved about. The
reference the property compares with, `Woven`, reads the file from the top.

**OutputTruncation.** A text is the sequence of the lengths of its characters.
`split_string` becomes two sets of characters, those that end before the cut on
the left and those that begin behind the one on the right; `truncate_items`
carries the budget left from item to item.

**TurnLoop.** One action per stretch between two decisions of the loop. `pc` says
where the turn stands: `loop` (head of the iteration), `request` (build the
prompt), `opening` and `streaming` (awaits of the provider), `dispatching` (tools
run), `recording` (events and outputs), `idle` (no turn). The provider, the tools,
the token and the sink are the environment. The Rust future is single-threaded, so
the environment acts at awaits only (`AwaitPoint`). `EndTurn` is a return from
the turn, whichever `?` or `return` it comes from. Recorded outputs go through the
same `history`, and `SendRequest` applies `ForPrompt` to it, so the properties of the
requests are about the composition of the two modules.

**TurnStream.** Composes `TurnLoop` with the stream that `run_host_turn_stream_json`
wraps around it. The sink of the turn is the controller: each step of the turn also
enqueues the events it emitted, and the step that ends the turn closes or breaks the
stream. The token is set by the stream's cancel callback and by nothing else. The
reader is `runWasmTurnStream`. The adapter asks the provider for whole responses, so
a stream of the core neither fails nor closes early here, and JavaScript gets to run
only while the answer is fetched or tools run (`Yielded`). No code of the product cancels
the stream: `CancelStream` is any other holder of the stream the adapter returns.

**ToolCalls.** A call is refused, or asks the page and is approved or denied, or goes;
commands share a batch, the patch waits for them (`MayBegin`). The page has one slot for
a prompt: a second one takes it, and the first is never answered. A patch is one
action per call of the host; each may fail. What an update does to the text is
`PatchText`'s; here a file is absent, old or new.

**HostExec.** A process writes numbered chunks, exits and is pumped on its own; a
caller waits at one await of one operation. Each action is the code from one await
to the next. What the callers were told is kept in history variables.

**WorkspacePaths, WorkspaceFiles.** A path is the sequence of the names between its
slashes; what is between the backslashes of a name is given by the constant `Backslashed`.
The module has what the core makes of a path (`resolve`), for which a backslash is a
part of the name, what the host makes of it (`toContainerPath`, `fromContainerPath`), for
which it is a slash (`Slashed`), and where a terminal starts. `WorkspaceFiles`
applies the calls of the host to a map from container paths to files and directories,
and exports and restores it as the snapshots do; an entry that is excluded takes all that is
below it. The paths the tools are asked for are the constant `Asked`. `WebContainer.fs` is external;
how it reads a path that still has empty names or dots in it, which only a backslash brings
there, is left out (`Straight`).

**RuntimeBoot.** Runtimes, several callers of each one's `init`, one WebContainer and one
WASM module per key of `wasmModuleCache`. What is shared is a promise that is kept
while it is pending and forgotten when it is rejected.

**RuntimeSessions.** A workspace is a set of files: the seed file and one per turn,
named for the session and the turn that wrote it. That is enough to tell whose
work is where. A function of the runtime is a task with the await it stands at,
the session object it holds and the files it read. `Patient` restricts the user to
overlapping restores only, the overlap the code is written for; `Faulty` lets
every SQL, OPFS or WebContainer call fail. `Reload` ends everything but the disk.

**ConversationStore.** The same store in more detail and without overlap: one action per
SQL statement, also of `migrateSessionSchema`, and the connection that
`connectSharedDatabase` memoizes. If the setup of its tables fails it is forgotten without
being closed: `leaked` counts those, and the file is assumed to open once more. Time is a counter, a title or text is the turn it
comes from; `messagesForSession` sorts by `created_at` and then by `rowid`, which is how
SQLite reads a table it must sort.

**AgentChat.** The state and refs of the component, and its async functions as tasks that
wait for an answer of the runtime. `ensureRuntime` is part of its caller once `init` has
succeeded. The effect that calls `refreshSessions` is `RunEffect`, due after every
change of the session or the provider config. Of the runtime this keeps what the page
can tell.

**TerminalPanel, WorkspaceFileTree, ConfirmDialog.** Runs of the terminal's effect are
numbered and each has its shell; `cancelled` is the closure variable of that name. The
tree has the four refs of the component, the workspace they are read from, and the
reads under way; `applyPaths` includes what the model's subscriber does when it is
told. The dialog is the external store of `dialog-portal.tsx` and the component's flag; an
action returns a promise that settles (`confirm`) or throws before it does (`confirmThrows`).

## Runs

| Run | Module, cfg | Shows |
| --- | --- | --- |
| `model_texts` | `MCModelTexts` | prompts: pairing, conservation, no images, long outputs cut once, what a second normalisation does, and that a session's own histories pass the request validator of `tests/core.rs`; patches: lines are found in order, replaced in place, and nothing else changes; truncation: no character cut, the budget used, the marker true |
| `turn_loop` | `MCTurnLoop` | requests valid and true about what ran, each extends the last; calls run once and exclusive ones alone; outputs in order; events match the end; a bounded number of requests |
| `turn_ends` | `MCTurnLoop`, `MCTurnLiveness.cfg` | every turn ends |
| `turn_stream` | `MCTurnStream` | a reader sees the turn in order and all of it, a cancelled stream sends no more requests, and a reader that goes on gets the output or an error |
| `process_table` | `MCHostExec` | the table matches the answers, output is neither lost nor repeated, every call returns |
| `runtime_patient` | `MCRuntimeSessions`, `MCRuntimePatient.cfg` | sessions stay apart; rows and snapshots implement the journal, over reloads at every await |
| `runtime_tasks_end` | `MCRuntimeSessions`, `MCRuntimeTasks.cfg` | restores stay serialized and all functions end, under every failure |
| `mounts_interleave` | `MCRuntimeSessions`, `MCRuntimeMounts.cfg` | violation of `MountsSerialized`: see below |
| `store` | `MCConversationStore` | one connection in use, opened in the end, and only failures leave others behind; the migration destroys no session; what the page holds and the order of a transcript are what a reload brings back |
| `chat` | `MCAgentChat` | the page comes to rest (`PageSettles`), shows what the runtime works on, and sends a prompt where it says |
| `widgets` | `MCWidgets` | one WebContainer, `init` can be retried; keys and status belong to the current shell and no other shell survives; one confirmation at a time; nothing unapproved runs, patches apply in order; the tools, the tree and the snapshots mean the same files by any path without a backslash |
| `file_tree` | `MCWorkspaceFileTree` | the tree comes to show the workspace, and an opened directory is read |

**Bounds.**
`model_texts`: three items over two ids, since the passes relate at most a call, an
output and one other item between or around them, of the same or another id; files of
three lines and updates of two chunks, so that a chunk is before, behind, next to and
over another one; characters of one, two and four bytes, four of them in the text that
is cut, against every budget up to nine, which covers a cut at every offset in a character.
`turn_loop`: two turns, so that a turn meets the history of a cancelled or broken
one; two iterations and one retry, so that both loops wrap; two parallel calls
and an exclusive one, so that batches form on either side of an exclusive call;
`MaxHistory` bounds only the assistant messages a stream may add without end.
`turn_ends` uses one turn and one call of each sort: a cycle would be a cycle of one
turn. `turn_stream`: one turn per stream; the queue of the stream is as long as the
turn's events, so the reader may lag behind as far as it can.
`process_table`: two processes and two overlapping calls, two chunks of
output so that a chunk may be returned, pumped and still in the stream at the same
time. `runtime_patient`: two sessions, three turns (one session
can be extended twice, with another in between) and two tasks. `runtime_tasks_end`:
one session suffices for the queue, whose entries are tasks.
`store`: two stores, so that one joins or retries the other's connection; three operations,
so that a turn follows a rename or another turn; two faults, so that a migration is cut
off and the one after it fails as well.
`chat`: three functions under way (what the user started twice and an effect), two
presses and one rejected await. `widgets`: two runtimes with two callers and two
module keys; three switches of the session; three dialogs; two commands and two hunks over
two paths; three calls of the file system. `file_tree`: two reloads and two
directories, one of them with a file, so that a reload overlaps a reload and a read.

**Deadlock** is not checked where the system may really stop: a full history
(`MaxItems`), the last turn (`MaxTurns`), a host with no process and no caller
left, a page whose user does nothing more. `RuntimeSessions` is checked for deadlock:
the page can always be used again or reloaded.

**Symmetry** is declared for ids that are interchangeable, in runs without liveness
properties only.

## Fairness

*Turn loop.* `WF(LoopStep)`, `WF(StreamStep)`, `WF(ToolStep)`: the executor polls a
future that can make progress; a stream delivers another event or ends, as an HTTP
response does; every tool answers, since each host call has a time-out or ends by
itself. The model bounds the number of items of a response: a provider that
streams without end does keep a turn running. `StartTurn`, `Cancel` and `CloseSink`
are the user's, and no fairness is assumed of them. That a tool answers also assumes
that its approval is answered: `ToolCalls` has that part, and where it fails.

*Stream.* `WF(Adapter)` and `WF(Consumer)`: the same executor polls the spawned future, and
the loop of `runWasmTurnStream` reads again after each chunk. Nobody has to open or
cancel the stream.

*Host.* `WF(Proceed(c))` for every caller: timers fire and promises that are settled
resume their function. Output is pumped and the stream of an exited process is
closed. Only a killed process is assumed to exit. Nobody has to start, poll or
write.

*Runtime.* `WF(Proceed(t))` for every task: each await is answered with a result or
an error (with `Faulty`, errors are always possible).

*Store.* `WF` of the statements of a connection that is being opened, of its answer to those
who wait, and of `init`, which every operation of the runtime calls first. Operations are the
user's.

*Page.* `WF(RunEffect)`: React runs an effect whose dependencies changed. Every await is
answered, with a result or an error, and so is the first `init`. The user does not have to
press anything, and may stop at any point.

*Widgets.* What was awaited is answered: the parts of `init`, the spawning of a
shell, the action a dialog confirmed, the calls of the host. Of the user, only
that he answers an approval that the page shows. *File tree.* Each read is answered.

## Refinement

`SessionJournal` is what a user may expect of the disk: a session is created, work is
kept, a turn is remembered at the end of its history only if its work is kept, and shown
only if it is remembered; nothing is taken back, and the title is the user's text of
the first turn or what the user renamed it to. `RuntimeSessions` implements it under the mapping
that reads `kept` off the snapshot, `turns` off `wasm_session_json`, `shown` off the
messages and `title` off the row. The run checks `Journal!Spec` as a property: every
step of every function, and every reload between two of them, is a step of the journal or
leaves it alone, on two sessions; `DiskIsJournal` proves it for any number of sessions, turns
and functions. It holds for `Patient` users on storage that works. Without `Patient`
a turn that starts while a rename is under way writes the old title back when it is saved
(`storage.ts:141`); with failing inserts a turn is taken back (see below).

`TurnStream` composes `TurnLoop` by conjunction: each of its steps is a step of the turn
loop or of the stream alone.

## Proofs

TLAPS proves, for every value of the constants:

- `TypeCorrect` (`TurnProofs`): `Spec => []TypeOK`. Beyond types, `TypeOK` bounds
  `iteration` and `attempt` by the configured limits, which is not inductive:
  `NextIteration` increments. The strengthening `InIteration` says that anywhere
  inside an iteration there was one left when it was entered.
- `CancellationWins` (`TurnProofs`): `Spec => []CancelledNeverCompletes`. The result
  `ok` is written by one action only, and it requires that the token is clear;
  what has to be excluded is that the token is set afterwards while the
  turn still counts as `ok`. That needs `TurnShape`: between turns no calls are left,
  hence none is running, hence it is no await point; and that the outcome of a
  turn is unset while it runs.
- `TurnsStayBounded` (`TurnProofs`): `Spec => []TurnBounded`, from two theorems. For
  `RequestsStayBounded` the invariant `RequestCount` relates the number of requests to the
  position in the two nested loops: at most `iteration * (MaxSamplingRetries + 1)` from
  finished iterations plus one per attempt of the current one. For
  `LateRequestsStayBounded`, `LateCount` says that requests sent after the cancellation are
  attempts of a single iteration other than its first, since the loop head would have
  ended the turn.
- `ToolCallsAreRight` (`TurnProofs`): `Spec => []ToolCallsRight`, from two theorems. For
  `ExclusiveToolsRunAlone`, `ToolInv` adds that no tool runs outside the dispatching of
  a response; a new batch therefore finds none running, and consists of parallel calls only
  or of one call. For `CallsRunAtMostOnce`: a call received is
  one the history does not hold yet, and the history keeps every call for good. `CallsInv`
  carries that to the batch that executes it: ids are distinct, the queued calls are the last
  ones, and a queued call has not been executed.
- `RequestsAreValid` and `ConversationIsPreserved` (`ConversationProofs`):
  `Spec => []PromptValid` and `Spec => []ConversationPreserved` of
  `ConversationHistory`, for histories of every length. No state but the list of items is
  involved; the work is in `PromptProofs`. `ensure_call_outputs_present` and
  `remove_orphan_outputs` are flat maps, and `FlattenSeq` is recursive: `IsFlattening` says
  that what it makes lists what the parts have, in their order and nothing else. From that,
  `Shows` describes a request by the place in the history each of its items comes from: calls
  and conversation stay, in order, an output stays if it has a call, and "aborted" stands
  directly behind a call that has none. A request that is normalised again stays as it is but for
the cut outputs, which are cut again if there is a limit. `WellBuilt` is what the histories of a session have and
  the validator asks for.
- `RequestsAreRight` and `RequestsExtend` (`TurnProofs`): `Spec => []RequestsRight` and
  `Spec => PromptsExtend` of `TurnLoop`. A history of the turn loop is well built because its outputs
  are the core's (`OutputsFromCore`), each behind its call. `PromptInv` is the invariant: the last
  request was made of the first `m` items of the history, and these will not be read otherwise
  any more, since no call among them waits for its output. Hence the next request, made of
  more items, begins with it (`PromptGrows`).
- `OutputsAreRight` (`TurnProofs`): `Spec => []OutputsRight`. The order of the outputs
  (`OrderInv`) needs `PendingBehind`: the calls that wait for their output stand in the list
  in the order of the history, and behind every call that was answered. That none is lost
  but to the sink (`LossInv`) needs to say where a call that was executed is before it is
  answered: still in the list, which no end of a turn but the sink's finds non-empty after
  a tool has run.
- `NoCallIsReportedAborted` (`TurnProofs`): `Spec => []NoFalseAbort`, the half of
  `RequestsRight` that speaks of what ran. It follows from `LossInv`, since a request is sent
  with an empty list.
- `EventsMatchTurns` (`TurnProofs`): `Spec => []EventsMatchTurn`. `ShownBeforeKept` counts:
  the items of the model in the turn and the item events have equal numbers, and an item
  and an event of the same rank have the same id. `StartBound` keeps the start of the turn
  within the history, and `EndKinds` says for each step what it emits and how it may end.
- `StreamTypeCorrect` and `ReaderSeesTheTurn` (`TurnProofs`): `StreamSpec => []StreamTypeOK`
  and `StreamSpec => []ReaderSeesTurn`. A step of `TurnStream` is a step of the turn loop, or
  none, or the consumer that closes the sink and sets the token at once (`LoopMoves`), so what
  was proved of the loop's steps holds behind the stream too. `ToldInv` is what is new: what was
  read and what is queued are together (`Told`) exactly what was emitted while the stream is
  readable, and stay a beginning of that, output included, when it is closed or broken; only
  a task that ended well can have told more than the events. `NoLateRequest` is inductive
  because the consumer cannot run between the loop head and the request.
- `TypeCorrect` (`HostProofs`): `Spec => []TypeOK` of `HostExec`, on which the next ones rest.
- `TableIsWhatWasTold` (`HostProofs`): `Spec => []TableMatchesAnswers` of `HostExec`, for every
  number of callers and processes. The table changes when an operation answers, for a
  process another operation may have reported as gone meanwhile. `TableInv` says who may
  still answer for what: the id of a `start` that has not answered is its own and nobody
  was told of it, and every other call is for a process that was announced.
- `OutputIsToldCompletely` (`HostProofs`): `Spec => []OutputTold`, from
  `OutputIsToldOnce` and `ExitReportsAreComplete`. An answer of `start` returns the output
  from the beginning, the others continue at `readOffset`; both agree because nothing was
  read of a process that is neither announced nor gone (`UnreadUntilReported`). Completeness
  needs the life of a process: it is spawned once, its output closes only when it has exited
  and everything was pumped, and then nothing is produced any more (`LifeInv`).

- `TypeCorrect` and `RestoresNeverOverlap` (`RuntimeProofs`): `Spec => []TypeOK` of
  `RuntimeSessions`, and the safety side of `RestoresTakeTurns`, whatever the user starts and
  whatever fails. `TypeOK` bounds the length of a history, which is not inductive: a turn
  appends to the session it started with. `HistoriesShort` says that each history, those held
  by functions under way included, is shorter than the number of the next turn. `QueueInv`
  says that the queue lists each restore once and that only its head has begun.
- `SessionsApart` and `DiskIsJournal` (`RuntimeProofs`): `Spec => []WorkspacesApart` and
  `Spec => JournalKept`, the refinement of `SessionJournal`. Both have the hypotheses `Patient`
  and `~Faulty`, those of the run: without either the properties are false (see
  [Disagreements](#disagreements)). `WaitingInv` is the invariant: at most one function is not a
  restore that waits, and for each place such a function may stand at, it says what is in the
  workspace, on the disk and in its own variables (`CreateRight`, `LoadRight`, `TurnRight`,
  `RenameRight`); the active session is what is stored and mounted but for what that function
  is changing. A reload may come at any of these places and leaves the disk as it is, which
  is why the parts about the disk speak of no function. For the refinement, each of
  the steps that write maps to one action of the journal: a snapshot to `Keep`, the
  UPDATE of a turn to `Remember`, the INSERTs of its messages to `Show`, and so on; the rest
  leave the mapped state unchanged.
- `TypeCorrect` and `MigrationKeepsSessions` (`StoreProofs`): `Spec => []TypeOK` of
  `ConversationStore` and `Spec => SessionsSurvive`, between any two statements, for any number
  of faults and reloads. `ConnectionInv` says that all stores share one attempt to open the
  database, `LeakInv` that no more connections were left open than statements failed, `StageRight` what the tables look like at each statement of the migration,
  `CopiedBack` that a migration that was never interrupted at its one bad place has
  brought back what it put aside.
- `PageShowsWhatIsStored` (`StoreProofs`): `Spec => []ReloadShowsTheSame` of `ConversationStore`, for
  any turns, renames and failures. A transcript is read by sorting the rows of a session by
  time; `TranscriptStands` shows that this is the order they were inserted in as long as times
  do not decrease down the table (`InTime`), by counting the rows before each. `TimesInv` says that
  they do not, since an operation is later than every message stored before it began.
  `MessagesRemembered` and `RowRemembered` say for every stage of an operation what the page
  holds against what is stored: the same, but for what its last statement has written already.
- `PageTypeCorrect`, `PageRestsOnTheTruth` and `PageActsAsShown` (`ChatProofs`): `Spec => []TypeOK`,
  `Spec => []RestsOnTheTruth` and `Spec => []ActsAsShown` of `AgentChat`, however many of the page's
  functions overlap. `ChatInv` is the invariant, checked by TLC on the instance of the run `chat`
  before it was proved. `Placed` says of each function where one of its kind may wait and what it has by
  then. `ChosenInv` is why the last click wins: after it nothing creates a session, and the last
  restore of the queue is the one that was clicked. `UnaskedInv` is why an undisturbed start creates
  one session: before the first is stored at most one refresh remembers that none was shown, and
  none does while the effect is due. `Budget` counts what may still be created against the presses,
  which keeps the sessions within the numbers of the model; it needs the whole of `ChatInv`.
- `PatchesApplyInOrder` (`WidgetProofs`): `FairSpec => []PatchesInOrder` of `MCWidgets`, for any number
  of commands, files and hunks. `FilesInv` says when a file may be in two places: between the
  two calls that move it, or for good when the second one failed; `PatchInv` that a hunk is only at a
  step its kind has, and that nothing was touched before the first call of the host;
  `OneMoreHunk` that a hunk leaves what `After` says. That a patch which waits for its approval cannot
  be started by another call's answer rests on `ApprovalInv`: the slot of the page holds a
  call that asks.
- `NothingRunsUnapproved`, `OneContainerForAll`, `TerminalFollowsSession` and `ConfirmedOneAtATime`
  (`WidgetProofs`): the safety halves of `ApprovalsRight`, `BootRight`, `TerminalRight` and
  `DialogRight`, whose other halves are liveness. For the boot, `PartsComplete` says that a runtime
  that has its WASM module has all of its parts, and a failure takes none of them away. For the
  terminal, `RunsInOrder` says that every run but the current one was cleaned up, so a shell that
  answers late is either the current one or killed. For the dialog, the invariant adds that
  a dialog still to be opened was not confirmed, and that after an action that threw none is
  under way any more, since the buttons stay disabled.
- `OneFileByAnyName` (`WidgetProofs`): `FairSpec => []FilesRight` of `MCWidgets`, for any set of paths
  asked for (`AskedAssumption`: each has at least one name), with any backslashes in it
  (`BackslashedAssumption`: none of the code's own names has one, nor do the names between). `WorkspaceInv` is the inductive
  invariant: the files are a tree (`IsTree`: what is above an entry is a directory, and no path is
  longer than some number), a snapshot is what was exported but for what is excluded, and a
  restored workspace is that too. That paths agree holds in every state: `PathsAlwaysAgree` is about
  `normalizeAbsolute`, whose result has no empty name: without a backslash it is a path of
  the host's already (`ResolvedIs`, `ToContainer`). With one it is not, since the host's paths are spelled
  with other names (`SlashedIs`). That a trace has each file once rests on the tree:
  `snapshotDirectory` goes down it and stops, since a longer path has fewer entries below it. Both
  recursions are functions over numbers given by a first value and a step (`StepsExist`, `StepsOf`).
- `SettledTreeIsRight` (`WidgetProofs`): `Tree!FairSpec => [](Tree!Settled => Tree!TreeShowsWorkspace)`
  of `WorkspaceFileTree`, the safety half of `TreeRight`, for any number of overlapping reloads and
  any files. `TreeInv` says that a reload has what is in the directories it says it has read
  (`ReadsRight`), unless the files changed under it, and that with no reload under way the tree
  shows what was read (`Shown`), unless a read failed or the files changed. Nothing is said of the tree
  while reloads overlap: the last one to end replaces it.
- `OutputsAreTruncatedRight` (`ConversationProofs`): `TextsSpec => []TruncationRight` of `MCModelTexts`,
  for any number of items, texts of any length and any budget. The state is any output; the
  work is about the computation. `SplitIs` shows that the characters `split_string` keeps on the
  left are a beginning of the text and those on the right an end of it, because the bytes at which
  characters end increase. `TextTruncated` follows: what is missing is one piece from the middle, and
  another character on either side would exceed that side's share. `Sent` is the
  invariant of the loop over the items: where each item that was sent comes from, what of the
  budget is spent, and that a text is left out only when nothing remained.
- `UpdatesAreMadeInPlace` (`ConversationProofs`): `TextsSpec => []UpdatesInPlace` of `MCModelTexts`,
  for files of any length and any number of chunks. Again the state is any file and any update
  (`PatchInv`) and the work is about the computation. `SeekFinds` says of `seek_sequence` that what
  it finds is there at least to words, since lines alike to one leniency are alike to the most
  lenient, and that it finds what is there letter by letter or something before it. `PlacedUpTo` is
  the invariant of `compute_replacements`: where each chunk sits, and that those with old lines are
  behind one another. From it `PlacedApart` shows that none replaces what another one does, which is
  where the two shapes the property leaves out are needed, and `FitFound` that a chunk is found
  before the place it has in a file that holds all of them, so the next one is not missed.
  `PlacesTaken` shows that the sort gives each place to one replacement. `WeaveStep` is the
  step of the last induction: to splice one more replacement into a text woven of those behind
  it is to weave them all, because it changes the pieces of its own lines and no other.

The assumptions are those named in the modules: the limits and bounds are natural numbers,
`Parallel` is a set of call ids, `NoSession` is no session (`undefined` is no id), and the
clock of the store has room for two readings (`MaxTime` is at least 2: a database that is found
was written before), which is a bound of the model; a character takes one to four bytes, as in
UTF-8 (`LengthsAssumption`, which also has the bounds of the three texts); the patch is none of the commands, and
`NoCall` (`null`) is no call. Each inductive invariant is proved by one step per action;
`ItemsTyped`, `EmitTyped`, `BatchTyped`, `FinishTyped`, `TailEnded` and the other lemmas state
what the helpers on sequences preserve.

Only model-checked:

- *Liveness and fairness*: `TurnEnds`, `ReaderFinishes`, `CallsReturn`, `StoresOpen`, the second
  half of `RestoresTakeTurns` and the other properties with `~>` or `<>`. They are outside the
  prover's reach.

The induction theorems of the library take an operator as a parameter, which the installed
provers cannot instantiate. Where a proof needs induction on the length of a list, it takes
a set of natural numbers in place of the operator: `SetInduction` follows from the fact that
a set of them has a least member (`WFMin`, `NatLessThanWellFounded`). A recursive function is
unfolded to its `CHOOSE`, and the induction shows that there is one. `SelectSeq` is out of reach
even so, which is why the passes of `for_prompt` are stated with `FlattenSeq`.

`OutputsInCallOrder` and `ShownBeforeKept` are stated in the form the prover can work with, by
quantifiers over indices and by cardinalities instead of selected subsequences; `PatchesInOrder`
says of each path what the last hunk that touches it leaves (`After`), where a fold over the hunks
would say the same.

## Disagreements

One run ends in a violation of what a comment of the repository says:
`mounts_interleave`. Creating a session replaces the workspace outside the restore
queue, against the comment at the queue (`index.ts:397-399`). `runtime_patient` shows that
it takes the overlap: for a user who waits, `WorkspacesApart` holds.

These were met while modelling. No run of their own shows them; the properties say
where they leave them out.

- *A process nobody polls stays.* One that exits on its own is removed from the table only by
  a later call for its id (`webcontainer-host.ts:155`); `PLAN.md:112` asks that the life of a
  long-running process leaks no entry.
- *A cancelled stream cannot say so.* It is closed before the core notices, so the
  event `PLAN.md:121` promises meets a closed controller (`wasm_case.rs:198`).
- *A failed insert loses a turn.* `saveTurn` updates the row before it inserts the messages
  (`storage.ts:145`), and the next turn writes the older session in memory over it; `PLAN.md:180`
  asks that a storage failure does not break the core session's state. `ReloadShowsTheSame` leaves
  out such sessions (`torn`), `runtime_patient` has no failing awaits.
- *A replacement that fails empties the workspace.* It is cleared before it is mounted
  (`index.ts:160`), and the next turn of the session that stayed active saves what is left.
- *An interrupted migration is not resumed.* Between its RENAME and its INSERT the sessions are
  only in `sessions_with_workspace_snapshot`; the next start finds no old column, makes an
  empty table, and never looks there again (`storage.ts:293`). `SessionsSurvive` says that they
  are kept, and listed unless that happened (`interrupted`).
- *A second approval prompt hides the first.* Two commands of one batch that ask overwrite each
  other's prompt (`routes/index.tsx:162`), whose promise is never settled, so the turn never
  ends; `docs/browser-runtime-architecture.md:105` says the decision of the user is returned.
  `ApprovalsRight` allows for it (`overwritten`).
- *A failure of New chat, a load or a rename is not shown* (`routes/index.tsx:233-260`; `PLAN.md:180`
  asks for an error the page can show). An old rename that succeeds late closes a form
  opened since (`routes/index.tsx:259`).
- *A backslash names two files.* It is a part of a name for the path policy (`path.rs:72`) and a
  slash for the host (`webcontainer-host.ts:292`): a tool that is asked for `d\g` answers that it
  wrote `/workspace/d\g`, and the file is `g` in the directory `d`. Names that the policy takes for
  whole may thus lead elsewhere for the host, dots among them, and what the policy checked
  is not what is opened. `FilesRight` says that policy and host agree exactly on paths without a backslash.
- *A database that cannot be set up stays open.* When `initializeSchema` fails, the promise of the
  connection is forgotten, but the connection is not closed, and the next attempt opens
  another (`storage.ts:237-248`). `TypeOK` of the store bounds them by the failures (`leaked`).
- *An action that throws at once disables the dialog.* `confirm` sets the flag and then calls
  `onConfirm`, whose type allows it to be synchronous (`dialog-portal.tsx:21`, `:50`): if it throws,
  no `finally` resets the flag, and no dialog can be confirmed or cancelled any more. `DialogRight` has it
  (`threw`). Nothing in the repository opens a dialog yet.
- *The tree and a deleted directory.* One that was read and then deleted makes every reload
  fail until the session changes (`routes/index.tsx:899`), and a later read of another
  directory replaces the error by a count of entries. `TreeRight` is about reads that did not
  fail (`failed`).
- *Moving a file onto itself deletes it*, and the patch is reported as applied
  (`apply_patch.rs:530`). `PatchesInOrder` leaves it out.
- *Chunks that get into each other.* A chunk that says "end of file" is looked for from there,
  even over lines a chunk before it matched (`apply_patch.rs:660`), and what is added before a
  blank last line falls into the lines of a chunk that replaces it (`apply_patch.rs:577`): a part of
  the earlier one is lost. `UpdatesInPlace` leaves both out (`EndOfFileAgain`, `AddsAtBlankEnd`).
- *Smaller ones.* A blank line at the end of a file is dropped by any update of it. The
  marker of a truncated text counts, in tokens, what is over the budget and not what is
  missing. A search that the provider runs itself and whose response closed early gets an "aborted"
  client output (`history.rs:104`), which the request validator of `tests/core.rs` would
  refuse. A write to the terminal that fails late sets the status of another shell
  (`routes/index.tsx:801`). A dialog dismissed while its action runs lets that action close
  the next one (`dialog-portal.tsx:51`).

## What is not modelled

- The text of messages, deltas, token usage and rate limits: nothing branches on them.
- A call id used twice by the provider in the turn loop (`ConversationHistory` builds
  such histories).
- The grammar and the parser of a patch: text processing without state, and a patch that
  does not parse changes nothing. The layout of an answer of `exec_command`, and
  `view_image`, `update_plan`, `request_user_input`, which are one call of the host or none.
- The WASM adapter's request rewrites (fields of a JSON value) and its test harness.
- Process ids that a conversation remembers over a reload: `HostExec` begins with the page.
- Clocks that are set back.
- Entries that a shell made with a backslash in their name, and what WebContainer itself
  makes of empty names and dots in a path.
- `tools/spec.rs` (static schemas), the presentational part of `packages/ui`,
  `tests/oracle` and `scripts` (test tooling).

## Plan

1. Done: prompt history, turn loop, host, runtime sessions, stream; first theorems.
2. Done: the journal and its refinement; the store and its migration; the page, its
   terminal, tree and dialog; boot; tools and approvals; paths, files and snapshots; the
   text of patches and truncation.
3. Done: the record of a turn and its events, the stream, the types of host, runtime and store,
   the sessions kept apart, the refinement of the journal, the migration, the page.
4. Done: the patch applied in order, approvals, boot, terminal and dialog.
5. Done: the requests made of a history, their growth over a session, and what a reload
   of the page brings back.
6. Done: one file by any of its names, and the files of a snapshot; the file tree; truncation;
   the text of a patch. Every safety property of the runs is now a theorem or follows from one.
