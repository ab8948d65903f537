------------------------------ MODULE TurnStream ------------------------------
(***************************************************************************)
(* A turn behind a ReadableStream: run_host_turn_stream_json of the WASM   *)
(* adapter (wasm_case.rs), the turn loop it spawns, and a consumer that    *)
(* reads the stream the way BrowserCodexRuntime does (index.ts) or cancels *)
(* it. The controller of the stream is the turn's event sink, and the      *)
(* stream's cancel callback is all that sets the turn's token.             *)
(*                                                                         *)
(* The provider answers with one JSON document that the adapter unpacks    *)
(* into events: the stream of a sampling request never fails or closes     *)
(* early, and JavaScript runs only while the answer is fetched.            *)
(***************************************************************************)
EXTENDS TurnProperties

VARIABLES
  task,      \* the spawned future
  stream,    \* state of the ReadableStream
  chunks,    \* its queue
  reader,    \* the consumer
  seen       \* the chunks the consumer got

streaming == <<task, stream, chunks, reader, seen>>

Done == Event("done", NoId)
CancelledChunk == Event("cancelled", NoId)

Reading == reader \in {"busy", "waiting"}

StreamInit ==
  /\ Init
  /\ task = "none" /\ stream = "none"
  /\ chunks = << >> /\ seen = << >> /\ reader = "none"

(***************************************************************************)
(* controller.enqueue: a read that waits gets the chunk at once. The       *)
(* controller of a stream that is closed throws, and nothing is enqueued.  *)
(***************************************************************************)
\* Seeded bug: a chunk overtakes those in the queue.
EnqueueInFront(new) ==
  IF reader = "waiting" /\ new # << >>
  THEN /\ seen' = Append(seen, Head(new)) /\ chunks' = Tail(new)
       /\ reader' = "busy"
  ELSE chunks' = new \o chunks /\ UNCHANGED <<seen, reader>>

Enqueue(new) ==
  IF reader = "waiting" /\ new # << >>
  THEN /\ seen' = Append(seen, Head(new)) /\ chunks' = Tail(new)
       /\ reader' = "busy"
  ELSE chunks' = chunks \o new /\ UNCHANGED <<seen, reader>>

\* controller.error drops the queue.
Fail ==
  /\ task' = "ended"
  /\ IF stream = "readable" THEN stream' = "errored" /\ chunks' = << >>
                            ELSE UNCHANGED <<stream, chunks>>
  /\ UNCHANGED <<reader, seen>>

Close(last) ==
  /\ task' = "ended"
  /\ IF stream = "readable" THEN stream' = "closed" /\ Enqueue(last)
                            ELSE UNCHANGED <<stream, chunks, reader, seen>>

(***************************************************************************)
(* The stream is constructed, and the future is spawned by its start.      *)
(***************************************************************************)
Open ==
  /\ task = "none"
  /\ task' = "spawned" /\ stream' = "readable" /\ reader' = "busy"
  /\ UNCHANGED <<vars, chunks, seen>>

\* The arguments, the host object or the session snapshot is refused.
SetupFails ==
  /\ task = "spawned"
  /\ Fail
  /\ UNCHANGED vars

NewEvents == SubSeq(delivered', Len(delivered) + 1, Len(delivered'))

FirstPoll ==
  /\ task = "spawned" /\ stream = "readable"
  /\ StartTurn
  /\ task' = "running"
  /\ Enqueue(delivered')
  /\ UNCHANGED stream

\* The consumer cancelled before the future ran: TurnStarted is refused.
FirstPollUnheard ==
  /\ task = "spawned" /\ stream # "readable"
  /\ StartUnheardTurn /\ cancelled'
  /\ Fail

(***************************************************************************)
(* The turn loop, with the responses this adapter makes.                   *)
(***************************************************************************)
\* An answer without an item is refused by the adapter; the bound on the
\* history may leave none to choose.
AnsweredItems == Len(history) > Len(prompt) \/ Len(history) >= MaxHistory

Core ==
  \/ LoopStep
  \/ CancelledInStream \/ StreamUnheard \/ ReceiveMessage
  \/ \E c \in CallIds : ReceiveCall(c)
  \/ AnsweredItems /\ \E followUp \in BOOLEAN : ReceiveCompleted(followUp)
  \/ StartBatch
  \/ \E k \in DOMAIN calls, how \in {"loud", "quiet"} : FinishTool(k, how)
  \/ DispatchEnded \/ RecordOutput \/ RecordUnheard \/ NextIteration

CoreRuns ==
  /\ task = "running" /\ Core
  /\ pc' # "idle"
  /\ Enqueue(NewEvents)
  /\ UNCHANGED <<task, stream>>

\* The files are read once more for the trace before the output is sent.
TurnSucceeds ==
  /\ task = "running" /\ Core
  /\ pc' = "idle" /\ result' = "ok"
  /\ task' = "snapshotting"
  /\ Enqueue(NewEvents)
  /\ UNCHANGED stream

\* CoreError::Cancelled closes the stream, any other error breaks it.
TurnEndsEarly ==
  /\ task = "running" /\ Core
  /\ pc' = "idle" /\ result' # "ok"
  /\ IF result' = "cancelled" THEN Close(NewEvents \o <<CancelledChunk>>) ELSE Fail

\* Seeded bug: the output is sent while the files are still being read.
SendOutputKeepingOpen ==
  /\ task = "snapshotting"
  /\ task' = "ended"
  /\ IF stream = "readable" THEN Enqueue(<<Done>>)
                            ELSE UNCHANGED <<chunks, reader, seen>>
  /\ UNCHANGED <<vars, stream>>

SendOutput ==
  /\ task = "snapshotting"
  /\ Close(<<Done>>)
  /\ UNCHANGED vars

SnapshotFails ==
  /\ task = "snapshotting"
  /\ Fail
  /\ UNCHANGED vars

(***************************************************************************)
(* The consumer, whenever JavaScript runs.                                 *)
(***************************************************************************)
Yielded ==
  \/ task \in {"spawned", "snapshotting", "ended"}
  \/ task = "running" /\ (pc = "opening" \/ Running # {})

TakeChunk ==
  /\ Yielded /\ Reading /\ chunks # << >>
  /\ seen' = Append(seen, Head(chunks)) /\ chunks' = Tail(chunks)
  /\ reader' = IF Head(chunks) = CancelledChunk THEN "failed" ELSE "busy"
  /\ UNCHANGED <<vars, task, stream>>

AwaitChunk ==
  /\ Yielded /\ reader = "busy" /\ chunks = << >> /\ stream = "readable"
  /\ reader' = "waiting"
  /\ UNCHANGED <<vars, task, stream, chunks, seen>>

\* The output is what counts, however many events came with it.
EndOfStream ==
  /\ Yielded /\ Reading /\ chunks = << >> /\ stream = "closed"
  /\ reader' = IF \E k \in DOMAIN seen : seen[k] = Done THEN "output" ELSE "failed"
  /\ UNCHANGED <<vars, task, stream, chunks, seen>>

StreamErrored ==
  /\ Yielded /\ Reading /\ stream = "errored"
  /\ reader' = "failed"
  /\ UNCHANGED <<vars, task, stream, chunks, seen>>

\* A stream counts as readable until its queue is drained.
Cancellable ==
  \/ stream = "readable"
  \/ stream = "closed" /\ chunks # << >>

\* Seeded bug: the controller goes on taking events.
CancelStreamKeepingSink ==
  /\ Yielded /\ Reading /\ Cancellable
  /\ stream' = "closed" /\ chunks' = << >>
  /\ cancelled' = TRUE
  /\ UNCHANGED <<session, sinkOpen, sampling, requested, pc, delivered, result,
                 turnStart, dispatches, task, reader, seen>>

\* reader.cancel: the stream is closed and the cancel callback sets the token.
CancelStream ==
  /\ Yielded /\ Reading /\ Cancellable
  /\ stream' = "closed" /\ chunks' = << >>
  /\ cancelled' = TRUE /\ sinkOpen' = FALSE
  /\ UNCHANGED <<session, sampling, requested, pc, delivered, result, turnStart,
                 dispatches, task, reader, seen>>

-----------------------------------------------------------------------------

Adapter ==
  \/ SetupFails \/ FirstPoll \/ FirstPollUnheard
  \/ CoreRuns \/ TurnSucceeds \/ TurnEndsEarly
  \/ SendOutput \/ SnapshotFails

Consumer == TakeChunk \/ AwaitChunk \/ EndOfStream \/ StreamErrored

StreamNext == Open \/ Adapter \/ Consumer \/ CancelStream

StreamVars == <<vars, streaming>>

StreamSpec == StreamInit /\ [][StreamNext]_StreamVars

(***************************************************************************)
(* The executor polls the future, fetch and the tools answer, and the      *)
(* consumer reads on; nobody has to open or cancel the stream.             *)
(***************************************************************************)
FairStreamSpec ==
  StreamSpec /\ WF_StreamVars(Adapter) /\ WF_StreamVars(Consumer)

-----------------------------------------------------------------------------

\* The stream and its reader are in states of the Streams standard, the turn
\* runs only while its future does, and its sink is the stream.
StreamTypeOK ==
  /\ TypeOK
  /\ task \in {"none", "spawned", "running", "snapshotting", "ended"}
  /\ stream \in {"none", "readable", "closed", "errored"}
  /\ reader \in {"none", "busy", "waiting", "output", "failed"}
  /\ reader = "waiting" => chunks = << >>
  /\ pc # "idle" => task = "running" /\ (sinkOpen <=> stream = "readable")

\* What the reader has seen is a beginning of what the turn emitted, in the
\* same order; once it has the output it has seen every event, and the turn
\* did end well. Once the consumer has cancelled the stream the provider gets
\* no request any more, although the token is not consulted before each of them
\* (wasm_case.rs:178-200, session.rs:227, 408-416, index.ts:322-347).
ReaderSeesTurn ==
  /\ IsPrefix(seen, delivered \o <<Done>>)
  /\ reader = "output" => Len(seen) = Len(delivered) + 1 /\ result = "ok"
  /\ lateRequests = 0

\* A consumer that reads on comes to an end, with the output or an error,
\* whatever fails behind the stream (wasm_case.rs:176-191, index.ts:322-347).
ReaderFinishes == Reading ~> ~Reading
=============================================================================
