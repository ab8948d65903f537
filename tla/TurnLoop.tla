------------------------------- MODULE TurnLoop -------------------------------
(***************************************************************************)
(* One Session of the core and the turns it runs (session.rs): the loop of *)
(* sampling requests, the retry of a stream that closed early, the batches *)
(* of tool calls, the recording of their outputs, cancellation and an      *)
(* event sink that stops accepting events.                                 *)
(*                                                                         *)
(* The core is a single-threaded future. It can be overtaken only where it *)
(* awaits: opening the stream, the next stream event, and the running      *)
(* tools. The steps between two awaits are separate actions for the        *)
(* reader's sake; the environment does not act there (see AwaitPoint).     *)
(***************************************************************************)
EXTENDS PromptHistory, FiniteSets

CONSTANTS
  Parallel,             \* call ids whose tool is exec_command
  MaxToolIterations,    \* CoreConfig::max_tool_iterations
  MaxSamplingRetries,   \* CoreConfig::max_sampling_retries
  MaxTurns,             \* bound on the turns of the session
  MaxHistory            \* bound on the history, for responses without calls

ASSUME ParallelAssumption == Parallel \subseteq CallIds
ASSUME IterationsAssumption == MaxToolIterations \in Nat
ASSUME RetriesAssumption == MaxSamplingRetries \in Nat
ASSUME BoundsAssumption == MaxTurns \in Nat /\ MaxHistory \in Nat

VARIABLES
  \* the Session
  nextId,        \* Session::next_id
  history,       \* Session::history
  \* the caller
  cancelled,     \* CancellationToken::is_cancelled
  sinkOpen,      \* on_event succeeds
  \* the running turn
  pc,            \* where run_turn_with_event_sink stands
  iteration,     \* iterations of the tool loop that have ended
  attempt,       \* attempt of sample_with_retry
  calls,         \* SamplingOutput::tool_calls, with the progress of each
  completed,     \* SamplingOutput::completed
  delivered,     \* events: what the sink accepted in this turn
  result,        \* how the last turn ended
  prompt,        \* the last entry of trace.model_requests
  requests,      \* Len(trace.model_requests)
  \* history variables, for the properties
  turnStart,     \* where the turn's items start in history
  dispatches,    \* how often each call was given to router.dispatch
  lateRequests   \* requests of this turn sent after its cancellation

session == <<nextId, history>>
caller == <<cancelled, sinkOpen>>
sampling == <<iteration, attempt, calls, completed>>
requested == <<prompt, requests, lateRequests>>
vars == <<session, caller, sampling, requested, pc, delivered, result,
          turnStart, dispatches>>

Results == {"none", "ok", "cancelled", "sink", "failed", "closed", "exceeded"}

Event(kind, id) == [kind |-> kind, id |-> id]

UserItem == Message("input", "text")

AssistantItem == Message("response", "text")

FamilyOf(c) == IF c \in Parallel THEN "function" ELSE "custom"

Queued(c) == [id |-> c, run |-> "queued"]

Running == {k \in DOMAIN calls : calls[k].run = "running"}

\* The future is suspended and JavaScript, or any other caller, may run.
AwaitPoint == pc \in {"opening", "streaming"} \/ Running # {}

Init ==
  /\ nextId = 1 /\ history = << >>
  /\ cancelled = FALSE /\ sinkOpen = TRUE
  /\ pc = "idle" /\ iteration = 0 /\ attempt = 0
  /\ calls = << >> /\ completed = FALSE
  /\ delivered = << >> /\ result = "none"
  /\ prompt = << >> /\ requests = 0
  /\ turnStart = 1
  /\ dispatches = [c \in CallIds |-> 0]
  /\ lateRequests = 0

(***************************************************************************)
(* emit hands the event to the sink first: an event the sink refuses is    *)
(* not kept, and "?" ends the turn with the sink's error.                  *)
(***************************************************************************)
Emit(kind, id) == sinkOpen /\ delivered' = Append(delivered, Event(kind, id))

EndTurn(how) ==
  /\ pc' = "idle"
  /\ result' = how
  /\ calls' = << >>

\* check_cancelled, when the token is set.
EndCancelled ==
  /\ cancelled
  /\ \/ Emit("TurnCancelled", NoId) /\ EndTurn("cancelled")
     \/ ~sinkOpen /\ EndTurn("sink") /\ UNCHANGED delivered

(***************************************************************************)
(* The start of a turn. The token may be set and the sink gone before the  *)
(* spawned future is first polled.                                         *)
(***************************************************************************)
BeginTurn ==
  /\ pc = "idle" /\ nextId <= MaxTurns
  /\ nextId' = nextId + 1
  /\ turnStart' = Len(history) + 1
  /\ requests' = 0 /\ lateRequests' = 0
  /\ iteration' = 0 /\ attempt' = 0 /\ completed' = FALSE
  /\ calls' = << >>
  /\ UNCHANGED <<dispatches, prompt>>

StartTurn ==
  /\ BeginTurn
  /\ cancelled' = FALSE /\ sinkOpen' = TRUE
  /\ delivered' = <<Event("TurnStarted", NoId)>>
  /\ history' = Append(history, UserItem)
  /\ pc' = "loop" /\ result' = "none"

StartCancelledTurn ==
  /\ BeginTurn
  /\ cancelled' = TRUE /\ sinkOpen' = TRUE
  /\ delivered' = <<Event("TurnStarted", NoId), Event("TurnCancelled", NoId)>>
  /\ pc' = "idle" /\ result' = "cancelled"
  /\ UNCHANGED history

StartUnheardTurn ==
  /\ BeginTurn
  /\ cancelled' \in BOOLEAN /\ sinkOpen' = FALSE
  /\ delivered' = << >>
  /\ pc' = "idle" /\ result' = "sink"
  /\ UNCHANGED history

(***************************************************************************)
(* The head of the tool loop.                                              *)
(***************************************************************************)
\* Seeded bug: the token is not consulted between iterations.
EnterIterationUnchecked ==
  /\ pc = "loop" /\ iteration < MaxToolIterations
  /\ pc' = "request" /\ attempt' = 0
  /\ UNCHANGED <<session, caller, requested, iteration, calls, completed,
                 delivered, result, turnStart, dispatches>>

EnterIteration ==
  /\ pc = "loop" /\ iteration < MaxToolIterations
  /\ ~cancelled
  /\ pc' = "request" /\ attempt' = 0
  /\ UNCHANGED <<session, caller, requested, iteration, calls, completed,
                 delivered, result, turnStart, dispatches>>

CancelledAtLoop ==
  /\ pc = "loop" /\ iteration < MaxToolIterations
  /\ EndCancelled
  /\ UNCHANGED <<session, caller, requested, iteration, attempt, completed,
                 turnStart, dispatches>>

LoopExceeded ==
  /\ pc = "loop" /\ iteration = MaxToolIterations
  /\ EndTurn("exceeded")
  /\ UNCHANGED <<session, caller, requested, iteration, attempt, completed,
                 delivered, turnStart, dispatches>>

(***************************************************************************)
(* A sampling request. The prompt is rebuilt from the history for every    *)
(* attempt and nothing of an earlier attempt's SamplingOutput is kept; the *)
(* token is not consulted before a retry.                                  *)
(***************************************************************************)
SendRequest ==
  /\ pc = "request"
  /\ prompt' = ForPrompt(history, TRUE)
  /\ requests' = requests + 1
  /\ lateRequests' = IF cancelled THEN lateRequests + 1 ELSE lateRequests
  /\ calls' = << >> /\ completed' = FALSE
  /\ pc' = "opening"
  /\ UNCHANGED <<session, caller, iteration, attempt, delivered, result,
                 turnStart, dispatches>>

OpenStream ==
  /\ pc = "opening"
  /\ pc' = "streaming"
  /\ UNCHANGED <<session, caller, sampling, requested, delivered, result,
                 turnStart, dispatches>>

RequestRefused ==
  /\ pc = "opening"
  /\ EndTurn("failed")
  /\ UNCHANGED <<session, caller, requested, iteration, attempt, completed,
                 delivered, turnStart, dispatches>>

(***************************************************************************)
(* The events of the stream. Each of them, and not the end of the stream,  *)
(* is preceded by check_cancelled.                                         *)
(***************************************************************************)
CancelledInStream ==
  /\ pc = "streaming"
  /\ EndCancelled
  /\ UNCHANGED <<session, caller, requested, iteration, attempt, completed,
                 turnStart, dispatches>>

\* Seeded bug: events are handled whatever the token says.
StreamEventUnchecked == pc = "streaming"

StreamEvent == pc = "streaming" /\ ~cancelled

\* A transport error or response.failed.
StreamFails ==
  /\ StreamEvent
  /\ EndTurn("failed")
  /\ UNCHANGED <<session, caller, requested, iteration, attempt, completed,
                 delivered, turnStart, dispatches>>

\* An item or a delta that emit cannot deliver. A delta that it delivers
\* changes none of the variables.
StreamUnheard ==
  /\ StreamEvent /\ ~sinkOpen
  /\ EndTurn("sink")
  /\ UNCHANGED <<session, caller, requested, iteration, attempt, completed,
                 delivered, turnStart, dispatches>>

ReceiveMessage ==
  /\ StreamEvent /\ Len(history) < MaxHistory
  /\ Emit("ItemCompleted", NoId)
  /\ history' = Append(history, AssistantItem)
  /\ UNCHANGED <<nextId, caller, sampling, requested, pc, result,
                 turnStart, dispatches>>

\* Seeded bug: the item is kept before the sink has taken it.
ReceiveCallKeptFirst(c) ==
  /\ StreamEvent
  /\ \A k \in DOMAIN history : history[k].id # c
  /\ history' = Append(history, Call(FamilyOf(c), c))
  /\ \/ /\ Emit("ItemCompleted", c)
        /\ calls' = Append(calls, Queued(c))
        /\ UNCHANGED <<pc, result>>
     \/ ~sinkOpen /\ EndTurn("sink") /\ UNCHANGED delivered
  /\ UNCHANGED <<nextId, caller, requested, iteration, attempt, completed,
                 turnStart, dispatches>>

\* A new call id: the provider does not use one twice in a session.
ReceiveCall(c) ==
  /\ StreamEvent
  /\ \A k \in DOMAIN history : history[k].id # c
  /\ Emit("ItemCompleted", c)
  /\ calls' = Append(calls, Queued(c))
  /\ history' = Append(history, Call(FamilyOf(c), c))
  /\ UNCHANGED <<nextId, caller, requested, iteration, attempt, completed, pc,
                 result, turnStart, dispatches>>

\* response.completed: followUp is end_turn = Some(false).
ReceiveCompleted(followUp) ==
  /\ StreamEvent
  /\ completed' = TRUE
  /\ \/ /\ calls # << >> \/ followUp
        /\ pc' = "dispatching"
        /\ UNCHANGED <<delivered, result, calls>>
     \/ /\ calls = << >> /\ ~followUp
        /\ \/ Emit("TurnComplete", NoId) /\ EndTurn("ok")
           \/ ~sinkOpen /\ EndTurn("sink") /\ UNCHANGED delivered
  /\ UNCHANGED <<session, caller, requested, iteration, attempt, turnStart,
                 dispatches>>

\* Seeded bug: the calls of an attempt that closed early are not run.
StreamClosesDroppingCalls ==
  /\ pc = "streaming"
  /\ pc' = "dispatching" /\ calls' = << >>
  /\ UNCHANGED <<session, caller, requested, iteration, attempt, completed,
                 delivered, result, turnStart, dispatches>>

StreamCloses ==
  /\ pc = "streaming"
  /\ pc' = "dispatching"
  /\ UNCHANGED <<session, caller, sampling, requested, delivered, result,
                 turnStart, dispatches>>

(***************************************************************************)
(* dispatch_tool_calls: a maximal run of parallel calls is one join_all    *)
(* batch, any other call is a batch of its own, and a batch starts when    *)
(* the one before it has ended. Tools never fail: an error is an output,   *)
(* one without events ("quiet").                                           *)
(***************************************************************************)
\* Seeded bug: parallel calls behind the last exclusive one are not flushed.
StartsBeforeExclusive(k) ==
  /\ calls[k].run = "queued" /\ \A j \in 1 .. k-1 : calls[j].run # "queued"
  /\ \E j \in k .. Len(calls) : calls[j].id \notin Parallel

\* Seeded bug: a call that ended with an error is dispatched again.
StartsAtRetryingErrors(k) ==
  calls[k].run \in {"queued", "quiet"} /\ \A j \in 1 .. k-1 : calls[j].run = "loud"

StartsAt(k) ==
  calls[k].run = "queued" /\ \A j \in 1 .. k-1 : calls[j].run # "queued"

Batch(first) ==
  {k \in first .. Len(calls) :
     k = first \/ \A j \in first .. k : calls[j].id \in Parallel}

StartBatch ==
  /\ pc = "dispatching" /\ Running = {}
  /\ \E first \in DOMAIN calls :
       /\ StartsAt(first)
       /\ calls' = [k \in DOMAIN calls |->
                      IF k \in Batch(first) THEN [calls[k] EXCEPT !.run = "running"]
                                            ELSE calls[k]]
       /\ dispatches' = [c \in CallIds |->
             dispatches[c] + Cardinality({k \in Batch(first) : calls[k].id = c})]
  /\ UNCHANGED <<session, caller, requested, iteration, attempt, completed, pc,
                 delivered, result, turnStart>>

FinishTool(k, how) ==
  /\ pc = "dispatching" /\ k \in Running
  /\ calls' = [calls EXCEPT ![k].run = how]
  /\ UNCHANGED <<session, caller, requested, iteration, attempt, completed, pc,
                 delivered, result, turnStart, dispatches>>

(***************************************************************************)
(* dispatch_and_record_tool_calls: once all the tools have ended, the      *)
(* executions are recorded in call order. The events of an execution are   *)
(* emitted and then its output goes into the history; a refused event ends *)
(* the turn on the spot: that output and the ones behind it are lost.      *)
(***************************************************************************)
DispatchEnded ==
  /\ pc = "dispatching"
  /\ \A k \in DOMAIN calls : calls[k].run \in {"loud", "quiet"}
  /\ pc' = "recording"
  /\ UNCHANGED <<session, caller, sampling, requested, delivered, result,
                 turnStart, dispatches>>

\* Seeded bug: a cancelled turn ends before its outputs are recorded.
RecordOutputUnlessCancelled ==
  /\ pc = "recording" /\ calls # << >>
  /\ \/ EndCancelled /\ UNCHANGED history
     \/ /\ ~cancelled
        /\ history' = Append(history,
                             Output(FamilyOf(Head(calls).id), Head(calls).id, "text"))
        /\ calls' = Tail(calls)
        /\ UNCHANGED <<pc, result, delivered>>
  /\ UNCHANGED <<nextId, caller, requested, iteration, attempt, completed,
                 turnStart, dispatches>>

RecordOutput ==
  /\ pc = "recording" /\ calls # << >>
  /\ \/ Head(calls).run = "loud" /\ Emit("ToolEvents", Head(calls).id)
     \/ Head(calls).run = "quiet" /\ UNCHANGED delivered
  /\ history' = Append(history,
                       Output(FamilyOf(Head(calls).id), Head(calls).id, "text"))
  /\ calls' = Tail(calls)
  /\ UNCHANGED <<nextId, caller, requested, iteration, attempt, completed, pc,
                 result, turnStart, dispatches>>

RecordUnheard ==
  /\ pc = "recording" /\ calls # << >>
  /\ Head(calls).run = "loud" /\ ~sinkOpen
  /\ EndTurn("sink")
  /\ UNCHANGED <<session, caller, requested, iteration, attempt, completed,
                 delivered, turnStart, dispatches>>

\* All outputs are in the history.
Recorded == pc = "recording" /\ calls = << >>

NextIteration ==
  /\ Recorded /\ completed
  /\ iteration' = iteration + 1
  /\ pc' = "loop"
  /\ UNCHANGED <<session, caller, requested, attempt, calls, completed, delivered,
                 result, turnStart, dispatches>>

\* Seeded bug: one retry too many.
RetrySamplingOnceMore ==
  /\ Recorded /\ ~completed /\ attempt <= MaxSamplingRetries
  /\ Emit("StreamError", NoId)
  /\ attempt' = attempt + 1
  /\ pc' = "request"
  /\ UNCHANGED <<session, caller, requested, iteration, calls, completed,
                 result, turnStart, dispatches>>

RetrySampling ==
  /\ Recorded /\ ~completed /\ attempt < MaxSamplingRetries
  /\ Emit("StreamError", NoId)
  /\ attempt' = attempt + 1
  /\ pc' = "request"
  /\ UNCHANGED <<session, caller, requested, iteration, calls, completed,
                 result, turnStart, dispatches>>

RetryUnheard ==
  /\ Recorded /\ ~completed /\ attempt < MaxSamplingRetries
  /\ ~sinkOpen
  /\ EndTurn("sink")
  /\ UNCHANGED <<session, caller, requested, iteration, attempt, completed,
                 delivered, turnStart, dispatches>>

RetriesExhausted ==
  /\ Recorded /\ ~completed /\ attempt = MaxSamplingRetries
  /\ EndTurn("closed")
  /\ UNCHANGED <<session, caller, requested, iteration, attempt, completed,
                 delivered, turnStart, dispatches>>

(***************************************************************************)
(* The caller, at the await points.                                        *)
(***************************************************************************)
Cancel ==
  /\ AwaitPoint /\ ~cancelled
  /\ cancelled' = TRUE
  /\ UNCHANGED <<session, sinkOpen, sampling, requested, pc, delivered, result,
                 turnStart, dispatches>>

CloseSink ==
  /\ AwaitPoint /\ sinkOpen
  /\ sinkOpen' = FALSE
  /\ UNCHANGED <<session, cancelled, sampling, requested, pc, delivered, result,
                 turnStart, dispatches>>

-----------------------------------------------------------------------------

LoopStep ==
  \/ EnterIteration \/ CancelledAtLoop \/ LoopExceeded
  \/ SendRequest \/ OpenStream \/ RequestRefused

StreamStep ==
  \/ CancelledInStream \/ StreamFails \/ StreamUnheard \/ ReceiveMessage
  \/ \E c \in CallIds : ReceiveCall(c)
  \/ \E followUp \in BOOLEAN : ReceiveCompleted(followUp)
  \/ StreamCloses

ToolStep ==
  \/ StartBatch
  \/ \E k \in DOMAIN calls, how \in {"loud", "quiet"} : FinishTool(k, how)
  \/ DispatchEnded \/ RecordOutput \/ RecordUnheard
  \/ NextIteration \/ RetrySampling \/ RetryUnheard \/ RetriesExhausted

CallerStep ==
  \/ StartTurn \/ StartCancelledTurn \/ StartUnheardTurn
  \/ Cancel \/ CloseSink

Next == LoopStep \/ StreamStep \/ ToolStep \/ CallerStep

Spec == Init /\ [][Next]_vars

(***************************************************************************)
(* The executor polls a future that can proceed, the provider's streams    *)
(* open, go on and end, and every tool call of the host answers.           *)
(***************************************************************************)
Fairness == WF_vars(LoopStep) /\ WF_vars(StreamStep) /\ WF_vars(ToolStep)

FairSpec == Spec /\ Fairness
=============================================================================
