----------------------------- MODULE TurnProofs ------------------------------
(***************************************************************************)
(* Proofs about the turns of a session, for every set of calls, every      *)
(* number of turns and every limit of iterations and retries: the turn     *)
(* itself, what it records, the requests it sends, and the stream a reader *)
(* sees of it.                                                             *)
(***************************************************************************)
EXTENDS TurnStream, PromptProofs, FiniteSetTheorems

USE DEF session, caller, sampling, requested, vars

(***************************************************************************)
(* The sequences of the model are only appended to, cut at the head, or    *)
(* updated in place.                                                       *)
(***************************************************************************)
LEMMA ItemsTyped ==
  ASSUME NEW c \in CallIds
  PROVE  /\ UserItem \in HistoryItem /\ AssistantItem \in HistoryItem
         /\ Call(FamilyOf(c), c) \in HistoryItem
         /\ Output(FamilyOf(c), c, "text") \in HistoryItem
BY DEF UserItem, AssistantItem, Call, Output, Message, Item, FamilyOf,
       HistoryItem, Families

LEMMA MessagesTyped == UserItem \in HistoryItem /\ AssistantItem \in HistoryItem
BY DEF UserItem, AssistantItem, Message, Item, HistoryItem, Families

LEMMA EmitTyped ==
  ASSUME NEW kind \in {"ItemCompleted", "ToolEvents", "StreamError",
                       "TurnComplete", "TurnCancelled"},
         NEW id \in CallIds \union {NoId},
         delivered \in Seq(EventMsg), Emit(kind, id)
  PROVE  delivered' \in Seq(EventMsg)
BY DEF Emit, Event, EventMsg

LEMMA EndCancelledTyped ==
  ASSUME delivered \in Seq(EventMsg), EndCancelled
  PROVE  delivered' \in Seq(EventMsg) /\ calls' = << >>
<1>1. CASE Emit("TurnCancelled", NoId)
  BY <1>1, EmitTyped DEF EndCancelled, EndTurn
<1>2. CASE UNCHANGED delivered
  BY <1>2 DEF EndCancelled, EndTurn
<1> QED
  BY <1>1, <1>2 DEF EndCancelled

LEMMA FlagsStep == FlagsTyped /\ [Next]_vars => FlagsTyped'
<1> SUFFICES ASSUME FlagsTyped, [Next]_vars PROVE FlagsTyped'
  OBVIOUS
<1> USE DEF EndTurn, EndCancelled, Results, FlagsTyped
<1>1. CASE LoopStep
  BY <1>1 DEF LoopStep, EnterIteration, CancelledAtLoop, LoopExceeded, SendRequest,
              OpenStream, RequestRefused
<1>2. CASE StreamStep
  BY ZenonT(30), <1>2 DEF StreamStep, CancelledInStream, StreamFails, StreamUnheard,
              ReceiveMessage, ReceiveCall, ReceiveCompleted, StreamCloses
<1>3. CASE ToolStep
  BY <1>3 DEF ToolStep, StartBatch, FinishTool, DispatchEnded, RecordOutput,
              RecordUnheard, NextIteration, RetrySampling, RetryUnheard,
              RetriesExhausted
<1>4. CASE CallerStep
  BY <1>4 DEF CallerStep, StartTurn, StartCancelledTurn, StartUnheardTurn,
              BeginTurn, Cancel, CloseSink
<1>5. CASE UNCHANGED vars
  BY <1>5
<1> QED
  BY <1>1, <1>2, <1>3, <1>4, <1>5 DEF Next

LEMMA BatchTyped ==
  ASSUME calls \in Seq(ToolCall), StartBatch
  PROVE  calls' \in Seq(ToolCall) /\ Len(calls') = Len(calls)
<1>1. PICK first \in DOMAIN calls :
        calls' = [k \in DOMAIN calls |->
                    IF k \in Batch(first)
                    THEN [calls[k] EXCEPT !.run = "running"] ELSE calls[k]]
  BY DEF StartBatch
<1>2. Len(calls) \in Nat /\ DOMAIN calls = 1 .. Len(calls)
  OBVIOUS
<1>3. \A k \in 1 .. Len(calls) : calls[k] \in ToolCall
  OBVIOUS
<1>4. \A k \in 1 .. Len(calls) : calls'[k] \in ToolCall
  BY <1>1, <1>2, <1>3 DEF ToolCall
<1> QED
  BY <1>1, <1>2, <1>4

LEMMA FinishTyped ==
  ASSUME calls \in Seq(ToolCall), NEW k \in DOMAIN calls,
         NEW how \in {"loud", "quiet"}, FinishTool(k, how)
  PROVE  calls' \in Seq(ToolCall) /\ Len(calls') = Len(calls)
<1>1. calls[k] \in ToolCall
  OBVIOUS
<1>2. [calls[k] EXCEPT !.run = how] \in ToolCall
  BY <1>1 DEF ToolCall
<1>3. calls' = [calls EXCEPT ![k] = [calls[k] EXCEPT !.run = how]]
  BY DEF FinishTool
<1> QED
  BY <1>2, <1>3, ExceptSeq

LEMMA ListsStep == ListsTyped /\ [Next]_vars => ListsTyped'
<1> SUFFICES ASSUME ListsTyped, [Next]_vars PROVE ListsTyped'
  OBVIOUS
<1> USE DEF EndTurn, ListsTyped
<1>1. CASE LoopStep
  <2>1. CASE CancelledAtLoop
    BY <2>1, EndCancelledTyped DEF CancelledAtLoop
  <2>2. CASE EnterIteration
    BY <2>2 DEF EnterIteration
  <2>3. CASE LoopExceeded
    BY <2>3 DEF LoopExceeded
  <2>4. CASE SendRequest
    BY <2>4 DEF SendRequest
  <2>5. CASE OpenStream
    BY <2>5 DEF OpenStream
  <2>6. CASE RequestRefused
    BY <2>6 DEF RequestRefused
  <2> QED
    BY <1>1, <2>1, <2>2, <2>3, <2>4, <2>5, <2>6 DEF LoopStep
<1>2. CASE StreamStep
  <2>1. ASSUME NEW c \in CallIds, ReceiveCall(c) PROVE ListsTyped'
    <3>1. Queued(c) \in ToolCall
      BY DEF Queued, ToolCall
    <3> QED
      BY <2>1, <3>1, ItemsTyped, EmitTyped DEF ReceiveCall
  <2>2. CASE ReceiveMessage
    BY <2>2, EmitTyped, MessagesTyped DEF ReceiveMessage
  <2>3. ASSUME NEW followUp \in BOOLEAN, ReceiveCompleted(followUp)
        PROVE  ListsTyped'
    BY <2>3, EmitTyped DEF ReceiveCompleted
  <2>4. CASE CancelledInStream
    BY <2>4, EndCancelledTyped DEF CancelledInStream
  <2>5. CASE StreamFails
    BY <2>5 DEF StreamFails
  <2>6. CASE StreamUnheard
    BY <2>6 DEF StreamUnheard
  <2>7. CASE StreamCloses
    BY <2>7 DEF StreamCloses
  <2> QED
    BY <1>2, <2>1, <2>2, <2>3, <2>4, <2>5, <2>6, <2>7 DEF StreamStep
<1>3. CASE ToolStep
  <2>1. CASE StartBatch
    BY <2>1, BatchTyped DEF StartBatch
  <2>2. ASSUME NEW k \in DOMAIN calls, NEW how \in {"loud", "quiet"},
               FinishTool(k, how)
        PROVE  ListsTyped'
    BY <2>2, FinishTyped DEF FinishTool
  <2>3. CASE RecordOutput
    <3>1. Head(calls) \in ToolCall /\ Tail(calls) \in Seq(ToolCall)
      BY <2>3, HeadTailProperties DEF RecordOutput
    <3>2. Head(calls).id \in CallIds
      BY <3>1 DEF ToolCall
    <3>3. history' \in Seq(HistoryItem)
      BY <2>3, <3>2, ItemsTyped DEF RecordOutput
    <3>4. delivered' \in Seq(EventMsg)
      BY <2>3, <3>2, EmitTyped DEF RecordOutput
    <3> QED
      BY <2>3, <3>1, <3>3, <3>4 DEF RecordOutput
  <2>4. CASE RetrySampling
    BY <2>4, EmitTyped DEF RetrySampling
  <2>5. CASE DispatchEnded
    BY <2>5 DEF DispatchEnded
  <2>6. CASE RecordUnheard
    BY <2>6 DEF RecordUnheard
  <2>7. CASE NextIteration
    BY <2>7 DEF NextIteration
  <2>8. CASE RetryUnheard
    BY <2>8 DEF RetryUnheard
  <2>9. CASE RetriesExhausted
    BY <2>9 DEF RetriesExhausted
  <2> QED
    BY <1>3, <2>1, <2>2, <2>3, <2>4, <2>5, <2>6, <2>7, <2>8, <2>9 DEF ToolStep
<1>4. CASE CallerStep
  <2>1. CASE StartTurn
    BY <2>1, MessagesTyped DEF StartTurn, BeginTurn, Event, EventMsg
  <2>2. CASE StartCancelledTurn
    BY <2>2 DEF StartCancelledTurn, BeginTurn, Event, EventMsg
  <2>3. CASE StartUnheardTurn
    BY <2>3 DEF StartUnheardTurn, BeginTurn
  <2>4. CASE Cancel \/ CloseSink
    BY <2>4 DEF Cancel, CloseSink
  <2> QED
    BY <1>4, <2>1, <2>2, <2>3, <2>4 DEF CallerStep
<1>5. CASE UNCHANGED vars
  BY <1>5
<1> QED
  BY <1>1, <1>2, <1>3, <1>4, <1>5 DEF Next

\* Inside an iteration the loop has not yet used its last one up.
InIteration ==
  pc \notin {"idle", "loop"} => iteration < MaxToolIterations

LEMMA CountersStep ==
  ListsTyped /\ CountersTyped /\ InIteration /\ [Next]_vars
    => CountersTyped' /\ InIteration'
<1> SUFFICES ASSUME ListsTyped, CountersTyped, InIteration, [Next]_vars
             PROVE  CountersTyped' /\ InIteration'
  OBVIOUS
<1> USE RetriesAssumption, IterationsAssumption
    DEF CountersTyped, InIteration, EndTurn, EndCancelled
<1>1. CASE LoopStep
  <2>1. CASE EnterIteration
    BY <2>1 DEF EnterIteration
  <2>2. CASE CancelledAtLoop
    BY <2>2 DEF CancelledAtLoop
  <2>3. CASE LoopExceeded \/ RequestRefused
    BY <2>3 DEF LoopExceeded, RequestRefused
  <2>4. CASE SendRequest
    BY <2>4 DEF SendRequest
  <2>5. CASE OpenStream
    BY <2>5 DEF OpenStream
  <2> QED
    BY <1>1, <2>1, <2>2, <2>3, <2>4, <2>5 DEF LoopStep
<1>2. CASE StreamStep
  <2>0. pc = "streaming"
    BY <1>2 DEF StreamStep, StreamEvent, CancelledInStream, StreamFails, StreamUnheard,
                ReceiveMessage, ReceiveCall, ReceiveCompleted, StreamCloses
  <2>1. UNCHANGED <<nextId, turnStart, iteration, attempt, requests, lateRequests,
                    dispatches>>
    BY <1>2 DEF StreamStep, CancelledInStream, StreamFails, StreamUnheard,
                ReceiveMessage, ReceiveCall, ReceiveCompleted, StreamCloses
  <2> QED
    BY <2>0, <2>1
<1>3. CASE ToolStep
  <2>1. CASE StartBatch
    <3>1. PICK first \in DOMAIN calls :
            dispatches' = [c \in CallIds |->
                dispatches[c] + Cardinality({k \in Batch(first) : calls[k].id = c})]
      BY <2>1 DEF StartBatch
    <3>2. ASSUME NEW c \in CallIds
          PROVE  Cardinality({k \in Batch(first) : calls[k].id = c}) \in Nat
      <4>1. IsFiniteSet(1 .. Len(calls))
        BY FS_Interval DEF ListsTyped
      <4>2. {k \in Batch(first) : calls[k].id = c} \subseteq 1 .. Len(calls)
        BY DEF Batch, ListsTyped
      <4> QED
        BY <4>1, <4>2, FS_Subset, FS_CardinalityType
    <3>3. dispatches' \in [CallIds -> Nat]
      BY <3>1, <3>2
    <3> QED
      BY <2>1, <3>3 DEF StartBatch
  <2>2. CASE \E k \in DOMAIN calls, how \in {"loud", "quiet"} : FinishTool(k, how)
    BY <2>2 DEF FinishTool
  <2>3. CASE \/ DispatchEnded \/ RecordOutput \/ RecordUnheard \/ RetryUnheard
             \/ RetriesExhausted
    BY <2>3 DEF DispatchEnded, RecordOutput, RecordUnheard, RetryUnheard,
                RetriesExhausted
  <2>4. CASE NextIteration
    BY <2>4 DEF NextIteration, Recorded
  <2>5. CASE RetrySampling
    BY <2>5 DEF RetrySampling, Recorded
  <2> QED
    BY <1>3, <2>1, <2>2, <2>3, <2>4, <2>5 DEF ToolStep
<1>4. CASE CallerStep
  <2>1. CASE BeginTurn /\ pc' \in {"idle", "loop"}
    BY <2>1 DEF BeginTurn, ListsTyped
  <2>2. CASE Cancel \/ CloseSink
    BY <2>2 DEF Cancel, CloseSink
  <2> QED
    BY <1>4, <2>1, <2>2
       DEF CallerStep, StartTurn, StartCancelledTurn, StartUnheardTurn
<1>5. CASE UNCHANGED vars
  BY <1>5
<1> QED
  BY <1>1, <1>2, <1>3, <1>4, <1>5 DEF Next

\* The types and limits of the turn's state hold throughout a session: no
\* sequence of retries, cancellations and sink failures takes a counter past
\* its configured limit (session.rs:186-423).
THEOREM TypeCorrect == Spec => []TypeOK
<1>1. Init => FlagsTyped
  BY DEF Init, FlagsTyped, Results
<1>2. Init => ListsTyped
  BY DEF Init, ListsTyped
<1>3. Init => CountersTyped /\ InIteration
  BY RetriesAssumption, IterationsAssumption DEF Init, CountersTyped, InIteration
<1>4. TypeOK /\ InIteration /\ [Next]_vars => TypeOK' /\ InIteration'
  BY FlagsStep, ListsStep, CountersStep DEF TypeOK
<1> QED
  BY <1>1, <1>2, <1>3, <1>4, PTL DEF Spec, TypeOK

-----------------------------------------------------------------------------

(***************************************************************************)
(* Before the request is sent nothing is left of earlier tool calls, and a *)
(* result is known only between turns; what is being recorded has ended.   *)
(***************************************************************************)
TurnShape ==
  /\ pc \in {"idle", "loop", "request"} => calls = << >>
  /\ pc # "idle" => result = "none"
  /\ pc = "recording" => \A k \in DOMAIN calls : calls[k].run \in {"loud", "quiet"}

LEMMA TailEnded ==
  ASSUME calls \in Seq(ToolCall), calls # << >>,
         \A k \in DOMAIN calls : calls[k].run \in {"loud", "quiet"}
  PROVE  \A k \in DOMAIN Tail(calls) : Tail(calls)[k].run \in {"loud", "quiet"}
<1>1. /\ Tail(calls) \in Seq(ToolCall) /\ Len(Tail(calls)) = Len(calls) - 1
      /\ \A k \in 1 .. Len(Tail(calls)) : Tail(calls)[k] = calls[k+1]
  BY HeadTailProperties
<1>2. ASSUME NEW k \in DOMAIN Tail(calls)
      PROVE  k + 1 \in DOMAIN calls /\ Tail(calls)[k] = calls[k+1]
  BY <1>1, <1>2
<1> QED
  BY <1>2

LEMMA TurnShapeStep == ListsTyped /\ TurnShape /\ [Next]_vars => TurnShape'
<1> SUFFICES ASSUME ListsTyped, TurnShape, [Next]_vars PROVE TurnShape'
  OBVIOUS
<1> USE DEF TurnShape, EndTurn
<1>1. CASE LoopStep
  <2>1. CASE EnterIteration
    BY <2>1 DEF EnterIteration
  <2>2. CASE CancelledAtLoop
    BY <2>2 DEF CancelledAtLoop, EndCancelled
  <2>3. CASE LoopExceeded
    BY <2>3 DEF LoopExceeded
  <2>4. CASE SendRequest
    BY <2>4 DEF SendRequest
  <2>5. CASE OpenStream
    BY <2>5 DEF OpenStream
  <2>6. CASE RequestRefused
    BY <2>6 DEF RequestRefused
  <2> QED
    BY <1>1, <2>1, <2>2, <2>3, <2>4, <2>5, <2>6 DEF LoopStep
<1>2. CASE StreamStep
  <2> USE DEF StreamEvent
  <2>1. CASE CancelledInStream
    BY <2>1 DEF CancelledInStream, EndCancelled
  <2>2. CASE StreamFails
    BY <2>2 DEF StreamFails
  <2>3. CASE StreamUnheard
    BY <2>3 DEF StreamUnheard
  <2>4. CASE ReceiveMessage
    BY <2>4 DEF ReceiveMessage
  <2>5. ASSUME NEW c \in CallIds, ReceiveCall(c) PROVE TurnShape'
    BY <2>5 DEF ReceiveCall
  <2>6. ASSUME NEW followUp \in BOOLEAN, ReceiveCompleted(followUp)
        PROVE  TurnShape'
    BY <2>6 DEF ReceiveCompleted
  <2>7. CASE StreamCloses
    BY <2>7 DEF StreamCloses
  <2> QED
    BY <1>2, <2>1, <2>2, <2>3, <2>4, <2>5, <2>6, <2>7 DEF StreamStep
<1>3. CASE ToolStep
  <2>1. CASE StartBatch
    BY <2>1 DEF StartBatch
  <2>2. ASSUME NEW k \in DOMAIN calls, NEW how \in {"loud", "quiet"},
               FinishTool(k, how)
        PROVE  TurnShape'
    BY <2>2 DEF FinishTool
  <2>3. CASE DispatchEnded
    BY <2>3 DEF DispatchEnded
  <2>4. CASE RecordOutput
    BY <2>4, TailEnded DEF RecordOutput, ListsTyped
  <2>5. CASE RecordUnheard
    BY <2>5 DEF RecordUnheard
  <2>6. CASE NextIteration
    BY <2>6 DEF NextIteration, Recorded
  <2>7. CASE RetrySampling
    BY <2>7 DEF RetrySampling, Recorded
  <2>8. CASE RetryUnheard
    BY <2>8 DEF RetryUnheard
  <2>9. CASE RetriesExhausted
    BY <2>9 DEF RetriesExhausted
  <2> QED
    BY <1>3, <2>1, <2>2, <2>3, <2>4, <2>5, <2>6, <2>7, <2>8, <2>9 DEF ToolStep
<1>4. CASE CallerStep
  <2>1. CASE StartTurn
    BY <2>1 DEF StartTurn, BeginTurn
  <2>2. CASE StartCancelledTurn \/ StartUnheardTurn
    BY <2>2 DEF StartCancelledTurn, StartUnheardTurn, BeginTurn
  <2>3. CASE Cancel
    BY <2>3 DEF Cancel
  <2>4. CASE CloseSink
    BY <2>4 DEF CloseSink
  <2> QED
    BY <1>4, <2>1, <2>2, <2>3, <2>4 DEF CallerStep
<1>5. CASE UNCHANGED vars
  BY <1>5
<1> QED
  BY <1>1, <1>2, <1>3, <1>4, <1>5 DEF Next

LEMMA TurnShapeHolds == Spec => [](TypeOK /\ TurnShape)
<1>1. Init => TurnShape
  BY DEF Init, TurnShape
<1>2. TypeOK /\ TurnShape /\ [Next]_vars => TurnShape'
  BY TurnShapeStep DEF TypeOK
<1> QED
  BY <1>1, <1>2, TypeCorrect, PTL DEF Spec

(***************************************************************************)
(* A turn whose token was set never returns success.                       *)
(***************************************************************************)
LEMMA CancelledStep ==
  TurnShape /\ CancelledNeverCompletes /\ [Next]_vars => CancelledNeverCompletes'
<1> SUFFICES ASSUME TurnShape, CancelledNeverCompletes, [Next]_vars,
                    result' = "ok"
             PROVE  ~cancelled'
  BY DEF CancelledNeverCompletes
<1> USE DEF CancelledNeverCompletes, EndTurn
<1>1. CASE LoopStep
  BY <1>1 DEF LoopStep, EnterIteration, CancelledAtLoop, EndCancelled, LoopExceeded,
              SendRequest, OpenStream, RequestRefused
<1>2. CASE StreamStep
  <2>1. CASE CancelledInStream
    BY <2>1 DEF CancelledInStream, EndCancelled
  <2>2. CASE StreamFails \/ StreamUnheard
    BY <2>2 DEF StreamFails, StreamUnheard
  <2>3. CASE ReceiveMessage \/ \E c \in CallIds : ReceiveCall(c)
    BY <2>3 DEF ReceiveMessage, ReceiveCall
  <2>4. CASE \E followUp \in BOOLEAN : ReceiveCompleted(followUp)
    BY <2>4 DEF ReceiveCompleted, StreamEvent, caller
  <2>5. CASE StreamCloses
    BY <2>5 DEF StreamCloses
  <2> QED
    BY <1>2, <2>1, <2>2, <2>3, <2>4, <2>5 DEF StreamStep
<1>3. CASE ToolStep
  BY <1>3 DEF ToolStep, StartBatch, FinishTool, DispatchEnded, RecordOutput,
              RecordUnheard, NextIteration, RetrySampling, RetryUnheard,
              RetriesExhausted
<1>4. CASE CallerStep
  <2>1. CASE StartTurn \/ StartCancelledTurn \/ StartUnheardTurn
    BY <2>1 DEF StartTurn, StartCancelledTurn, StartUnheardTurn
  <2>2. CASE Cancel
    BY <2>2 DEF Cancel, AwaitPoint, Running, TurnShape
  <2>3. CASE CloseSink
    BY <2>3 DEF CloseSink
  <2> QED
    BY <1>4, <2>1, <2>2, <2>3 DEF CallerStep
<1>5. CASE UNCHANGED vars
  BY <1>5
<1> QED
  BY <1>1, <1>2, <1>3, <1>4, <1>5 DEF Next

\* Cancellation is never lost: whenever the token was set before the turn
\* ended, the turn does not return success (session.rs:227, 442).
THEOREM CancellationWins == Spec => []CancelledNeverCompletes
<1>1. Init => CancelledNeverCompletes
  BY DEF Init, CancelledNeverCompletes
<1> QED
  BY <1>1, CancelledStep, TurnShapeHolds, PTL DEF Spec

-----------------------------------------------------------------------------
(***************************************************************************)
(* A turn cannot run away: the bounds on the requests it sends, in all and *)
(* after its cancellation, for every limit of iterations and retries.      *)
(***************************************************************************)

(***************************************************************************)
(* The requests that i iterations may have sent.                           *)
(***************************************************************************)
Budget(i) == i * (MaxSamplingRetries + 1)

LEMMA BudgetGrows ==
  ASSUME NEW i \in Nat
  PROVE  /\ Budget(i) \in Nat
         /\ Budget(i + 1) = Budget(i) + MaxSamplingRetries + 1
BY RetriesAssumption DEF Budget

LEMMA BudgetMonotone ==
  ASSUME NEW i \in Nat, NEW j \in Nat, i <= j
  PROVE  Budget(i) <= Budget(j)
BY RetriesAssumption DEF Budget

\* The request of this iteration and attempt has been sent.
Sent == pc \in {"opening", "streaming", "dispatching", "recording"}

RequestCount ==
  /\ requests <= Budget(MaxToolIterations)
  /\ pc = "loop" => requests <= Budget(iteration)
  /\ pc = "request" => /\ iteration < MaxToolIterations
                       /\ requests <= Budget(iteration) + attempt
  /\ Sent => /\ iteration < MaxToolIterations
             /\ requests <= Budget(iteration) + attempt + 1

LEMMA RequestCountStep ==
  CountersTyped /\ RequestCount /\ [Next]_vars => RequestCount'
<1> SUFFICES ASSUME CountersTyped, RequestCount, [Next]_vars
             PROVE  RequestCount'
  OBVIOUS
<1> USE RetriesAssumption, IterationsAssumption
    DEF CountersTyped, RequestCount, Sent, EndTurn
<1>1. CASE LoopStep
  <2>1. CASE EnterIteration
    BY <2>1, BudgetGrows DEF EnterIteration
  <2>2. CASE CancelledAtLoop \/ LoopExceeded \/ RequestRefused
    BY <2>2 DEF CancelledAtLoop, EndCancelled, LoopExceeded, RequestRefused
  <2>3. CASE SendRequest
    <3>1. /\ Budget(iteration) \in Nat /\ Budget(MaxToolIterations) \in Nat
          /\ Budget(iteration + 1) = Budget(iteration) + MaxSamplingRetries + 1
      BY BudgetGrows
    <3>2. iteration + 1 <= MaxToolIterations
      BY <2>3 DEF SendRequest
    <3>3. Budget(iteration + 1) <= Budget(MaxToolIterations)
      BY <3>2, BudgetMonotone
    <3> QED
      BY <2>3, <3>1, <3>3 DEF SendRequest
  <2>4. CASE OpenStream
    BY <2>4 DEF OpenStream
  <2> QED
    BY <1>1, <2>1, <2>2, <2>3, <2>4 DEF LoopStep
<1>2. CASE StreamStep
  <2> USE DEF StreamEvent
  <2>1. CASE CancelledInStream
    BY <2>1 DEF CancelledInStream, EndCancelled
  <2>2. CASE StreamFails \/ StreamUnheard
    BY <2>2 DEF StreamFails, StreamUnheard
  <2>3. CASE ReceiveMessage
    BY <2>3 DEF ReceiveMessage
  <2>4. ASSUME NEW c \in CallIds, ReceiveCall(c) PROVE RequestCount'
    BY <2>4 DEF ReceiveCall
  <2>5. ASSUME NEW followUp \in BOOLEAN, ReceiveCompleted(followUp)
        PROVE  RequestCount'
    BY <2>5 DEF ReceiveCompleted
  <2>6. CASE StreamCloses
    BY <2>6 DEF StreamCloses
  <2> QED
    BY <1>2, <2>1, <2>2, <2>3, <2>4, <2>5, <2>6 DEF StreamStep
<1>3. CASE ToolStep
  <2>1. CASE StartBatch
    BY <2>1 DEF StartBatch
  <2>2. ASSUME NEW k \in DOMAIN calls, NEW how \in {"loud", "quiet"},
               FinishTool(k, how)
        PROVE  RequestCount'
    BY <2>2 DEF FinishTool
  <2>3. CASE DispatchEnded
    BY <2>3 DEF DispatchEnded
  <2>4. CASE RecordOutput
    BY <2>4 DEF RecordOutput
  <2>5. CASE NextIteration
    <3>1. Budget(iteration + 1) = Budget(iteration) + MaxSamplingRetries + 1
      BY BudgetGrows
    <3>2. Budget(iteration') = Budget(iteration + 1)
      BY <2>5 DEF NextIteration
    <3>3. Budget(iteration) \in Nat /\ Budget(MaxToolIterations) \in Nat
      BY BudgetGrows
    <3> QED
      BY <2>5, <3>1, <3>2, <3>3 DEF NextIteration, Recorded
  <2>6. CASE RetrySampling
    <3>1. Budget(iteration) \in Nat
      BY BudgetGrows
    <3> QED
      BY <2>6, <3>1 DEF RetrySampling, Recorded
  <2>7. CASE RecordUnheard \/ RetryUnheard \/ RetriesExhausted
    BY <2>7 DEF RecordUnheard, RetryUnheard, RetriesExhausted
  <2> QED
    BY <1>3, <2>1, <2>2, <2>3, <2>4, <2>5, <2>6, <2>7 DEF ToolStep
<1>4. CASE CallerStep
  <2>1. CASE StartTurn \/ StartCancelledTurn \/ StartUnheardTurn
    <3>1. requests' = 0 /\ iteration' = 0 /\ pc' \in {"idle", "loop"}
      BY <2>1 DEF StartTurn, StartCancelledTurn, StartUnheardTurn, BeginTurn
    <3>2. Budget(iteration') \in Nat /\ Budget(MaxToolIterations) \in Nat
      BY <3>1, BudgetGrows
    <3> QED
      BY <3>1, <3>2
  <2>2. CASE Cancel \/ CloseSink
    BY <2>2 DEF Cancel, CloseSink
  <2> QED
    BY <1>4, <2>1, <2>2 DEF CallerStep
<1>5. CASE UNCHANGED vars
  BY <1>5
<1> QED
  BY <1>1, <1>2, <1>3, <1>4, <1>5 DEF Next

\* Whatever mix of follow-ups and retries the provider asks for, a turn sends
\* at most max_tool_iterations * (max_sampling_retries + 1) requests
\* (session.rs:226, 382).
THEOREM RequestsStayBounded == Spec => []RequestsBounded
<1>1. Init => RequestCount
  BY BudgetGrows, IterationsAssumption, RetriesAssumption DEF Init, RequestCount, Sent
<1>2. TypeOK /\ RequestCount /\ [Next]_vars => RequestCount'
  BY RequestCountStep DEF TypeOK
<1>3. RequestCount => RequestsBounded
  BY DEF RequestCount, RequestsBounded, Budget
<1> QED
  BY <1>1, <1>2, <1>3, TypeCorrect, PTL DEF Spec

(***************************************************************************)
(* A request can be late only if the token was set, and after that every   *)
(* one but the first of its iteration is: the loop head stops the rest.    *)
(***************************************************************************)
LateCount ==
  /\ lateRequests <= MaxSamplingRetries
  /\ ~cancelled => lateRequests = 0
  /\ pc = "request" => IF cancelled THEN lateRequests < attempt ELSE lateRequests = 0
  /\ Sent => lateRequests <= attempt

LEMMA LateCountStep ==
  CountersTyped /\ TurnShape /\ LateCount /\ [Next]_vars => LateCount'
<1> SUFFICES ASSUME CountersTyped, TurnShape, LateCount, [Next]_vars
             PROVE  LateCount'
  OBVIOUS
<1> USE RetriesAssumption DEF CountersTyped, LateCount, Sent, EndTurn
<1>1. CASE LoopStep
  <2>1. CASE EnterIteration
    BY <2>1 DEF EnterIteration
  <2>2. CASE CancelledAtLoop \/ LoopExceeded \/ RequestRefused
    BY <2>2 DEF CancelledAtLoop, EndCancelled, LoopExceeded, RequestRefused
  <2>3. CASE SendRequest
    BY <2>3 DEF SendRequest
  <2>4. CASE OpenStream
    BY <2>4 DEF OpenStream
  <2> QED
    BY <1>1, <2>1, <2>2, <2>3, <2>4 DEF LoopStep
<1>2. CASE StreamStep
  <2> USE DEF StreamEvent
  <2>1. CASE CancelledInStream
    BY <2>1 DEF CancelledInStream, EndCancelled
  <2>2. CASE StreamFails \/ StreamUnheard
    BY <2>2 DEF StreamFails, StreamUnheard
  <2>3. CASE ReceiveMessage
    BY <2>3 DEF ReceiveMessage
  <2>4. ASSUME NEW c \in CallIds, ReceiveCall(c) PROVE LateCount'
    BY <2>4 DEF ReceiveCall
  <2>5. ASSUME NEW followUp \in BOOLEAN, ReceiveCompleted(followUp)
        PROVE  LateCount'
    BY <2>5 DEF ReceiveCompleted
  <2>6. CASE StreamCloses
    BY <2>6 DEF StreamCloses
  <2> QED
    BY <1>2, <2>1, <2>2, <2>3, <2>4, <2>5, <2>6 DEF StreamStep
<1>3. CASE ToolStep
  <2>1. CASE StartBatch
    BY <2>1 DEF StartBatch
  <2>2. ASSUME NEW k \in DOMAIN calls, NEW how \in {"loud", "quiet"},
               FinishTool(k, how)
        PROVE  LateCount'
    BY <2>2 DEF FinishTool
  <2>3. CASE DispatchEnded
    BY <2>3 DEF DispatchEnded
  <2>4. CASE RecordOutput
    BY <2>4 DEF RecordOutput
  <2>5. CASE NextIteration
    BY <2>5 DEF NextIteration, Recorded
  <2>6. CASE RetrySampling
    BY <2>6 DEF RetrySampling, Recorded
  <2>7. CASE RecordUnheard \/ RetryUnheard \/ RetriesExhausted
    BY <2>7 DEF RecordUnheard, RetryUnheard, RetriesExhausted
  <2> QED
    BY <1>3, <2>1, <2>2, <2>3, <2>4, <2>5, <2>6, <2>7 DEF ToolStep
<1>4. CASE CallerStep
  <2>1. CASE StartTurn \/ StartCancelledTurn \/ StartUnheardTurn
    BY <2>1 DEF StartTurn, StartCancelledTurn, StartUnheardTurn, BeginTurn
  <2>2. CASE Cancel
    BY <2>2 DEF Cancel, AwaitPoint, Running, TurnShape
  <2>3. CASE CloseSink
    BY <2>3 DEF CloseSink
  <2> QED
    BY <1>4, <2>1, <2>2, <2>3 DEF CallerStep
<1>5. CASE UNCHANGED vars
  BY <1>5
<1> QED
  BY <1>1, <1>2, <1>3, <1>4, <1>5 DEF Next

\* Once the token is set no further iteration reaches the provider, only the
\* retries of the one under way (session.rs:227, 382-394).
THEOREM LateRequestsStayBounded == Spec => []LateRequestsBounded
<1>1. Init => LateCount
  BY RetriesAssumption DEF Init, LateCount, Sent
<1>2. TypeOK /\ TurnShape /\ LateCount /\ [Next]_vars => LateCount'
  BY LateCountStep DEF TypeOK
<1>3. LateCount => LateRequestsBounded
  BY DEF LateCount, LateRequestsBounded
<1> QED
  BY <1>1, <1>2, <1>3, TurnShapeHolds, PTL DEF Spec

\* A turn cannot run away: the requests it sends are bounded, before and after
\* it is cancelled (session.rs:226-227, 382-394).
THEOREM TurnsStayBounded == Spec => []TurnBounded
<1>1. RequestsBounded /\ LateRequestsBounded => TurnBounded
  BY DEF TurnBounded
<1> QED
  BY <1>1, RequestsStayBounded, LateRequestsStayBounded, PTL

-----------------------------------------------------------------------------

(***************************************************************************)
(* The tools of a turn: an exclusive one runs alone, and none runs twice,  *)
(* for every set of calls and every number of retries.                     *)
(***************************************************************************)

\* What a step does to the calls of the response and to the count of their
\* executions.
LEMMA StepKinds ==
  [Next]_vars =>
    \/ calls' = << >> /\ UNCHANGED dispatches
    \/ UNCHANGED <<calls, dispatches>> /\ (pc' = pc \/ pc # "dispatching" \/ DispatchEnded)
    \/ \E c \in CallIds : ReceiveCall(c)
    \/ StartBatch
    \/ \E k \in DOMAIN calls, how \in {"loud", "quiet"} : FinishTool(k, how)
    \/ RecordOutput
<1> SUFFICES ASSUME [Next]_vars
             PROVE  \/ calls' = << >> /\ UNCHANGED dispatches
                    \/ /\ UNCHANGED <<calls, dispatches>>
                       /\ pc' = pc \/ pc # "dispatching" \/ DispatchEnded
                    \/ \E c \in CallIds : ReceiveCall(c)
                    \/ StartBatch
                    \/ \E k \in DOMAIN calls, how \in {"loud", "quiet"} : FinishTool(k, how)
                    \/ RecordOutput
  OBVIOUS
<1> USE DEF EndTurn
<1>1. CASE LoopStep
  BY <1>1 DEF LoopStep, EnterIteration, CancelledAtLoop, EndCancelled, LoopExceeded,
              SendRequest, OpenStream, RequestRefused
<1>2. CASE StreamStep
  <2>1. CASE CancelledInStream
    BY <2>1 DEF CancelledInStream, EndCancelled
  <2>2. CASE StreamFails \/ StreamUnheard
    BY <2>2 DEF StreamFails, StreamUnheard
  <2>3. CASE ReceiveMessage \/ StreamCloses
    BY <2>3 DEF ReceiveMessage, StreamEvent, StreamCloses
  <2>4. CASE \E followUp \in BOOLEAN : ReceiveCompleted(followUp)
    BY <2>4 DEF ReceiveCompleted, StreamEvent
  <2> QED
    BY <1>2, <2>1, <2>2, <2>3, <2>4 DEF StreamStep
<1>3. CASE ToolStep
  <2>1. CASE DispatchEnded
    BY <2>1 DEF DispatchEnded
  <2>2. CASE RecordUnheard \/ RetryUnheard \/ RetriesExhausted
    BY <2>2 DEF RecordUnheard, RetryUnheard, RetriesExhausted
  <2>3. CASE NextIteration \/ RetrySampling
    BY <2>3 DEF NextIteration, RetrySampling, Recorded
  <2> QED
    BY <1>3, <2>1, <2>2, <2>3 DEF ToolStep
<1>4. CASE CallerStep
  BY <1>4 DEF CallerStep, StartTurn, StartCancelledTurn, StartUnheardTurn, BeginTurn,
              Cancel, CloseSink
<1>5. CASE UNCHANGED vars
  BY <1>5
<1> QED
  BY <1>1, <1>2, <1>3, <1>4, <1>5 DEF Next

(***************************************************************************)
(* A batch is one exclusive call, or parallel calls only; and it starts    *)
(* when nothing runs.                                                      *)
(***************************************************************************)
ToolInv ==
  /\ pc # "dispatching" => Running = {}
  /\ ExclusiveRunsAlone

LEMMA BatchShape ==
  ASSUME calls \in Seq(ToolCall), StartBatch
  PROVE  \E first \in DOMAIN calls :
           /\ StartsAt(first)
           /\ Running' = Batch(first)
           /\ Len(calls') = Len(calls) /\ DOMAIN calls' = DOMAIN calls
           /\ \A k \in DOMAIN calls : /\ calls'[k].id = calls[k].id
                                      /\ k \notin Batch(first) => calls'[k] = calls[k]
                                      /\ k \in Batch(first) => calls'[k].run = "running"
           /\ dispatches' = [c \in CallIds |->
                 dispatches[c] + Cardinality({k \in Batch(first) : calls[k].id = c})]
<1>1. PICK first \in DOMAIN calls :
        /\ StartsAt(first)
        /\ calls' = [k \in DOMAIN calls |->
                       IF k \in Batch(first)
                       THEN [calls[k] EXCEPT !.run = "running"] ELSE calls[k]]
        /\ dispatches' = [c \in CallIds |->
              dispatches[c] + Cardinality({k \in Batch(first) : calls[k].id = c})]
  BY DEF StartBatch
<1>2. /\ Running = {} /\ calls' \in Seq(ToolCall) /\ Len(calls') = Len(calls)
      /\ DOMAIN calls = 1 .. Len(calls) /\ DOMAIN calls' = 1 .. Len(calls)
  <2>1. calls' \in Seq(ToolCall) /\ Len(calls') = Len(calls)
    BY BatchTyped
  <2> QED
    BY <2>1 DEF StartBatch
<1>3. \A k \in DOMAIN calls : calls[k] \in ToolCall
  OBVIOUS
<1>4. \A k \in DOMAIN calls : /\ calls'[k].id = calls[k].id
                              /\ k \notin Batch(first) => calls'[k] = calls[k]
                              /\ k \in Batch(first) => calls'[k].run = "running"
  BY <1>1, <1>3 DEF ToolCall
<1>5. Batch(first) \subseteq DOMAIN calls
  BY <1>2 DEF Batch
<1>6. Running' = Batch(first)
  <2>1. \A k \in DOMAIN calls : calls[k].run # "running"
    BY <1>2 DEF Running
  <2>2. \A k \in DOMAIN calls' : calls'[k].run = "running" <=> k \in Batch(first)
    BY <1>2, <1>4, <2>1
  <2> QED
    BY <1>2, <1>5, <2>2 DEF Running
<1> QED
  BY <1>1, <1>2, <1>4, <1>6

LEMMA AppendedCall ==
  ASSUME calls \in Seq(ToolCall), NEW c \in CallIds, NEW longer,
         longer = Append(calls, Queued(c))
  PROVE  /\ longer \in Seq(ToolCall) /\ Len(longer) = Len(calls) + 1
         /\ \A k \in DOMAIN longer : \/ k \in DOMAIN calls /\ longer[k] = calls[k]
                                     \/ k = Len(calls) + 1 /\ longer[k] = Queued(c)
<1>1. Queued(c) \in ToolCall
  BY DEF Queued, ToolCall
<1>2. /\ longer \in Seq(ToolCall) /\ Len(longer) = Len(calls) + 1
      /\ \A k \in 1 .. Len(calls) : longer[k] = calls[k]
      /\ longer[Len(calls) + 1] = Queued(c)
  BY <1>1, AppendProperties
<1>3. Len(calls) \in Nat /\ DOMAIN calls = 1 .. Len(calls) /\ DOMAIN longer = 1 .. Len(calls) + 1
  BY <1>2, LenProperties
<1> QED
  BY <1>2, <1>3

LEMMA ToolStepKeeps == ListsTyped /\ TurnShape /\ ToolInv /\ [Next]_vars => ToolInv'
<1> SUFFICES ASSUME ListsTyped, TurnShape, ToolInv, [Next]_vars PROVE ToolInv'
  OBVIOUS
<1>1. calls \in Seq(ToolCall) /\ DOMAIN calls = 1 .. Len(calls) /\ Len(calls) \in Nat
  BY DEF ListsTyped
<1>2. ASSUME Running' = {} PROVE ToolInv'
  BY <1>2 DEF ToolInv, ExclusiveRunsAlone
<1>3. CASE calls' = << >>
  <2>1. DOMAIN calls' = {}
    BY <1>3
  <2> QED
    BY <1>2, <2>1 DEF Running
<1>4. CASE UNCHANGED calls /\ (pc' = pc \/ pc # "dispatching")
  BY <1>4 DEF ToolInv, ExclusiveRunsAlone, Running
<1>5. CASE DispatchEnded
  BY <1>2, <1>5 DEF DispatchEnded, Running
<1>6. ASSUME NEW c \in CallIds, ReceiveCall(c) PROVE ToolInv'
  <2>1. pc = "streaming" /\ calls' = Append(calls, Queued(c))
    BY <1>6 DEF ReceiveCall, StreamEvent
  <2>2. \A k \in DOMAIN calls : calls[k].run # "running"
    BY SMTT(30), <2>1 DEF ToolInv, Running
  <2>3. \A k \in DOMAIN calls' : \/ k \in DOMAIN calls /\ calls'[k] = calls[k]
                                 \/ calls'[k] = Queued(c)
    BY <1>1, <2>1, AppendedCall
  <2> QED
    BY <1>2, <2>2, <2>3 DEF Running, Queued
<1>7. CASE StartBatch
  <2>1. PICK first \in DOMAIN calls :
          /\ Running' = Batch(first)
          /\ \A k \in DOMAIN calls : calls'[k].id = calls[k].id
    BY <1>1, <1>7, BatchShape
  <2>2. pc' = "dispatching"
    BY <1>7 DEF StartBatch
  <2>3. \A k \in Batch(first) : k \in DOMAIN calls
                                /\ (calls[k].id \in Parallel \/ Batch(first) = {k})
    BY <1>1 DEF Batch
  <2> QED
    BY <2>1, <2>2, <2>3 DEF ToolInv, ExclusiveRunsAlone
<1>8. ASSUME NEW k \in DOMAIN calls, NEW how \in {"loud", "quiet"}, FinishTool(k, how)
      PROVE  ToolInv'
  <2>1. pc' = "dispatching" /\ calls' = [calls EXCEPT ![k].run = how]
    BY <1>8 DEF FinishTool
  <2>2. DOMAIN calls' = DOMAIN calls /\ \A j \in DOMAIN calls : j # k => calls'[j] = calls[j]
    BY <1>1, <2>1
  <2>3. calls'[k].run = how /\ calls'[k].id = calls[k].id
    BY <1>1, <2>1 DEF ToolCall
  <2>4. Running' = Running \ {k}
    BY <2>2, <2>3 DEF Running
  <2> QED
    BY <2>1, <2>2, <2>4 DEF ToolInv, ExclusiveRunsAlone, Running
<1>9. CASE RecordOutput
  <2>1. \A k \in DOMAIN Tail(calls) : Tail(calls)[k].run \in {"loud", "quiet"}
    BY <1>1, <1>9, TailEnded DEF RecordOutput, TurnShape
  <2> QED
    BY SMTT(30), <1>2, <1>9, <2>1 DEF RecordOutput, Running
<1> QED
  BY <1>3, <1>4, <1>5, <1>6, <1>7, <1>8, <1>9, StepKinds

\* A tool that may change the workspace never overlaps another tool, whatever
\* calls a response mixes (session.rs:308-345).
THEOREM ExclusiveToolsRunAlone == Spec => []ExclusiveRunsAlone
<1>1. Init => ToolInv
  BY DEF Init, ToolInv, ExclusiveRunsAlone, Running
<1>2. TypeOK /\ TurnShape /\ ToolInv /\ [Next]_vars => ToolInv'
  BY ToolStepKeeps DEF TypeOK
<1>3. ToolInv => ExclusiveRunsAlone
  BY DEF ToolInv
<1> QED
  BY <1>1, <1>2, <1>3, TurnShapeHolds, PTL DEF Spec

-----------------------------------------------------------------------------
(***************************************************************************)
(* No call runs twice. Calls are new when they are received, leave the     *)
(* queue in their order, and their ids stay in the history.                *)
(***************************************************************************)
Kept == CallsOf(DOMAIN history)

CallsInv ==
  /\ \A j, k \in DOMAIN calls :
       j < k /\ calls[j].run = "queued" => calls[k].run = "queued"
  /\ \A j, k \in DOMAIN calls : j # k => calls[j].id # calls[k].id
  /\ \A k \in DOMAIN calls : calls[k].id \in Kept
  /\ \A k \in DOMAIN calls : calls[k].run = "queued" => dispatches[calls[k].id] = 0
  /\ ExecutedAtMostOnce

LEMMA KeptAppend ==
  ASSUME history \in Seq(HistoryItem), NEW item \in HistoryItem,
         history' = Append(history, item)
  PROVE  /\ Kept \subseteq Kept'
         /\ item.kind = "call" => item.id \in Kept'
<1> DEFINE longer == Append(history, item)
<1>1. /\ longer \in Seq(HistoryItem) /\ Len(longer) = Len(history) + 1
      /\ \A k \in 1 .. Len(history) : longer[k] = history[k]
      /\ longer[Len(history) + 1] = item
  BY AppendProperties
<1>2. /\ Len(history) \in Nat /\ DOMAIN history = 1 .. Len(history)
      /\ DOMAIN longer = 1 .. Len(history) + 1
  BY <1>1, LenProperties
<1> HIDE DEF longer
<1>3. history' = longer
  BY DEF longer
<1>4. Kept' = {longer[k].id : k \in {j \in DOMAIN longer : longer[j].kind = "call"}}
  BY <1>3 DEF Kept, CallsOf
<1>5. Kept \subseteq Kept'
  BY <1>1, <1>2, <1>4 DEF Kept, CallsOf
<1>6. item.kind = "call" => item.id \in Kept'
  BY <1>1, <1>2, <1>4
<1> QED
  BY <1>5, <1>6

LEMMA KeptGrows == ListsTyped /\ [Next]_vars => Kept \subseteq Kept'
<1> SUFFICES ASSUME ListsTyped, [Next]_vars PROVE Kept \subseteq Kept'
  OBVIOUS
<1>1. history' = history \/ \E item \in HistoryItem : history' = Append(history, item)
  <2> USE DEF EndTurn, EndCancelled
  <2>1. CASE LoopStep
    BY <2>1 DEF LoopStep, EnterIteration, CancelledAtLoop, LoopExceeded, SendRequest,
                OpenStream, RequestRefused
  <2>2. CASE StreamStep
    <3>1. CASE CancelledInStream \/ StreamFails \/ StreamUnheard \/ StreamCloses
      BY <3>1 DEF CancelledInStream, StreamFails, StreamUnheard, StreamCloses
    <3>2. CASE ReceiveMessage
      BY <3>2, MessagesTyped DEF ReceiveMessage
    <3>3. ASSUME NEW c \in CallIds, ReceiveCall(c)
          PROVE  \E item \in HistoryItem : history' = Append(history, item)
      BY <3>3, ItemsTyped DEF ReceiveCall
    <3>4. CASE \E followUp \in BOOLEAN : ReceiveCompleted(followUp)
      BY <3>4 DEF ReceiveCompleted
    <3> QED
      BY <2>2, <3>1, <3>2, <3>3, <3>4 DEF StreamStep
  <2>3. CASE ToolStep
    <3>1. CASE RecordOutput
      <4>1. calls \in Seq(ToolCall) /\ calls # << >>
        BY <3>1 DEF RecordOutput, ListsTyped
      <4>2. Head(calls) \in ToolCall
        BY <4>1, HeadTailProperties
      <4>3. Head(calls).id \in CallIds
        BY <4>2 DEF ToolCall
      <4> QED
        BY <3>1, <4>3, ItemsTyped DEF RecordOutput
    <3>2. CASE ~RecordOutput
      BY <2>3, <3>2 DEF ToolStep, StartBatch, FinishTool, DispatchEnded, RecordUnheard,
                        NextIteration, RetrySampling, RetryUnheard, RetriesExhausted
    <3> QED
      BY <3>1, <3>2
  <2>4. CASE CallerStep
    BY <2>4, MessagesTyped DEF CallerStep, StartTurn, StartCancelledTurn,
                               StartUnheardTurn, BeginTurn, Cancel, CloseSink
  <2>5. CASE UNCHANGED vars
    BY <2>5
  <2> QED
    BY <2>1, <2>2, <2>3, <2>4, <2>5 DEF Next
<1>2. CASE history' = history
  BY <1>2 DEF Kept, CallsOf
<1>3. ASSUME NEW item \in HistoryItem, history' = Append(history, item)
      PROVE  Kept \subseteq Kept'
  BY <1>3, KeptAppend DEF ListsTyped
<1> QED
  BY <1>1, <1>2, <1>3

LEMMA ReceiveKeepsCalls ==
  ASSUME TypeOK, CallsInv, NEW c \in CallIds, ReceiveCall(c)
  PROVE  CallsInv'
<1> USE DEF CallsInv
<1>1. /\ calls' = Append(calls, Queued(c)) /\ dispatches' = dispatches
      /\ history' = Append(history, Call(FamilyOf(c), c))
      /\ \A k \in DOMAIN history : history[k].id # c
  BY DEF ReceiveCall
<1>2. calls \in Seq(ToolCall) /\ dispatches \in [CallIds -> Nat]
  BY DEF TypeOK, ListsTyped, CountersTyped
<1>3. /\ Len(calls) \in Nat /\ DOMAIN calls = 1 .. Len(calls)
      /\ DOMAIN calls' = 1 .. Len(calls) + 1
      /\ \A k \in DOMAIN calls' : \/ k \in DOMAIN calls /\ calls'[k] = calls[k]
                                  \/ k = Len(calls) + 1 /\ calls'[k] = Queued(c)
  <2>1. /\ calls' \in Seq(ToolCall) /\ Len(calls') = Len(calls) + 1
        /\ \A k \in DOMAIN calls' : \/ k \in DOMAIN calls /\ calls'[k] = calls[k]
                                    \/ k = Len(calls) + 1 /\ calls'[k] = Queued(c)
    BY <1>1, <1>2, AppendedCall
  <2> QED
    BY <1>2, <2>1, LenProperties
<1>4. Queued(c).id = c /\ Queued(c).run = "queued"
  BY DEF Queued
<1>5. Kept \subseteq Kept' /\ c \in Kept'
  <2>1. Call(FamilyOf(c), c) \in HistoryItem
    BY ItemsTyped
  <2>2. Call(FamilyOf(c), c).kind = "call" /\ Call(FamilyOf(c), c).id = c
    BY DEF Call, Item
  <2> QED
    BY <1>1, <2>1, <2>2, KeptAppend DEF TypeOK, ListsTyped
<1>6. c \notin Kept
  BY <1>1 DEF Kept, CallsOf
<1>7. dispatches[c] = 0
  BY <1>2, <1>6 DEF ExecutedAtMostOnce, Kept
<1>8. \A j, k \in DOMAIN calls' :
        j < k /\ calls'[j].run = "queued" => calls'[k].run = "queued"
  BY <1>3, <1>4
<1>9. \A j, k \in DOMAIN calls' : j # k => calls'[j].id # calls'[k].id
  BY <1>3, <1>4, <1>6
<1>10. \A k \in DOMAIN calls' :
         calls'[k].run = "queued" => dispatches'[calls'[k].id] = 0
  BY <1>1, <1>3, <1>4, <1>7
<1>11. ExecutedAtMostOnce' /\ \A k \in DOMAIN calls' : calls'[k].id \in Kept'
  BY <1>1, <1>3, <1>4, <1>5 DEF ExecutedAtMostOnce, Kept
<1> QED
  BY <1>8, <1>9, <1>10, <1>11

LEMMA BatchKeepsCalls ==
  ASSUME TypeOK, CallsInv, StartBatch
  PROVE  CallsInv'
<1> USE DEF CallsInv
<1>1. calls \in Seq(ToolCall) /\ dispatches \in [CallIds -> Nat]
      /\ Len(calls) \in Nat /\ DOMAIN calls = 1 .. Len(calls)
  BY DEF TypeOK, ListsTyped, CountersTyped
<1>2. PICK first \in DOMAIN calls :
        /\ StartsAt(first)
        /\ DOMAIN calls' = DOMAIN calls
        /\ \A k \in DOMAIN calls : /\ calls'[k].id = calls[k].id
                                   /\ k \notin Batch(first) => calls'[k] = calls[k]
                                   /\ k \in Batch(first) => calls'[k].run = "running"
        /\ dispatches' = [c \in CallIds |->
              dispatches[c] + Cardinality({k \in Batch(first) : calls[k].id = c})]
  BY <1>1, BatchShape
<1>3. \A k \in Batch(first) : k \in DOMAIN calls /\ calls[k].run = "queued"
  BY <1>1, <1>2 DEF Batch, StartsAt
<1>4. Kept' = Kept
  BY DEF StartBatch, Kept, CallsOf
<1>5. \A k \in DOMAIN calls : calls[k] \in ToolCall
  BY <1>1
<1>6. ASSUME NEW c \in CallIds, NEW k \in Batch(first), calls[k].id = c
      PROVE  dispatches'[c] = 1 /\ c \in Kept
  <2>1. {j \in Batch(first) : calls[j].id = c} = {k}
    BY <1>3, <1>6
  <2>2. Cardinality({k}) = 1
    BY FS_Singleton
  <2>3. dispatches[c] = 0
    BY <1>3, <1>6
  <2>4. dispatches'[c] = dispatches[c] + 1
    BY <1>2, <2>1, <2>2
  <2> QED
    BY <1>3, <1>6, <2>3, <2>4
<1>7. ASSUME NEW c \in CallIds, \A k \in Batch(first) : calls[k].id # c
      PROVE  dispatches'[c] = dispatches[c]
  <2>1. {j \in Batch(first) : calls[j].id = c} = {}
    BY <1>7
  <2>2. Cardinality({}) = 0
    BY FS_EmptySet
  <2>3. dispatches'[c] = dispatches[c] + 0
    BY <1>2, <2>1, <2>2
  <2> QED
    BY <1>1, <2>3
<1>8. ExecutedAtMostOnce'
  <2>1. \A c \in CallIds : dispatches'[c] <= 1 /\ (dispatches'[c] = 1 => c \in Kept)
    BY <1>6, <1>7 DEF ExecutedAtMostOnce, Kept
  <2> QED
    BY <1>4, <2>1 DEF ExecutedAtMostOnce, Kept
<1>9. \A k \in DOMAIN calls' : calls'[k].run = "queued" => dispatches'[calls'[k].id] = 0
  <2>1. ASSUME NEW k \in DOMAIN calls, calls'[k].run = "queued"
        PROVE  k \notin Batch(first) /\ calls'[k] = calls[k]
    BY <1>2, <2>1
  <2>2. ASSUME NEW k \in DOMAIN calls, k \notin Batch(first)
        PROVE  \A j \in Batch(first) : calls[j].id # calls[k].id
    BY <1>3, <2>2
  <2>3. \A k \in DOMAIN calls : calls[k].id \in CallIds
    BY <1>5 DEF ToolCall
  <2> QED
    BY <1>2, <1>7, <2>1, <2>2, <2>3
<1>10. \A j, k \in DOMAIN calls' :
         j < k /\ calls'[j].run = "queued" => calls'[k].run = "queued"
  <2>1. ASSUME NEW j \in DOMAIN calls, NEW k \in DOMAIN calls, j < k,
               calls'[j].run = "queued"
        PROVE  calls'[k].run = "queued"
    <3>1. j \notin Batch(first) /\ calls[j].run = "queued" /\ calls[k].run = "queued"
      BY <1>2, <2>1
    <3>2. first <= j /\ first # j
      BY <1>1, <1>2, <3>1 DEF StartsAt, Batch
    <3>3. k \notin Batch(first)
      BY <1>1, <2>1, <3>1, <3>2 DEF Batch
    <3> QED
      BY <1>2, <3>1, <3>3
  <2> QED
    BY <1>2, <2>1
<1>11. \A j, k \in DOMAIN calls' : j # k => calls'[j].id # calls'[k].id
  BY <1>2
<1>12. \A k \in DOMAIN calls' : calls'[k].id \in Kept'
  BY <1>2, <1>4
<1> QED
  BY <1>8, <1>9, <1>10, <1>11, <1>12

LEMMA CallsStep == TypeOK /\ TurnShape /\ CallsInv /\ [Next]_vars => CallsInv'
<1> SUFFICES ASSUME TypeOK, TurnShape, CallsInv, [Next]_vars PROVE CallsInv'
  OBVIOUS
<1> USE DEF CallsInv
<1>1. Kept \subseteq Kept'
  BY KeptGrows DEF TypeOK
<1>2. calls \in Seq(ToolCall) /\ Len(calls) \in Nat /\ DOMAIN calls = 1 .. Len(calls)
  BY DEF TypeOK, ListsTyped
<1>3. dispatches' = dispatches => ExecutedAtMostOnce'
  BY <1>1 DEF ExecutedAtMostOnce, Kept
<1>4. CASE calls' = << >> /\ UNCHANGED dispatches
  BY <1>3, <1>4
<1>5. CASE UNCHANGED <<calls, dispatches>>
  BY <1>1, <1>3, <1>5
<1>6. ASSUME NEW k \in DOMAIN calls, NEW how \in {"loud", "quiet"}, FinishTool(k, how)
      PROVE  CallsInv'
  <2>1. /\ calls' = [calls EXCEPT ![k].run = how] /\ dispatches' = dispatches
        /\ calls[k].run = "running"
    BY <1>6 DEF FinishTool, Running
  <2>2. /\ DOMAIN calls' = DOMAIN calls /\ calls'[k].run = how /\ calls'[k].id = calls[k].id
        /\ \A j \in DOMAIN calls : j # k => calls'[j] = calls[j]
    BY <1>2, <2>1 DEF ToolCall
  <2> QED
    BY <1>1, <1>3, <2>1, <2>2
<1>7. CASE RecordOutput
  <2>1. /\ calls # << >> /\ calls' = Tail(calls) /\ dispatches' = dispatches
    BY SMTT(30), <1>7 DEF RecordOutput
  <2>2. /\ calls' \in Seq(ToolCall) /\ Len(calls') = Len(calls) - 1
        /\ \A k \in 1 .. Len(calls') : calls'[k] = calls[k+1]
    BY <1>2, <2>1, HeadTailProperties
  <2>3. \A k \in DOMAIN calls' : k + 1 \in DOMAIN calls /\ calls'[k] = calls[k+1]
    BY <1>2, <2>2, LenProperties
  <2>4. \A k \in DOMAIN calls' : k \in Nat
    BY <2>2, LenProperties
  <2>5. \A k \in DOMAIN calls' :
          calls'[k].run = "queued" => dispatches'[calls'[k].id] = 0
    BY <2>1, <2>3
  <2>6. \A j, k \in DOMAIN calls' : j # k => calls'[j].id # calls'[k].id
    BY <2>3, <2>4
  <2>7. \A j, k \in DOMAIN calls' :
          j < k /\ calls'[j].run = "queued" => calls'[k].run = "queued"
    BY <2>3, <2>4
  <2> QED
    BY <1>1, <1>3, <2>1, <2>3, <2>5, <2>6, <2>7
<1> QED
  BY <1>4, <1>5, <1>6, <1>7, StepKinds, ReceiveKeepsCalls, BatchKeepsCalls

\* No call of the model is executed twice, however its stream ended and
\* however often the request was retried (session.rs:382-423).
THEOREM CallsRunAtMostOnce == Spec => []ExecutedAtMostOnce
<1>1. Init => CallsInv
  BY DEF Init, CallsInv, ExecutedAtMostOnce
<1>2. CallsInv => ExecutedAtMostOnce
  BY DEF CallsInv
<1> QED
  BY <1>1, <1>2, CallsStep, TurnShapeHolds, PTL DEF Spec

\* However the calls of a response are batched and an attempt is repeated, each
\* runs at most once, and an exclusive one runs alone (session.rs:308-423).
THEOREM ToolCallsAreRight == Spec => []ToolCallsRight
<1>1. ExecutedAtMostOnce /\ ExclusiveRunsAlone => ToolCallsRight
  BY DEF ToolCallsRight
<1> QED
  BY <1>1, CallsRunAtMostOnce, ExclusiveToolsRunAlone, PTL

-----------------------------------------------------------------------------
(***************************************************************************)
(* What a turn records: the outputs of its tools in the history, and the   *)
(* events its caller sees.                                                 *)
(***************************************************************************)
CallAt == IndicesOf("call")

OutputAt == IndicesOf("output")

LEMMA HistoryAppend ==
  ASSUME history \in Seq(HistoryItem), NEW item \in HistoryItem,
         history' = Append(history, item)
  PROVE  /\ Len(history) \in Nat /\ DOMAIN history = 1 .. Len(history)
         /\ DOMAIN history' = 1 .. Len(history) + 1 /\ Len(history') = Len(history) + 1
         /\ \A k \in DOMAIN history : history'[k] = history[k]
         /\ history'[Len(history) + 1] = item
<1>1. /\ history' \in Seq(HistoryItem) /\ Len(history') = Len(history) + 1
      /\ \A k \in 1 .. Len(history) : history'[k] = history[k]
      /\ history'[Len(history) + 1] = item
  BY AppendProperties
<1> QED
  BY <1>1, LenProperties

\* What a step does to the history and to the events of the turn.
LEMMA RecordKinds ==
  [Next]_vars =>
    \/ /\ UNCHANGED <<history, turnStart>>
       /\ \/ UNCHANGED delivered
          \/ \E kind \in {"StreamError", "TurnComplete", "TurnCancelled"} :
               delivered' = Append(delivered, Event(kind, NoId))
    \/ StartTurn \/ StartCancelledTurn \/ StartUnheardTurn
    \/ ReceiveMessage
    \/ \E c \in CallIds : ReceiveCall(c)
    \/ RecordOutput
<1> SUFFICES ASSUME [Next]_vars
             PROVE  \/ /\ UNCHANGED <<history, turnStart>>
                       /\ \/ UNCHANGED delivered
                          \/ \E kind \in {"StreamError", "TurnComplete", "TurnCancelled"} :
                               delivered' = Append(delivered, Event(kind, NoId))
                    \/ StartTurn \/ StartCancelledTurn \/ StartUnheardTurn
                    \/ ReceiveMessage
                    \/ \E c \in CallIds : ReceiveCall(c)
                    \/ RecordOutput
  OBVIOUS
<1> USE DEF EndTurn, EndCancelled, Emit
<1>1. CASE LoopStep
  BY <1>1 DEF LoopStep, EnterIteration, CancelledAtLoop, LoopExceeded, SendRequest,
              OpenStream, RequestRefused
<1>2. CASE StreamStep
  BY <1>2 DEF StreamStep, CancelledInStream, StreamFails, StreamUnheard, ReceiveCompleted,
              StreamCloses
<1>3. CASE ToolStep
  BY <1>3 DEF ToolStep, StartBatch, FinishTool, DispatchEnded, RecordUnheard, NextIteration,
              RetrySampling, RetryUnheard, RetriesExhausted
<1>4. CASE CallerStep
  BY <1>4 DEF CallerStep, Cancel, CloseSink
<1>5. CASE UNCHANGED vars
  BY <1>5
<1> QED
  BY <1>1, <1>2, <1>3, <1>4, <1>5 DEF Next

LEMMA RunningKeepsIds ==
  ASSUME ListsTyped,
         StartBatch \/ \E k \in DOMAIN calls, how \in {"loud", "quiet"} : FinishTool(k, how)
  PROVE  DOMAIN calls' = DOMAIN calls /\ \A k \in DOMAIN calls : calls'[k].id = calls[k].id
<1>1. calls \in Seq(ToolCall)
  BY DEF ListsTyped
<1>2. CASE StartBatch
  BY <1>1, <1>2, BatchShape
<1>3. ASSUME NEW k \in DOMAIN calls, NEW how \in {"loud", "quiet"}, FinishTool(k, how)
      PROVE  DOMAIN calls' = DOMAIN calls /\ \A j \in DOMAIN calls : calls'[j].id = calls[j].id
  <2>1. calls' = [calls EXCEPT ![k].run = how]
    BY <1>3 DEF FinishTool
  <2>2. calls[k] \in ToolCall /\ calls'[k] = [calls[k] EXCEPT !.run = how]
    BY <1>1, <2>1
  <2>3. calls'[k].id = calls[k].id
    BY <2>2 DEF ToolCall
  <2> QED
    BY <1>1, <2>1, <2>3
<1> QED
  BY <1>2, <1>3

\* The ids of the calls that wait for their record change in three ways only.
LEMMA PendingKinds ==
  ASSUME ListsTyped, [Next]_vars
  PROVE  \/ calls' = << >>
         \/ DOMAIN calls' = DOMAIN calls /\ \A k \in DOMAIN calls : calls'[k].id = calls[k].id
         \/ \E c \in CallIds : ReceiveCall(c)
         \/ RecordOutput
BY StepKinds, RunningKeepsIds

-----------------------------------------------------------------------------

(***************************************************************************)
(* The outputs stand in the order of their calls. The calls that wait for  *)
(* their record stand behind those that are answered, in their own order.  *)
(***************************************************************************)
CallsKept ==
  /\ \A k \in CallAt \union OutputAt :
       history[k].id \in CallIds /\ history[k].family = FamilyOf(history[k].id)
  /\ \A c, d \in CallAt : history[c].id = history[d].id => c = d

PendingBehind ==
  \A k \in DOMAIN calls, d \in CallAt : history[d].id = calls[k].id =>
    /\ \A j \in DOMAIN calls, c \in CallAt : j < k /\ history[c].id = calls[j].id => c < d
    /\ \A o \in OutputAt, c \in CallAt : Answers(o, c) => c < d

OrderInv == CallsKept /\ OutputsInCallOrder /\ PendingBehind

LEMMA SameItemsKeepOrder ==
  ASSUME OrderInv, history' = history,
         \/ calls' = << >>
         \/ DOMAIN calls' = DOMAIN calls /\ \A k \in DOMAIN calls : calls'[k].id = calls[k].id
  PROVE  OrderInv'
<1>1. CallsKept' /\ OutputsInCallOrder'
  BY DEF OrderInv, CallsKept, OutputsInCallOrder, CallAt, OutputAt, IndicesOf, Answers
<1>2. CASE calls' = << >>
  BY <1>1, <1>2 DEF OrderInv, PendingBehind
<1>3. CASE DOMAIN calls' = DOMAIN calls /\ \A k \in DOMAIN calls : calls'[k].id = calls[k].id
  BY <1>1, <1>3 DEF OrderInv, PendingBehind, CallAt, OutputAt, IndicesOf, Answers
<1> QED
  BY <1>2, <1>3

MessageAdded ==
  /\ \E item \in {UserItem, AssistantItem} : history' = Append(history, item)
  /\ calls' = calls \/ calls' = << >>

LEMMA MessageKeepsOrder ==
  ASSUME ListsTyped, OrderInv, MessageAdded
  PROVE  OrderInv'
<1>1. PICK item \in {UserItem, AssistantItem} : history' = Append(history, item)
  BY DEF MessageAdded
<1>2. item \in HistoryItem /\ item.kind = "message"
  BY MessagesTyped DEF UserItem, AssistantItem, Message, Item
<1>3. /\ Len(history) \in Nat /\ DOMAIN history = 1 .. Len(history)
      /\ DOMAIN history' = 1 .. Len(history) + 1
      /\ \A k \in DOMAIN history : history'[k] = history[k]
      /\ history'[Len(history) + 1] = item
  BY <1>1, <1>2, HistoryAppend DEF ListsTyped
<1>4. CallAt' = CallAt /\ OutputAt' = OutputAt
  BY <1>2, <1>3 DEF CallAt, OutputAt, IndicesOf
<1>5. \A k \in CallAt \union OutputAt : history'[k] = history[k]
  BY <1>3 DEF CallAt, OutputAt, IndicesOf
<1>6. \A o \in OutputAt, c \in CallAt : Answers(o, c)' <=> Answers(o, c)
  BY <1>5 DEF Answers
<1>7. CallsKept'
  BY <1>4, <1>5 DEF OrderInv, CallsKept
<1>8. OutputsInCallOrder'
  BY <1>4, <1>6 DEF OrderInv, OutputsInCallOrder, CallAt, OutputAt
<1>9. PendingBehind'
  <2>1. CASE calls' = << >>
    BY <2>1 DEF PendingBehind
  <2>2. CASE calls' = calls
    BY <1>4, <1>5, <1>6, <2>2 DEF OrderInv, PendingBehind
  <2> QED
    BY <2>1, <2>2 DEF MessageAdded
<1> QED
  BY <1>7, <1>8, <1>9 DEF OrderInv

LEMMA ReceiveKeepsOrder ==
  ASSUME TypeOK, CallsInv, OrderInv, NEW id \in CallIds, ReceiveCall(id)
  PROVE  OrderInv'
<1>0. PICK new : new = Len(history) + 1
  OBVIOUS
<1>1. /\ history' = Append(history, Call(FamilyOf(id), id))
      /\ calls' = Append(calls, Queued(id))
      /\ \A k \in DOMAIN history : history[k].id # id
  BY DEF ReceiveCall
<1>2. /\ Call(FamilyOf(id), id) \in HistoryItem
      /\ Call(FamilyOf(id), id).kind = "call" /\ Call(FamilyOf(id), id).id = id
      /\ Call(FamilyOf(id), id).family = FamilyOf(id)
  BY ItemsTyped DEF Call, Item
<1>3. /\ Len(history) \in Nat /\ DOMAIN history = 1 .. Len(history)
      /\ DOMAIN history' = 1 .. new
      /\ \A k \in DOMAIN history : history'[k] = history[k]
      /\ history'[new] = Call(FamilyOf(id), id)
  BY <1>0, <1>1, <1>2, HistoryAppend DEF TypeOK, ListsTyped
<1>4. /\ Len(calls) \in Nat /\ DOMAIN calls = 1 .. Len(calls)
      /\ \A k \in DOMAIN calls' : \/ k \in DOMAIN calls /\ calls'[k] = calls[k]
                                  \/ k = Len(calls) + 1 /\ calls'[k].id = id
  <2>1. \A k \in DOMAIN calls' : \/ k \in DOMAIN calls /\ calls'[k] = calls[k]
                                 \/ k = Len(calls) + 1 /\ calls'[k] = Queued(id)
    BY <1>1, AppendedCall DEF TypeOK, ListsTyped
  <2> QED
    BY <2>1, LenProperties DEF TypeOK, ListsTyped, Queued
<1>5. /\ CallAt \subseteq DOMAIN history /\ OutputAt \subseteq DOMAIN history
      /\ CallAt' = CallAt \union {new} /\ OutputAt' = OutputAt
  BY <1>0, <1>2, <1>3 DEF CallAt, OutputAt, IndicesOf
<1>6. \A k \in DOMAIN history : k < new /\ history'[k] = history[k] /\ history'[k].id # id
  BY <1>0, <1>1, <1>3
<1>7. history'[new].id = id /\ history'[new].family = FamilyOf(id)
  BY <1>2, <1>3
<1>8. CallsKept'
  BY <1>5, <1>6, <1>7 DEF OrderInv, CallsKept
<1>9. OutputsInCallOrder'
  <2>1. \A o \in OutputAt : ~Answers(o, new)'
    BY <1>5, <1>6, <1>7 DEF Answers
  <2>2. \A o \in OutputAt, c \in CallAt : Answers(o, c)' <=> Answers(o, c)
    BY <1>5, <1>6 DEF Answers
  <2> QED
    BY <1>5, <2>1, <2>2 DEF OrderInv, OutputsInCallOrder, CallAt, OutputAt
<1>10. PendingBehind'
  <2>1. \A k \in DOMAIN calls : calls[k].id # id
    BY <1>1 DEF CallsInv, Kept, CallsOf
  <2>2. ASSUME NEW k \in DOMAIN calls', NEW d \in CallAt', (history[d].id)' = (calls[k].id)'
        PROVE  /\ \A j \in DOMAIN calls', c \in CallAt' :
                    j < k /\ (history[c].id)' = (calls[j].id)' => c < d
               /\ \A o \in OutputAt', c \in CallAt' : Answers(o, c)' => c < d
    <3>1. CASE k = Len(calls) + 1 /\ calls'[k].id = id
      <4>1. d = new
        BY <1>5, <1>6, <2>2, <3>1
      <4>2. \A j \in DOMAIN calls' : j < k => j \in DOMAIN calls /\ calls'[j] = calls[j]
        BY <1>4, <3>1
      <4>3. \A j \in DOMAIN calls', c \in CallAt' :
              j < k /\ (history[c].id)' = (calls[j].id)' => c \in CallAt
        BY <1>5, <1>7, <2>1, <4>2
      <4>4. \A o \in OutputAt', c \in CallAt' : Answers(o, c)' => c \in CallAt
        BY <1>5, <1>6, <1>7 DEF Answers
      <4> QED
        BY <1>5, <1>6, <4>1, <4>3, <4>4
    <3>2. CASE k \in DOMAIN calls /\ calls'[k] = calls[k]
      <4>1. d \in CallAt /\ history[d].id = calls[k].id
        BY <1>5, <1>6, <1>7, <2>1, <2>2, <3>2
      <4>2. \A j \in DOMAIN calls' : j < k => j \in DOMAIN calls /\ calls'[j] = calls[j]
        BY <1>4, <3>2
      <4>3. \A j \in DOMAIN calls', c \in CallAt' :
              j < k /\ (history[c].id)' = (calls[j].id)' =>
                j \in DOMAIN calls /\ c \in CallAt /\ history[c].id = calls[j].id
        BY <1>5, <1>6, <1>7, <2>1, <4>2
      <4>4. \A o \in OutputAt', c \in CallAt' :
              Answers(o, c)' => o \in OutputAt /\ c \in CallAt /\ Answers(o, c)
        BY <1>5, <1>6, <1>7 DEF Answers
      <4> QED
        BY <3>2, <4>1, <4>3, <4>4 DEF OrderInv, PendingBehind
    <3> QED
      BY <1>4, <3>1, <3>2
  <2> QED
    BY <2>2 DEF PendingBehind
<1> QED
  BY <1>8, <1>9, <1>10 DEF OrderInv

LEMMA RecordKeepsOrder ==
  ASSUME TypeOK, CallsInv, OrderInv, RecordOutput
  PROVE  OrderInv'
<1> DEFINE id == calls[1].id
<1>0. PICK new : new = Len(history) + 1
  OBVIOUS
<1>1. /\ calls \in Seq(ToolCall) /\ calls # << >> /\ calls' = Tail(calls)
      /\ history' = Append(history, Output(FamilyOf(Head(calls).id), Head(calls).id, "text"))
  BY DEF RecordOutput, TypeOK, ListsTyped
<1>2. /\ Len(calls) \in Nat \ {0} /\ DOMAIN calls = 1 .. Len(calls)
      /\ Head(calls) = calls[1] /\ 1 \in DOMAIN calls
  BY <1>1
<1>3. /\ DOMAIN calls' = 1 .. Len(calls) - 1
      /\ \A k \in DOMAIN calls' : k + 1 \in DOMAIN calls /\ calls'[k] = calls[k+1]
  <2>1. /\ calls' \in Seq(ToolCall) /\ Len(calls') = Len(calls) - 1
        /\ \A k \in 1 .. Len(calls') : calls'[k] = calls[k+1]
    BY <1>1, HeadTailProperties
  <2> QED
    BY <1>2, <2>1, LenProperties
<1>4. id \in CallIds
  <2>1. calls[1] \in ToolCall
    BY <1>1, <1>2
  <2> QED
    BY <2>1 DEF ToolCall
<1>5. /\ Output(FamilyOf(id), id, "text") \in HistoryItem
      /\ Output(FamilyOf(id), id, "text").kind = "output"
      /\ Output(FamilyOf(id), id, "text").id = id
      /\ Output(FamilyOf(id), id, "text").family = FamilyOf(id)
  BY <1>4, ItemsTyped DEF Output, Item
<1>6. /\ Len(history) \in Nat /\ DOMAIN history = 1 .. Len(history)
      /\ DOMAIN history' = 1 .. new
      /\ \A k \in DOMAIN history : history'[k] = history[k]
      /\ history'[new] = Output(FamilyOf(id), id, "text")
  BY <1>0, <1>1, <1>2, <1>5, HistoryAppend DEF TypeOK, ListsTyped
<1>7. PICK asked \in CallAt : history[asked].id = id
  BY <1>2 DEF CallsInv, Kept, CallsOf, CallAt, IndicesOf
<1> HIDE DEF id
<1>8. /\ CallAt \subseteq DOMAIN history /\ OutputAt \subseteq DOMAIN history
      /\ CallAt' = CallAt /\ OutputAt' = OutputAt \union {new}
  BY <1>0, <1>5, <1>6 DEF CallAt, OutputAt, IndicesOf
<1>9. \A k \in DOMAIN history : k < new /\ history'[k] = history[k] /\ k \in Nat
  BY <1>0, <1>6
<1>10. history'[new].id = id /\ history'[new].family = FamilyOf(id)
  BY <1>5, <1>6
<1>11. CallsKept'
  BY <1>4, <1>8, <1>9, <1>10 DEF OrderInv, CallsKept
<1>12. Answers(new, asked)' /\ \A c \in CallAt : Answers(new, c)' => history[c].id = id
  BY <1>7, <1>8, <1>9, <1>10 DEF Answers, OrderInv, CallsKept
<1>13. \A o \in OutputAt, c \in CallAt : Answers(o, c)' <=> Answers(o, c)
  BY <1>8, <1>9 DEF Answers
<1>14. OutputsInCallOrder'
  <2>1. \A p \in OutputAt, c, d \in CallAt : Answers(p, c) /\ history[d].id = id => c < d
    BY <1>2 DEF OrderInv, PendingBehind, id
  <2>2. ASSUME NEW o \in OutputAt'
        PROVE  /\ \E c \in CallAt' : c < o /\ Answers(o, c)'
               /\ \A p \in OutputAt' : p < o =>
                    \A c, d \in CallAt' : Answers(p, c)' /\ Answers(o, d)' => c < d
    <3>1. CASE o = new
      <4>1. \A p \in OutputAt' : p < o => p \in OutputAt
        BY <1>0, <1>6, <1>8, <3>1
      <4> QED
        BY <1>7, <1>8, <1>9, <1>12, <1>13, <2>1, <3>1, <4>1
    <3>2. CASE o \in OutputAt
      <4>1. \A p \in OutputAt' : p < o => p \in OutputAt
        BY <1>0, <1>6, <1>8, <1>9, <3>2
      <4> QED
        BY <1>8, <1>13, <3>2, <4>1 DEF OrderInv, OutputsInCallOrder, CallAt, OutputAt
    <3> QED
      BY <1>8, <3>1, <3>2
  <2> QED
    BY <2>2 DEF OutputsInCallOrder, CallAt, OutputAt
<1>15. PendingBehind'
  <2>1. ASSUME NEW k \in DOMAIN calls', NEW d \in CallAt', (history[d].id)' = (calls[k].id)'
        PROVE  /\ \A j \in DOMAIN calls', c \in CallAt' :
                    j < k /\ (history[c].id)' = (calls[j].id)' => c < d
               /\ \A o \in OutputAt', c \in CallAt' : Answers(o, c)' => c < d
    <3>1. k + 1 \in DOMAIN calls /\ d \in CallAt /\ history[d].id = calls[k+1].id /\ 1 < k + 1
      BY <1>2, <1>3, <1>8, <1>9, <2>1
    <3>2. /\ \A j \in DOMAIN calls, c \in CallAt :
               j < k + 1 /\ history[c].id = calls[j].id => c < d
          /\ \A o \in OutputAt, c \in CallAt : Answers(o, c) => c < d
      BY <3>1 DEF OrderInv, PendingBehind
    <3>3. \A j \in DOMAIN calls', c \in CallAt' :
            j < k /\ (history[c].id)' = (calls[j].id)' =>
              j + 1 \in DOMAIN calls /\ j + 1 < k + 1 /\ history[c].id = calls[j+1].id
      BY <1>2, <1>3, <1>8, <1>9
    <3>4. \A c \in CallAt : history[c].id = id => c < d
      BY <1>2, <3>1, <3>2 DEF id
    <3>5. \A o \in OutputAt', c \in CallAt' : Answers(o, c)' => c < d
      BY <1>8, <1>12, <1>13, <3>2, <3>4
    <3> QED
      BY <1>8, <3>2, <3>3, <3>5
  <2> QED
    BY <2>1 DEF PendingBehind
<1> QED
  BY <1>11, <1>14, <1>15 DEF OrderInv

LEMMA OrderStep == TypeOK /\ CallsInv /\ OrderInv /\ [Next]_vars => OrderInv'
<1> SUFFICES ASSUME TypeOK, CallsInv, OrderInv, [Next]_vars PROVE OrderInv'
  OBVIOUS
<1>1. CASE \E c \in CallIds : ReceiveCall(c)
  BY <1>1, ReceiveKeepsOrder
<1>2. CASE RecordOutput
  BY <1>2, RecordKeepsOrder
<1>3. CASE ReceiveMessage
  BY <1>3, MessageKeepsOrder DEF ReceiveMessage, TypeOK, MessageAdded
<1>4. CASE StartTurn
  BY <1>4, MessageKeepsOrder DEF StartTurn, BeginTurn, TypeOK, MessageAdded
<1>5. CASE StartCancelledTurn \/ StartUnheardTurn
  BY <1>5, SameItemsKeepOrder DEF StartCancelledTurn, StartUnheardTurn, BeginTurn
<1>6. CASE history' = history
  BY <1>1, <1>2, <1>6, PendingKinds, SameItemsKeepOrder DEF TypeOK
<1> QED
  BY <1>1, <1>2, <1>3, <1>4, <1>5, <1>6, RecordKinds

-----------------------------------------------------------------------------

(***************************************************************************)
(* No output is lost but by a sink that fails: while a turn runs, each of  *)
(* its calls is answered or waits for its record, a call that waits while  *)
(* the stream is read has not been executed, and none waits when a request *)
(* is sent.                                                                *)
(***************************************************************************)
NoneForgotten ==
  pc # "idle" => \A c \in CallsOf(TurnItems) :
                   Answered(c) \/ \E k \in DOMAIN calls : calls[k].id = c

CallsWait ==
  /\ pc = "opening" => calls = << >>
  /\ pc = "streaming" => \A k \in DOMAIN calls : calls[k].run = "queued"

LossInv == NoneForgotten /\ CallsWait /\ OnlySinkLosesOutputs

\* What is new in the history of a turn.
LEMMA TurnCallsAppend ==
  ASSUME ListsTyped, turnStart \in Nat \ {0}, turnStart' = turnStart,
         NEW item \in HistoryItem, history' = Append(history, item)
  PROVE  /\ \A c \in CallsOf(TurnItems)' :
              c \in CallsOf(TurnItems) \/ (item.kind = "call" /\ c = item.id)
         /\ \A c \in CallIds : Answered(c) => Answered(c)'
         /\ \A c \in CallIds : item = Output(FamilyOf(c), c, "text") => Answered(c)'
<1>1. /\ Len(history) \in Nat /\ DOMAIN history = 1 .. Len(history)
      /\ DOMAIN history' = 1 .. Len(history) + 1 /\ Len(history') = Len(history) + 1
      /\ \A k \in DOMAIN history : history'[k] = history[k]
      /\ history'[Len(history) + 1] = item
  BY HistoryAppend DEF ListsTyped
<1>2. ASSUME NEW c \in CallsOf(TurnItems)'
      PROVE  c \in CallsOf(TurnItems) \/ (item.kind = "call" /\ c = item.id)
  <2>1. PICK k \in turnStart .. Len(history) + 1 :
          history'[k].kind = "call" /\ history'[k].id = c
    BY <1>1, <1>2 DEF CallsOf, TurnItems
  <2>2. CASE k = Len(history) + 1
    BY <1>1, <2>1, <2>2
  <2>3. CASE k # Len(history) + 1
    <3>1. k \in turnStart .. Len(history)
      BY <1>1, <2>1, <2>3
    <3>2. k \in DOMAIN history
      BY <1>1, <3>1
    <3> QED
      BY <1>1, <2>1, <3>1, <3>2 DEF CallsOf, TurnItems
  <2> QED
    BY <2>2, <2>3
<1>3. ASSUME NEW c \in CallIds, Answered(c) PROVE Answered(c)'
  <2>1. PICK k \in DOMAIN history :
          history[k].kind = "output" /\ history[k].family = FamilyOf(c) /\ history[k].id = c
    BY <1>3 DEF Answered, HasOutput
  <2>2. k \in DOMAIN history' /\ history'[k] = history[k]
    BY <1>1
  <2> QED
    BY <2>1, <2>2 DEF Answered, HasOutput
<1>4. ASSUME NEW c \in CallIds, item = Output(FamilyOf(c), c, "text") PROVE Answered(c)'
  <2>1. item.kind = "output" /\ item.family = FamilyOf(c) /\ item.id = c
    BY <1>4 DEF Output, Item
  <2>2. Len(history) + 1 \in DOMAIN history'
    BY <1>1
  <2> QED
    BY <1>1, <2>1, <2>2 DEF Answered, HasOutput
<1> QED
  BY <1>2, <1>3, <1>4

\* Nothing that ran is unanswered when a turn ends.
LEMMA NothingIsLost ==
  ASSUME TypeOK, TurnShape, CallsInv, LossInv, pc # "idle",
         pc \in {"loop", "request", "opening", "streaming"} \/ calls = << >>
  PROVE  \A c \in CallsOf(TurnItems) : dispatches[c] = 1 => Answered(c)
<1>1. ASSUME NEW k \in DOMAIN calls PROVE dispatches[calls[k].id] = 0
  <2>1. pc = "streaming"
    BY <1>1 DEF TurnShape, LossInv, CallsWait
  <2> QED
    BY <1>1, <2>1 DEF LossInv, CallsWait, CallsInv
<1>2. ASSUME NEW c \in CallsOf(TurnItems), dispatches[c] = 1
      PROVE  Answered(c)
  <2>1. \A k \in DOMAIN calls : calls[k].id # c
    BY <1>1, <1>2
  <2> QED
    BY <1>2, <2>1 DEF LossInv, NoneForgotten
<1> QED
  BY <1>2

LEMMA SameTurnItems ==
  ASSUME UNCHANGED <<history, turnStart>>
  PROVE  /\ CallsOf(TurnItems)' = CallsOf(TurnItems)
         /\ \A c : Answered(c)' <=> Answered(c)
BY DEF CallsOf, TurnItems, Answered, HasOutput

\* A step that ends the turn, whatever for.
LEMMA EndKeepsLoss ==
  ASSUME TypeOK, TurnShape, CallsInv, LossInv, pc # "idle", pc' = "idle",
         \/ pc \in {"loop", "request", "opening", "streaming"} \/ calls = << >>
         \/ result' = "sink",
         UNCHANGED <<history, turnStart, dispatches>>
  PROVE  LossInv'
<1>1. NoneForgotten' /\ CallsWait'
  BY DEF NoneForgotten, CallsWait
<1>2. CASE result' = "sink"
  BY <1>1, <1>2 DEF LossInv, OnlySinkLosesOutputs
<1>3. CASE pc \in {"loop", "request", "opening", "streaming"} \/ calls = << >>
  <2>1. \A c \in CallsOf(TurnItems) : dispatches[c] = 1 => Answered(c)
    BY <1>3, NothingIsLost
  <2>2. OnlySinkLosesOutputs'
    BY <2>1, SameTurnItems DEF OnlySinkLosesOutputs
  <2> QED
    BY <1>1, <2>2 DEF LossInv
<1> QED
  BY <1>2, <1>3

\* A step of a turn that goes on and records nothing.
LEMMA GoesOnKeepsLoss ==
  ASSUME LossInv, pc # "idle", pc' # "idle",
         UNCHANGED <<history, turnStart>>,
         \/ calls = << >>
         \/ DOMAIN calls' = DOMAIN calls /\ \A k \in DOMAIN calls : calls'[k].id = calls[k].id,
         CallsWait'
  PROVE  LossInv'
<1>1. NoneForgotten'
  <2>1. ASSUME NEW c \in CallsOf(TurnItems), ~Answered(c)
        PROVE  \E k \in DOMAIN calls' : (calls[k].id)' = c
    <3>1. PICK k \in DOMAIN calls : calls[k].id = c
      BY <2>1 DEF LossInv, NoneForgotten
    <3>2. calls # << >>
      BY <3>1
    <3> QED
      BY <3>1, <3>2
  <2> QED
    BY <2>1, SameTurnItems DEF NoneForgotten
<1>2. OnlySinkLosesOutputs'
  BY DEF OnlySinkLosesOutputs
<1> QED
  BY <1>1, <1>2 DEF LossInv

LEMMA BeginKeepsLoss ==
  ASSUME TypeOK, StartTurn \/ StartCancelledTurn \/ StartUnheardTurn
  PROVE  LossInv'
<1>1. calls' = << >> /\ turnStart' = Len(history) + 1 /\ pc' \in {"idle", "loop"}
  BY DEF StartTurn, StartCancelledTurn, StartUnheardTurn, BeginTurn
<1>2. Len(history) \in Nat
  BY DEF TypeOK, ListsTyped
<1>3. \A k \in TurnItems' : (history[k].kind)' # "call"
  <2>1. CASE history' = history
    BY <1>1, <1>2, <2>1 DEF TurnItems
  <2>2. CASE history' = Append(history, UserItem)
    <3>1. Len(history') = Len(history) + 1 /\ history'[Len(history) + 1] = UserItem
      BY <2>2, HistoryAppend, MessagesTyped DEF TypeOK, ListsTyped
    <3>2. TurnItems' = {Len(history) + 1}
      BY <1>1, <1>2, <3>1 DEF TurnItems
    <3> QED
      BY <3>1, <3>2 DEF UserItem, Message, Item
  <2> QED
    BY <2>1, <2>2 DEF StartTurn, StartCancelledTurn, StartUnheardTurn
<1>4. CallsOf(TurnItems)' = {}
  BY <1>3 DEF CallsOf
<1> QED
  BY <1>1, <1>4 DEF LossInv, NoneForgotten, CallsWait, OnlySinkLosesOutputs

LEMMA TurnCallIds ==
  ASSUME ListsTyped, OrderInv, turnStart \in Nat \ {0}
  PROVE  CallsOf(TurnItems) \subseteq CallIds
<1>1. Len(history) \in Nat /\ DOMAIN history = 1 .. Len(history)
  BY DEF ListsTyped
<1>2. TurnItems \subseteq DOMAIN history
  BY <1>1 DEF TurnItems
<1> QED
  BY <1>2 DEF CallsOf, OrderInv, CallsKept, CallAt, IndicesOf

LEMMA GrownCalls ==
  ASSUME ListsTyped, NEW id \in CallIds, calls' = Append(calls, Queued(id))
  PROVE  /\ \A k \in DOMAIN calls' : \/ k \in DOMAIN calls /\ calls'[k] = calls[k]
                                     \/ calls'[k] = Queued(id)
         /\ \A k \in DOMAIN calls : k \in DOMAIN calls' /\ calls'[k] = calls[k]
         /\ \E k \in DOMAIN calls' : calls'[k] = Queued(id)
<1>1. Queued(id) \in ToolCall /\ calls \in Seq(ToolCall)
  BY DEF Queued, ToolCall, ListsTyped
<1>2. /\ calls' \in Seq(ToolCall) /\ Len(calls') = Len(calls) + 1
      /\ \A k \in 1 .. Len(calls) : calls'[k] = calls[k]
      /\ calls'[Len(calls) + 1] = Queued(id)
  BY <1>1, AppendProperties
<1>3. /\ Len(calls) \in Nat /\ DOMAIN calls = 1 .. Len(calls)
      /\ DOMAIN calls' = 1 .. Len(calls) + 1
  BY <1>1, <1>2, LenProperties
<1> QED
  BY <1>2, <1>3

LEMMA ReceiveKeepsLoss ==
  ASSUME TypeOK, OrderInv, LossInv, ReceiveMessage \/ \E c \in CallIds : ReceiveCall(c)
  PROVE  LossInv'
<1>0. ListsTyped /\ turnStart \in Nat \ {0}
  BY DEF TypeOK, CountersTyped
<1>1. pc = "streaming" /\ pc' = "streaming" /\ turnStart' = turnStart
  BY DEF ReceiveMessage, ReceiveCall, StreamEvent
<1>2. OnlySinkLosesOutputs'
  BY <1>1 DEF OnlySinkLosesOutputs
<1>4. CASE ReceiveMessage
  <2>1. history' = Append(history, AssistantItem) /\ calls' = calls
    BY <1>4 DEF ReceiveMessage
  <2>2. AssistantItem \in HistoryItem /\ AssistantItem.kind = "message"
    BY MessagesTyped DEF AssistantItem, Message, Item
  <2>3. NoneForgotten'
    BY <1>0, <1>1, <2>1, <2>2, TurnCallsAppend, TurnCallIds DEF LossInv, NoneForgotten
  <2>4. CallsWait'
    BY <1>1, <2>1 DEF LossInv, CallsWait
  <2> QED
    BY <1>2, <2>3, <2>4 DEF LossInv
<1>5. ASSUME NEW id \in CallIds, ReceiveCall(id) PROVE LossInv'
  <2>1. history' = Append(history, Call(FamilyOf(id), id)) /\ calls' = Append(calls, Queued(id))
    BY <1>5 DEF ReceiveCall
  <2>2. Call(FamilyOf(id), id) \in HistoryItem /\ Call(FamilyOf(id), id).id = id
    BY ItemsTyped DEF Call, Item
  <2>3. /\ \A k \in DOMAIN calls' : \/ k \in DOMAIN calls /\ calls'[k] = calls[k]
                                    \/ calls'[k] = Queued(id)
        /\ \A k \in DOMAIN calls : k \in DOMAIN calls' /\ calls'[k] = calls[k]
        /\ \E k \in DOMAIN calls' : calls'[k] = Queued(id)
    BY <1>0, <2>1, GrownCalls
  <2>4. NoneForgotten'
    <3>1. ASSUME NEW c \in CallsOf(TurnItems)', ~Answered(c)'
          PROVE  \E k \in DOMAIN calls' : (calls[k].id)' = c
      <4>1. c \in CallsOf(TurnItems) \/ c = id
        BY <1>0, <1>1, <2>1, <2>2, <3>1, TurnCallsAppend
      <4>2. CASE c = id
        BY <2>3, <4>2 DEF Queued
      <4>3. CASE c \in CallsOf(TurnItems)
        <5>1. ~Answered(c)
          BY <1>0, <1>1, <2>1, <2>2, <3>1, <4>3, TurnCallsAppend, TurnCallIds
        <5> QED
          BY <1>1, <2>3, <4>3, <5>1 DEF LossInv, NoneForgotten
      <4> QED
        BY <4>1, <4>2, <4>3
    <3> QED
      BY <3>1 DEF NoneForgotten
  <2>5. CallsWait'
    BY <1>1, <2>3 DEF LossInv, CallsWait, Queued
  <2> QED
    BY <1>2, <2>4, <2>5 DEF LossInv
<1> QED
  BY <1>4, <1>5

LEMMA RecordKeepsLoss ==
  ASSUME TypeOK, OrderInv, LossInv, RecordOutput
  PROVE  LossInv'
<1>0. /\ ListsTyped /\ turnStart \in Nat \ {0} /\ calls \in Seq(ToolCall) /\ calls # << >>
      /\ pc = "recording" /\ pc' = "recording" /\ turnStart' = turnStart
      /\ calls' = Tail(calls)
      /\ history' = Append(history, Output(FamilyOf(Head(calls).id), Head(calls).id, "text"))
  BY DEF TypeOK, CountersTyped, ListsTyped, RecordOutput
<1>1. PICK id : id = Head(calls).id
  OBVIOUS
<1>2. id \in CallIds
  <2>1. Head(calls) \in ToolCall
    BY <1>0, HeadTailProperties
  <2> QED
    BY <1>1, <2>1 DEF ToolCall
<1>3. Output(FamilyOf(id), id, "text") \in HistoryItem /\ Output(FamilyOf(id), id, "text").kind = "output"
  BY <1>2, ItemsTyped DEF Output, Item
<1>4. \A k \in DOMAIN calls :
        calls[k].id = id \/ (k - 1 \in DOMAIN calls' /\ calls'[k-1] = calls[k])
  <2>1. /\ calls' \in Seq(ToolCall) /\ Len(calls') = Len(calls) - 1
        /\ \A k \in 1 .. Len(calls') : calls'[k] = calls[k+1]
    BY <1>0, HeadTailProperties
  <2>2. Len(calls) \in Nat /\ DOMAIN calls = 1 .. Len(calls) /\ DOMAIN calls' = 1 .. Len(calls) - 1
    BY <1>0, <2>1, LenProperties
  <2>3. Head(calls) = calls[1]
    BY <1>0
  <2>4. ASSUME NEW k \in DOMAIN calls, k # 1
        PROVE  k - 1 \in DOMAIN calls' /\ calls'[k-1] = calls[k]
    BY <2>1, <2>2, <2>4
  <2> QED
    BY <1>1, <2>3, <2>4
<1>5. NoneForgotten'
  <2>1. ASSUME NEW c \in CallsOf(TurnItems)', ~Answered(c)'
        PROVE  \E k \in DOMAIN calls' : (calls[k].id)' = c
    <3>1. c \in CallsOf(TurnItems)
      BY <1>0, <1>1, <1>3, <2>1, TurnCallsAppend
    <3>2. ~Answered(c) /\ c # id
      BY <1>0, <1>1, <1>2, <1>3, <2>1, <3>1, TurnCallsAppend, TurnCallIds
    <3>3. PICK k \in DOMAIN calls : calls[k].id = c
      BY <1>0, <3>1, <3>2 DEF LossInv, NoneForgotten
    <3> QED
      BY <1>4, <3>2, <3>3
  <2> QED
    BY <2>1 DEF NoneForgotten
<1>6. CallsWait' /\ OnlySinkLosesOutputs'
  BY <1>0 DEF CallsWait, OnlySinkLosesOutputs
<1> QED
  BY <1>5, <1>6 DEF LossInv

LEMMA SameLoss ==
  ASSUME LossInv, UNCHANGED <<history, turnStart, calls, pc, result, dispatches>>
  PROVE  LossInv'
BY SameTurnItems DEF LossInv, NoneForgotten, CallsWait, OnlySinkLosesOutputs

LEMMA LossStep ==
  ASSUME TypeOK, TurnShape, CallsInv, OrderInv, LossInv, [Next]_vars
  PROVE  LossInv'
<1> USE DEF EndTurn, EndCancelled
<1>1. CASE LoopStep
  <2>1. CASE EnterIteration
    BY <2>1, GoesOnKeepsLoss DEF EnterIteration, TurnShape, CallsWait
  <2>2. CASE CancelledAtLoop \/ LoopExceeded \/ RequestRefused
    BY <2>2, EndKeepsLoss DEF CancelledAtLoop, LoopExceeded, RequestRefused
  <2>3. CASE SendRequest
    BY <2>3, GoesOnKeepsLoss DEF SendRequest, TurnShape, CallsWait
  <2>4. CASE OpenStream
    BY <2>4, GoesOnKeepsLoss DEF OpenStream, LossInv, CallsWait
  <2> QED
    BY <1>1, <2>1, <2>2, <2>3, <2>4 DEF LoopStep
<1>2. CASE StreamStep
  <2>1. CASE CancelledInStream \/ StreamFails \/ StreamUnheard
    BY <2>1, EndKeepsLoss DEF CancelledInStream, StreamFails, StreamUnheard, StreamEvent
  <2>2. CASE ReceiveMessage \/ \E c \in CallIds : ReceiveCall(c)
    BY <2>2, ReceiveKeepsLoss
  <2>3. ASSUME NEW followUp \in BOOLEAN, ReceiveCompleted(followUp) PROVE LossInv'
    <3>1. CASE pc' = "dispatching" /\ calls' = calls
      BY <2>3, <3>1, GoesOnKeepsLoss DEF ReceiveCompleted, StreamEvent, CallsWait
    <3>2. CASE pc' = "idle"
      BY <2>3, <3>2, EndKeepsLoss DEF ReceiveCompleted, StreamEvent
    <3> QED
      BY <2>3, <3>1, <3>2 DEF ReceiveCompleted
  <2>4. CASE StreamCloses
    BY <2>4, GoesOnKeepsLoss DEF StreamCloses, CallsWait
  <2> QED
    BY <1>2, <2>1, <2>2, <2>3, <2>4 DEF StreamStep
<1>3. CASE ToolStep
  <2>1. CASE StartBatch \/ \E k \in DOMAIN calls, how \in {"loud", "quiet"} : FinishTool(k, how)
    BY <2>1, RunningKeepsIds, GoesOnKeepsLoss
       DEF StartBatch, FinishTool, TypeOK, CallsWait
  <2>2. CASE DispatchEnded
    BY <2>2, GoesOnKeepsLoss DEF DispatchEnded, CallsWait
  <2>3. CASE RecordOutput
    BY <2>3, RecordKeepsLoss
  <2>4. CASE RecordUnheard \/ RetryUnheard
    BY <2>4, EndKeepsLoss DEF RecordUnheard, RetryUnheard, Recorded
  <2>5. CASE NextIteration \/ RetrySampling
    BY <2>5, GoesOnKeepsLoss DEF NextIteration, RetrySampling, Recorded, CallsWait
  <2>6. CASE RetriesExhausted
    BY <2>6, EndKeepsLoss DEF RetriesExhausted, Recorded
  <2> QED
    BY <1>3, <2>1, <2>2, <2>3, <2>4, <2>5, <2>6 DEF ToolStep
<1>4. CASE CallerStep
  <2>1. CASE StartTurn \/ StartCancelledTurn \/ StartUnheardTurn
    BY <2>1, BeginKeepsLoss
  <2>2. CASE Cancel \/ CloseSink
    <3>1. UNCHANGED <<history, turnStart, calls, pc, result, dispatches>>
      BY <2>2 DEF Cancel, CloseSink
    <3> QED
      BY <3>1, SameLoss
  <2> QED
    BY <1>4, <2>1, <2>2 DEF CallerStep
<1>5. CASE UNCHANGED vars
  BY <1>5, SameLoss
<1> QED
  BY <1>1, <1>2, <1>3, <1>4, <1>5 DEF Next

RecordInv == OrderInv /\ LossInv

\* The inductive invariant of what a turn records.
LEMMA RecordInvariant == Spec => [](TypeOK /\ TurnShape /\ CallsInv /\ RecordInv)
<1>1. Init => CallsInv /\ RecordInv
  BY DEF Init, CallsInv, ExecutedAtMostOnce, RecordInv, OrderInv, CallsKept, OutputsInCallOrder,
         PendingBehind, LossInv, NoneForgotten, CallsWait, OnlySinkLosesOutputs, CallAt, OutputAt,
         IndicesOf, CallsOf, TurnItems
<1>2. TypeOK /\ TurnShape /\ CallsInv /\ RecordInv /\ [Next]_vars => CallsInv' /\ RecordInv'
  BY CallsStep, OrderStep, LossStep DEF RecordInv
<1> QED
  BY <1>1, <1>2, TurnShapeHolds, PTL DEF Spec

\* However the tools of a batch finish and however its turn ends, the outputs
\* stand in the history in the order of the calls, and only a broken sink loses
\* the output of a tool that ran (session.rs:289-306, 347-359, 513-531).
THEOREM OutputsAreRight == Spec => []OutputsRight
<1>1. RecordInv => OutputsRight
  BY DEF RecordInv, OrderInv, LossInv, OutputsRight
<1> QED
  BY <1>1, RecordInvariant, PTL

\* When a request is sent every call of the turn is answered, so that
\* normalisation makes up an "aborted" output for none of them, whatever
\* retries and iterations came before (session.rs:258-287, 395-403).
THEOREM NoCallIsReportedAborted == Spec => []NoFalseAbort
<1>1. RecordInv => NoFalseAbort
  BY DEF RecordInv, LossInv, NoneForgotten, CallsWait, NoFalseAbort
<1> QED
  BY <1>1, RecordInvariant, PTL

-----------------------------------------------------------------------------

(***************************************************************************)
(* What the caller sees: the n-th item the turn keeps of the model is the  *)
(* one of the n-th completed event.                                        *)
(***************************************************************************)
LEMMA RankAdd ==
  ASSUME NEW size \in Nat, NEW S \in SUBSET (1 .. size), NEW n \in Nat, n > size
  PROVE  /\ Cardinality(S) \in Nat /\ Cardinality(S \union {n}) = Cardinality(S) + 1
         /\ \A k \in S : Rank(k, S \union {n}) = Rank(k, S) /\ Rank(k, S) <= Cardinality(S)
                         /\ Rank(k, S) \in Nat
         /\ Rank(n, S \union {n}) = Cardinality(S) + 1
<1>1. IsFiniteSet(S)
  <2>1. 1 \in Int /\ size \in Int
    OBVIOUS
  <2>2. IsFiniteSet(1 .. size)
    BY <2>1, FS_Interval
  <2> QED
    BY <2>2, FS_Subset
<1>2. n \notin S /\ \A j \in S : j <= n /\ j \in Nat
  OBVIOUS
<1>3. Cardinality(S) \in Nat /\ Cardinality(S \union {n}) = Cardinality(S) + 1
  BY <1>1, <1>2, FS_AddElement, FS_CardinalityType
<1>4. ASSUME NEW k \in S
      PROVE  /\ Rank(k, S \union {n}) = Rank(k, S)
             /\ Rank(k, S) <= Cardinality(S) /\ Rank(k, S) \in Nat
  <2>1. {j \in S \union {n} : j <= k} = {j \in S : j <= k}
    <3>1. ~(n <= k)
      OBVIOUS
    <3> QED
      BY <3>1
  <2>2. {j \in S : j <= k} \subseteq S
    OBVIOUS
  <2>3. Cardinality({j \in S : j <= k}) <= Cardinality(S)
    BY <1>1, <2>2, FS_Subset
  <2>4. Cardinality({j \in S : j <= k}) \in Nat
    BY <1>1, <2>2, FS_Subset, FS_CardinalityType
  <2> QED
    BY <2>1, <2>3, <2>4 DEF Rank
<1>5. {j \in S \union {n} : j <= n} = S \union {n}
  <2>1. \A j \in S \union {n} : j <= n
    BY <1>2
  <2> QED
    BY <2>1
<1> QED
  BY <1>3, <1>4, <1>5 DEF Rank

LEMMA DeliveredAppend ==
  ASSUME ListsTyped, NEW kind, NEW id, delivered' = Append(delivered, Event(kind, id))
  PROVE  /\ Len(delivered) \in Nat /\ DOMAIN delivered = 1 .. Len(delivered)
         /\ DOMAIN delivered' = 1 .. Len(delivered) + 1 /\ Len(delivered') = Len(delivered) + 1
         /\ \A k \in DOMAIN delivered : delivered'[k] = delivered[k]
         /\ delivered'[Len(delivered) + 1].kind = kind
         /\ delivered'[Len(delivered) + 1].id = id
<1> DEFINE event == Event(kind, id)
<1>1. event.kind = kind /\ event.id = id
  BY DEF Event
<1> HIDE DEF event
<1>2. delivered \in Seq(EventMsg \union {event}) /\ event \in EventMsg \union {event}
  BY DEF ListsTyped
<1>3. delivered' = Append(delivered, event)
  BY DEF event
<1>4. /\ delivered' \in Seq(EventMsg \union {event}) /\ Len(delivered') = Len(delivered) + 1
      /\ \A k \in 1 .. Len(delivered) : delivered'[k] = delivered[k]
      /\ delivered'[Len(delivered) + 1] = event
  BY <1>2, <1>3, AppendProperties
<1> QED
  BY <1>1, <1>2, <1>4, LenProperties

StartBound == turnStart \in Nat \ {0} /\ turnStart <= Len(history) + 1

LEMMA FromModelAppend ==
  ASSUME ListsTyped, StartBound, turnStart' = turnStart,
         NEW item \in HistoryItem, history' = Append(history, item)
  PROVE  /\ FromModel' = IF item.side = "response" THEN FromModel \union {Len(history) + 1}
                                                   ELSE FromModel
         /\ FromModel \in SUBSET (1 .. Len(history)) /\ Len(history) \in Nat
         /\ \A k \in FromModel : history'[k] = history[k]
         /\ history'[Len(history) + 1] = item
         /\ StartBound'
<1>1. /\ Len(history) \in Nat /\ DOMAIN history = 1 .. Len(history)
      /\ DOMAIN history' = 1 .. Len(history) + 1 /\ Len(history') = Len(history) + 1
      /\ \A k \in DOMAIN history : history'[k] = history[k]
      /\ history'[Len(history) + 1] = item
  BY HistoryAppend DEF ListsTyped
<1>2. FromModel \in SUBSET (1 .. Len(history))
  BY <1>1 DEF FromModel, TurnItems, StartBound
<1>3. TurnItems' = TurnItems \union {Len(history) + 1} /\ TurnItems \subseteq DOMAIN history
  BY <1>1 DEF TurnItems, StartBound
<1>4. FromModel' = IF item.side = "response" THEN FromModel \union {Len(history) + 1}
                                             ELSE FromModel
  BY <1>1, <1>3 DEF FromModel
<1>5. StartBound'
  BY <1>1 DEF StartBound
<1> QED
  BY <1>1, <1>2, <1>4, <1>5

LEMMA CompletedAppend ==
  ASSUME ListsTyped, NEW kind, NEW id, delivered' = Append(delivered, Event(kind, id))
  PROVE  /\ Completed' = IF kind = "ItemCompleted" THEN Completed \union {Len(delivered) + 1}
                                                   ELSE Completed
         /\ Completed \in SUBSET (1 .. Len(delivered)) /\ Len(delivered) \in Nat
         /\ \A e \in Completed : delivered'[e] = delivered[e]
         /\ delivered'[Len(delivered) + 1].id = id
BY DeliveredAppend DEF Completed

\* A step that keeps both lists, apart from what the property leaves out.
LEMMA SameShown ==
  ASSUME ShownBeforeKept, FromModel' = FromModel, Completed' = Completed,
         \A k \in FromModel : history'[k] = history[k],
         \A e \in Completed : delivered'[e] = delivered[e]
  PROVE  ShownBeforeKept'
BY DEF ShownBeforeKept

LEMMA BothShown ==
  ASSUME ListsTyped, StartBound, ShownBeforeKept, turnStart' = turnStart,
         NEW item \in HistoryItem, item.side = "response", history' = Append(history, item),
         delivered' = Append(delivered, Event("ItemCompleted", item.id))
  PROVE  ShownBeforeKept'
<1>1. PICK n, m : n = Len(history) + 1 /\ m = Len(delivered) + 1
  OBVIOUS
<1>2. /\ FromModel' = FromModel \union {n} /\ n \in Nat /\ Len(history) \in Nat
      /\ FromModel \in SUBSET (1 .. Len(history)) /\ n > Len(history)
      /\ \A k \in FromModel : history'[k] = history[k]
      /\ history'[n] = item
  BY <1>1, FromModelAppend
<1>3. /\ Completed' = Completed \union {m} /\ m \in Nat /\ Len(delivered) \in Nat
      /\ Completed \in SUBSET (1 .. Len(delivered)) /\ m > Len(delivered)
      /\ \A e \in Completed : delivered'[e] = delivered[e]
      /\ delivered'[m].id = item.id
  BY <1>1, CompletedAppend
<1>4. /\ Cardinality(FromModel) \in Nat
      /\ Cardinality(FromModel \union {n}) = Cardinality(FromModel) + 1
      /\ \A k \in FromModel : /\ Rank(k, FromModel \union {n}) = Rank(k, FromModel)
                              /\ Rank(k, FromModel) <= Cardinality(FromModel)
                              /\ Rank(k, FromModel) \in Nat
      /\ Rank(n, FromModel \union {n}) = Cardinality(FromModel) + 1
  BY ZenonT(30), <1>2, RankAdd
<1>5. /\ Cardinality(Completed) \in Nat
      /\ Cardinality(Completed \union {m}) = Cardinality(Completed) + 1
      /\ \A e \in Completed : /\ Rank(e, Completed \union {m}) = Rank(e, Completed)
                              /\ Rank(e, Completed) <= Cardinality(Completed)
                              /\ Rank(e, Completed) \in Nat
      /\ Rank(m, Completed \union {m}) = Cardinality(Completed) + 1
  BY ZenonT(30), <1>3, RankAdd
<1>6. /\ Cardinality(FromModel) = Cardinality(Completed)
      /\ \A k \in FromModel, e \in Completed :
           Rank(k, FromModel) = Rank(e, Completed) => history[k].id = delivered[e].id
  BY DEF ShownBeforeKept
<1>7. Cardinality(FromModel') = Cardinality(Completed')
  BY <1>2, <1>3, <1>4, <1>5, <1>6
<1>8. ASSUME NEW k \in FromModel', NEW e \in Completed',
             Rank(k, FromModel') = Rank(e, Completed')
      PROVE  history'[k].id = delivered'[e].id
  <2>1. CASE k \in FromModel /\ e \in Completed
    BY <1>2, <1>3, <1>4, <1>5, <1>6, <1>8, <2>1
  <2>2. CASE k = n /\ e = m
    BY <1>2, <1>3, <2>2
  <2>3. ~(k = n /\ e \in Completed)
    <3>1. SUFFICES ASSUME k = n, e \in Completed PROVE FALSE
      OBVIOUS
    <3>2. Rank(k, FromModel') = Cardinality(FromModel) + 1
      BY <1>2, <1>4, <3>1
    <3>3. Rank(e, Completed') = Rank(e, Completed)
      BY <1>3, <1>5, <3>1
    <3>4. Rank(e, Completed) \in Nat /\ Rank(e, Completed) <= Cardinality(Completed)
      BY <1>5, <3>1
    <3>5. Rank(e, Completed) = Cardinality(Completed) + 1
      BY <1>6, <1>8, <3>2, <3>3
    <3> QED
      BY <1>5, <3>4, <3>5
  <2>4. ~(k \in FromModel /\ e = m)
    <3>1. SUFFICES ASSUME k \in FromModel, e = m PROVE FALSE
      OBVIOUS
    <3>2. Rank(e, Completed') = Cardinality(Completed) + 1
      BY <1>3, <1>5, <3>1
    <3>3. Rank(k, FromModel') = Rank(k, FromModel)
      BY <1>2, <1>4, <3>1
    <3>4. Rank(k, FromModel) \in Nat /\ Rank(k, FromModel) <= Cardinality(FromModel)
      BY <1>4, <3>1
    <3> QED
      BY <1>4, <1>5, <1>6, <1>8, <3>2, <3>3, <3>4
  <2> QED
    BY <1>2, <1>3, <1>8, <2>1, <2>2, <2>3, <2>4
<1> QED
  BY <1>7, <1>8 DEF ShownBeforeKept

LEMMA BeginShown ==
  ASSUME ListsTyped, StartTurn \/ StartCancelledTurn \/ StartUnheardTurn
  PROVE  ShownBeforeKept' /\ StartBound'
<1>1. Len(history) \in Nat /\ turnStart' = Len(history) + 1
  BY DEF ListsTyped, StartTurn, StartCancelledTurn, StartUnheardTurn, BeginTurn
<1>2. Len(history') \in {Len(history), Len(history) + 1}
      /\ \A k \in TurnItems' : history'[k].side = "input"
  <2>1. CASE history' = history
    BY <1>1, <2>1 DEF TurnItems
  <2>2. CASE history' = Append(history, UserItem)
    <3>1. Len(history') = Len(history) + 1 /\ history'[Len(history) + 1] = UserItem
      BY <2>2, HistoryAppend, MessagesTyped DEF ListsTyped
    <3>2. TurnItems' = {Len(history) + 1}
      BY <1>1, <3>1 DEF TurnItems
    <3> QED
      BY <3>1, <3>2 DEF UserItem, Message, Item
  <2> QED
    BY <2>1, <2>2 DEF StartTurn, StartCancelledTurn, StartUnheardTurn
<1>3. FromModel' = {}
  BY <1>2 DEF FromModel
<1>4. Completed' = {}
  BY DEF Completed, StartTurn, StartCancelledTurn, StartUnheardTurn, Event
<1> QED
  BY <1>1, <1>2, <1>3, <1>4 DEF ShownBeforeKept, StartBound

LEMMA ShownStep ==
  ASSUME ListsTyped, StartBound, ShownBeforeKept, [Next]_vars
  PROVE  ShownBeforeKept' /\ StartBound'
<1>1. CASE /\ UNCHANGED <<history, turnStart>>
           /\ \/ UNCHANGED delivered
              \/ \E kind \in {"StreamError", "TurnComplete", "TurnCancelled"} :
                   delivered' = Append(delivered, Event(kind, NoId))
  <2>1. FromModel' = FromModel /\ StartBound'
    BY <1>1 DEF FromModel, TurnItems, StartBound
  <2>2. Completed' = Completed /\ \A e \in Completed : delivered'[e] = delivered[e]
    <3>1. CASE UNCHANGED delivered
      BY <3>1 DEF Completed
    <3>2. ASSUME NEW kind \in {"StreamError", "TurnComplete", "TurnCancelled"},
                 delivered' = Append(delivered, Event(kind, NoId))
          PROVE  Completed' = Completed /\ \A e \in Completed : delivered'[e] = delivered[e]
      BY <3>2, CompletedAppend
    <3> QED
      BY <1>1, <3>1, <3>2
  <2> QED
    BY <1>1, <2>1, <2>2, SameShown
<1>2. CASE ReceiveMessage
  <2>1. AssistantItem \in HistoryItem /\ AssistantItem.side = "response" /\ AssistantItem.id = NoId
    BY MessagesTyped DEF AssistantItem, Message, Item
  <2>2. /\ history' = Append(history, AssistantItem) /\ turnStart' = turnStart
        /\ delivered' = Append(delivered, Event("ItemCompleted", AssistantItem.id))
    BY <1>2, <2>1 DEF ReceiveMessage, Emit
  <2> QED
    BY <2>1, <2>2, BothShown, FromModelAppend
<1>3. ASSUME NEW c \in CallIds, ReceiveCall(c) PROVE ShownBeforeKept' /\ StartBound'
  <2>1. /\ Call(FamilyOf(c), c) \in HistoryItem /\ Call(FamilyOf(c), c).side = "response"
        /\ Call(FamilyOf(c), c).id = c
    BY ItemsTyped DEF Call, Item
  <2>2. /\ history' = Append(history, Call(FamilyOf(c), c)) /\ turnStart' = turnStart
        /\ delivered' = Append(delivered, Event("ItemCompleted", Call(FamilyOf(c), c).id))
    BY <1>3, <2>1 DEF ReceiveCall, Emit
  <2> QED
    BY <2>1, <2>2, BothShown, FromModelAppend
<1>4. CASE RecordOutput
  <2>1. PICK id \in CallIds : id = Head(calls).id
    <3>1. Head(calls) \in ToolCall
      BY <1>4, HeadTailProperties DEF RecordOutput, ListsTyped
    <3> QED
      BY <3>1 DEF ToolCall
  <2>2. /\ Output(FamilyOf(id), id, "text") \in HistoryItem
        /\ Output(FamilyOf(id), id, "text").side = "input"
    BY ItemsTyped DEF Output, Item
  <2>3. /\ history' = Append(history, Output(FamilyOf(id), id, "text")) /\ turnStart' = turnStart
        /\ \/ delivered' = Append(delivered, Event("ToolEvents", id))
           \/ UNCHANGED delivered
    BY <1>4, <2>1 DEF RecordOutput, Emit
  <2>4. /\ FromModel' = FromModel /\ StartBound'
        /\ \A k \in FromModel : history'[k] = history[k]
    BY <2>2, <2>3, FromModelAppend
  <2>5. Completed' = Completed /\ \A e \in Completed : delivered'[e] = delivered[e]
    <3>1. CASE UNCHANGED delivered
      BY <3>1 DEF Completed
    <3>2. CASE delivered' = Append(delivered, Event("ToolEvents", id))
      BY <3>2, CompletedAppend
    <3> QED
      BY <2>3, <3>1, <3>2
  <2> QED
    BY <2>4, <2>5, SameShown
<1> QED
  BY <1>1, <1>2, <1>3, <1>4, BeginShown, RecordKinds

(***************************************************************************)
(* The terminal event of a turn.                                           *)
(***************************************************************************)
LEMMA EndKinds ==
  ASSUME [Next]_vars
  PROVE  \/ UNCHANGED delivered /\ pc # "idle" /\ pc' # "idle"
         \/ UNCHANGED <<delivered, pc, result>>
         \/ UNCHANGED delivered /\ pc # "idle" /\ pc' = "idle" /\ result' \notin {"ok", "cancelled"}
         \/ /\ pc # "idle" /\ pc' # "idle" /\ sinkOpen
            /\ \E id : \E kind \in {"ItemCompleted", "ToolEvents", "StreamError"} :
                 delivered' = Append(delivered, Event(kind, id))
         \/ /\ pc # "idle" /\ pc' = "idle" /\ result' = "ok" /\ sinkOpen
            /\ delivered' = Append(delivered, Event("TurnComplete", NoId))
         \/ /\ pc # "idle" /\ pc' = "idle" /\ result' = "cancelled" /\ sinkOpen /\ cancelled
            /\ delivered' = Append(delivered, Event("TurnCancelled", NoId))
         \/ StartTurn \/ StartCancelledTurn \/ StartUnheardTurn
<1> USE DEF EndTurn, EndCancelled, Emit
<1>1. CASE LoopStep
  BY <1>1 DEF LoopStep, EnterIteration, CancelledAtLoop, LoopExceeded, SendRequest,
              OpenStream, RequestRefused
<1>2. CASE StreamStep
  <2> USE DEF StreamEvent
  <2>1. CASE CancelledInStream \/ StreamFails \/ StreamUnheard \/ StreamCloses
    BY <2>1 DEF CancelledInStream, StreamFails, StreamUnheard, StreamCloses
  <2>2. CASE ReceiveMessage \/ \E c \in CallIds : ReceiveCall(c)
    BY <2>2 DEF ReceiveMessage, ReceiveCall
  <2>3. CASE \E followUp \in BOOLEAN : ReceiveCompleted(followUp)
    BY <2>3 DEF ReceiveCompleted
  <2> QED
    BY <1>2, <2>1, <2>2, <2>3 DEF StreamStep
<1>3. CASE ToolStep
  <2> USE DEF Recorded
  <2>1. CASE StartBatch \/ DispatchEnded \/ NextIteration
             \/ \E k \in DOMAIN calls, how \in {"loud", "quiet"} : FinishTool(k, how)
    BY <2>1 DEF StartBatch, FinishTool, DispatchEnded, NextIteration
  <2>2. CASE RecordOutput \/ RetrySampling
    BY <2>2 DEF RecordOutput, RetrySampling
  <2>3. CASE RecordUnheard \/ RetryUnheard \/ RetriesExhausted
    BY <2>3 DEF RecordUnheard, RetryUnheard, RetriesExhausted
  <2> QED
    BY <1>3, <2>1, <2>2, <2>3 DEF ToolStep
<1>4. CASE CallerStep
  BY <1>4 DEF CallerStep, Cancel, CloseSink
<1>5. CASE UNCHANGED vars
  BY <1>5
<1> QED
  BY <1>1, <1>2, <1>3, <1>4, <1>5 DEF Next

LEMMA TerminalStep ==
  ASSUME ListsTyped, TurnShape, TerminalEventMatchesResult, [Next]_vars
  PROVE  TerminalEventMatchesResult'
<1> USE DEF Terminal
<1>1. pc # "idle" => \A k \in DOMAIN delivered : delivered[k].kind \notin Terminal
  BY DEF TerminalEventMatchesResult
<1>2. CASE UNCHANGED delivered /\ pc # "idle" /\ pc' # "idle"
  BY <1>1, <1>2 DEF TerminalEventMatchesResult
<1>3. CASE UNCHANGED <<delivered, pc, result>>
  BY <1>3 DEF TerminalEventMatchesResult
<1>4. CASE UNCHANGED delivered /\ pc # "idle" /\ pc' = "idle" /\ result' \notin {"ok", "cancelled"}
  BY <1>1, <1>4 DEF TerminalEventMatchesResult
<1>5. ASSUME NEW kind, NEW id, pc # "idle", delivered' = Append(delivered, Event(kind, id)),
             \/ kind \notin Terminal /\ pc' # "idle"
             \/ kind = "TurnComplete" /\ pc' = "idle" /\ result' = "ok"
             \/ kind = "TurnCancelled" /\ pc' = "idle" /\ result' = "cancelled"
      PROVE  TerminalEventMatchesResult'
  <2>1. /\ Len(delivered) \in Nat /\ DOMAIN delivered = 1 .. Len(delivered)
        /\ DOMAIN delivered' = 1 .. Len(delivered) + 1 /\ Len(delivered') = Len(delivered) + 1
        /\ \A k \in DOMAIN delivered : delivered'[k] = delivered[k]
        /\ delivered'[Len(delivered) + 1].kind = kind
    BY <1>5, DeliveredAppend
  <2>2. \A k \in DOMAIN delivered' :
          delivered'[k].kind \in Terminal => k = Len(delivered') /\ kind \in Terminal
    <3>1. ASSUME NEW k \in DOMAIN delivered', delivered'[k].kind \in Terminal
          PROVE  k = Len(delivered) + 1
      <4>1. k \notin DOMAIN delivered
        BY <1>1, <1>5, <2>1, <3>1
      <4> QED
        BY SMTT(30), <2>1, <4>1
    <3> QED
      BY <2>1, <3>1
  <2>3. \A k \in DOMAIN delivered' : delivered'[k].kind \in Terminal => delivered'[k].kind = kind
    BY <2>1, <2>2
  <2>4. Len(delivered') \in DOMAIN delivered' /\ delivered'[Len(delivered')].kind = kind
    BY <2>1
  <2> QED
    BY <1>5, <2>2, <2>3, <2>4 DEF TerminalEventMatchesResult
<1>6. CASE StartTurn \/ StartCancelledTurn \/ StartUnheardTurn
  <2> USE DEF TerminalEventMatchesResult, Event
  <2>1. CASE StartTurn
    BY <2>1 DEF StartTurn
  <2>2. CASE StartCancelledTurn
    <3>1. /\ DOMAIN delivered' = {1, 2} /\ Len(delivered') = 2
          /\ delivered'[1].kind = "TurnStarted" /\ delivered'[2].kind = "TurnCancelled"
      BY <2>2 DEF StartCancelledTurn
    <3>2. pc' = "idle" /\ result' = "cancelled"
      BY <2>2 DEF StartCancelledTurn
    <3> QED
      BY <3>1, <3>2
  <2>3. CASE StartUnheardTurn
    BY <2>3 DEF StartUnheardTurn
  <2> QED
    BY <1>6, <2>1, <2>2, <2>3
<1>7. ASSUME NEW kind \in {"ItemCompleted", "ToolEvents", "StreamError"}, NEW id,
             pc # "idle", pc' # "idle", delivered' = Append(delivered, Event(kind, id))
      PROVE  TerminalEventMatchesResult'
  BY <1>5, <1>7
<1>8. CASE /\ pc # "idle" /\ pc' = "idle" /\ result' = "ok"
           /\ delivered' = Append(delivered, Event("TurnComplete", NoId))
  BY <1>5, <1>8
<1>9. CASE /\ pc # "idle" /\ pc' = "idle" /\ result' = "cancelled"
           /\ delivered' = Append(delivered, Event("TurnCancelled", NoId))
  BY <1>5, <1>9
<1> QED
  BY <1>2, <1>3, <1>4, <1>6, <1>7, <1>8, <1>9, EndKinds

\* The caller sees exactly what happened: the items the session keeps, before it
\* keeps them and in the same order, and in the end the one terminal event that
\* matches the way the turn ended (session.rs:240-256, 467-482, 513-531).
THEOREM EventsMatchTurns == Spec => []EventsMatchTurn
<1>1. Init => StartBound /\ ShownBeforeKept /\ TerminalEventMatchesResult
  BY DEF Init, StartBound, ShownBeforeKept, FromModel, Completed, TurnItems,
         TerminalEventMatchesResult
<1>2. TypeOK /\ TurnShape /\ StartBound /\ ShownBeforeKept /\ TerminalEventMatchesResult
        /\ [Next]_vars
      => StartBound' /\ ShownBeforeKept' /\ TerminalEventMatchesResult'
  BY ShownStep, TerminalStep DEF TypeOK
<1>3. ShownBeforeKept /\ TerminalEventMatchesResult => EventsMatchTurn
  BY DEF EventsMatchTurn
<1> QED
  BY <1>1, <1>2, <1>3, TurnShapeHolds, PTL DEF Spec

-----------------------------------------------------------------------------
(***************************************************************************)
(* The requests. The history of a session is one that normalisation can    *)
(* render for the provider: each call has its own id, each output follows  *)
(* its call, and no other output has its id.                               *)
(***************************************************************************)
OutputsFromCore == \A k \in OutputAt : history[k].side = "input"

LEMMA OutputsFromCoreStep ==
  ASSUME TypeOK, CallsInv, OutputsFromCore, [Next]_vars
  PROVE  OutputsFromCore'
<1>1. history \in Seq(HistoryItem) /\ DOMAIN history = 1 .. Len(history)
  BY DEF TypeOK, ListsTyped
<1>2. ASSUME NEW item \in HistoryItem, history' = Append(history, item),
             item.kind = "output" => item.side = "input"
      PROVE  OutputsFromCore'
  <2>1. /\ Len(history) \in Nat
        /\ DOMAIN history' = 1 .. Len(history) + 1
        /\ \A k \in DOMAIN history : history'[k] = history[k]
        /\ history'[Len(history) + 1] = item
    BY <1>1, <1>2, HistoryAppend
  <2>2. ASSUME NEW k \in DOMAIN history', history'[k].kind = "output"
        PROVE  history'[k].side = "input"
    <3>1. CASE k = Len(history) + 1
      BY <1>2, <2>1, <2>2, <3>1
    <3>2. CASE k # Len(history) + 1
      <4>1. k \in DOMAIN history /\ history'[k] = history[k]
        BY <1>1, <2>1, <3>2
      <4> QED
        BY <2>2, <4>1 DEF OutputsFromCore, OutputAt, IndicesOf
    <3> QED
      BY <3>1, <3>2
  <2> QED
    BY SMTT(30), <2>2 DEF OutputsFromCore, OutputAt, IndicesOf
<1>3. CASE history' = history
  BY <1>3 DEF OutputsFromCore, OutputAt, IndicesOf
<1>4. CASE StartTurn \/ ReceiveMessage
  <2>1. PICK item \in {UserItem, AssistantItem} : history' = Append(history, item)
    BY <1>4 DEF StartTurn, ReceiveMessage
  <2>2. item \in HistoryItem /\ item.kind = "message"
    BY MessagesTyped DEF UserItem, AssistantItem, Message, Item
  <2> QED
    BY <1>2, <2>1, <2>2
<1>5. ASSUME NEW c \in CallIds, ReceiveCall(c) PROVE OutputsFromCore'
  <2>1. Call(FamilyOf(c), c) \in HistoryItem /\ Call(FamilyOf(c), c).kind = "call"
    BY ItemsTyped DEF Call, Item
  <2> QED
    BY <1>2, <1>5, <2>1 DEF ReceiveCall
<1>6. CASE RecordOutput
  <2>1. PICK c : c = Head(calls).id
    OBVIOUS
  <2>2. calls \in Seq(ToolCall) /\ calls # << >>
    BY <1>6 DEF RecordOutput, TypeOK, ListsTyped
  <2>3. c \in CallIds
    <3>1. Head(calls) \in ToolCall
      BY <2>2
    <3> QED
      BY <2>1, <3>1 DEF ToolCall
  <2>4. Output(FamilyOf(c), c, "text") \in HistoryItem /\ Output(FamilyOf(c), c, "text").side = "input"
    BY <2>3, ItemsTyped DEF Output, Item
  <2> QED
    BY <1>2, <1>6, <2>1, <2>4 DEF RecordOutput
<1>7. CASE StartCancelledTurn \/ StartUnheardTurn
  BY <1>3, <1>7 DEF StartCancelledTurn, StartUnheardTurn
<1> QED
  BY <1>3, <1>4, <1>5, <1>6, <1>7, RecordKinds

LEMMA HistoryIsOfItems ==
  ASSUME TypeOK
  PROVE  history \in Seq(AnyItem) /\ \A k \in DOMAIN history : history[k].exec = "client"
<1>1. history \in Seq(HistoryItem)
  BY DEF TypeOK, ListsTyped
<1>2. ASSUME NEW x \in HistoryItem PROVE x \in AnyItem /\ x.exec = "client"
  BY DEF HistoryItem, AnyItem, Kinds, FamilyNames, Ids, Sides, Execs, Bodies
<1>3. Len(history) \in Nat /\ DOMAIN history = 1 .. Len(history)
      /\ \A k \in 1 .. Len(history) : history[k] \in HistoryItem
  BY <1>1
<1>4. history = [k \in 1 .. Len(history) |-> history[k]]
  BY <1>1, <1>3
<1>5. \A k \in 1 .. Len(history) : history[k] \in AnyItem
  BY <1>2, <1>3
<1>6. history \in Seq(AnyItem)
  BY <1>3, <1>4, <1>5, IsASeq
<1> QED
  BY <1>2, <1>3, <1>6

LEMMA HistoryIsWellBuilt ==
  ASSUME TypeOK, OrderInv, OutputsFromCore
  PROVE  WellBuilt(history)
<1>1. \A k \in DOMAIN history : history[k].exec = "client"
  BY HistoryIsOfItems
<1>2. ASSUME NEW k \in DOMAIN history, history[k].kind = "call" \/ history[k].kind = "output"
      PROVE  /\ history[k].id \in CallIds /\ history[k].id # NoId
             /\ history[k].family = FamilyOf(history[k].id)
  BY <1>2, NoIdAssumption DEF OrderInv, CallsKept, CallAt, OutputAt, IndicesOf
<1>3. ASSUME NEW j \in DOMAIN history, NEW k \in DOMAIN history,
             history[j].kind = "call", history[k].kind = "call", history[j].id = history[k].id
      PROVE  j = k
  BY <1>3 DEF OrderInv, CallsKept, CallAt, IndicesOf
<1>4. ASSUME NEW k \in DOMAIN history, history[k].kind = "output"
      PROVE  \E c \in DOMAIN history : /\ c < k /\ history[c].kind = "call"
                                       /\ history[c].family = history[k].family
                                       /\ history[c].id = history[k].id
  BY <1>4 DEF OrderInv, OutputsInCallOrder, IndicesOf, Answers
<1>5. ASSUME NEW j \in DOMAIN history, NEW k \in DOMAIN history, j < k,
             history[j].kind = "output", history[k].kind = "output", history[j].id = history[k].id
      PROVE  FALSE
  <2>1. PICK c \in DOMAIN history : /\ history[c].kind = "call"
                                    /\ history[c].family = history[j].family
                                    /\ history[c].id = history[j].id
    BY <1>4, <1>5
  <2>2. history[j].family = history[k].family
    BY <1>2, <1>5
  <2>3. Answers(j, c) /\ Answers(k, c)
    BY <1>5, <2>1, <2>2 DEF Answers
  <2>4. c < c
    BY <1>5, <2>1, <2>3 DEF OrderInv, OutputsInCallOrder, IndicesOf
  <2>5. c \in Nat
    BY DEF TypeOK, ListsTyped
  <2> QED
    BY <2>4, <2>5
<1>6. ASSUME NEW k \in DOMAIN history, history[k].kind = "output"
      PROVE  history[k].side = "input"
  BY <1>6 DEF OutputsFromCore, OutputAt, IndicesOf
<1> QED
  <2>1. \A k \in DOMAIN history :
          history[k].kind = "output" /\ history[k].side = "input" =>
            /\ history[k].id # NoId
            /\ \E j \in DOMAIN history : /\ j < k /\ history[j].kind = "call"
                                         /\ history[j].family = history[k].family
                                         /\ history[j].id = history[k].id
            /\ \A j \in DOMAIN history :
                 j < k => ~(history[j].kind = "output" /\ history[j].id = history[k].id)
    BY <1>2, <1>4, <1>5
  <2>2. \A k \in DOMAIN history : ~(history[k].kind = "output" /\ history[k].side = "response")
    BY <1>6
  <2> QED
    BY <1>1, <1>2, <1>3, <2>1, <2>2 DEF WellBuilt

-----------------------------------------------------------------------------
(***************************************************************************)
(* The last request was made of the first m items of the history. It is    *)
(* right about them for ever: no call among them waits for its output, and *)
(* none of their outputs comes later.                                      *)
(***************************************************************************)
PromptOf(m) ==
  /\ m \in Nat /\ m <= Len(history)
  /\ prompt = ForPrompt(SubSeq(history, 1, m), TRUE)
  /\ pc = "opening" => m = Len(history)
  /\ \A k \in DOMAIN calls, c \in CallAt : history[c].id = calls[k].id => m < c
  /\ \A c \in CallAt, o \in OutputAt : c <= m /\ history[o].id = history[c].id => o <= m

PromptInv == \E m \in Nat : PromptOf(m)

LEMMA RequestKinds ==
  [Next]_vars =>
    SendRequest \/ (prompt' = prompt /\ (pc' = "opening" => pc = "opening" /\ history' = history))
<1> SUFFICES ASSUME [Next]_vars
             PROVE  \/ SendRequest
                    \/ /\ prompt' = prompt
                       /\ pc' = "opening" => pc = "opening" /\ history' = history
  OBVIOUS
<1> USE DEF EndTurn, EndCancelled
<1>1. CASE LoopStep
  BY <1>1 DEF LoopStep, EnterIteration, CancelledAtLoop, LoopExceeded, OpenStream, RequestRefused
<1>2. CASE StreamStep
  BY <1>2 DEF StreamStep, CancelledInStream, StreamFails, StreamUnheard, ReceiveMessage,
              ReceiveCall, ReceiveCompleted, StreamCloses, StreamEvent
<1>3. CASE ToolStep
  BY <1>3 DEF ToolStep, StartBatch, FinishTool, DispatchEnded, RecordOutput, RecordUnheard,
              NextIteration, RetrySampling, RetryUnheard, RetriesExhausted, Recorded
<1>4. CASE CallerStep
  BY <1>4 DEF CallerStep, StartTurn, StartCancelledTurn, StartUnheardTurn, BeginTurn,
              Cancel, CloseSink
<1>5. CASE UNCHANGED vars
  BY <1>5
<1> QED
  BY <1>1, <1>2, <1>3, <1>4, <1>5 DEF Next

\* A longer list begins with what the shorter one begins with.
LEMMA SameBeginning ==
  ASSUME NEW S, NEW s \in Seq(S), NEW x \in S, NEW m \in Nat, m <= Len(s)
  PROVE  SubSeq(Append(s, x), 1, m) = SubSeq(s, 1, m)
<1>1. Append(s, x) \in Seq(S) /\ Len(Append(s, x)) = Len(s) + 1
      /\ \A k \in 1 .. Len(s) : Append(s, x)[k] = s[k]
  BY AppendProperties
<1>2. PICK t : t = Append(s, x)
  OBVIOUS
<1>3. /\ SubSeq(t, 1, m) \in Seq(S) /\ Len(SubSeq(t, 1, m)) = m
      /\ \A k \in 1 .. m : SubSeq(t, 1, m)[k] = t[k]
  BY <1>1, <1>2
<1>4. /\ SubSeq(s, 1, m) \in Seq(S) /\ Len(SubSeq(s, 1, m)) = m
      /\ \A k \in 1 .. m : SubSeq(s, 1, m)[k] = s[k]
  OBVIOUS
<1>5. \A k \in 1 .. m : t[k] = s[k]
  BY <1>1, <1>2
<1>6. SubSeq(t, 1, m) = SubSeq(s, 1, m)
  BY <1>3, <1>4, <1>5, SeqEqual
<1> QED
  BY <1>2, <1>6

\* An item behind the last request leaves it right, unless it answers a call
\* the request told of.
Adds(item, m) ==
  /\ item \in HistoryItem /\ history' = Append(history, item)
  /\ prompt' = prompt /\ pc' # "opening"
  /\ \A c \in CallAt : item.kind = "output" /\ item.id = history[c].id => m < c
  /\ \A k \in DOMAIN calls', c \in CallAt : history[c].id = calls'[k].id => m < c

LEMMA AddedBehindPrompt ==
  ASSUME ListsTyped, NEW m, PromptOf(m), NEW item, Adds(item, m)
  PROVE  PromptOf(m)'
<1>1. /\ item \in HistoryItem /\ history' = Append(history, item)
      /\ history \in Seq(HistoryItem) /\ m \in Nat /\ m <= Len(history) /\ prompt' = prompt
      /\ prompt = ForPrompt(SubSeq(history, 1, m), TRUE)
  BY DEF Adds, ListsTyped, PromptOf
<1>2. PICK n : n = Len(history) + 1
  OBVIOUS
<1>3. /\ Len(history) \in Nat /\ DOMAIN history = 1 .. Len(history)
      /\ DOMAIN history' = 1 .. n /\ Len(history') = n
      /\ \A k \in DOMAIN history : history'[k] = history[k]
      /\ history'[n] = item
  BY <1>1, <1>2, HistoryAppend
<1>4. \A k \in DOMAIN history' : k \in DOMAIN history \/ k = n
  BY <1>2, <1>3
<1>5. m < n /\ m <= Len(history') /\ DOMAIN history \subseteq Nat /\ n \in Nat
  BY <1>1, <1>2, <1>3
<1>6. SubSeq(history', 1, m) = SubSeq(history, 1, m)
  BY <1>1, SameBeginning
<1>7. ASSUME NEW k \in DOMAIN calls', NEW c \in CallAt', history'[c].id = calls'[k].id
      PROVE  m < c
  <2>1. CASE c = n
    BY <1>5, <2>1
  <2>2. CASE c # n
    <3>1. c \in DOMAIN history /\ history'[c] = history[c] /\ history'[c].kind = "call"
      BY <1>3, <1>4, <2>2 DEF CallAt, IndicesOf
    <3>2. c \in CallAt
      BY <3>1 DEF CallAt, IndicesOf
    <3> QED
      BY <1>7, <3>1, <3>2 DEF Adds
  <2> QED
    BY <2>1, <2>2
<1>8. ASSUME NEW c \in CallAt', NEW o \in OutputAt', c <= m, history'[o].id = history'[c].id
      PROVE  o <= m
  <2>1. c \in DOMAIN history' /\ history'[c].kind = "call"
        /\ o \in DOMAIN history' /\ history'[o].kind = "output"
    BY DEF CallAt, OutputAt, IndicesOf
  <2>2. c \in DOMAIN history /\ history'[c] = history[c]
    BY <1>1, <1>3, <1>4, <1>5, <1>8, <2>1
  <2>3. c \in CallAt
    BY <2>1, <2>2 DEF CallAt, IndicesOf
  <2>4. CASE o = n
    <3>1. item.kind = "output" /\ item.id = history[c].id
      BY <1>3, <1>8, <2>1, <2>2, <2>4
    <3>2. m < c
      BY <2>3, <3>1 DEF Adds
    <3> QED
      BY <1>1, <1>5, <1>8, <2>2, <3>2
  <2>5. CASE o # n
    <3>1. o \in DOMAIN history /\ history'[o] = history[o]
      BY <1>3, <1>4, <2>1, <2>5
    <3>2. o \in OutputAt
      BY <2>1, <3>1 DEF OutputAt, IndicesOf
    <3> QED
      BY <1>8, <2>2, <2>3, <3>1, <3>2 DEF PromptOf
  <2> QED
    BY <2>4, <2>5
<1>9. pc' # "opening"
  BY DEF Adds
<1>10. prompt' = ForPrompt(SubSeq(history', 1, m), TRUE)
  BY <1>1, <1>6
<1> QED
  BY <1>1, <1>5, <1>7, <1>8, <1>9, <1>10 DEF PromptOf

LEMMA SendKeepsPrompt ==
  ASSUME ListsTyped, SendRequest, NEW m, m = Len(history)
  PROVE  PromptOf(m)'
<1>1. history' = history /\ calls' = << >> /\ prompt' = ForPrompt(history, TRUE)
  BY DEF SendRequest
<1>2. m \in Nat /\ DOMAIN history = 1 .. m /\ history \in Seq(HistoryItem)
  BY DEF ListsTyped
<1>3. SubSeq(history, 1, m) = history
  BY <1>2
<1>4. \A o \in OutputAt : o <= m
  BY <1>2 DEF OutputAt, IndicesOf
<1>5. OutputAt' = OutputAt
  BY <1>1 DEF OutputAt, IndicesOf
<1>6. m \in Nat /\ m = Len(history') /\ m <= Len(history')
  BY <1>1, <1>2
<1>7. prompt' = ForPrompt(SubSeq(history', 1, m), TRUE)
  BY <1>1, <1>3
<1>8. \A k \in DOMAIN calls', c \in CallAt' : history'[c].id = calls'[k].id => m < c
  BY <1>1
<1>9. \A c \in CallAt', o \in OutputAt' : c <= m /\ history'[o].id = history'[c].id => o <= m
  BY <1>4, <1>5
<1> QED
  BY <1>6, <1>7, <1>8, <1>9 DEF PromptOf

LEMMA PromptStep ==
  ASSUME TypeOK, CallsInv, OrderInv, PromptInv, [Next]_vars
  PROVE  PromptInv'
<1>0. PICK m \in Nat : PromptOf(m)
  BY DEF PromptInv
<1>1. ListsTyped /\ calls \in Seq(ToolCall) /\ history \in Seq(HistoryItem)
  BY DEF TypeOK, ListsTyped
<1>2. CASE SendRequest
  <2>1. PICK n \in Nat : n = Len(history)
    BY <1>1
  <2>2. PromptOf(n)'
    BY <1>1, <1>2, <2>1, SendKeepsPrompt
  <2> QED
    BY <2>2 DEF PromptInv
<1>3. CASE ~SendRequest
  <2>1. prompt' = prompt /\ (pc' = "opening" => pc = "opening" /\ history' = history)
    BY <1>3, RequestKinds
  <2>2. SUFFICES PromptOf(m)'
    BY DEF PromptInv
  <2>3. \A k \in DOMAIN calls, c \in CallAt : history[c].id = calls[k].id => m < c
    BY <1>0 DEF PromptOf
  <2>4. ASSUME history' = history,
               \/ calls' = << >>
               \/ DOMAIN calls' = DOMAIN calls /\ \A k \in DOMAIN calls : calls'[k].id = calls[k].id
        PROVE  PromptOf(m)'
    <3>1. CallAt' = CallAt /\ OutputAt' = OutputAt
      BY <2>4 DEF CallAt, OutputAt, IndicesOf
    <3>2. \A k \in DOMAIN calls', c \in CallAt' : history'[c].id = calls'[k].id => m < c
      BY <2>3, <2>4, <3>1
    <3> QED
      BY <1>0, <2>1, <2>4, <3>1, <3>2 DEF PromptOf
  <2>5. CASE StartTurn \/ ReceiveMessage
    <3>1. PICK item \in {UserItem, AssistantItem} : history' = Append(history, item)
      BY <2>5 DEF StartTurn, ReceiveMessage
    <3>2. item \in HistoryItem /\ item.kind = "message"
      BY MessagesTyped DEF UserItem, AssistantItem, Message, Item
    <3>3. pc' # "opening" /\ (calls' = calls \/ calls' = << >>)
      BY <2>5 DEF StartTurn, BeginTurn, ReceiveMessage, StreamEvent
    <3>4. Adds(item, m)
      BY <2>1, <2>3, <3>1, <3>2, <3>3 DEF Adds
    <3> QED
      BY <1>0, <1>1, <3>4, AddedBehindPrompt
  <2>6. ASSUME NEW id \in CallIds, ReceiveCall(id) PROVE PromptOf(m)'
    <3>1. /\ history' = Append(history, Call(FamilyOf(id), id)) /\ calls' = Append(calls, Queued(id))
          /\ \A k \in DOMAIN history : history[k].id # id
          /\ pc' # "opening"
      BY <2>6 DEF ReceiveCall, StreamEvent
    <3>2. Call(FamilyOf(id), id) \in HistoryItem /\ Call(FamilyOf(id), id).kind = "call"
      BY ItemsTyped DEF Call, Item
    <3>3. Queued(id) \in ToolCall /\ Queued(id).id = id
      BY DEF Queued, ToolCall
    <3>4. ASSUME NEW k \in DOMAIN calls', NEW c \in CallAt, history[c].id = calls'[k].id
          PROVE  m < c
      <4>1. calls'[k].id # id
        BY <3>1, <3>4 DEF CallAt, IndicesOf
      <4>2. k \in DOMAIN calls /\ calls'[k] = calls[k]
        BY <1>1, <3>1, <3>3, <4>1
      <4> QED
        BY <2>3, <3>4, <4>2
    <3>5. Adds(Call(FamilyOf(id), id), m)
      BY <2>1, <3>1, <3>2, <3>4 DEF Adds
    <3> QED
      BY <1>0, <1>1, <3>5, AddedBehindPrompt
  <2>7. CASE RecordOutput
    <3>1. PICK id : id = Head(calls).id
      OBVIOUS
    <3>2. /\ calls # << >> /\ calls' = Tail(calls) /\ pc' # "opening"
          /\ history' = Append(history, Output(FamilyOf(id), id, "text"))
      BY <2>7, <3>1 DEF RecordOutput
    <3>3. /\ 1 \in DOMAIN calls /\ id = calls[1].id /\ id \in CallIds
          /\ \A k \in DOMAIN Tail(calls) : k + 1 \in DOMAIN calls /\ Tail(calls)[k] = calls[k+1]
      <4>1. /\ Tail(calls) \in Seq(ToolCall) /\ Len(Tail(calls)) = Len(calls) - 1
            /\ \A k \in 1 .. Len(Tail(calls)) : Tail(calls)[k] = calls[k+1]
        BY <1>1, <3>2, HeadTailProperties
      <4>2. 1 \in DOMAIN calls /\ Head(calls) = calls[1] /\ calls[1] \in ToolCall
        BY <1>1, <3>2
      <4>3. calls[1].id \in CallIds
        BY <4>2 DEF ToolCall
      <4> QED
        BY <1>1, <3>1, <4>1, <4>2, <4>3
    <3>4. /\ Output(FamilyOf(id), id, "text") \in HistoryItem
          /\ Output(FamilyOf(id), id, "text").id = id
      BY <3>3, ItemsTyped DEF Output, Item
    <3>5. Adds(Output(FamilyOf(id), id, "text"), m)
      BY <2>1, <2>3, <3>2, <3>3, <3>4 DEF Adds
    <3> QED
      BY <1>0, <1>1, <3>5, AddedBehindPrompt
  <2>8. CASE StartCancelledTurn \/ StartUnheardTurn
    BY <2>4, <2>8 DEF StartCancelledTurn, StartUnheardTurn, BeginTurn
  <2>9. CASE history' = history
    BY <1>1, <2>4, <2>6, <2>7, <2>9, PendingKinds
  <2> QED
    BY <2>5, <2>6, <2>7, <2>8, <2>9, RecordKinds
<1> QED
  BY <1>2, <1>3

LEMMA EmptyPrompt == ForPrompt(<< >>, TRUE) = << >>
<1>1. PICK none : none = << >>
  OBVIOUS
<1>2. none \in Seq(AnyItem) /\ DOMAIN none = {} /\ Len(none) = 0
  BY <1>1
<1>3. LackingAt(none) = {} /\ KeptAt(none) = DOMAIN none
  BY <1>2 DEF LackingAt, KeptAt
<1>4. RemoveOrphanOutputs(EnsureCallOutputsPresent(none)) = none
  BY <1>2, <1>3, NothingAdded, NothingRemoved
<1>5. PICK made : made = ForPrompt(none, TRUE)
  OBVIOUS
<1>6. made \in Seq(AnyItem) /\ Len(made) = Len(none)
  BY ZenonT(30), <1>2, <1>4, <1>5, PromptMaps
<1>7. made = << >>
  BY <1>2, <1>6
<1> QED
  BY <1>1, <1>5, <1>7

RequestInv == OutputsFromCore /\ PromptInv

LEMMA RequestInvariant ==
  Spec => [](TypeOK /\ CallsInv /\ RecordInv /\ RequestInv)
<1>1. Init => RequestInv
  <2> SUFFICES ASSUME Init PROVE RequestInv
    OBVIOUS
  <2>1. history = << >> /\ calls = << >> /\ prompt = << >> /\ pc # "opening"
    BY DEF Init
  <2>2. CallAt = {} /\ OutputAt = {}
    BY <2>1 DEF CallAt, OutputAt, IndicesOf
  <2>3. SubSeq(history, 1, 0) = << >> /\ Len(history) = 0
    BY <2>1
  <2>4. prompt = ForPrompt(SubSeq(history, 1, 0), TRUE)
    BY <2>1, <2>3, EmptyPrompt
  <2>5. PICK m \in Nat : m = 0
    OBVIOUS
  <2>6. m \in Nat /\ m <= Len(history) /\ prompt = ForPrompt(SubSeq(history, 1, m), TRUE)
    BY <2>3, <2>4, <2>5
  <2>7. \A k \in DOMAIN calls, c \in CallAt : history[c].id = calls[k].id => m < c
    BY <2>2
  <2>8. \A c \in CallAt, o \in OutputAt : c <= m /\ history[o].id = history[c].id => o <= m
    BY <2>2
  <2>9. PromptOf(m)
    BY <2>1, <2>6, <2>7, <2>8 DEF PromptOf
  <2> QED
    BY <2>2, <2>9 DEF RequestInv, OutputsFromCore, PromptInv
<1>2. TypeOK /\ CallsInv /\ RecordInv /\ RequestInv /\ [Next]_vars => RequestInv'
  BY OutputsFromCoreStep, PromptStep DEF RecordInv, RequestInv
<1> QED
  BY <1>1, <1>2, RecordInvariant, PTL DEF Spec

\* Every request passes the pairing validator of the test suite and says
\* "aborted" of no call of the turn under way, whatever retries, cancelled
\* turns and broken sinks came before it (session.rs:258-287, 395-403 with
\* history.rs:65-85, tests/core.rs:1363).
THEOREM RequestsAreRight == Spec => []RequestsRight
<1>1. TypeOK /\ RecordInv /\ RequestInv => RequestsValid
  <2> SUFFICES ASSUME TypeOK, RecordInv, RequestInv, pc = "opening"
               PROVE  RequestBodyValid(prompt)
    BY DEF RequestsValid
  <2>1. PICK m \in Nat : PromptOf(m)
    BY DEF RequestInv, PromptInv
  <2>2. history \in Seq(AnyItem)
    BY HistoryIsOfItems
  <2>3. prompt = ForPrompt(history, TRUE)
    <3>1. prompt = ForPrompt(SubSeq(history, 1, Len(history)), TRUE)
      BY <2>1 DEF PromptOf
    <3>2. SubSeq(history, 1, Len(history)) = history
      BY <2>2
    <3> QED
      BY <3>1, <3>2
  <2>4. prompt \in Seq(AnyItem) /\ \E own : Shows(own, history, prompt)
    BY <2>2, <2>3, PromptShows
  <2>5. PICK own : Shows(own, history, prompt)
    BY <2>4
  <2>6. WellBuilt(history)
    BY HistoryIsWellBuilt DEF RecordInv, RequestInv
  <2> QED
    BY <2>2, <2>4, <2>5, <2>6, BuiltIsValid
<1>2. RecordInv => NoFalseAbort
  BY DEF RecordInv, LossInv, NoneForgotten, CallsWait, NoFalseAbort
<1>3. TypeOK /\ RecordInv /\ RequestInv => RequestsRight
  BY <1>1, <1>2 DEF RequestsRight
<1> QED
  BY <1>3, RequestInvariant, PTL

-----------------------------------------------------------------------------
\* The history grows over the last request without changing what it told.
LEMMA HistoryGrowsOnPrompt ==
  ASSUME TypeOK, OrderInv, NEW m, PromptOf(m)
  PROVE  SubSeq(history, 1, m) \in Seq(AnyItem) /\ Grows(SubSeq(history, 1, m), history)
<1>1. m \in Nat /\ m <= Len(history)
  BY DEF PromptOf
<1>2. history \in Seq(AnyItem) /\ Len(history) \in Nat /\ DOMAIN history = 1 .. Len(history)
  BY HistoryIsOfItems
<1>3. PICK told : told = SubSeq(history, 1, m)
  OBVIOUS
<1>4. /\ told \in Seq(AnyItem) /\ Len(told) = m /\ DOMAIN told = 1 .. m
      /\ \A k \in 1 .. m : told[k] = history[k] /\ k \in DOMAIN history
  BY <1>1, <1>2, <1>3
<1>5. Begins(told, history)
  BY <1>1, <1>4 DEF Begins
<1>6. ASSUME NEW o \in DOMAIN history, history[o].kind = "output"
      PROVE  \E c \in DOMAIN history : /\ c < o /\ history[c].kind = "call"
                                       /\ history[c].family = history[o].family
                                       /\ history[c].id = history[o].id
  BY <1>6 DEF OrderInv, OutputsInCallOrder, IndicesOf, Answers
<1>7. ASSUME NEW k \in DOMAIN history, history[k].kind \in {"call", "output"}
      PROVE  history[k].id # NoId /\ history[k].family = FamilyOf(history[k].id)
  BY <1>7, NoIdAssumption DEF OrderInv, CallsKept, CallAt, OutputAt, IndicesOf
<1>8. ASSUME NEW k \in DOMAIN told PROVE k \in KeptAt(told)
  <2>1. SUFFICES ASSUME told[k].kind = "output" PROVE KeptOutput(told, told[k])
    BY DEF KeptAt
  <2>2. k \in DOMAIN history /\ told[k] = history[k] /\ history[k].kind = "output"
    BY <1>4, <2>1
  <2>3. PICK c \in DOMAIN history : /\ c < k /\ history[c].kind = "call"
                                    /\ history[c].family = history[k].family
                                    /\ history[c].id = history[k].id
    BY <1>6, <2>2
  <2>4. c \in DOMAIN told /\ told[c] = history[c]
    BY <1>1, <1>2, <1>4, <2>3
  <2>5. told[c].id # NoId
    BY <1>7, <2>3, <2>4
  <2>6. told[k].id \in CallIdsOf(told, told[k].family)
    BY <2>2, <2>3, <2>4, <2>5 DEF CallIdsOf
  <2> QED
    BY <2>6 DEF KeptOutput
<1>9. ASSUME NEW k \in DOMAIN history PROVE k \in KeptAt(history)
  <2>1. SUFFICES ASSUME history[k].kind = "output" PROVE KeptOutput(history, history[k])
    BY DEF KeptAt
  <2>2. PICK c \in DOMAIN history : /\ history[c].kind = "call"
                                    /\ history[c].family = history[k].family
                                    /\ history[c].id = history[k].id
    BY <1>6, <2>1
  <2>3. history[c].id # NoId
    BY <1>7, <2>2
  <2>4. history[k].id \in CallIdsOf(history, history[k].family)
    BY <2>2, <2>3 DEF CallIdsOf
  <2> QED
    BY <2>4 DEF KeptOutput
<1>10. ASSUME NEW k \in DOMAIN told
       PROVE  k \in LackingAt(told) <=> k \in LackingAt(history)
  <2>1. k \in DOMAIN history /\ told[k] = history[k]
    BY <1>4
  <2>2. SUFFICES ASSUME history[k].kind = "call"
                 PROVE  HasOutput(told, history[k].family, history[k].id)
                          <=> HasOutput(history, history[k].family, history[k].id)
    BY <2>1 DEF LackingAt, LacksOutput
  <2>3. ASSUME HasOutput(told, history[k].family, history[k].id)
        PROVE  HasOutput(history, history[k].family, history[k].id)
    BY <1>4, <2>3 DEF HasOutput
  <2>4. ASSUME HasOutput(history, history[k].family, history[k].id)
        PROVE  HasOutput(told, history[k].family, history[k].id)
    <3>1. PICK o \in DOMAIN history : /\ history[o].kind = "output"
                                      /\ history[o].family = history[k].family
                                      /\ history[o].id = history[k].id
      BY <2>4 DEF HasOutput
    <3>2. k \in CallAt /\ o \in OutputAt /\ k <= m
      BY <1>4, <2>1, <2>2, <3>1 DEF CallAt, OutputAt, IndicesOf
    <3>3. o <= m
      BY <3>1, <3>2 DEF PromptOf
    <3>4. o \in DOMAIN told /\ told[o] = history[o]
      BY <1>2, <1>4, <3>3
    <3> QED
      BY <3>1, <3>4 DEF HasOutput
  <2> QED
    BY <2>3, <2>4
<1>11. KeptAt(told) = DOMAIN told /\ KeptAt(history) = DOMAIN history
  BY <1>8, <1>9 DEF KeptAt
<1>12. Grows(told, history)
  BY <1>5, <1>10, <1>11 DEF Grows
<1> QED
  BY <1>3, <1>4, <1>12

\* Each request of a session extends the one before it, across retries,
\* failed turns and turns a sink broke: what the model was told is never
\* revised or reordered (session.rs:383, history.rs:65-85).
THEOREM RequestsExtend == Spec => PromptsExtend
<1>1. ASSUME TypeOK, RecordInv, RequestInv, [Next]_vars
      PROVE  [IsPrefix(prompt, prompt')]_prompt
  <2>1. CASE SendRequest
    <3>1. PICK m \in Nat : PromptOf(m)
      BY <1>1 DEF RequestInv, PromptInv
    <3>2. prompt = ForPrompt(SubSeq(history, 1, m), TRUE) /\ prompt' = ForPrompt(history, TRUE)
      BY <2>1, <3>1 DEF PromptOf, SendRequest
    <3>3. /\ SubSeq(history, 1, m) \in Seq(AnyItem) /\ history \in Seq(AnyItem)
          /\ Grows(SubSeq(history, 1, m), history)
      BY <1>1, <3>1, HistoryIsOfItems, HistoryGrowsOnPrompt DEF RecordInv
    <3>4. IsPrefix(ForPrompt(SubSeq(history, 1, m), TRUE), ForPrompt(history, TRUE))
      BY <3>3, PromptGrows
    <3> QED
      BY <3>2, <3>4
  <2>2. CASE prompt' = prompt
    BY <2>2
  <2> QED
    BY <1>1, <2>1, <2>2, RequestKinds
<1> QED
  BY <1>1, RequestInvariant, PTL DEF Spec, PromptsExtend

-----------------------------------------------------------------------------
(***************************************************************************)
(* A turn behind a stream: whatever is cancelled or fails, a reader sees a *)
(* beginning of what the turn emitted, and no request is sent for a        *)
(* consumer that has gone.                                                 *)
(***************************************************************************)
Chunk == EventMsg \union {Done, CancelledChunk}

Told == seen \o chunks

StreamStates ==
  /\ task \in {"none", "spawned", "running", "snapshotting", "ended"}
  /\ stream \in {"none", "readable", "closed", "errored"}
  /\ reader \in {"none", "busy", "waiting", "output", "failed"}
  /\ reader = "waiting" => chunks = << >>
  /\ task = "none" <=> stream = "none"
  /\ task = "none" <=> reader = "none"

ChunksTyped == seen \in Seq(Chunk) /\ chunks \in Seq(Chunk)

\* The turn runs with its future, its sink is the stream, and its token is
\* set only after the stream was closed.
TurnInStream ==
  /\ pc # "idle" <=> task = "running"
  /\ task = "running" => (sinkOpen <=> stream = "readable")
  /\ stream \in {"none", "readable"} => task # "ended" /\ ~cancelled
  /\ task = "snapshotting" => result = "ok"

\* What was told is what was emitted while the stream is readable, and stays
\* a beginning of it, with the output at its end.
ToldInv ==
  /\ task \in {"none", "spawned"} => delivered = << >> /\ seen = << >> /\ chunks = << >>
  /\ stream = "readable" => Told = delivered
  /\ \E rest \in Seq(Chunk) : Told \o rest = delivered \o <<Done>>
  /\ Len(Told) <= Len(delivered) \/ (result = "ok" /\ task = "ended")
  /\ reader = "output" => Len(seen) = Len(delivered) + 1

\* The token is consulted between its setting and the next request.
NoLateRequest == lateRequests = 0 /\ (pc = "request" => ~cancelled)

StreamInv ==
  StreamStates /\ ChunksTyped /\ TurnInStream /\ ToldInv /\ NoLateRequest

LoopInv == TypeOK /\ InIteration /\ TurnShape

-----------------------------------------------------------------------------

\* Chunks told in three parts may be grouped either way.
LEMMA ChunksGroup ==
  ASSUME NEW s \in Seq(Chunk), NEW t \in Seq(Chunk), NEW u \in Seq(Chunk)
  PROVE  (s \o t) \o u = s \o (t \o u)
BY ConcatAssociative

(***************************************************************************)
(* What a step of the stream is to the turn loop: one of its own steps, or *)
(* none, or the consumer that cancels, which closes the sink and sets the  *)
(* token at once.                                                          *)
(***************************************************************************)
ConsumerGone ==
  /\ cancelled' = TRUE /\ sinkOpen' = FALSE
  /\ UNCHANGED <<nextId, history, iteration, attempt, calls, completed, prompt, requests,
                 lateRequests, pc, delivered, result, turnStart, dispatches>>

LEMMA CoreIsNext == Core => Next
BY DEF Core, Next, StreamStep, ToolStep

LEMMA LoopMoves == [StreamNext]_StreamVars => [Next]_vars \/ ConsumerGone
<1> SUFFICES ASSUME [StreamNext]_StreamVars PROVE [Next]_vars \/ ConsumerGone
  OBVIOUS
<1>1. CASE Open \/ SetupFails \/ SendOutput \/ SnapshotFails \/ Consumer
  BY <1>1 DEF Open, SetupFails, SendOutput, SnapshotFails, Consumer, TakeChunk, AwaitChunk,
              EndOfStream, StreamErrored
<1>2. CASE FirstPoll \/ FirstPollUnheard
  BY <1>2 DEF FirstPoll, FirstPollUnheard, Next, CallerStep
<1>3. CASE CoreRuns \/ TurnSucceeds \/ TurnEndsEarly
  BY <1>3, CoreIsNext DEF CoreRuns, TurnSucceeds, TurnEndsEarly
<1>4. CASE CancelStream
  BY <1>4 DEF CancelStream, ConsumerGone
<1>5. CASE UNCHANGED StreamVars
  BY <1>5 DEF StreamVars
<1> QED
  BY <1>1, <1>2, <1>3, <1>4, <1>5 DEF StreamNext, Adapter

LEMMA LoopInvStep == LoopInv /\ [StreamNext]_StreamVars => LoopInv'
<1> SUFFICES ASSUME LoopInv, [StreamNext]_StreamVars PROVE LoopInv'
  OBVIOUS
<1>1. CASE [Next]_vars
  BY <1>1, FlagsStep, ListsStep, CountersStep, TurnShapeStep DEF LoopInv, TypeOK
<1>2. CASE ConsumerGone
  BY <1>2 DEF ConsumerGone, LoopInv, TypeOK, FlagsTyped, ListsTyped, CountersTyped,
              InIteration, TurnShape
<1> QED
  BY <1>1, <1>2, LoopMoves

-----------------------------------------------------------------------------

(***************************************************************************)
(* Sequences.                                                              *)
(***************************************************************************)
LEMMA HeadThenTail ==
  ASSUME NEW S, NEW s \in Seq(S), NEW t \in Seq(S), t # << >>
  PROVE  Append(s, Head(t)) \o Tail(t) = s \o t
<1>1. /\ Head(t) \in S /\ Head(t) = t[1] /\ Tail(t) \in Seq(S) /\ Len(Tail(t)) = Len(t) - 1
      /\ \A i \in 1 .. Len(Tail(t)) : Tail(t)[i] = t[i+1]
  BY HeadTailProperties
<1>2. /\ Len(s) \in Nat /\ Len(t) \in Nat
  BY LenProperties
<1> DEFINE longer == Append(s, Head(t))
<1>3. /\ longer \in Seq(S) /\ Len(longer) = Len(s) + 1
      /\ \A i \in 1 .. Len(s) : longer[i] = s[i]
      /\ longer[Len(s) + 1] = t[1]
  BY <1>1, AppendProperties
<1> DEFINE rest == Tail(t)
<1>4. rest \in Seq(S) /\ Len(rest) = Len(t) - 1 /\ \A i \in 1 .. Len(t) - 1 : rest[i] = t[i+1]
  BY <1>1
<1> HIDE DEF longer, rest
<1>5. /\ longer \o rest \in Seq(S) /\ Len(longer \o rest) = Len(s) + Len(t)
      /\ \A i \in 1 .. Len(s) + Len(t) :
           (longer \o rest)[i] = IF i <= Len(s) + 1 THEN longer[i] ELSE rest[i - (Len(s) + 1)]
  <2>1. /\ longer \o rest \in Seq(S) /\ Len(longer \o rest) = Len(longer) + Len(rest)
        /\ \A i \in 1 .. Len(longer) + Len(rest) :
             (longer \o rest)[i] = IF i <= Len(longer) THEN longer[i] ELSE rest[i - Len(longer)]
    BY <1>3, <1>4, ConcatProperties
  <2>2. Len(longer) + Len(rest) = Len(s) + Len(t)
    BY <1>2, <1>3, <1>4
  <2> QED
    BY <1>3, <2>1, <2>2
<1>6. /\ s \o t \in Seq(S) /\ Len(s \o t) = Len(s) + Len(t)
      /\ \A i \in 1 .. Len(s) + Len(t) :
           (s \o t)[i] = IF i <= Len(s) THEN s[i] ELSE t[i - Len(s)]
  BY ConcatProperties
<1>7. ASSUME NEW i \in 1 .. Len(s) + Len(t) PROVE (longer \o rest)[i] = (s \o t)[i]
  <2>1. CASE i <= Len(s)
    BY <1>2, <1>3, <1>5, <1>6, <2>1
  <2>2. CASE i = Len(s) + 1
    BY <1>2, <1>3, <1>5, <1>6, <2>2
  <2>3. CASE i > Len(s) + 1
    <3>1. i - (Len(s) + 1) \in 1 .. Len(t) - 1 /\ (i - (Len(s) + 1)) + 1 = i - Len(s)
      BY <1>2, <2>3
    <3>2. rest[i - (Len(s) + 1)] = t[i - Len(s)]
      BY <1>4, <3>1
    <3> QED
      BY <1>2, <1>5, <1>6, <2>3, <3>2
  <2>4. i <= Len(s) \/ i = Len(s) + 1 \/ i > Len(s) + 1
    BY <1>2
  <2> QED
    BY <2>1, <2>2, <2>3, <2>4
<1>8. longer \o rest = s \o t
  BY <1>5, <1>6, <1>7, SeqEqual
<1> QED
  BY <1>8 DEF longer, rest

LEMMA PrefixOfConcat ==
  ASSUME NEW S, NEW s \in Seq(S), NEW t \in Seq(S)
  PROVE  IsPrefix(s, s \o t)
<1>1. Len(s) \in Nat /\ Len(t) \in Nat /\ Len(s \o t) = Len(s) + Len(t)
  BY LenProperties, ConcatProperties
<1>2. CASE Len(s) = 0
  <2>1. SubSeq(s, 1, 0) = << >> /\ SubSeq(s \o t, 1, 0) = << >>
    BY SubSeqEmpty
  <2> QED
    BY <1>1, <1>2, <2>1 DEF IsPrefix
<1>3. CASE Len(s) # 0
  <2>1. 1 \in 1 .. Len(s) /\ Len(s) \in 1 .. Len(s)
    BY <1>1, <1>3
  <2>2. SubSeq(s \o t, 1, Len(s)) = SubSeq(s, 1, Len(s))
    BY <2>1, SubSeqOfConcat1
  <2> QED
    BY <1>1, <2>2 DEF IsPrefix
<1> QED
  BY <1>2, <1>3

\* The events of a step are what it added to those delivered.
LEMMA NewEventsAppend ==
  ASSUME delivered \in Seq(EventMsg), delivered' \in Seq(EventMsg),
         delivered' = delivered \/ \E event \in EventMsg : delivered' = Append(delivered, event)
  PROVE  /\ NewEvents \in Seq(EventMsg) /\ delivered' = delivered \o NewEvents
         /\ delivered' = delivered => NewEvents = << >>
<1>0. Len(delivered) \in Nat /\ Len(delivered') \in Nat
  BY LenProperties
<1>1. CASE delivered' = delivered
  <2>1. NewEvents = << >>
    BY <1>0, <1>1, SubSeqEmpty DEF NewEvents
  <2> QED
    BY <1>1, <2>1, ConcatEmptySeq, EmptySeq
<1>2. ASSUME NEW event \in EventMsg, delivered' = Append(delivered, event)
      PROVE  NewEvents \in Seq(EventMsg) /\ delivered' = delivered \o NewEvents
             /\ delivered' # delivered
  <2>1. /\ Len(delivered') = Len(delivered) + 1 /\ delivered'[Len(delivered) + 1] = event
    BY <1>2, AppendProperties
  <2>2. Len(delivered) + 1 \in 1 .. Len(delivered')
    BY <1>0, <2>1
  <2>3. NewEvents = <<event>> \o SubSeq(delivered', Len(delivered) + 2, Len(delivered'))
    <3>1. Len(delivered') \in Len(delivered) + 1 .. Len(delivered')
      BY <1>0, <2>1
    <3>2. NewEvents = <<delivered'[Len(delivered) + 1]>>
                        \o SubSeq(delivered', (Len(delivered) + 1) + 1, Len(delivered'))
      BY <2>2, <3>1, SubSeqRecursiveFirst DEF NewEvents
    <3>3. (Len(delivered) + 1) + 1 = Len(delivered) + 2
      BY <1>0
    <3> QED
      BY <2>1, <3>2, <3>3
  <2>4. SubSeq(delivered', Len(delivered) + 2, Len(delivered')) = << >>
    BY <1>0, <2>1, SubSeqEmpty
  <2>5. <<event>> \in Seq(EventMsg)
    OBVIOUS
  <2>6. NewEvents = <<event>>
    BY <2>3, <2>4, <2>5, ConcatEmptySeq
  <2>7. Append(delivered, event) = delivered \o <<event>>
    BY AppendIsConcat
  <2>8. delivered' # delivered
    BY <1>0, <2>1
  <2> QED
    BY <1>2, <2>5, <2>6, <2>7, <2>8
<1> QED
  BY <1>1, <1>2

-----------------------------------------------------------------------------

(***************************************************************************)
(* Lemmas about the parts of the steps.                                    *)
(***************************************************************************)
LEMMA ChunksAreEvents ==
  /\ << >> \in Seq(Chunk) /\ <<Done>> \in Seq(Chunk)
  /\ \A events \in Seq(EventMsg) : events \in Seq(Chunk) /\ events \o <<Done>> \in Seq(Chunk)
<1>1. << >> \in Seq(Chunk) /\ <<Done>> \in Seq(Chunk)
  BY DEF Chunk
<1>2. ASSUME NEW events \in Seq(EventMsg)
      PROVE  events \in Seq(Chunk) /\ events \o <<Done>> \in Seq(Chunk)
  <2>1. events \in Seq(Chunk)
    BY SeqMonotonic DEF Chunk
  <2> QED
    BY <1>1, <2>1, ConcatProperties
<1> QED
  BY <1>1, <1>2

LEMMA EnqueueTells ==
  ASSUME ChunksTyped, NEW new \in Seq(Chunk), reader = "waiting" => chunks = << >>,
         Enqueue(new)
  PROVE  /\ ChunksTyped' /\ Told' = Told \o new
         /\ reader' = "waiting" => chunks' = << >>
         /\ reader' = reader \/ (reader = "waiting" /\ reader' = "busy")
         /\ reader # "waiting" => seen' = seen
<1>1. CASE reader = "waiting" /\ new # << >>
  <2>1. /\ seen' = Append(seen, Head(new)) /\ chunks' = Tail(new) /\ reader' = "busy"
        /\ chunks = << >>
    BY <1>1 DEF Enqueue
  <2>2. Head(new) \in Chunk /\ Tail(new) \in Seq(Chunk)
    BY <1>1, HeadTailProperties
  <2>3. seen' \in Seq(Chunk) /\ chunks' \in Seq(Chunk)
    BY <2>1, <2>2, AppendProperties DEF ChunksTyped
  <2>4. seen' \o chunks' = seen \o new
    BY <1>1, <2>1, HeadThenTail DEF ChunksTyped
  <2>5. seen \o chunks = seen
    BY <2>1, ConcatEmptySeq DEF ChunksTyped
  <2> QED
    BY <1>1, <2>1, <2>3, <2>4, <2>5 DEF Told, ChunksTyped
<1>2. CASE ~(reader = "waiting" /\ new # << >>)
  <2>1. chunks' = chunks \o new /\ seen' = seen /\ reader' = reader
    BY <1>2 DEF Enqueue
  <2>2. chunks' \in Seq(Chunk)
    BY <2>1, ConcatProperties DEF ChunksTyped
  <2>3. seen' \o chunks' = (seen \o chunks) \o new
    BY SMTT(30), <2>1, ConcatAssociative DEF ChunksTyped
  <2>4. reader = "waiting" => chunks' = << >>
    BY <1>2, <2>1, ConcatEmptySeq, EmptySeq DEF ChunksTyped
  <2> QED
    BY <2>1, <2>2, <2>3, <2>4 DEF Told, ChunksTyped
<1> QED
  BY <1>1, <1>2

\* The queue is dropped: what was read is still a beginning.
LEMMA DropTells ==
  ASSUME ChunksTyped, delivered \in Seq(EventMsg), UNCHANGED <<seen, delivered>>,
         chunks' = << >>,
         \E rest \in Seq(Chunk) : Told \o rest = delivered \o <<Done>>
  PROVE  /\ ChunksTyped' /\ Told' = seen /\ Len(seen) <= Len(Told)
         /\ \E rest \in Seq(Chunk) : Told' \o rest = delivered' \o <<Done>>
<1>1. seen \in Seq(Chunk) /\ chunks \in Seq(Chunk)
  BY DEF ChunksTyped
<1>2. ChunksTyped' /\ Told' = seen
  BY <1>1, ConcatEmptySeq DEF ChunksTyped, Told
<1>3. Len(seen) <= Len(Told)
  BY <1>1, ConcatProperties, LenProperties DEF Told
<1>4. PICK rest \in Seq(Chunk) : Told \o rest = delivered \o <<Done>>
  OBVIOUS
<1>5. chunks \o rest \in Seq(Chunk)
  BY <1>1, <1>4, ConcatProperties
<1>6. (seen \o chunks) \o rest = seen \o (chunks \o rest)
  BY <1>1, <1>4, ChunksGroup
<1>7. seen \o (chunks \o rest) = delivered \o <<Done>>
  BY <1>4, <1>6 DEF Told
<1>8. \E tail \in Seq(Chunk) : seen \o tail = delivered \o <<Done>>
  BY <1>5, <1>7
<1> QED
  BY <1>2, <1>3, <1>8

LEMMA CoreKeepsCaller == Core => pc # "idle" /\ UNCHANGED <<cancelled, sinkOpen>>
<1> SUFFICES ASSUME Core PROVE pc # "idle" /\ UNCHANGED <<cancelled, sinkOpen>>
  OBVIOUS
<1>1. CASE LoopStep
  BY <1>1 DEF LoopStep, EnterIteration, CancelledAtLoop, LoopExceeded, SendRequest, OpenStream,
              RequestRefused
<1>2. CASE \/ CancelledInStream \/ StreamUnheard \/ ReceiveMessage
           \/ \E c \in CallIds : ReceiveCall(c)
           \/ \E followUp \in BOOLEAN : ReceiveCompleted(followUp)
  BY <1>2 DEF StreamEvent, CancelledInStream, StreamUnheard, ReceiveMessage, ReceiveCall,
              ReceiveCompleted
<1>3. CASE \/ StartBatch \/ DispatchEnded \/ RecordOutput \/ RecordUnheard \/ NextIteration
           \/ \E k \in DOMAIN calls, how \in {"loud", "quiet"} : FinishTool(k, how)
  BY <1>3 DEF StartBatch, FinishTool, DispatchEnded, RecordOutput, RecordUnheard, NextIteration,
              Recorded
<1> QED
  BY <1>1, <1>2, <1>3 DEF Core

\* A step of the loop that the stream can hear, or that is silent.
LEMMA CoreKinds ==
  Core =>
    \/ UNCHANGED delivered /\ (pc' = "idle" => result' \notin {"ok", "cancelled"})
    \/ /\ sinkOpen /\ (pc' = "idle" => result' = "ok" \/ (result' = "cancelled" /\ cancelled))
       /\ \E kind, id : delivered' = Append(delivered, Event(kind, id))
<1> SUFFICES ASSUME Core
             PROVE  \/ UNCHANGED delivered /\ (pc' = "idle" => result' \notin {"ok", "cancelled"})
                    \/ /\ sinkOpen
                       /\ pc' = "idle" => result' = "ok" \/ (result' = "cancelled" /\ cancelled)
                       /\ \E kind, id : delivered' = Append(delivered, Event(kind, id))
  OBVIOUS
<1>1. [Next]_vars /\ pc # "idle"
  BY CoreIsNext, CoreKeepsCaller
<1>2. ~StartTurn /\ ~StartCancelledTurn /\ ~StartUnheardTurn
  BY <1>1 DEF StartTurn, StartCancelledTurn, StartUnheardTurn, BeginTurn
<1> QED
  BY <1>1, <1>2, EndKinds

LEMMA CoreSendsInTime == LoopInv /\ NoLateRequest /\ Core => NoLateRequest'
<1> SUFFICES ASSUME NoLateRequest, Core PROVE NoLateRequest'
  OBVIOUS
<1> USE DEF NoLateRequest, EndTurn, EndCancelled
<1>1. CASE LoopStep
  <2>1. CASE EnterIteration \/ CancelledAtLoop \/ LoopExceeded
    BY <2>1 DEF EnterIteration, CancelledAtLoop, LoopExceeded
  <2>2. CASE SendRequest
    BY <2>2 DEF SendRequest
  <2>3. CASE OpenStream \/ RequestRefused
    BY <2>3 DEF OpenStream, RequestRefused
  <2> QED
    BY <1>1, <2>1, <2>2, <2>3 DEF LoopStep
<1>2. CASE \/ CancelledInStream \/ StreamUnheard \/ ReceiveMessage
           \/ \E c \in CallIds : ReceiveCall(c)
           \/ \E followUp \in BOOLEAN : ReceiveCompleted(followUp)
  BY <1>2 DEF StreamEvent, CancelledInStream, StreamUnheard, ReceiveMessage, ReceiveCall,
              ReceiveCompleted
<1>3. CASE \/ StartBatch \/ DispatchEnded \/ RecordOutput \/ RecordUnheard \/ NextIteration
           \/ \E k \in DOMAIN calls, how \in {"loud", "quiet"} : FinishTool(k, how)
  BY <1>3 DEF StartBatch, FinishTool, DispatchEnded, RecordOutput, RecordUnheard, NextIteration,
              Recorded
<1> QED
  BY <1>1, <1>2, <1>3 DEF Core

\* What a step of the loop adds to the stream, whatever it is.
LEMMA CoreTells ==
  ASSUME LoopInv, LoopInv', TurnInStream, task = "running", Core
  PROVE  \E new \in Seq(EventMsg) :
           /\ NewEvents = new /\ delivered' = delivered \o new
           /\ stream # "readable" => new = << >> /\ delivered' = delivered
<1>1. delivered \in Seq(EventMsg) /\ delivered' \in Seq(EventMsg)
  BY DEF LoopInv, TypeOK, ListsTyped
<1>2. UNCHANGED delivered \/ \E kind, id : delivered' = Append(delivered, Event(kind, id))
  BY CoreKinds
<1>3. delivered' = delivered \/ \E event \in EventMsg : delivered' = Append(delivered, event)
  <2>1. ASSUME NEW event, delivered' = Append(delivered, event) PROVE event \in EventMsg
    <3>1. delivered \in Seq(EventMsg \union {event})
      BY <1>1, SeqMonotonic
    <3>2. Len(delivered') = Len(delivered) + 1 /\ delivered'[Len(delivered) + 1] = event
      BY <2>1, <3>1, AppendProperties
    <3>3. Len(delivered) + 1 \in 1 .. Len(delivered')
      BY <1>1, <3>2, LenProperties
    <3> QED
      BY <1>1, <3>2, <3>3, ElementOfSeq
  <2> QED
    BY <1>2, <2>1
<1>4. stream # "readable" => delivered' = delivered
  BY CoreKinds DEF TurnInStream
<1> QED
  BY <1>1, <1>3, <1>4, NewEventsAppend

-----------------------------------------------------------------------------

(***************************************************************************)
(* The invariant, one lemma per kind of step.                              *)
(***************************************************************************)
LEMMA ToldLengths ==
  ASSUME ChunksTyped, delivered \in Seq(EventMsg)
  PROVE  /\ Len(seen) \in Nat /\ Len(Told) \in Nat /\ Len(delivered) \in Nat
         /\ Len(seen) <= Len(Told)
<1>1. seen \in Seq(Chunk) /\ chunks \in Seq(Chunk)
  BY DEF ChunksTyped
<1>2. Len(seen) \in Nat /\ Len(chunks) \in Nat /\ Len(delivered) \in Nat
  BY <1>1, LenProperties
<1>3. Len(Told) = Len(seen) + Len(chunks)
  BY <1>1, ConcatProperties DEF Told
<1> QED
  BY <1>2, <1>3

\* The reader has the output only after the task has ended.
LEMMA OutputComesLast ==
  ASSUME StreamInv, LoopInv, task # "ended"
  PROVE  reader # "output" /\ Len(Told) <= Len(delivered)
<1>1. Len(Told) <= Len(delivered) /\ (reader = "output" => Len(seen) = Len(delivered) + 1)
  BY DEF StreamInv, ToldInv
<1>2. ChunksTyped /\ delivered \in Seq(EventMsg)
  BY DEF StreamInv, LoopInv, TypeOK, ListsTyped
<1>3. /\ Len(seen) \in Nat /\ Len(Told) \in Nat /\ Len(delivered) \in Nat
      /\ Len(seen) <= Len(Told)
  BY <1>2, ToldLengths
<1> QED
  BY <1>1, <1>3

LEMMA FailStep ==
  ASSUME StreamInv, LoopInv, Fail, task \notin {"none", "ended"}, UNCHANGED delivered,
         pc' = "idle", lateRequests' = 0
  PROVE  StreamInv'
<1>1. StreamStates /\ ChunksTyped /\ TurnInStream /\ ToldInv
  BY DEF StreamInv
<1>2. delivered \in Seq(EventMsg)
  BY DEF LoopInv, TypeOK, ListsTyped
<1>3. reader # "output" /\ Len(Told) <= Len(delivered)
  BY OutputComesLast
<1>4. task' = "ended" /\ reader' = reader /\ seen' = seen
  BY DEF Fail
<1>5. /\ stream' \in {"closed", "errored"}
      /\ chunks' = << >> \/ chunks' = chunks
  BY <1>1 DEF Fail, StreamStates
<1>6. \E rest \in Seq(Chunk) : Told \o rest = delivered \o <<Done>>
  BY <1>1 DEF ToldInv
<1>7. /\ Len(seen) \in Nat /\ Len(Told) \in Nat /\ Len(delivered) \in Nat
      /\ Len(seen) <= Len(Told)
  BY <1>1, <1>2, ToldLengths
<1>8. /\ ChunksTyped' /\ Len(Told') <= Len(delivered')
      /\ \E rest \in Seq(Chunk) : Told' \o rest = delivered' \o <<Done>>
  <2>1. CASE chunks' = << >>
    <3>1. /\ ChunksTyped' /\ Told' = seen
          /\ \E rest \in Seq(Chunk) : Told' \o rest = delivered' \o <<Done>>
      BY <1>1, <1>2, <1>4, <1>6, <2>1, DropTells
    <3>2. Len(seen) <= Len(delivered)
      BY <1>3, <1>7
    <3> QED
      BY <3>1, <3>2
  <2>2. CASE chunks' = chunks
    BY <1>1, <1>3, <1>4, <1>6, <2>2 DEF ChunksTyped, Told
  <2> QED
    BY <1>5, <2>1, <2>2
<1>9. ToldInv'
  BY <1>3, <1>4, <1>5, <1>8 DEF ToldInv
<1>10. StreamStates'
  BY <1>1, <1>4, <1>5 DEF StreamStates
<1> QED
  BY <1>4, <1>5, <1>8, <1>9, <1>10 DEF StreamInv, TurnInStream, NoLateRequest

\* A step of the turn that goes on, with its events.
LEMMA TellStep ==
  ASSUME StreamInv, LoopInv, LoopInv', task = "running", Core, Enqueue(NewEvents),
         stream' = stream, task' \in {"running", "snapshotting"}
  PROVE  StreamStates' /\ ChunksTyped' /\ ToldInv'
<1>1. StreamStates /\ ChunksTyped /\ TurnInStream /\ ToldInv
  BY DEF StreamInv
<1>2. reader # "output" /\ Len(Told) <= Len(delivered)
  BY OutputComesLast
<1>3. PICK new \in Seq(EventMsg) :
        /\ NewEvents = new /\ delivered' = delivered \o new
        /\ stream # "readable" => new = << >> /\ delivered' = delivered
  BY <1>1, CoreTells
<1>4. new \in Seq(Chunk) /\ Enqueue(new)
  BY <1>3, ChunksAreEvents
<1>5. reader = "waiting" => chunks = << >>
  BY <1>1 DEF StreamStates
<1>6. /\ ChunksTyped' /\ Told' = Told \o new
      /\ reader' = "waiting" => chunks' = << >>
      /\ reader' = reader \/ (reader = "waiting" /\ reader' = "busy")
  BY <1>1, <1>4, <1>5, EnqueueTells
<1>7. StreamStates'
  BY <1>1, <1>6 DEF StreamStates
<1>8. delivered \in Seq(EventMsg) /\ delivered' \in Seq(EventMsg)
  BY DEF LoopInv, TypeOK, ListsTyped
<1>9. Len(delivered) \in Nat /\ Len(delivered') \in Nat
  BY <1>8, LenProperties
<1>10. CASE stream = "readable"
  <2>1. Told' = delivered'
    BY <1>1, <1>3, <1>6, <1>10 DEF ToldInv
  <2>2. <<Done>> \in Seq(Chunk)
    BY ChunksAreEvents
  <2>3. \E rest \in Seq(Chunk) : Told' \o rest = delivered' \o <<Done>>
    BY <2>1, <2>2
  <2>4. Len(Told') <= Len(delivered')
    BY <1>9, <2>1
  <2>5. ToldInv'
    BY <1>2, <1>6, <2>1, <2>3, <2>4 DEF ToldInv
  <2> QED
    BY <1>6, <1>7, <2>5
<1>11. CASE stream # "readable"
  <2>1. Told \in Seq(Chunk)
    BY <1>1, ConcatProperties DEF ChunksTyped, Told
  <2>2. Told' = Told /\ delivered' = delivered
    BY <1>3, <1>6, <1>11, <2>1, ConcatEmptySeq
  <2>3. \E rest \in Seq(Chunk) : Told \o rest = delivered \o <<Done>>
    BY <1>1 DEF ToldInv
  <2>4. ToldInv'
    BY <1>2, <1>6, <1>11, <2>2, <2>3 DEF ToldInv
  <2> QED
    BY <1>6, <1>7, <2>4
<1> QED
  BY <1>10, <1>11

LEMMA FirstPollStep == LoopInv /\ LoopInv' /\ StreamInv /\ FirstPoll => StreamInv'
<1> SUFFICES ASSUME LoopInv, LoopInv', StreamInv, FirstPoll PROVE StreamInv'
  OBVIOUS
<1>1. StreamStates /\ ChunksTyped /\ TurnInStream /\ ToldInv
  BY DEF StreamInv
<1>2. /\ task = "spawned" /\ stream = "readable" /\ task' = "running" /\ stream' = stream
      /\ pc' = "loop" /\ cancelled' = FALSE /\ sinkOpen' = TRUE /\ lateRequests' = 0
  BY DEF FirstPoll, StartTurn, BeginTurn
<1>3. PICK new : new = delivered'
  OBVIOUS
<1>4. new \in Seq(EventMsg) /\ Enqueue(new)
  BY <1>3 DEF LoopInv, TypeOK, ListsTyped, FirstPoll
<1>5. new \in Seq(Chunk) /\ <<Done>> \in Seq(Chunk)
  BY <1>4, ChunksAreEvents
<1>6. reader = "waiting" => chunks = << >>
  BY <1>1 DEF StreamStates
<1>7. /\ ChunksTyped' /\ Told' = Told \o new
      /\ reader' = "waiting" => chunks' = << >>
      /\ reader' = reader \/ (reader = "waiting" /\ reader' = "busy")
  BY <1>1, <1>4, <1>5, <1>6, EnqueueTells
<1>8. reader # "output"
  BY <1>2, OutputComesLast
<1>9. Told' = delivered'
  <2>1. Told = << >>
    BY <1>1, <1>2 DEF ToldInv
  <2> QED
    BY <1>3, <1>5, <1>7, <2>1, ConcatEmptySeq
<1>10. Len(Told') <= Len(delivered')
  BY <1>3, <1>4, <1>9, LenProperties
<1>11. \E rest \in Seq(Chunk) : Told' \o rest = delivered' \o <<Done>>
  BY <1>5, <1>9
<1>12. ToldInv'
  BY <1>2, <1>7, <1>8, <1>9, <1>10, <1>11 DEF ToldInv
<1>13. StreamStates'
  BY <1>1, <1>2, <1>7 DEF StreamStates
<1> QED
  BY <1>2, <1>7, <1>12, <1>13 DEF StreamInv, TurnInStream, NoLateRequest

LEMMA SendOutputStep == LoopInv /\ StreamInv /\ SendOutput => StreamInv'
<1> SUFFICES ASSUME LoopInv, StreamInv, SendOutput PROVE StreamInv'
  OBVIOUS
<1>1. StreamStates /\ ChunksTyped /\ TurnInStream /\ ToldInv /\ NoLateRequest
  BY DEF StreamInv
<1>2. task = "snapshotting" /\ task' = "ended" /\ UNCHANGED vars
  BY DEF SendOutput, Close
<1>3. result = "ok" /\ pc = "idle" /\ stream # "none"
  BY <1>1, <1>2 DEF TurnInStream, StreamStates
<1>4. reader # "output" /\ Len(Told) <= Len(delivered)
  BY <1>2, OutputComesLast
<1>5. TurnInStream' /\ NoLateRequest'
  BY <1>1, <1>2, <1>3 DEF SendOutput, Close, TurnInStream, NoLateRequest
<1>6. CASE stream = "readable"
  <2>1. stream' = "closed" /\ Enqueue(<<Done>>)
    BY <1>6 DEF SendOutput, Close
  <2>2. <<Done>> \in Seq(Chunk) /\ << >> \in Seq(Chunk)
    BY ChunksAreEvents
  <2>3. reader = "waiting" => chunks = << >>
    BY <1>1 DEF StreamStates
  <2>4. /\ ChunksTyped' /\ Told' = Told \o <<Done>>
        /\ reader' = "waiting" => chunks' = << >>
        /\ reader' = reader \/ (reader = "waiting" /\ reader' = "busy")
    BY <1>1, <2>1, <2>2, <2>3, EnqueueTells
  <2>5. Told' = delivered' \o <<Done>>
    BY <1>1, <1>2, <1>6, <2>4 DEF ToldInv
  <2>6. Told' \in Seq(Chunk)
    BY <2>4, ConcatProperties DEF ChunksTyped, Told
  <2>7. Told' \o << >> = Told'
    BY <2>6, ConcatEmptySeq
  <2>8. \E rest \in Seq(Chunk) : Told' \o rest = delivered' \o <<Done>>
    BY <2>2, <2>5, <2>7
  <2>9. ToldInv'
    BY <1>2, <1>3, <1>4, <2>1, <2>4, <2>8 DEF ToldInv
  <2>10. StreamStates'
    BY <1>1, <1>2, <2>1, <2>4 DEF StreamStates
  <2> QED
    BY <1>5, <2>4, <2>9, <2>10 DEF StreamInv
<1>7. CASE stream # "readable"
  <2>1. UNCHANGED <<stream, chunks, reader, seen, delivered, result>>
    BY <1>2, <1>7 DEF SendOutput, Close
  <2>2. ChunksTyped' /\ Told' = Told
    BY <1>1, <2>1 DEF ChunksTyped, Told
  <2>3. \E rest \in Seq(Chunk) : Told \o rest = delivered \o <<Done>>
    BY <1>1 DEF ToldInv
  <2>4. ToldInv'
    BY <1>2, <1>4, <1>7, <2>1, <2>2, <2>3 DEF ToldInv
  <2>5. StreamStates'
    BY <1>1, <1>2, <2>1 DEF StreamStates
  <2> QED
    BY <1>5, <2>2, <2>4, <2>5 DEF StreamInv
<1> QED
  BY <1>6, <1>7

LEMMA TakeChunkStep == LoopInv /\ StreamInv /\ TakeChunk => StreamInv'
<1> SUFFICES ASSUME LoopInv, StreamInv, TakeChunk PROVE StreamInv'
  OBVIOUS
<1>1. StreamStates /\ ChunksTyped /\ TurnInStream /\ ToldInv /\ NoLateRequest
  BY DEF StreamInv
<1>2. /\ chunks # << >> /\ reader \in {"busy", "waiting"} /\ reader' \in {"failed", "busy"}
      /\ seen' = Append(seen, Head(chunks)) /\ chunks' = Tail(chunks)
      /\ UNCHANGED <<vars, task, stream>>
  BY DEF TakeChunk, Reading
<1>3. seen \in Seq(Chunk) /\ chunks \in Seq(Chunk)
  BY <1>1 DEF ChunksTyped
<1>4. Head(chunks) \in Chunk /\ Tail(chunks) \in Seq(Chunk)
  BY <1>2, <1>3, HeadTailProperties
<1>5. ChunksTyped'
  BY <1>2, <1>3, <1>4, AppendProperties DEF ChunksTyped
<1>6. Told' = Told
  BY <1>2, <1>3, HeadThenTail DEF Told
<1>7. TurnInStream' /\ NoLateRequest'
  BY <1>1, <1>2 DEF TurnInStream, NoLateRequest
<1>8. StreamStates'
  BY <1>1, <1>2 DEF StreamStates
<1>9. ToldInv'
  BY <1>1, <1>2, <1>6 DEF ToldInv
<1> QED
  BY <1>5, <1>7, <1>8, <1>9 DEF StreamInv

\* Only the output itself is told behind all the events.
LEMMA DoneIsLast ==
  ASSUME seen \in Seq(Chunk), delivered \in Seq(EventMsg),
         NEW rest \in Seq(Chunk), seen \o rest = delivered \o <<Done>>,
         NEW k \in DOMAIN seen, seen[k] = Done
  PROVE  Len(seen) = Len(delivered) + 1
<1>1. delivered \in Seq(Chunk) /\ <<Done>> \in Seq(Chunk)
  BY ChunksAreEvents
<1>2. Len(seen) \in Nat /\ Len(rest) \in Nat /\ Len(delivered) \in Nat /\ Len(<<Done>>) = 1
  BY LenProperties
<1>3. /\ Len(seen \o rest) = Len(seen) + Len(rest)
      /\ \A i \in 1 .. Len(seen) + Len(rest) :
           (seen \o rest)[i] = IF i <= Len(seen) THEN seen[i] ELSE rest[i - Len(seen)]
  BY ConcatProperties
<1>4. /\ Len(delivered \o <<Done>>) = Len(delivered) + 1
      /\ \A i \in 1 .. Len(delivered) + 1 :
           (delivered \o <<Done>>)[i] =
             IF i <= Len(delivered) THEN delivered[i] ELSE <<Done>>[i - Len(delivered)]
  BY <1>1, <1>2, ConcatProperties
<1>5. Len(seen) + Len(rest) = Len(delivered) + 1
  BY <1>3, <1>4
<1>6. k \in 1 .. Len(seen)
  OBVIOUS
<1>7. k \in 1 .. Len(delivered) + 1
  BY <1>2, <1>5, <1>6
<1>8. (delivered \o <<Done>>)[k] = Done
  <2>1. k \in 1 .. Len(seen) + Len(rest) /\ k <= Len(seen)
    BY <1>2, <1>6
  <2>2. (seen \o rest)[k] = seen[k]
    BY <1>3, <2>1
  <2> QED
    BY <2>2
<1>9. ~(k <= Len(delivered))
  <2>1. SUFFICES ASSUME k <= Len(delivered) PROVE FALSE
    OBVIOUS
  <2>2. delivered[k] = Done
    BY <1>4, <1>7, <1>8, <2>1
  <2>3. k \in 1 .. Len(delivered)
    BY <1>2, <1>6, <2>1
  <2>4. delivered[k] \in EventMsg
    BY <2>3, ElementOfSeq
  <2>5. Done \notin EventMsg
    BY DEF Done, Event, EventMsg
  <2> QED
    BY <2>2, <2>4, <2>5
<1> QED
  BY <1>2, <1>5, <1>6, <1>7, <1>9

LEMMA ReaderStep ==
  LoopInv /\ StreamInv /\ (AwaitChunk \/ EndOfStream \/ StreamErrored) => StreamInv'
<1> SUFFICES ASSUME LoopInv, StreamInv, AwaitChunk \/ EndOfStream \/ StreamErrored
             PROVE  StreamInv'
  OBVIOUS
<1>1. StreamStates /\ ChunksTyped /\ TurnInStream /\ ToldInv /\ NoLateRequest
  BY DEF StreamInv
<1>2. /\ UNCHANGED <<vars, task, stream, chunks, seen>>
      /\ reader \in {"busy", "waiting"} /\ reader' \in {"waiting", "output", "failed"}
      /\ reader' = "waiting" => chunks = << >>
  BY DEF AwaitChunk, EndOfStream, StreamErrored, Reading
<1>3. ChunksTyped' /\ Told' = Told /\ TurnInStream' /\ NoLateRequest'
  BY <1>1, <1>2 DEF ChunksTyped, Told, TurnInStream, NoLateRequest
<1>4. StreamStates'
  BY <1>1, <1>2 DEF StreamStates
<1>5. reader' = "output" => Len(seen) = Len(delivered) + 1
  <2>1. SUFFICES ASSUME reader' = "output" PROVE Len(seen) = Len(delivered) + 1
    OBVIOUS
  <2>2. chunks = << >> /\ \E k \in DOMAIN seen : seen[k] = Done
    BY <2>1 DEF AwaitChunk, EndOfStream, StreamErrored
  <2>3. seen \in Seq(Chunk) /\ delivered \in Seq(EventMsg)
    BY <1>1 DEF ChunksTyped, LoopInv, TypeOK, ListsTyped
  <2>4. Told = seen
    BY <2>2, <2>3, ConcatEmptySeq DEF Told
  <2>5. PICK rest \in Seq(Chunk) : Told \o rest = delivered \o <<Done>>
    BY <1>1 DEF ToldInv
  <2> QED
    BY <2>2, <2>3, <2>4, <2>5, DoneIsLast
<1>6. ToldInv'
  BY <1>1, <1>2, <1>3, <1>5 DEF ToldInv
<1> QED
  BY <1>3, <1>4, <1>6 DEF StreamInv

LEMMA CancelStep == LoopInv /\ StreamInv /\ CancelStream => StreamInv'
<1> SUFFICES ASSUME LoopInv, StreamInv, CancelStream PROVE StreamInv'
  OBVIOUS
<1>1. StreamStates /\ ChunksTyped /\ TurnInStream /\ ToldInv /\ NoLateRequest
  BY DEF StreamInv
<1>2. /\ stream' = "closed" /\ chunks' = << >> /\ reader \in {"busy", "waiting"}
      /\ UNCHANGED <<seen, delivered, reader, task, pc, result, lateRequests>>
      /\ sinkOpen' = FALSE
  BY DEF CancelStream, Reading, requested
<1>3. delivered \in Seq(EventMsg)
  BY DEF LoopInv, TypeOK, ListsTyped
<1>4. \E rest \in Seq(Chunk) : Told \o rest = delivered \o <<Done>>
  BY <1>1 DEF ToldInv
<1>5. /\ ChunksTyped' /\ Told' = seen
      /\ \E rest \in Seq(Chunk) : Told' \o rest = delivered' \o <<Done>>
  BY <1>1, <1>2, <1>3, <1>4, DropTells
<1>6. Len(seen) <= Len(delivered) \/ (result = "ok" /\ task = "ended")
  <2>1. /\ Len(seen) \in Nat /\ Len(Told) \in Nat /\ Len(delivered) \in Nat
        /\ Len(seen) <= Len(Told)
    BY <1>1, <1>3, ToldLengths
  <2>2. Len(Told) <= Len(delivered) \/ (result = "ok" /\ task = "ended")
    BY <1>1 DEF ToldInv
  <2> QED
    BY <2>1, <2>2
<1>7. task \in {"none", "spawned"} => seen = << >> /\ delivered = << >>
  BY <1>1 DEF ToldInv
<1>8. ToldInv'
  BY <1>2, <1>5, <1>6, <1>7 DEF ToldInv
<1>9. pc # "request"
  <2>1. SUFFICES ASSUME pc = "request" PROVE FALSE
    OBVIOUS
  <2>2. task = "running" /\ calls = << >>
    BY <1>1, <2>1 DEF TurnInStream, LoopInv, TurnShape
  <2>3. Running = {}
    BY <2>2 DEF Running
  <2> QED
    BY <2>1, <2>2, <2>3 DEF CancelStream, Yielded
<1>10. NoLateRequest'
  BY <1>1, <1>2, <1>9 DEF NoLateRequest
<1>11. StreamStates' /\ TurnInStream'
  BY <1>1, <1>2 DEF StreamStates, TurnInStream, CancelStream, Cancellable
<1> QED
  BY <1>5, <1>8, <1>10, <1>11 DEF StreamInv

LEMMA OpenStep == StreamInv /\ Open => StreamInv'
<1> SUFFICES ASSUME StreamInv, Open PROVE StreamInv'
  OBVIOUS
<1>1. StreamStates /\ ChunksTyped /\ TurnInStream /\ ToldInv /\ NoLateRequest
  BY DEF StreamInv
<1>2. /\ task = "none" /\ task' = "spawned" /\ stream' = "readable" /\ reader' = "busy"
      /\ UNCHANGED <<vars, chunks, seen>>
  BY DEF Open
<1>3. StreamStates' /\ TurnInStream' /\ NoLateRequest'
  BY <1>1, <1>2 DEF StreamStates, TurnInStream, NoLateRequest
<1>4. ChunksTyped' /\ Told' = Told
  BY <1>1, <1>2 DEF ChunksTyped, Told
<1>5. delivered = << >> /\ Told = << >>
  BY <1>1, <1>2 DEF ToldInv, Told
<1>6. ToldInv'
  BY <1>1, <1>2, <1>4, <1>5 DEF ToldInv
<1> QED
  BY <1>3, <1>4, <1>6 DEF StreamInv

LEMMA StreamInvStep ==
  LoopInv /\ LoopInv' /\ StreamInv /\ [StreamNext]_StreamVars => StreamInv'
<1> SUFFICES ASSUME LoopInv, LoopInv', StreamInv, [StreamNext]_StreamVars PROVE StreamInv'
  OBVIOUS
<1>1. StreamStates /\ ChunksTyped /\ TurnInStream /\ ToldInv /\ NoLateRequest
  BY DEF StreamInv
<1>2. CASE Open
  BY <1>2, OpenStep
<1>3. CASE SetupFails \/ SnapshotFails
  <2>1. /\ Fail /\ task \in {"spawned", "snapshotting"} /\ UNCHANGED vars
    BY <1>3 DEF SetupFails, SnapshotFails
  <2>2. pc' = "idle" /\ lateRequests' = 0 /\ UNCHANGED delivered
    BY <1>1, <2>1 DEF TurnInStream, NoLateRequest
  <2> QED
    BY <2>1, <2>2, FailStep
<1>4. CASE FirstPoll
  BY <1>4, FirstPollStep
<1>5. CASE FirstPollUnheard
  <2>1. /\ Fail /\ task = "spawned" /\ pc' = "idle" /\ delivered' = << >> /\ lateRequests' = 0
    BY <1>5 DEF FirstPollUnheard, StartUnheardTurn, BeginTurn
  <2>2. delivered = << >>
    BY <1>1, <2>1 DEF ToldInv
  <2> QED
    BY <2>1, <2>2, FailStep
<1>6. CASE CoreRuns
  <2>1. /\ task = "running" /\ Core /\ pc' # "idle" /\ Enqueue(NewEvents)
        /\ UNCHANGED <<task, stream>>
    BY <1>6 DEF CoreRuns
  <2>2. StreamStates' /\ ChunksTyped' /\ ToldInv'
    BY <2>1, TellStep
  <2>3. UNCHANGED <<cancelled, sinkOpen>> /\ NoLateRequest'
    BY <1>1, <2>1, CoreKeepsCaller, CoreSendsInTime
  <2> QED
    BY <1>1, <2>1, <2>2, <2>3 DEF StreamInv, TurnInStream
<1>7. CASE TurnSucceeds
  <2>1. /\ task = "running" /\ Core /\ pc' = "idle" /\ result' = "ok" /\ Enqueue(NewEvents)
        /\ task' = "snapshotting" /\ UNCHANGED stream
    BY <1>7 DEF TurnSucceeds
  <2>2. StreamStates' /\ ChunksTyped' /\ ToldInv'
    BY <2>1, TellStep
  <2>3. UNCHANGED <<cancelled, sinkOpen>> /\ NoLateRequest'
    BY <1>1, <2>1, CoreKeepsCaller, CoreSendsInTime
  <2> QED
    BY <1>1, <2>1, <2>2, <2>3 DEF StreamInv, TurnInStream
<1>8. CASE TurnEndsEarly
  <2>1. task = "running" /\ Core /\ pc' = "idle" /\ result' # "ok"
    BY <1>8 DEF TurnEndsEarly
  <2>2. NoLateRequest' /\ lateRequests' = 0
    BY <1>1, <2>1, CoreSendsInTime DEF NoLateRequest
  <2>3. ~(sinkOpen /\ cancelled)
    BY <1>1, <2>1 DEF TurnInStream
  <2>4. UNCHANGED delivered /\ result' # "cancelled"
    BY <2>1, <2>3, CoreKinds
  <2>5. Fail
    BY <1>8, <2>4 DEF TurnEndsEarly
  <2> QED
    BY <2>1, <2>2, <2>4, <2>5, FailStep
<1>9. CASE SendOutput
  BY <1>9, SendOutputStep
<1>10. CASE TakeChunk
  BY <1>10, TakeChunkStep
<1>11. CASE AwaitChunk \/ EndOfStream \/ StreamErrored
  BY <1>11, ReaderStep
<1>12. CASE CancelStream
  BY <1>12, CancelStep
<1>13. CASE UNCHANGED StreamVars
  <2>1. UNCHANGED <<vars, task, stream, chunks, reader, seen>>
    BY <1>13 DEF StreamVars, streaming
  <2>2. ChunksTyped' /\ Told' = Told
    BY <1>1, <2>1 DEF ChunksTyped, Told
  <2>3. StreamStates' /\ TurnInStream' /\ NoLateRequest'
    BY <1>1, <2>1 DEF StreamStates, TurnInStream, NoLateRequest
  <2>4. ToldInv'
    BY <1>1, <2>1, <2>2 DEF ToldInv
  <2> QED
    BY <2>2, <2>3, <2>4 DEF StreamInv
<1> QED
  BY <1>2, <1>3, <1>4, <1>5, <1>6, <1>7, <1>8, <1>9, <1>10, <1>11, <1>12, <1>13
     DEF StreamNext, Adapter, Consumer

LEMMA StreamInitially == StreamInit => LoopInv /\ StreamInv
<1> SUFFICES ASSUME StreamInit PROVE LoopInv /\ StreamInv
  OBVIOUS
<1>1. Init /\ task = "none" /\ stream = "none" /\ chunks = << >> /\ seen = << >>
      /\ reader = "none"
  BY DEF StreamInit
<1>2. LoopInv
  <2>1. FlagsTyped
    BY <1>1 DEF Init, FlagsTyped, Results
  <2>2. ListsTyped
    BY <1>1 DEF Init, ListsTyped
  <2>3. CountersTyped /\ InIteration
    BY <1>1, RetriesAssumption, IterationsAssumption DEF Init, CountersTyped, InIteration
  <2>4. TurnShape
    BY <1>1 DEF Init, TurnShape
  <2> QED
    BY <2>1, <2>2, <2>3, <2>4 DEF LoopInv, TypeOK
<1>3. << >> \in Seq(Chunk) /\ <<Done>> \in Seq(Chunk)
  BY ChunksAreEvents
<1>4. ChunksTyped /\ StreamStates
  BY <1>1, <1>3 DEF ChunksTyped, StreamStates
<1>5. TurnInStream /\ NoLateRequest
  BY <1>1 DEF Init, TurnInStream, NoLateRequest
<1>6. delivered = << >> /\ Told = << >>
  BY <1>1 DEF Init, Told
<1>7. << >> \o <<Done>> = <<Done>>
  OBVIOUS
<1>8. \E rest \in Seq(Chunk) : Told \o rest = delivered \o <<Done>>
  BY <1>3, <1>6
<1>9. Len(Told) <= Len(delivered)
  BY <1>6
<1>10. ToldInv
  BY <1>1, <1>6, <1>8, <1>9 DEF ToldInv
<1> QED
  BY <1>2, <1>4, <1>5, <1>10 DEF StreamInv

LEMMA StreamInvAlways == StreamSpec => [](LoopInv /\ StreamInv)
<1>1. LoopInv /\ StreamInv /\ [StreamNext]_StreamVars => (LoopInv /\ StreamInv)'
  BY LoopInvStep, StreamInvStep
<1> QED
  BY <1>1, StreamInitially, PTL DEF StreamSpec

-----------------------------------------------------------------------------

(***************************************************************************)
(* Type correctness of the stream and of the turn behind it: no read waits *)
(* while a chunk is queued, the turn runs only while its future does, and  *)
(* its sink takes events exactly while the stream is readable              *)
(* (wasm_case.rs:176-200).                                                 *)
(***************************************************************************)
THEOREM StreamTypeCorrect == StreamSpec => []StreamTypeOK
<1>1. LoopInv /\ StreamInv => StreamTypeOK
  BY DEF LoopInv, StreamInv, StreamStates, TurnInStream, StreamTypeOK
<1> QED
  BY <1>1, StreamInvAlways, PTL

(***************************************************************************)
(* What the reader has seen is a beginning of what the turn emitted; with  *)
(* the output it has seen all of it, and the turn ended well; and once the *)
(* consumer has cancelled, the provider gets no request                    *)
(* (wasm_case.rs:178-200, session.rs:227, 408-416, index.ts:322-347).      *)
(***************************************************************************)
THEOREM ReaderSeesTheTurn == StreamSpec => []ReaderSeesTurn
<1>1. ASSUME LoopInv, StreamInv PROVE ReaderSeesTurn
  <2>1. ChunksTyped /\ ToldInv /\ NoLateRequest /\ delivered \in Seq(EventMsg)
    BY <1>1 DEF StreamInv, LoopInv, TypeOK, ListsTyped
  <2>2. seen \in Seq(Chunk) /\ chunks \in Seq(Chunk)
    BY <2>1 DEF ChunksTyped
  <2>3. PICK rest \in Seq(Chunk) : Told \o rest = delivered \o <<Done>>
    BY <2>1 DEF ToldInv
  <2>4. chunks \o rest \in Seq(Chunk)
    BY <2>2, ConcatProperties
  <2>5. (seen \o chunks) \o rest = seen \o (chunks \o rest)
    BY <2>2, <2>3, ChunksGroup
  <2>6. seen \o (chunks \o rest) = delivered \o <<Done>>
    BY <2>3, <2>5 DEF Told
  <2>7. IsPrefix(seen, delivered \o <<Done>>)
    <3>1. IsPrefix(seen, seen \o (chunks \o rest))
      BY <2>2, <2>4, PrefixOfConcat
    <3> QED
      BY <2>6, <3>1
  <2>8. /\ Len(seen) \in Nat /\ Len(Told) \in Nat /\ Len(delivered) \in Nat
        /\ Len(seen) <= Len(Told)
    BY <2>1, ToldLengths
  <2>9. reader = "output" => Len(seen) = Len(delivered) + 1 /\ result = "ok"
    BY <2>1, <2>8 DEF ToldInv
  <2> QED
    BY <2>1, <2>7, <2>9 DEF ReaderSeesTurn, NoLateRequest
<1> QED
  BY <1>1, StreamInvAlways, PTL
=============================================================================
