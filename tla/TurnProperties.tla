---------------------------- MODULE TurnProperties ----------------------------
(***************************************************************************)
(* What the turns of a session promise: to the provider about the requests *)
(* it gets, to the host about the tools it runs, to the caller about the   *)
(* events it sees and the way a turn ends.                                 *)
(***************************************************************************)
EXTENDS TurnLoop

HistoryItem ==
  [kind : {"message", "call", "output"}, family : Families \union {"none"},
   id : CallIds \union {NoId}, side : {"input", "response"}, exec : {"client"},
   body : {"text"}]

ToolCall == [id : CallIds, run : {"queued", "running", "loud", "quiet"}]

EventMsg ==
  [kind : {"TurnStarted", "ItemCompleted", "ToolEvents", "StreamError",
           "TurnComplete", "TurnCancelled"},
   id : CallIds \union {NoId}]

FlagsTyped ==
  /\ cancelled \in BOOLEAN /\ sinkOpen \in BOOLEAN /\ completed \in BOOLEAN
  /\ pc \in {"idle", "loop", "request", "opening", "streaming", "dispatching",
             "recording"}
  /\ result \in Results

ListsTyped ==
  /\ history \in Seq(HistoryItem)
  /\ calls \in Seq(ToolCall)
  /\ delivered \in Seq(EventMsg)

CountersTyped ==
  /\ nextId \in Nat \ {0} /\ turnStart \in Nat \ {0}
  /\ iteration \in 0 .. MaxToolIterations
  /\ attempt \in 0 .. MaxSamplingRetries
  /\ requests \in Nat /\ lateRequests \in Nat
  /\ dispatches \in [CallIds -> Nat]

\* The retry and iteration counters stay within the configured limits, and
\* every list holds the items its Rust type admits (session.rs:28-62, 103-127).
TypeOK == FlagsTyped /\ ListsTyped /\ CountersTyped

Answered(c) == HasOutput(history, FamilyOf(c), c)

TurnItems == turnStart .. Len(history)

CallsOf(indices) == {history[k].id : k \in {j \in indices : history[j].kind = "call"}}

\* The request passes the pairing validator of the test suite.
RequestsValid == pc = "opening" => RequestBodyValid(prompt)

\* The model is never told "aborted" of a call of the turn that is running: a
\* retry and a next iteration wait for the outputs of all calls made so far.
NoFalseAbort == pc = "opening" => \A c \in CallsOf(TurnItems) : Answered(c)

\* Every request the session sends passes the pairing validator of the test
\* suite, and is right about what ran: whatever retries, cancelled turns and
\* broken sinks came before it, it says "aborted" of no call of the turn under
\* way (session.rs:258-287, 395-403 with history.rs:65-85, tests/core.rs:1363).
RequestsRight == RequestsValid /\ NoFalseAbort

\* Each request of a session extends the one before it, across retries and
\* failed turns: what the model was told is never revised or reordered
\* (session.rs:383, history.rs:65-85).
PromptsExtend == [][IsPrefix(prompt, prompt')]_prompt

\* No tool call is executed twice, and none that the history does not hold:
\* an attempt that closed early is retried without repeating its calls.
ExecutedAtMostOnce ==
  \A c \in CallIds : /\ dispatches[c] <= 1
                     /\ dispatches[c] = 1 => c \in CallsOf(DOMAIN history)

Answers(o, c) ==
  history[o].family = history[c].family /\ history[o].id = history[c].id

IndicesOf(kind) == {k \in DOMAIN history : history[k].kind = kind}

\* Each output answers a call made before it, no call is answered twice, and
\* the outputs stand in the history in the order of their calls.
OutputsInCallOrder ==
  LET asked == IndicesOf("call")
      told == IndicesOf("output")
  IN  \A o \in told :
        /\ \E c \in asked : c < o /\ Answers(o, c)
        /\ \A p \in told : p < o =>
             \A c, d \in asked : Answers(p, c) /\ Answers(o, d) => c < d

\* A tool that may change the workspace never overlaps another tool.
ExclusiveRunsAlone ==
  \A k \in Running : calls[k].id \in Parallel \/ Running = {k}

\* However the calls of a response are batched and an attempt is repeated, each
\* call runs at most once, and one that may change the workspace runs alone
\* (session.rs:308-423, tools/registry.rs:171-176).
ToolCallsRight == ExecutedAtMostOnce /\ ExclusiveRunsAlone

\* A turn that ends for another reason than its sink has recorded every call
\* it executed.
OnlySinkLosesOutputs ==
  pc = "idle" /\ result # "sink" =>
    \A c \in CallsOf(TurnItems) : dispatches[c] = 1 => Answered(c)

\* However the tools of a batch finish, the history tells their outputs in the
\* order of the calls, and only a broken sink, never a cancellation, can lose
\* the output of a tool that ran (session.rs:289-306, 347-359, 513-531).
OutputsRight == OutputsInCallOrder /\ OnlySinkLosesOutputs

FromModel == {k \in TurnItems : history[k].side = "response"}

Completed == {k \in DOMAIN delivered : delivered[k].kind = "ItemCompleted"}

Rank(k, indices) == Cardinality({j \in indices : j <= k})

\* The session keeps an item of the model only after the caller's sink took
\* it, in the same order: the n-th item is the one of the n-th event.
ShownBeforeKept ==
  LET kept == FromModel
      shown == Completed
  IN  /\ Cardinality(kept) = Cardinality(shown)
      /\ \A k \in kept, e \in shown :
           Rank(k, kept) = Rank(e, shown) => history[k].id = delivered[e].id

Terminal == {"TurnComplete", "TurnCancelled"}

\* At most one terminal event, nothing after it, and it is the one that matches
\* the value the turn returns: none for a turn that fails in another way.
TerminalEventMatchesResult ==
  /\ \A k \in DOMAIN delivered :
       delivered[k].kind \in Terminal => pc = "idle" /\ k = Len(delivered)
  /\ pc = "idle" =>
       /\ result = "ok" <=> \E k \in DOMAIN delivered : delivered[k].kind = "TurnComplete"
       /\ result = "cancelled" <=>
            \E k \in DOMAIN delivered : delivered[k].kind = "TurnCancelled"

\* The caller sees exactly what happened: the items the session keeps, before
\* it keeps them and in the same order, and in the end the one terminal event
\* that matches the way the turn ended (session.rs:240-256, 467-482, 513-531).
EventsMatchTurn == ShownBeforeKept /\ TerminalEventMatchesResult

\* A turn whose token was set never returns success (session.rs:442, 227).
CancelledNeverCompletes == result = "ok" => ~cancelled

\* At most max_tool_iterations times max_sampling_retries + 1 requests.
RequestsBounded ==
  requests <= MaxToolIterations * (MaxSamplingRetries + 1)

\* Once the token is set the provider gets no request of a further iteration,
\* only the retries of the one under way, which do not consult the token.
LateRequestsBounded == lateRequests <= MaxSamplingRetries

\* A turn cannot run away: however its retries and iterations nest, it sends a
\* bounded number of requests, and few of them after it was cancelled
\* (session.rs:226-227, 382-394).
TurnBounded == RequestsBounded /\ LateRequestsBounded

\* Every turn ends, given that streams end and tools answer: no mix of
\* retries, follow-ups, cancellation and broken sinks leaves it waiting
\* (session.rs:186-272).
TurnEnds == pc # "idle" ~> pc = "idle"
=============================================================================
