------------------------------ MODULE HostProofs ------------------------------
(***************************************************************************)
(* Proofs about the process table and the output of the processes, for     *)
(* every number of overlapping calls, processes and output chunks.         *)
(***************************************************************************)
EXTENDS HostExec, SequenceTheorems, TLAPS

Starting(c) == ops[c].kind = "start"

(***************************************************************************)
(* Who may still answer for which process. The id of a start is its own    *)
(* until it answers; every other call was made for an announced process.   *)
(***************************************************************************)
OpsInIds == \A c \in Callers : ops[c].kind # "none" => ops[c].id \in Ids

StartsUnannounced ==
  \A c \in Callers : Starting(c) =>
    ops[c].id < nextProcessId /\ ops[c].id \notin announced \union gone

StartsDistinct ==
  \A c, d \in Callers : Starting(c) /\ Starting(d) /\ c # d => ops[c].id # ops[d].id

OthersAnnounced ==
  \A c \in Callers : ops[c].kind \in {"poll", "write", "kill"} => ops[c].id \in announced

ReportedWereStarted == \A p \in announced \union gone : p < nextProcessId

TableInv ==
  /\ OpsInIds /\ StartsUnannounced /\ StartsDistinct /\ OthersAnnounced
  /\ ReportedWereStarted /\ TableMatchesAnswers

-----------------------------------------------------------------------------

LEMMA SnapshotTyped ==
  ASSUME TypeOK, NEW c \in Callers, ops[c].id \in Ids, Snapshot(c)
  PROVE  /\ proc' = [proc EXCEPT ![ops[c].id].readOffset = proc[ops[c].id].chunks]
         /\ proc' \in [Ids -> RunningProcess]
         /\ \A p \in Ids : /\ proc'[p].readOffset <= proc'[p].chunks
                           /\ proc'[p].chunks <= proc'[p].produced
<1>1. proc' = [proc EXCEPT ![ops[c].id].readOffset = proc[ops[c].id].chunks]
  BY DEF Snapshot
<1>2. proc \in [Ids -> RunningProcess]
  BY DEF TypeOK, RunningProcess
<1>3. proc' \in [Ids -> RunningProcess]
  BY <1>1, <1>2 DEF RunningProcess
<1>4. ASSUME NEW p \in Ids
      PROVE  proc'[p].readOffset <= proc'[p].chunks /\ proc'[p].chunks <= proc'[p].produced
  <2>1. proc[p] \in RunningProcess /\ proc[p].readOffset <= proc[p].chunks
                                /\ proc[p].chunks <= proc[p].produced
    BY <1>2 DEF TypeOK
  <2>2. proc[p].chunks \in Nat
    BY <2>1, BoundsAssumption DEF RunningProcess
  <2>3. CASE p = ops[c].id
    BY <1>1, <1>2, <2>1, <2>2, <2>3 DEF RunningProcess
  <2>4. CASE p # ops[c].id
    BY <1>1, <1>2, <2>1, <2>4 DEF RunningProcess
  <2> QED
    BY <2>3, <2>4
<1> QED
  BY <1>1, <1>3, <1>4

LEMMA OpsTyped ==
  ASSUME TypeOK, NEW c \in Callers,
         \/ Return(c)
         \/ \E step \in {"waiting", "settling"} : MoveTo(c, step)
  PROVE  ops' \in [Callers -> Operation]
<1>1. ops \in [Callers -> Operation]
  BY DEF TypeOK, Operation
<1>2. NoOp \in Operation
  BY BoundsAssumption DEF NoOp, Operation
<1>3. CASE Return(c)
  BY <1>1, <1>2, <1>3 DEF Return
<1>4. CASE \E step \in {"waiting", "settling"} : MoveTo(c, step)
  <2>1. PICK step \in {"waiting", "settling"} : MoveTo(c, step)
    BY <1>4
  <2>2. ops[c] \in Operation
    BY <1>1
  <2>3. [ops[c] EXCEPT !.at = step] \in Operation
    BY <2>2 DEF Operation
  <2> QED
    BY <1>1, <2>1, <2>3 DEF MoveTo
<1> QED
  BY <1>3, <1>4

LEMMA InitInv == Init => TypeOK /\ TableInv
<1> SUFFICES ASSUME Init PROVE TypeOK /\ TableInv
  OBVIOUS
<1>1. NoProcess \in RunningProcess
  BY BoundsAssumption DEF NoProcess, RunningProcess
<1>2. NoOp \in Operation /\ NoOp.kind = "none"
  BY BoundsAssumption DEF NoOp, Operation
<1>3. proc \in [Ids -> RunningProcess] /\ ops \in [Callers -> Operation]
  BY <1>1, <1>2 DEF Init
<1>4. \A p \in Ids : proc[p].readOffset <= proc[p].chunks
                     /\ proc[p].chunks <= proc[p].produced
  BY DEF Init, NoProcess
<1>5. TypeOK
  BY <1>3, <1>4, BoundsAssumption DEF Init, TypeOK, RunningProcess, Operation
<1>6. \A c \in Callers : ops[c].kind = "none"
  BY <1>2 DEF Init
<1>7. TableInv
  BY <1>6 DEF Init, TableInv, OpsInIds, StartsUnannounced, StartsDistinct, Starting,
              OthersAnnounced, ReportedWereStarted, TableMatchesAnswers
<1> QED
  BY <1>5, <1>7

\* A step that leaves the variables of one group alone keeps its type.
SetsTyped ==
  /\ nextProcessId \in 1 .. MaxProcesses + 1
  /\ processes \subseteq Ids /\ announced \subseteq Ids
  /\ gone \subseteq Ids /\ hurried \subseteq Ids

RecordsTyped ==
  /\ proc \in [Ids -> RunningProcess]
  /\ \A p \in Ids : /\ proc[p].readOffset <= proc[p].chunks
                    /\ proc[p].chunks <= proc[p].produced

LEMMA TypeParts ==
  TypeOK <=> SetsTyped /\ RecordsTyped /\ ops \in [Callers -> Operation]
BY DEF TypeOK, SetsTyped, RecordsTyped, RunningProcess, Operation

LEMMA ProcessTyped ==
  ASSUME TypeOK, NEW p \in Ids, Process(p)
  PROVE  RecordsTyped'
<1> USE BoundsAssumption
<1>1. RecordsTyped
  BY TypeParts
<1>2. proc[p] \in RunningProcess /\ proc[p].readOffset <= proc[p].chunks
                               /\ proc[p].chunks <= proc[p].produced
  BY <1>1 DEF RecordsTyped
<1>3. CASE Produce(p)
  <2>1. [proc[p] EXCEPT !.produced = @ + 1] \in RunningProcess
    BY <1>2, <1>3 DEF Produce, RunningProcess
  <2>2. proc' = [proc EXCEPT ![p] = [proc[p] EXCEPT !.produced = @ + 1]]
    BY <1>3 DEF Produce
  <2> QED
    BY <1>1, <1>2, <2>1, <2>2 DEF RecordsTyped, RunningProcess
<1>4. CASE Exit(p)
  <2>1. [proc[p] EXCEPT !.state = "exited"] \in RunningProcess
    BY <1>2 DEF RunningProcess
  <2>2. proc' = [proc EXCEPT ![p] = [proc[p] EXCEPT !.state = "exited"]]
    BY <1>4 DEF Exit
  <2> QED
    BY <1>1, <1>2, <2>1, <2>2 DEF RecordsTyped, RunningProcess
<1>5. CASE PumpOutput(p)
  <2>1. [proc[p] EXCEPT !.chunks = @ + 1] \in RunningProcess
    BY <1>2, <1>5 DEF PumpOutput, RunningProcess
  <2>2. proc' = [proc EXCEPT ![p] = [proc[p] EXCEPT !.chunks = @ + 1]]
    BY <1>5 DEF PumpOutput
  <2>3. proc[p].chunks + 1 <= proc[p].produced /\ proc[p].readOffset <= proc[p].chunks + 1
    BY <1>2, <1>5 DEF PumpOutput, RunningProcess
  <2> QED
    BY <1>1, <1>2, <2>1, <2>2, <2>3 DEF RecordsTyped, RunningProcess
<1>6. CASE CloseOutput(p)
  <2>1. [proc[p] EXCEPT !.outputClosed = TRUE] \in RunningProcess
    BY <1>2 DEF RunningProcess
  <2>2. proc' = [proc EXCEPT ![p] = [proc[p] EXCEPT !.outputClosed = TRUE]]
    BY <1>6 DEF CloseOutput
  <2> QED
    BY <1>1, <1>2, <2>1, <2>2 DEF RecordsTyped, RunningProcess
<1> QED
  BY <1>3, <1>4, <1>5, <1>6 DEF Process

LEMMA CallTyped ==
  ASSUME TypeOK, NEW c \in Callers, Call(c)
  PROVE  TypeOK'
<1> USE BoundsAssumption
<1>1. SetsTyped /\ RecordsTyped /\ ops \in [Callers -> Operation]
  BY TypeParts
<1>2. CASE Start(c)
  <2>1. [kind |-> "start", id |-> nextProcessId, at |-> "spawning"] \in Operation
    BY <1>2 DEF Start, Operation, Ids
  <2>2. ops' \in [Callers -> Operation]
    BY <1>1, <1>2, <2>1 DEF Start
  <2>3. SetsTyped' /\ RecordsTyped'
    BY <1>1, <1>2 DEF Start, SetsTyped, RecordsTyped, Ids
  <2> QED
    BY <2>2, <2>3, TypeParts DEF TypeOK, SetsTyped, RecordsTyped, RunningProcess, Operation
<1>3. ASSUME NEW p \in Ids, PollOutput(c, p) \/ WriteStdin(c, p) \/ Kill(c, p)
      PROVE  TypeOK'
  <2>1. \A kind \in {"poll", "write", "kill"}, at \in {"waiting", "writing", "killing"} :
          [kind |-> kind, id |-> p, at |-> at] \in Operation
    BY DEF Operation, Ids
  <2>2. ops' \in [Callers -> Operation]
    BY <1>1, <1>3, <2>1 DEF PollOutput, WriteStdin, Kill
  <2>3. SetsTyped'
    BY <1>1, <1>3 DEF PollOutput, WriteStdin, Kill, SetsTyped
  <2>4. RecordsTyped'
    <3>1. [proc[p] EXCEPT !.killed = TRUE] \in RunningProcess
      BY <1>1 DEF RecordsTyped, RunningProcess
    <3>2. CASE Kill(c, p)
      <4>1. proc' = [proc EXCEPT ![p] = [proc[p] EXCEPT !.killed = TRUE]]
        BY <3>2 DEF Kill
      <4> QED
        BY <1>1, <3>1, <4>1 DEF RecordsTyped, RunningProcess
    <3>3. CASE PollOutput(c, p) \/ WriteStdin(c, p)
      BY <1>1, <3>3 DEF PollOutput, WriteStdin, RecordsTyped
    <3> QED
      BY <1>3, <3>2, <3>3
  <2> QED
    BY <2>2, <2>3, <2>4 DEF TypeOK, SetsTyped, RecordsTyped, RunningProcess, Operation
<1> QED
  BY <1>2, <1>3 DEF Call

LEMMA ProceedTyped ==
  ASSUME TypeOK, OpsInIds, NEW c \in Callers, Proceed(c)
  PROVE  TypeOK'
<1> USE BoundsAssumption
<1>1. SetsTyped /\ RecordsTyped
  BY TypeParts
<1>2. ops[c].id \in Ids
  BY DEF Proceed, Spawned, SpawnFails, Written, WriteFails, AnswerRunning, SettleOutput,
         AnswerExited, KillEnds, At, OpsInIds
<1>3. ops' \in [Callers -> Operation]
  <2>1. Return(c) \/ \E step \in {"waiting", "settling"} : MoveTo(c, step)
    BY DEF Proceed, Spawned, SpawnFails, Written, WriteFails, AnswerRunning,
           SettleOutput, AnswerExited, KillEnds
  <2> QED
    BY <2>1, OpsTyped
<1>4. SetsTyped'
  BY <1>1, <1>2 DEF Proceed, Spawned, SpawnFails, Written, WriteFails, AnswerRunning,
                    SettleOutput, AnswerExited, KillEnds, SetsTyped
<1>5. RecordsTyped'
  <2>1. CASE Spawned(c)
    <3>1. proc' = [proc EXCEPT ![ops[c].id] = [proc[ops[c].id] EXCEPT !.state = "alive"]]
      BY <2>1 DEF Spawned
    <3>2. [proc[ops[c].id] EXCEPT !.state = "alive"] \in RunningProcess
      BY <1>1, <1>2 DEF RecordsTyped, RunningProcess
    <3> QED
      BY <1>1, <1>2, <3>1, <3>2 DEF RecordsTyped, RunningProcess
  <2>2. CASE AnswerRunning(c) \/ AnswerExited(c)
    BY <1>2, <2>2, SnapshotTyped DEF AnswerRunning, AnswerExited, RecordsTyped
  <2>3. CASE UNCHANGED proc
    BY <1>1, <2>3 DEF RecordsTyped
  <2> QED
    BY <2>1, <2>2, <2>3 DEF Proceed, SpawnFails, Written, WriteFails, SettleOutput, KillEnds
<1> QED
  BY <1>3, <1>4, <1>5 DEF TypeOK, SetsTyped, RecordsTyped, RunningProcess, Operation

LEMMA TypeStep == TypeOK /\ OpsInIds /\ [Next]_vars => TypeOK'
<1> SUFFICES ASSUME TypeOK, OpsInIds, [Next]_vars PROVE TypeOK'
  OBVIOUS
<1>1. ASSUME NEW p \in Ids, Process(p) PROVE TypeOK'
  <2>1. RecordsTyped'
    BY <1>1, ProcessTyped
  <2>2. UNCHANGED <<nextProcessId, processes, ops, told, announced, gone, hurried>>
    BY <1>1 DEF Process, Produce, Exit, PumpOutput, CloseOutput
  <2> QED
    BY <2>1, <2>2 DEF TypeOK, RecordsTyped, RunningProcess
<1>2. ASSUME NEW c \in Callers, Call(c) \/ Proceed(c) PROVE TypeOK'
  BY <1>2, CallTyped, ProceedTyped
<1>3. CASE UNCHANGED vars
  BY <1>3 DEF vars, TypeOK
<1> QED
  BY <1>1, <1>2, <1>3 DEF Next

-----------------------------------------------------------------------------
(***************************************************************************)
(* The table. Processes do not touch it; a new call takes an id that is    *)
(* new or in the table; an answer moves its id only.                       *)
(***************************************************************************)
LEMMA CallKeepsTable ==
  ASSUME TypeOK, TableInv, NEW c \in Callers, Call(c)
  PROVE  TableInv'
<1> USE DEF TableInv, OpsInIds, StartsUnannounced, StartsDistinct, OthersAnnounced,
            ReportedWereStarted, TableMatchesAnswers, Starting
<1>1. ops \in [Callers -> Operation] /\ nextProcessId \in Nat /\ Ids \subseteq Nat
  BY TypeParts, BoundsAssumption DEF SetsTyped, Ids
<1>2. CASE Start(c)
  <2>1. /\ ops' = [ops EXCEPT ![c] = [kind |-> "start", id |-> nextProcessId,
                                      at |-> "spawning"]]
        /\ nextProcessId' = nextProcessId + 1 /\ nextProcessId \in Ids
        /\ UNCHANGED <<processes, announced, gone>>
    BY <1>2 DEF Start
  <2>2. \A d \in Callers : d # c => ops'[d] = ops[d]
    BY <1>1, <2>1
  <2>3. ops'[c].kind = "start" /\ ops'[c].id = nextProcessId
    BY <1>1, <2>1
  <2>4. nextProcessId \notin announced \union gone
    BY <1>1
  <2>5. OpsInIds' /\ OthersAnnounced' /\ TableMatchesAnswers'
    BY <2>1, <2>2, <2>3
  <2>6. StartsUnannounced'
    <3>1. \A id \in Nat : id < nextProcessId => id < nextProcessId + 1
      BY <1>1
    <3>2. \A d \in Callers : Starting(d) => ops[d].id \in Nat
      BY <1>1
    <3> QED
      BY <1>1, <2>1, <2>2, <2>3, <2>4, <3>1, <3>2
  <2>7. StartsDistinct'
    <3>1. \A d \in Callers : Starting(d) => ops[d].id # nextProcessId
      BY <1>1
    <3> QED
      BY <2>2, <2>3, <3>1
  <2>8. ReportedWereStarted'
    <3>1. announced \union gone \subseteq Nat
      BY <1>1, TypeParts DEF SetsTyped
    <3>2. \A id \in Nat : id < nextProcessId => id < nextProcessId + 1
      BY <1>1
    <3> QED
      BY <2>1, <3>1, <3>2
  <2> QED
    BY <2>5, <2>6, <2>7, <2>8
<1>3. ASSUME NEW p \in Ids, PollOutput(c, p) \/ WriteStdin(c, p) \/ Kill(c, p)
      PROVE  TableInv'
  <2>1. /\ ops'[c].kind \in {"poll", "write", "kill"} /\ ops'[c].id = p
        /\ \A d \in Callers : d # c => ops'[d] = ops[d]
        /\ p \in announced
        /\ UNCHANGED <<nextProcessId, processes, announced, gone>>
    BY <1>1, <1>3 DEF PollOutput, WriteStdin, Kill
  <2> QED
    BY <2>1
<1> QED
  BY <1>2, <1>3 DEF Call

LEMMA ProceedKeepsTable ==
  ASSUME TypeOK, TableInv, NEW c \in Callers, Proceed(c)
  PROVE  TableInv'
<1> USE DEF TableInv, OpsInIds, StartsUnannounced, StartsDistinct, OthersAnnounced,
            ReportedWereStarted, TableMatchesAnswers, Starting
<1>1. ops \in [Callers -> Operation]
  BY TypeParts
<1>2. ops[c].kind \in {"start", "poll", "write", "kill"} /\ ops[c].id \in Ids
  BY <1>1 DEF Proceed, Spawned, SpawnFails, Written, WriteFails, AnswerRunning,
              SettleOutput, AnswerExited, KillEnds, At, Operation
<1>3. ASSUME UNCHANGED <<nextProcessId, processes, announced, gone>>,
             \A d \in Callers : \/ ops'[d].kind = ops[d].kind /\ ops'[d].id = ops[d].id
                                \/ ops'[d].kind = "none"
      PROVE  TableInv'
  BY <1>3
<1>4. ASSUME NEW at \in {"waiting", "settling"}, MoveTo(c, at)
      PROVE  \A d \in Callers : ops'[d].kind = ops[d].kind /\ ops'[d].id = ops[d].id
  BY <1>1, <1>4 DEF MoveTo, Operation
<1>5. ASSUME Return(c)
      PROVE  ops'[c].kind = "none" /\ \A d \in Callers : d # c => ops'[d] = ops[d]
  BY <1>1, <1>5 DEF Return, NoOp
<1>6. CASE Spawned(c) \/ Written(c) \/ SettleOutput(c)
  <2>1. \E at \in {"waiting", "settling"} : MoveTo(c, at)
    BY <1>6 DEF Spawned, Written, SettleOutput
  <2>2. \A d \in Callers : ops'[d].kind = ops[d].kind /\ ops'[d].id = ops[d].id
    BY <1>4, <2>1
  <2> QED
    BY <1>3, <1>6, <2>2 DEF Spawned, Written, SettleOutput
<1>7. CASE SpawnFails(c) \/ WriteFails(c)
  BY <1>3, <1>5, <1>7 DEF SpawnFails, WriteFails
<1>8. CASE AnswerRunning(c)
  <2>1. /\ processes' = IF ops[c].kind = "start" THEN processes \union {ops[c].id}
                                                 ELSE processes
        /\ announced' = announced \union {ops[c].id}
        /\ UNCHANGED <<nextProcessId, gone>>
    BY <1>8 DEF AnswerRunning
  <2>2. ops'[c].kind = "none" /\ \A d \in Callers : d # c => ops'[d] = ops[d]
    BY <1>5, <1>8 DEF AnswerRunning
  <2>3. TableMatchesAnswers'
    <3>1. CASE ops[c].kind = "start"
      BY <2>1, <3>1
    <3>2. CASE ops[c].kind # "start"
      BY <1>2, <2>1, <3>2
    <3> QED
      BY <3>1, <3>2
  <2>4. \A d \in Callers : d # c /\ Starting(d) => ops[d].id # ops[c].id
    BY <1>2
  <2>5. ops[c].id < nextProcessId
    BY <1>2
  <2> QED
    BY <2>1, <2>2, <2>3, <2>4, <2>5
<1>9. CASE AnswerExited(c) \/ KillEnds(c)
  <2>1. /\ processes' = processes \ {ops[c].id}
        /\ gone' = gone \union {ops[c].id}
        /\ UNCHANGED <<nextProcessId, announced>>
    BY <1>9 DEF AnswerExited, KillEnds
  <2>2. ops'[c].kind = "none" /\ \A d \in Callers : d # c => ops'[d] = ops[d]
    BY <1>5, <1>9 DEF AnswerExited, KillEnds
  <2>3. TableMatchesAnswers'
    BY <2>1
  <2>4. \A d \in Callers : d # c /\ Starting(d) => ops[d].id # ops[c].id
    BY <1>2
  <2>5. ops[c].id < nextProcessId
    BY <1>2
  <2> QED
    BY <2>1, <2>2, <2>3, <2>4, <2>5
<1> QED
  BY <1>6, <1>7, <1>8, <1>9 DEF Proceed

LEMMA TableStep == TypeOK /\ TableInv /\ [Next]_vars => TableInv'
<1> SUFFICES ASSUME TypeOK, TableInv, [Next]_vars PROVE TableInv'
  OBVIOUS
<1> USE DEF TableInv, OpsInIds, StartsUnannounced, StartsDistinct, OthersAnnounced,
            ReportedWereStarted, TableMatchesAnswers, Starting
<1>1. ASSUME NEW p \in Ids, Process(p) PROVE TableInv'
  BY <1>1 DEF Process, Produce, Exit, PumpOutput, CloseOutput
<1>2. ASSUME NEW c \in Callers, Call(c) \/ Proceed(c) PROVE TableInv'
  BY <1>2, CallKeepsTable, ProceedKeepsTable
<1>3. CASE UNCHANGED vars
  BY <1>3 DEF vars
<1> QED
  BY <1>1, <1>2, <1>3 DEF Next

LEMMA HostTyped == Spec => [](TypeOK /\ TableInv)
<1>1. Init => TypeOK /\ TableInv
  BY InitInv
<1>2. TypeOK /\ TableInv /\ [Next]_vars => TypeOK' /\ TableInv'
  BY TypeStep, TableStep DEF TableInv
<1> QED
  BY <1>1, <1>2, PTL DEF Spec

\* The records of the processes and the calls stay within their types, for
\* every number of callers, processes and chunks.
THEOREM TypeCorrect == Spec => []TypeOK
BY HostTyped, PTL

\* However many calls overlap, the process table holds exactly the processes
\* a caller was told to come back for (webcontainer-host.ts:154-196).
THEOREM TableIsWhatWasTold == Spec => []TableMatchesAnswers
<1>1. TypeOK /\ TableInv => TableMatchesAnswers
  BY DEF TableInv
<1> QED
  BY <1>1, HostTyped, PTL

-----------------------------------------------------------------------------
(***************************************************************************)
(* The output of the processes: what the callers were told of it, one      *)
(* answer after the other, is its beginning, and all of it once a process  *)
(* was reported as exited.                                                 *)
(***************************************************************************)
ToldTyped == told \in [Ids -> Seq(Nat)]

\* Only an answer reads, and after an answer the process is announced or gone.
UnreadUntilReported ==
  \A p \in Ids : proc[p].readOffset # 0 => p \in announced \union gone

\* A process is spawned once, by the call that took its id.
UnstartedFresh == \A p \in Ids : p >= nextProcessId => proc[p].state = "none"

SpawningFresh ==
  \A c \in Callers : At(c, "spawning") => Starting(c) /\ proc[ops[c].id].state = "none"

ClosedIsFinal ==
  \A p \in Ids : proc[p].outputClosed =>
    Exited(p) /\ proc[p].chunks = proc[p].produced

KillsSignalled == \A c \in Callers : At(c, "killing") => proc[ops[c].id].killed

GoneAreRead ==
  \A p \in gone : p \notin hurried /\ ~proc[p].killed =>
    proc[p].outputClosed /\ proc[p].readOffset = proc[p].produced

ReadInv == ToldTyped /\ OutputInOrderOnce /\ UnreadUntilReported

LifeInv == UnstartedFresh /\ SpawningFresh /\ ClosedIsFinal /\ KillsSignalled

HostInv == TypeOK /\ TableInv

-----------------------------------------------------------------------------

LEMMA ReadInit == Init => ReadInv /\ LifeInv /\ GoneAreRead
<1> SUFFICES ASSUME Init PROVE ReadInv /\ LifeInv /\ GoneAreRead
  OBVIOUS
<1>1. \A c \in Callers : ops[c].kind = "none"
  BY DEF Init, NoOp
<1>2. \A p \in Ids : /\ proc[p].state = "none" /\ proc[p].readOffset = 0
                     /\ proc[p].outputClosed = FALSE /\ told[p] = << >>
  BY DEF Init, NoProcess
<1>3. ToldTyped
  BY DEF Init, ToldTyped
<1>4. OutputInOrderOnce /\ UnreadUntilReported
  BY <1>2 DEF OutputInOrderOnce, UnreadUntilReported
<1>5. LifeInv
  BY <1>1, <1>2 DEF LifeInv, UnstartedFresh, SpawningFresh, ClosedIsFinal,
                    KillsSignalled, At
<1>6. GoneAreRead
  BY DEF Init, GoneAreRead
<1> QED
  BY <1>3, <1>4, <1>5, <1>6 DEF ReadInv

(***************************************************************************)
(* A snapshot continues where the last answer ended.                       *)
(***************************************************************************)
LEMMA SnapshotContinues ==
  ASSUME HostInv, ReadInv, NEW c \in Callers, ops[c].kind # "none", Snapshot(c)
  PROVE  ToldTyped' /\ OutputInOrderOnce'
<1> DEFINE p == ops[c].id
           from == proc[p].readOffset
           new == [k \in 1 .. proc[p].chunks - from |-> k + from]
<1>1. p \in Ids /\ RecordsTyped
  BY TypeParts DEF HostInv, TableInv, OpsInIds
<1>2. from \in Nat /\ proc[p].chunks \in Nat /\ from <= proc[p].chunks
  BY <1>1, BoundsAssumption DEF RecordsTyped, RunningProcess
<1>3. ops[c].kind = "start" => from = 0
  BY SMTT(30), <1>1 DEF HostInv, TableInv, StartsUnannounced, Starting, ReadInv, UnreadUntilReported
<1>4. told' = [told EXCEPT ![p] = told[p] \o new]
  BY <1>3 DEF Snapshot
<1>5. told[p] \in Seq(Nat) /\ Len(told[p]) = from
      /\ \A k \in 1 .. from : told[p][k] = k
  BY SMTT(30), <1>1 DEF ReadInv, ToldTyped, OutputInOrderOnce
<1>6. /\ new \in Seq(Nat) /\ Len(new) = proc[p].chunks - from
      /\ \A k \in 1 .. proc[p].chunks - from : new[k] = k + from
  <2>1. proc[p].chunks - from \in Nat
    BY <1>2
  <2>2. new \in [1 .. proc[p].chunks - from -> Nat]
    BY <1>2
  <2>3. new \in Seq(Nat)
    BY <2>1, <2>2, SeqDef
  <2>4. Len(new) = proc[p].chunks - from
    BY <2>1, <2>2, <2>3, LenProperties
  <2> QED
    BY <2>3, <2>4
<1> HIDE DEF new
<1>7. /\ told[p] \o new \in Seq(Nat)
      /\ Len(told[p] \o new) = proc[p].chunks
      /\ \A k \in 1 .. proc[p].chunks :
           (told[p] \o new)[k] = IF k <= from THEN told[p][k] ELSE new[k - from]
  <2>1. /\ told[p] \o new \in Seq(Nat)
        /\ Len(told[p] \o new) = Len(told[p]) + Len(new)
        /\ \A k \in 1 .. Len(told[p]) + Len(new) :
             (told[p] \o new)[k] =
               IF k <= Len(told[p]) THEN told[p][k] ELSE new[k - Len(told[p])]
    BY <1>5, <1>6, ConcatProperties
  <2>2. Len(told[p]) + Len(new) = proc[p].chunks
    BY <1>2, <1>5, <1>6
  <2> QED
    BY <1>5, <2>1, <2>2
<1>8. ASSUME NEW k \in 1 .. proc[p].chunks
      PROVE  (told[p] \o new)[k] = k
  <2>1. CASE k <= from
    BY <1>2, <1>5, <1>7, <2>1
  <2>2. CASE ~(k <= from)
    <3>1. k - from \in 1 .. proc[p].chunks - from /\ (k - from) + from = k
      BY <1>2, <2>2
    <3>2. new[k - from] = k
      BY <1>6, <3>1
    <3> QED
      BY <1>7, <2>2, <3>2
  <2> QED
    BY <2>1, <2>2
<1>9. ToldTyped'
  BY <1>1, <1>4, <1>7 DEF ReadInv, ToldTyped
<1>10. ASSUME NEW q \in Ids
       PROVE  Len(told'[q]) = proc'[q].readOffset /\ \A k \in DOMAIN told'[q] : told'[q][k] = k
  <2>1. proc' = [proc EXCEPT ![p].readOffset = proc[p].chunks]
    BY <1>1, SnapshotTyped DEF HostInv
  <2>2. CASE q = p
    <3>1. told'[q] = told[p] \o new
      BY <1>1, <1>4, <2>2 DEF ReadInv, ToldTyped
    <3>2. proc'[q].readOffset = proc[p].chunks
      BY <1>1, <2>1, <2>2 DEF RecordsTyped, RunningProcess
    <3>3. DOMAIN told'[q] = 1 .. proc[p].chunks
      BY <1>7, <3>1
    <3> QED
      BY <1>7, <1>8, <3>1, <3>2, <3>3
  <2>3. CASE q # p
    <3>1. told'[q] = told[q] /\ proc'[q] = proc[q]
      BY <1>4, <2>1, <2>3, <1>1 DEF ReadInv, ToldTyped, RecordsTyped
    <3> QED
      BY <3>1 DEF ReadInv, OutputInOrderOnce
  <2> QED
    BY <2>2, <2>3
<1> QED
  BY <1>9, <1>10 DEF OutputInOrderOnce

\* What every step but a snapshot does to the read output: nothing.
ReadAlone ==
  told' = told /\ \A p \in Ids : proc'[p].readOffset = proc[p].readOffset

LEMMA OthersReadNothing ==
  ASSUME HostInv,
         \/ \E p \in Ids : Process(p)
         \/ \E c \in Callers : Call(c)
         \/ \E c \in Callers :
              \/ Spawned(c) \/ SpawnFails(c) \/ Written(c) \/ WriteFails(c)
              \/ SettleOutput(c) \/ KillEnds(c)
         \/ UNCHANGED vars
  PROVE  ReadAlone
<1> USE DEF ReadAlone
<1>1. \A p \in Ids : proc[p] \in RunningProcess
  BY TypeParts DEF HostInv, RecordsTyped
<1>2. proc \in [Ids -> RunningProcess]
  BY TypeParts DEF HostInv, RecordsTyped
<1>3. ASSUME NEW p \in Ids, Process(p) PROVE ReadAlone
  BY <1>1, <1>2, <1>3 DEF Process, Produce, Exit, PumpOutput, CloseOutput, RunningProcess
<1>4. ASSUME NEW c \in Callers, Call(c) PROVE ReadAlone
  BY <1>1, <1>2, <1>4 DEF Call, Start, PollOutput, WriteStdin, Kill, RunningProcess
<1>5. ASSUME NEW c \in Callers, Spawned(c) PROVE ReadAlone
  BY <1>1, <1>2, <1>5 DEF Spawned, RunningProcess
<1>6. ASSUME NEW c \in Callers,
             SpawnFails(c) \/ Written(c) \/ WriteFails(c) \/ SettleOutput(c) \/ KillEnds(c)
      PROVE  ReadAlone
  BY <1>6 DEF SpawnFails, Written, WriteFails, SettleOutput, KillEnds
<1>7. CASE UNCHANGED vars
  BY <1>7 DEF vars
<1> QED
  BY <1>3, <1>4, <1>5, <1>6, <1>7

LEMMA ReportsGrow ==
  [Next]_vars => announced \union gone \subseteq announced' \union gone'
BY DEF Next, vars, Process, Produce, Exit, PumpOutput, CloseOutput, Call, Start,
       PollOutput, WriteStdin, Kill, Proceed, Spawned, SpawnFails, Written, WriteFails,
       AnswerRunning, SettleOutput, AnswerExited, KillEnds

LEMMA ReadStep == HostInv /\ ReadInv /\ [Next]_vars => ReadInv'
<1> SUFFICES ASSUME HostInv, ReadInv, [Next]_vars PROVE ReadInv'
  OBVIOUS
<1>1. announced \union gone \subseteq announced' \union gone'
  BY ReportsGrow
<1>2. CASE ReadAlone
  BY <1>1, <1>2 DEF ReadAlone, ReadInv, ToldTyped, OutputInOrderOnce, UnreadUntilReported
<1>3. ASSUME NEW c \in Callers, AnswerRunning(c) \/ AnswerExited(c) PROVE ReadInv'
  <2>1. Snapshot(c) /\ ops[c].kind # "none"
        /\ ops[c].id \in announced' \union gone'
    BY <1>3 DEF AnswerRunning, AnswerExited, At
  <2>2. ToldTyped' /\ OutputInOrderOnce'
    BY <2>1, SnapshotContinues
  <2>3. UnreadUntilReported'
    <3>1. proc' = [proc EXCEPT ![ops[c].id].readOffset = proc[ops[c].id].chunks]
      BY <2>1 DEF Snapshot
    <3>2. \A p \in Ids : p # ops[c].id => proc'[p] = proc[p]
      BY <3>1, TypeParts DEF HostInv, RecordsTyped
    <3> QED
      BY <1>1, <2>1, <3>2 DEF ReadInv, UnreadUntilReported
  <2> QED
    BY <2>2, <2>3 DEF ReadInv
<1> QED
  BY <1>2, <1>3, OthersReadNothing DEF Next, Proceed

(***************************************************************************)
(* The life of a process, and of the calls for it.                         *)
(***************************************************************************)
LEMMA ProcessLife ==
  ASSUME HostInv, LifeInv, NEW p \in Ids, Process(p)
  PROVE  LifeInv'
<1> USE DEF LifeInv, UnstartedFresh, SpawningFresh, ClosedIsFinal, KillsSignalled,
            At, Starting, Exited
<1>1. proc \in [Ids -> RunningProcess] /\ ops \in [Callers -> Operation]
  BY TypeParts DEF HostInv, RecordsTyped
<1>2. UNCHANGED <<nextProcessId, ops>> /\ \A q \in Ids : q # p => proc'[q] = proc[q]
  BY <1>1 DEF Process, Produce, Exit, PumpOutput, CloseOutput
<1>3. \A c \in Callers : ops[c].kind # "none" => ops[c].id \in Ids
  BY DEF HostInv, TableInv, OpsInIds
<1>4. proc'[p].killed = proc[p].killed /\ (proc[p].state = "none" => proc'[p].state = "none")
  BY <1>1 DEF Process, Produce, Exit, PumpOutput, CloseOutput, RunningProcess
<1>5. UnstartedFresh' /\ SpawningFresh' /\ KillsSignalled'
  BY <1>2, <1>3, <1>4
<1>6. ClosedIsFinal'
  <2>1. CASE Produce(p)
    BY <1>1, <1>2, <2>1 DEF Produce, RunningProcess
  <2>2. CASE Exit(p)
    BY <1>1, <1>2, <2>2 DEF Exit, RunningProcess
  <2>3. CASE PumpOutput(p)
    <3>1. proc[p].chunks # proc[p].produced
      BY <1>1, <2>3, BoundsAssumption DEF PumpOutput, RunningProcess
    <3>2. proc'[p].outputClosed = proc[p].outputClosed
      BY <1>1, <2>3 DEF PumpOutput, RunningProcess
    <3> QED
      BY <1>2, <3>1, <3>2
  <2>4. CASE CloseOutput(p)
    BY <1>1, <1>2, <2>4 DEF CloseOutput, RunningProcess
  <2> QED
    BY <2>1, <2>2, <2>3, <2>4 DEF Process
<1> QED
  BY <1>5, <1>6

LEMMA CallLife ==
  ASSUME HostInv, LifeInv, NEW c \in Callers, Call(c)
  PROVE  LifeInv'
<1> USE DEF LifeInv, UnstartedFresh, SpawningFresh, ClosedIsFinal, KillsSignalled,
            At, Starting, Exited
<1>1. /\ proc \in [Ids -> RunningProcess] /\ ops \in [Callers -> Operation]
      /\ nextProcessId \in Nat /\ Ids \subseteq Nat
  BY TypeParts, BoundsAssumption DEF HostInv, RecordsTyped, SetsTyped, Ids
<1>2. CASE Start(c)
  <2>1. ops'[c].kind = "start" /\ ops'[c].id = nextProcessId /\ ops'[c].at = "spawning"
        /\ \A d \in Callers : d # c => ops'[d] = ops[d]
    BY <1>1, <1>2 DEF Start
  <2>2. proc' = proc /\ nextProcessId' = nextProcessId + 1 /\ nextProcessId \in Ids
    BY <1>2 DEF Start
  <2>3. proc[nextProcessId].state = "none"
    BY <1>1, <2>2
  <2>4. UnstartedFresh'
    <3>1. \A p \in Nat : p >= nextProcessId + 1 => p >= nextProcessId
      BY <1>1
    <3> QED
      BY <1>1, <2>2, <3>1
  <2> QED
    BY <2>1, <2>2, <2>3, <2>4
<1>3. ASSUME NEW p \in Ids, PollOutput(c, p) \/ WriteStdin(c, p) \/ Kill(c, p)
      PROVE  LifeInv'
  <2>1. /\ ops'[c].id = p /\ ops'[c].at # "spawning"
        /\ ops'[c].at = "killing" => proc'[p].killed
        /\ \A d \in Callers : d # c => ops'[d] = ops[d]
    BY <1>1, <1>3 DEF PollOutput, WriteStdin, Kill, RunningProcess
  <2>2. /\ nextProcessId' = nextProcessId
        /\ \A q \in Ids : /\ proc'[q].state = proc[q].state
                          /\ proc'[q].outputClosed = proc[q].outputClosed
                          /\ proc'[q].chunks = proc[q].chunks
                          /\ proc'[q].produced = proc[q].produced
                          /\ proc[q].killed => proc'[q].killed
    BY <1>1, <1>3 DEF PollOutput, WriteStdin, Kill, RunningProcess
  <2>3. \A d \in Callers : ops[d].kind # "none" => ops[d].id \in Ids
    BY DEF HostInv, TableInv, OpsInIds
  <2> QED
    BY <2>1, <2>2, <2>3
<1> QED
  BY <1>2, <1>3 DEF Call

LEMMA ProceedLife ==
  ASSUME HostInv, LifeInv, NEW c \in Callers, Proceed(c)
  PROVE  LifeInv'
<1> USE DEF LifeInv, UnstartedFresh, SpawningFresh, ClosedIsFinal, KillsSignalled,
            At, Starting, Exited
<1>1. /\ proc \in [Ids -> RunningProcess] /\ ops \in [Callers -> Operation]
      /\ nextProcessId \in Nat /\ Ids \subseteq Nat
  BY TypeParts, BoundsAssumption DEF HostInv, RecordsTyped, SetsTyped, Ids
<1>2. \A d \in Callers : ops[d].kind # "none" => ops[d].id \in Ids
  BY DEF HostInv, TableInv, OpsInIds
<1>3. /\ nextProcessId' = nextProcessId
      /\ \A d \in Callers : d # c => ops'[d] = ops[d]
      /\ ops'[c].kind = "none" \/ ops'[c].at \in {"waiting", "settling"}
  BY <1>1 DEF Proceed, Spawned, SpawnFails, Written, WriteFails, AnswerRunning,
              SettleOutput, AnswerExited, KillEnds, MoveTo, Return, NoOp, Operation
<1>4. CASE Spawned(c)
  <2>1. /\ proc' = [proc EXCEPT ![ops[c].id].state = "alive"]
        /\ ops[c].id \in Ids /\ Starting(c) /\ proc[ops[c].id].state = "none"
    BY <1>2, <1>4 DEF Spawned
  <2>2. \A q \in Ids : q # ops[c].id => proc'[q] = proc[q]
    BY <1>1, <2>1
  <2>3. /\ proc'[ops[c].id].outputClosed = proc[ops[c].id].outputClosed
        /\ proc'[ops[c].id].killed = proc[ops[c].id].killed
    BY <1>1, <2>1 DEF RunningProcess
  <2>4. UnstartedFresh'
    <3>1. ops[c].id < nextProcessId
      BY <2>1 DEF HostInv, TableInv, StartsUnannounced
    <3>2. ~(ops[c].id >= nextProcessId)
      BY <1>1, <2>1, <3>1
    <3> QED
      BY <1>3, <2>2, <3>2
  <2>5. SpawningFresh'
    <3>1. \A d \in Callers : d # c /\ Starting(d) => ops[d].id # ops[c].id
      BY <2>1 DEF HostInv, TableInv, StartsDistinct
    <3> QED
      BY <1>2, <1>3, <2>2, <3>1
  <2>6. ClosedIsFinal' /\ KillsSignalled'
    BY <1>2, <1>3, <2>1, <2>2, <2>3
  <2> QED
    BY <2>4, <2>5, <2>6
<1>5. ASSUME \A q \in Ids : /\ proc'[q].state = proc[q].state
                            /\ proc'[q].outputClosed = proc[q].outputClosed
                            /\ proc'[q].chunks = proc[q].chunks
                            /\ proc'[q].produced = proc[q].produced
                            /\ proc'[q].killed = proc[q].killed
      PROVE  LifeInv'
  BY <1>2, <1>3, <1>5
<1>6. CASE AnswerRunning(c) \/ AnswerExited(c)
  <2>1. proc' = [proc EXCEPT ![ops[c].id].readOffset = proc[ops[c].id].chunks]
    BY <1>6 DEF AnswerRunning, AnswerExited, Snapshot
  <2> QED
    BY SMTT(30), <1>1, <1>5, <2>1 DEF RunningProcess
<1>7. CASE UNCHANGED proc
  BY <1>5, <1>7
<1> QED
  BY <1>4, <1>6, <1>7 DEF Proceed, SpawnFails, Written, WriteFails, SettleOutput, KillEnds

LEMMA LifeStep == HostInv /\ LifeInv /\ [Next]_vars => LifeInv'
<1> SUFFICES ASSUME HostInv, LifeInv, [Next]_vars PROVE LifeInv'
  OBVIOUS
<1>1. CASE UNCHANGED vars
  BY <1>1 DEF vars, LifeInv, UnstartedFresh, SpawningFresh, ClosedIsFinal,
              KillsSignalled, At, Starting, Exited
<1> QED
  BY <1>1, ProcessLife, CallLife, ProceedLife DEF Next

(***************************************************************************)
(* A process that was reported as exited has been read to its end.         *)
(***************************************************************************)
LEMMA GoneStep ==
  HostInv /\ LifeInv /\ GoneAreRead /\ [Next]_vars => GoneAreRead'
<1> SUFFICES ASSUME HostInv, LifeInv, GoneAreRead, [Next]_vars PROVE GoneAreRead'
  OBVIOUS
<1>1. /\ proc \in [Ids -> RunningProcess] /\ gone \subseteq Ids
  BY TypeParts DEF HostInv, RecordsTyped, SetsTyped
<1>2. \A p \in Ids : proc[p].outputClosed =>
        proc[p].state = "exited" /\ proc[p].chunks = proc[p].produced
  BY DEF LifeInv, ClosedIsFinal, Exited
<1>3. ASSUME NEW p \in Ids, Process(p) PROVE GoneAreRead'
  <2>1. UNCHANGED <<gone, hurried>> /\ \A q \in Ids : q # p => proc'[q] = proc[q]
    BY <1>1, <1>3 DEF Process, Produce, Exit, PumpOutput, CloseOutput
  <2>2. ~proc[p].outputClosed /\ proc'[p].killed = proc[p].killed
    BY <1>1, <1>2, <1>3, BoundsAssumption
       DEF Process, Produce, Exit, PumpOutput, CloseOutput, Exited, RunningProcess
  <2>3. \A q \in gone : q \notin hurried /\ ~proc'[q].killed => q # p
    BY <2>2 DEF GoneAreRead
  <2> QED
    BY <1>1, <2>1, <2>3 DEF GoneAreRead
<1>4. ASSUME NEW c \in Callers, Call(c) PROVE GoneAreRead'
  <2>1. UNCHANGED <<gone, hurried>>
    BY <1>4 DEF Call, Start, PollOutput, WriteStdin, Kill
  <2>2. \A q \in Ids : /\ proc'[q].outputClosed = proc[q].outputClosed
                       /\ proc'[q].readOffset = proc[q].readOffset
                       /\ proc'[q].produced = proc[q].produced
                       /\ \/ proc'[q].killed = proc[q].killed
                          \/ proc'[q].killed = TRUE
    BY <1>1, <1>4 DEF Call, Start, PollOutput, WriteStdin, Kill, RunningProcess
  <2> QED
    BY <1>1, <2>1, <2>2 DEF GoneAreRead
<1>5. ASSUME NEW c \in Callers, Proceed(c) PROVE GoneAreRead'
  <2>1. ops[c].id \in Ids
    BY <1>5 DEF HostInv, TableInv, OpsInIds, Proceed, Spawned, SpawnFails, Written,
                WriteFails, AnswerRunning, SettleOutput, AnswerExited, KillEnds, At
  <2>2. CASE Spawned(c)
    <3>1. UNCHANGED <<gone, hurried>>
          /\ proc' = [proc EXCEPT ![ops[c].id].state = "alive"]
      BY <2>2 DEF Spawned
    <3> QED
      BY <1>1, <3>1 DEF GoneAreRead, RunningProcess
  <2>3. CASE SpawnFails(c) \/ Written(c) \/ WriteFails(c) \/ SettleOutput(c)
    BY <2>3 DEF SpawnFails, Written, WriteFails, SettleOutput, GoneAreRead
  <2>4. CASE AnswerRunning(c)
    <3>1. /\ UNCHANGED <<gone, hurried>> /\ ~proc[ops[c].id].outputClosed
          /\ proc' = [proc EXCEPT ![ops[c].id].readOffset = proc[ops[c].id].chunks]
      BY <1>2, <2>1, <2>4 DEF AnswerRunning, Exited, Snapshot
    <3> QED
      BY <1>1, <3>1 DEF GoneAreRead, RunningProcess
  <2>5. CASE AnswerExited(c)
    <3>1. /\ gone' = gone \union {ops[c].id}
          /\ \/ proc[ops[c].id].outputClosed /\ hurried' = hurried
             \/ hurried' = hurried \union {ops[c].id}
          /\ proc' = [proc EXCEPT ![ops[c].id].readOffset = proc[ops[c].id].chunks]
      BY <2>5 DEF AnswerExited, Snapshot
    <3>2. /\ proc'[ops[c].id].outputClosed = proc[ops[c].id].outputClosed
          /\ proc'[ops[c].id].readOffset = proc[ops[c].id].chunks
          /\ proc'[ops[c].id].produced = proc[ops[c].id].produced
      BY <1>1, <2>1, <3>1 DEF RunningProcess
    <3>3. \A q \in Ids : q # ops[c].id => proc'[q] = proc[q]
      BY <1>1, <3>1
    <3>4. ASSUME NEW q \in gone', q \notin hurried', ~proc'[q].killed
          PROVE  proc'[q].outputClosed /\ proc'[q].readOffset = proc'[q].produced
      <4>1. CASE q = ops[c].id
        BY <1>2, <2>1, <3>1, <3>2, <3>4, <4>1
      <4>2. CASE q # ops[c].id
        BY <1>1, <3>1, <3>3, <3>4, <4>2 DEF GoneAreRead
      <4> QED
        BY <4>1, <4>2
    <3> QED
      BY SMTT(30), <3>4 DEF GoneAreRead
  <2>6. CASE KillEnds(c)
    <3>1. gone' = gone \union {ops[c].id} /\ UNCHANGED <<proc, hurried>>
          /\ proc[ops[c].id].killed
      BY <2>6 DEF KillEnds, LifeInv, KillsSignalled
    <3> QED
      BY <3>1 DEF GoneAreRead
  <2> QED
    BY <1>5, <2>2, <2>3, <2>4, <2>5, <2>6 DEF Proceed
<1>6. CASE UNCHANGED vars
  BY <1>6 DEF vars, GoneAreRead
<1> QED
  BY <1>3, <1>4, <1>5, <1>6 DEF Next

-----------------------------------------------------------------------------

LEMMA ReadInvariant == Spec => [](HostInv /\ ReadInv /\ LifeInv /\ GoneAreRead)
<1>1. Init => ReadInv /\ LifeInv /\ GoneAreRead
  BY ReadInit
<1>2. HostInv /\ (ReadInv /\ LifeInv /\ GoneAreRead) /\ [Next]_vars
        => ReadInv' /\ LifeInv' /\ GoneAreRead'
  BY ReadStep, LifeStep, GoneStep
<1>3. Spec => []HostInv
  BY HostTyped DEF HostInv
<1> QED
  BY <1>1, <1>2, <1>3, PTL DEF Spec

\* Whatever calls overlap, the answers about one process, one after the other,
\* give its output without a gap and nothing twice
\* (webcontainer-host.ts:332-341).
THEOREM OutputIsToldOnce == Spec => []OutputInOrderOnce
<1>1. ReadInv => OutputInOrderOnce
  BY DEF ReadInv
<1> QED
  BY <1>1, ReadInvariant, PTL

\* A process reported as exited has been read to the end, unless the answer
\* gave up on its output or it was killed (webcontainer-host.ts:157, 172, 185).
THEOREM ExitReportsAreComplete == Spec => []ExitReportIsComplete
<1>1. HostInv /\ ReadInv /\ GoneAreRead => ExitReportIsComplete
  BY TypeParts DEF HostInv, SetsTyped, ReadInv, OutputInOrderOnce, GoneAreRead,
                   ExitReportIsComplete
<1> QED
  BY <1>1, ReadInvariant, PTL

\* Whatever calls overlap, the answers about a process give its output in
\* order, once, and to its end (webcontainer-host.ts:156-187, 328-352).
THEOREM OutputIsToldCompletely == Spec => []OutputTold
<1>1. OutputInOrderOnce /\ ExitReportIsComplete => OutputTold
  BY DEF OutputTold
<1> QED
  BY <1>1, OutputIsToldOnce, ExitReportsAreComplete, PTL
=============================================================================
