------------------------------- MODULE HostExec -------------------------------
(***************************************************************************)
(* WebContainerHostExec (webcontainer-host.ts): the process table behind   *)
(* the exec_command and write_stdin tools. Its operations are asynchronous *)
(* and may overlap, for one another and with the processes themselves; each*)
(* runs to its next await without interruption, and is here one action per *)
(* such stretch.                                                           *)
(*                                                                         *)
(* A call with an id the table does not hold throws at once and changes    *)
(* nothing, and resize changes no state kept here: both are left out.      *)
(***************************************************************************)
EXTENDS Naturals, Sequences

CONSTANTS
  Callers,        \* calls that may be under way at a time
  MaxProcesses,   \* bound on the processes started
  MaxChunks       \* bound on the output chunks of a process

ASSUME BoundsAssumption == MaxProcesses \in Nat /\ MaxChunks \in Nat

VARIABLES
  nextProcessId,  \* WebContainerHostExec.nextProcessId
  processes,      \* the keys of WebContainerHostExec.processes
  proc,           \* every RunningProcess record and its process
  ops,            \* the operation each caller waits for
  \* history variables, for the properties
  told,           \* the chunks of each process its callers got, in order
  announced,      \* processes reported as running
  gone,           \* processes reported as exited, or killed
  hurried         \* processes whose output settleOutput did not wait for

vars == <<nextProcessId, processes, proc, ops, told, announced, gone, hurried>>

Ids == 1 .. MaxProcesses

RunningProcess == [state : {"none", "alive", "exited"}, killed : BOOLEAN,
                   produced : 0 .. MaxChunks, chunks : 0 .. MaxChunks,
                   readOffset : 0 .. MaxChunks, outputClosed : BOOLEAN]

Operation == [kind : {"none", "start", "poll", "write", "kill"}, id : 0 .. MaxProcesses,
              at : {"done", "spawning", "writing", "waiting", "settling", "killing"}]

NoProcess == [state |-> "none", killed |-> FALSE, produced |-> 0, chunks |-> 0,
              readOffset |-> 0, outputClosed |-> FALSE]

NoOp == [kind |-> "none", id |-> 0, at |-> "done"]

Init ==
  /\ nextProcessId = 1 /\ processes = {}
  /\ proc = [p \in Ids |-> NoProcess]
  /\ ops = [c \in Callers |-> NoOp]
  /\ told = [p \in Ids |-> << >>]
  /\ announced = {} /\ gone = {} /\ hurried = {}

Exited(p) == proc[p].state = "exited"

\* Caller c waits at the given await of its operation.
At(c, step) == ops[c].kind # "none" /\ ops[c].at = step

MoveTo(c, step) == ops' = [ops EXCEPT ![c].at = step]

Return(c) == ops' = [ops EXCEPT ![c] = NoOp]

(***************************************************************************)
(* The process and its output stream. Chunks are numbered in the order the *)
(* process writes them; pumpOutput moves them to the record one at a time. *)
(***************************************************************************)
Produce(p) ==
  /\ proc[p].state = "alive" /\ proc[p].produced < MaxChunks
  /\ proc' = [proc EXCEPT ![p].produced = @ + 1]
  /\ UNCHANGED <<nextProcessId, processes, ops, told, announced, gone, hurried>>

\* record.exitCode is set before any other reaction to the exit.
Exit(p) ==
  /\ proc[p].state = "alive"
  /\ proc' = [proc EXCEPT ![p].state = "exited"]
  /\ UNCHANGED <<nextProcessId, processes, ops, told, announced, gone, hurried>>

PumpOutput(p) ==
  /\ proc[p].chunks < proc[p].produced
  /\ proc' = [proc EXCEPT ![p].chunks = @ + 1]
  /\ UNCHANGED <<nextProcessId, processes, ops, told, announced, gone, hurried>>

CloseOutput(p) ==
  /\ Exited(p) /\ proc[p].chunks = proc[p].produced /\ ~proc[p].outputClosed
  /\ proc' = [proc EXCEPT ![p].outputClosed = TRUE]
  /\ UNCHANGED <<nextProcessId, processes, ops, told, announced, gone, hurried>>

(***************************************************************************)
(* snapshot: start returns all the output so far, the others what is new.  *)
(***************************************************************************)
\* Seeded bug: output that is still in the stream counts as read.
SnapshotAhead(c) ==
  LET p == ops[c].id
      from == IF ops[c].kind = "start" THEN 0 ELSE proc[p].readOffset
  IN  /\ told' = [told EXCEPT ![p] =
                    @ \o [k \in 1 .. proc[p].chunks - from |-> k + from]]
      /\ proc' = [proc EXCEPT ![p].readOffset = proc[p].produced]

Snapshot(c) ==
  LET p == ops[c].id
      from == IF ops[c].kind = "start" THEN 0 ELSE proc[p].readOffset
  IN  /\ told' = [told EXCEPT ![p] =
                    @ \o [k \in 1 .. proc[p].chunks - from |-> k + from]]
      /\ proc' = [proc EXCEPT ![p].readOffset = proc[p].chunks]

(***************************************************************************)
(* The operations.                                                         *)
(***************************************************************************)
Start(c) ==
  /\ ops[c] = NoOp /\ nextProcessId \in Ids
  /\ ops' = [ops EXCEPT ![c] = [kind |-> "start", id |-> nextProcessId,
                                at |-> "spawning"]]
  /\ nextProcessId' = nextProcessId + 1
  /\ UNCHANGED <<processes, proc, told, announced, gone, hurried>>

Spawned(c) ==
  /\ At(c, "spawning")
  /\ proc' = [proc EXCEPT ![ops[c].id].state = "alive"]
  /\ MoveTo(c, "waiting")
  /\ UNCHANGED <<nextProcessId, processes, told, announced, gone, hurried>>

SpawnFails(c) ==
  /\ At(c, "spawning")
  /\ Return(c)
  /\ UNCHANGED <<nextProcessId, processes, proc, told, announced, gone, hurried>>

PollOutput(c, p) ==
  /\ ops[c] = NoOp /\ p \in processes
  /\ ops' = [ops EXCEPT ![c] = [kind |-> "poll", id |-> p, at |-> "waiting"]]
  /\ UNCHANGED <<nextProcessId, processes, proc, told, announced, gone, hurried>>

WriteStdin(c, p) ==
  /\ ops[c] = NoOp /\ p \in processes
  /\ ops' = [ops EXCEPT ![c] = [kind |-> "write", id |-> p, at |-> "writing"]]
  /\ UNCHANGED <<nextProcessId, processes, proc, told, announced, gone, hurried>>

Written(c) ==
  /\ At(c, "writing")
  /\ MoveTo(c, "waiting")
  /\ UNCHANGED <<nextProcessId, processes, proc, told, announced, gone, hurried>>

\* The write throws, and whatever the process has become stays in the table.
WriteFails(c) ==
  /\ At(c, "writing") /\ Exited(ops[c].id)
  /\ Return(c)
  /\ UNCHANGED <<nextProcessId, processes, proc, told, announced, gone, hurried>>

\* The yield time is over and the process runs.
AnswerRunning(c) ==
  /\ At(c, "waiting") /\ ~Exited(ops[c].id)
  /\ processes' = IF ops[c].kind = "start" THEN processes \union {ops[c].id}
                                           ELSE processes
  /\ Snapshot(c)
  /\ announced' = announced \union {ops[c].id}
  /\ Return(c)
  /\ UNCHANGED <<nextProcessId, gone, hurried>>

\* The process has exited: settleOutput starts.
SettleOutput(c) ==
  /\ At(c, "waiting") /\ Exited(ops[c].id)
  /\ MoveTo(c, "settling")
  /\ UNCHANGED <<nextProcessId, processes, proc, told, announced, gone, hurried>>

\* Seeded bug: the last output is not waited for.
AnswerExitedUnsettled(c) ==
  /\ At(c, "settling")
  /\ processes' = processes \ {ops[c].id}
  /\ Snapshot(c)
  /\ gone' = gone \union {ops[c].id}
  /\ Return(c)
  /\ UNCHANGED <<nextProcessId, announced, hurried>>

\* Seeded bug: only pollOutput clears the table.
AnswerExitedKeepingWritten(c) ==
  /\ At(c, "settling")
  /\ \/ proc[ops[c].id].outputClosed /\ UNCHANGED hurried
     \/ hurried' = hurried \union {ops[c].id}
  /\ processes' = IF ops[c].kind = "write" THEN processes ELSE processes \ {ops[c].id}
  /\ Snapshot(c)
  /\ gone' = gone \union {ops[c].id}
  /\ Return(c)
  /\ UNCHANGED <<nextProcessId, announced>>

\* The output was closed, or 25 ms are over. start never added the record.
AnswerExited(c) ==
  /\ At(c, "settling")
  /\ \/ proc[ops[c].id].outputClosed /\ UNCHANGED hurried
     \/ hurried' = hurried \union {ops[c].id}
  /\ processes' = processes \ {ops[c].id}
  /\ Snapshot(c)
  /\ gone' = gone \union {ops[c].id}
  /\ Return(c)
  /\ UNCHANGED <<nextProcessId, announced>>

\* Seeded bug: the process is not signalled.
KillUnsignalled(c, p) ==
  /\ ops[c] = NoOp /\ p \in processes
  /\ ops' = [ops EXCEPT ![c] = [kind |-> "kill", id |-> p, at |-> "killing"]]
  /\ UNCHANGED <<nextProcessId, processes, proc, told, announced, gone, hurried>>

Kill(c, p) ==
  /\ ops[c] = NoOp /\ p \in processes
  /\ ops' = [ops EXCEPT ![c] = [kind |-> "kill", id |-> p, at |-> "killing"]]
  /\ proc' = [proc EXCEPT ![p].killed = TRUE]
  /\ UNCHANGED <<nextProcessId, processes, told, announced, gone, hurried>>

KillEnds(c) ==
  /\ At(c, "killing") /\ Exited(ops[c].id)
  /\ processes' = processes \ {ops[c].id}
  /\ gone' = gone \union {ops[c].id}
  /\ Return(c)
  /\ UNCHANGED <<nextProcessId, proc, told, announced, hurried>>

-----------------------------------------------------------------------------

Process(p) == Produce(p) \/ Exit(p) \/ PumpOutput(p) \/ CloseOutput(p)

Call(c) ==
  \/ Start(c)
  \/ \E p \in Ids : PollOutput(c, p) \/ WriteStdin(c, p) \/ Kill(c, p)

\* What an operation does once its await is over.
Proceed(c) ==
  \/ Spawned(c) \/ SpawnFails(c) \/ Written(c) \/ WriteFails(c)
  \/ AnswerRunning(c) \/ SettleOutput(c) \/ AnswerExited(c) \/ KillEnds(c)

Next ==
  \/ \E p \in Ids : Process(p)
  \/ \E c \in Callers : Call(c) \/ Proceed(c)

Spec == Init /\ [][Next]_vars

(***************************************************************************)
(* Timers fire, streams are pumped, spawn and write are answered, and a    *)
(* process that was killed exits. Nothing makes another process exit, and  *)
(* nobody has to call.                                                     *)
(***************************************************************************)
Fairness ==
  /\ \A c \in Callers : WF_vars(Proceed(c))
  /\ \A p \in Ids : /\ WF_vars(PumpOutput(p) \/ CloseOutput(p))
                    /\ WF_vars(Exit(p) /\ proc[p].killed)

FairSpec == Spec /\ Fairness

-----------------------------------------------------------------------------

\* The records keep within their bounds, and output is never read that was
\* not pumped (webcontainer-host.ts:19-28, 332-352).
TypeOK ==
  /\ nextProcessId \in 1 .. MaxProcesses + 1
  /\ processes \subseteq Ids /\ announced \subseteq Ids
  /\ gone \subseteq Ids /\ hurried \subseteq Ids
  /\ proc \in [Ids -> RunningProcess]
  /\ \A p \in Ids : /\ proc[p].readOffset <= proc[p].chunks
                    /\ proc[p].chunks <= proc[p].produced
  /\ ops \in [Callers -> Operation]

\* The table holds exactly the processes whose callers were told to come back
\* for them: none that was reported as exited or killed, and every other one,
\* whatever calls overlap (webcontainer-host.ts:154-158, 171-174, 184-187,
\* 191-196).
TableMatchesAnswers == processes = announced \ gone

\* Read one answer after the other, the output of a process has no gap and
\* nothing twice.
OutputInOrderOnce ==
  \A p \in Ids : /\ Len(told[p]) = proc[p].readOffset
                 /\ \A k \in DOMAIN told[p] : told[p][k] = k

\* Nothing of the output of a process that was reported as exited is missing,
\* unless settleOutput gave up on it or it was killed.
ExitReportIsComplete ==
  \A p \in gone :
    p \notin hurried /\ ~proc[p].killed => Len(told[p]) = proc[p].produced

\* Whatever calls overlap, what the callers are told of a process is its
\* output, in order, without a gap, nothing twice, and all of it once the
\* process was reported as exited (webcontainer-host.ts:156-187, 328-352).
OutputTold == OutputInOrderOnce /\ ExitReportIsComplete

\* Every operation returns, whatever becomes of its process meanwhile
\* (webcontainer-host.ts:122-196).
CallsReturn == \A c \in Callers : ops[c].kind # "none" ~> ops[c].kind = "none"
=============================================================================
