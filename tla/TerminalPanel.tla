----------------------------- MODULE TerminalPanel -----------------------------
(***************************************************************************)
(* The terminal of the page (routes/index.tsx) and the shells it starts    *)
(* (startTerminal, index.ts). Each run of the effect starts a shell of its *)
(* own, and its cleanup kills it; a shell that is still being started then *)
(* is killed when it answers. Runs of the effect are numbered, and a shell *)
(* has the number of the run that started it.                              *)
(***************************************************************************)
EXTENDS Naturals, FiniteSets

CONSTANT MaxEffects   \* bound on the runs of the effect

Effects == 1 .. MaxEffects

VARIABLES
  isReady, sessionId,  \* what the effect depends on
  effects,             \* number of its runs, the last of which is current
  cancelled,           \* the runs that were cleaned up
  shell,               \* per run: its process, "none" before the run
  shellRef,            \* the shell that keys go to, 0 for none
  writes,              \* shells that writes are under way to
  status               \* text of the panel, and the run it is about

terminal == <<isReady, sessionId, effects, cancelled, shell, shellRef, writes, status>>

Init ==
  /\ isReady = FALSE /\ sessionId = 0
  /\ effects = 0 /\ cancelled = {} /\ shell = [e \in Effects |-> "none"]
  /\ shellRef = 0 /\ writes = {} /\ status = [by |-> 0, says |-> "waiting"]

Say(e, text) == status' = [by |-> e, says |-> text]

SayUnlessCancelled(e, text) ==
  IF e \in cancelled THEN UNCHANGED status ELSE Say(e, text)

(***************************************************************************)
(* React runs the effect again when a dependency has changed, after the    *)
(* cleanup of the run before.                                              *)
(***************************************************************************)
KillsCurrent(e) == e = effects /\ shell[e] = "running"

Effect ==
  /\ effects < MaxEffects
  /\ cancelled' = cancelled \union (1 .. effects)
  /\ IF isReady' /\ sessionId' # 0
     THEN /\ effects' = effects + 1
          /\ shell' = [e \in Effects |-> IF e = effects + 1 THEN "starting"
                                         ELSE IF KillsCurrent(e) THEN "killed" ELSE shell[e]]
          /\ Say(effects + 1, "starting")
     ELSE UNCHANGED <<effects, shell, status>>
  /\ shellRef' = 0
  /\ UNCHANGED writes

onReady ==
  /\ ~isReady /\ isReady' = TRUE /\ UNCHANGED sessionId
  /\ Effect

\* The runtime is known when there is a session.
SelectSession ==
  /\ sessionId' \in {1, 2} \ {sessionId} /\ UNCHANGED isReady
  /\ Effect

(***************************************************************************)
(* The shell.                                                              *)
(***************************************************************************)
\* Seeded bug: a shell that comes after the cleanup is kept.
StartedUnchecked(e) ==
  /\ shell[e] = "starting"
  /\ shell' = [shell EXCEPT ![e] = "running"]
  /\ shellRef' = e /\ Say(e, "connected")
  /\ UNCHANGED <<isReady, sessionId, effects, cancelled, writes>>

Started(e) ==
  /\ shell[e] = "starting"
  /\ IF e \in cancelled
     THEN shell' = [shell EXCEPT ![e] = "killed"] /\ UNCHANGED <<shellRef, status>>
     ELSE /\ shell' = [shell EXCEPT ![e] = "running"]
          /\ shellRef' = e /\ Say(e, "connected")
  /\ UNCHANGED <<isReady, sessionId, effects, cancelled, writes>>

StartFails(e) ==
  /\ shell[e] = "starting"
  /\ shell' = [shell EXCEPT ![e] = "failed"]
  /\ SayUnlessCancelled(e, "error")
  /\ UNCHANGED <<isReady, sessionId, effects, cancelled, shellRef, writes>>

\* shellRef keeps the shell, whose input is released.
Exits(e) ==
  /\ shell[e] = "running"
  /\ shell' = [shell EXCEPT ![e] = "exited"]
  /\ SayUnlessCancelled(e, "exit")
  /\ UNCHANGED <<isReady, sessionId, effects, cancelled, shellRef, writes>>

OutputBreaks(e) ==
  /\ shell[e] \in {"running", "exited", "killed"}
  /\ SayUnlessCancelled(e, "error")
  /\ UNCHANGED <<isReady, sessionId, effects, cancelled, shell, shellRef, writes>>

(***************************************************************************)
(* Keys.                                                                   *)
(***************************************************************************)
onData ==
  /\ shellRef # 0
  /\ writes' = writes \union {shellRef}
  /\ UNCHANGED <<isReady, sessionId, effects, cancelled, shell, shellRef, status>>

WriteDone(e) ==
  /\ e \in writes /\ writes' = writes \ {e}
  /\ UNCHANGED <<isReady, sessionId, effects, cancelled, shell, shellRef, status>>

\* A failed write is told of whichever shell the panel shows by then.
WriteFails(e) ==
  /\ e \in writes /\ writes' = writes \ {e}
  /\ Say(e, "writeFailed")
  /\ UNCHANGED <<isReady, sessionId, effects, cancelled, shell, shellRef>>

-----------------------------------------------------------------------------

User == onReady \/ SelectSession \/ onData

Answer(e) ==
  \/ Started(e) \/ StartFails(e) \/ Exits(e) \/ OutputBreaks(e)
  \/ WriteDone(e) \/ WriteFails(e)

Spawned == \E e \in Effects : Started(e) \/ StartFails(e)

Next == User \/ \E e \in Effects : Answer(e)

-----------------------------------------------------------------------------

\* Keys go to the shell of the current run.
KeysReachCurrentShell ==
  shellRef # 0 => /\ shellRef = effects /\ effects \notin cancelled
                  /\ shell[effects] \in {"running", "exited"}

\* Unless a write failed, the panel tells of the current run and of what its
\* shell has come to.
TellsCurrentShell ==
  effects \notin cancelled /\ effects # 0 /\ status.says # "writeFailed" =>
    /\ status.by = effects
    /\ status.says = "starting" <=> shell[effects] = "starting"
    /\ status.says = "connected" => shell[effects] = "running"
    /\ shell[effects] = "exited" => status.says \in {"exit", "error"}

Alive(e) == shell[e] \in {"starting", "running"}

\* However fast the sessions are switched: keys and status belong to the shell
\* of the session shown, and no shell started for another one lives on
\* (index.tsx:728-781).
TerminalRight ==
  /\ [](KeysReachCurrentShell /\ TellsCurrentShell)
  /\ (\E e \in cancelled : Alive(e)) ~> (\A e \in cancelled : ~Alive(e))
=============================================================================
