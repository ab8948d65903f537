-------------------------------- MODULE AgentChat --------------------------------
(***************************************************************************)
(* The AgentChat component (routes/index.tsx): the page's state, its       *)
(* controls, and the async functions behind them. A function runs without  *)
(* interruption from one await to the next, and several may be under way:  *)
(* while a turn runs most controls are disabled, while anything else does  *)
(* they are not. The effect that follows each change of the session or of  *)
(* the provider config starts one more function, which may change both.    *)
(*                                                                         *)
(* Of the runtime this module keeps what the page can tell: whether init   *)
(* succeeded, the provider, the active session, the queue of restores and  *)
(* the list of stored sessions. RuntimeSessions and ConversationStore have *)
(* the rest. A provider config is the number of its save.                  *)
(***************************************************************************)
EXTENDS Naturals, Sequences, FiniteSets, SequencesExt

CONSTANTS
  MaxTasks,    \* bound on the async functions under way at a time
  MaxPresses,  \* bound on the user's actions that start something
  MaxFaults    \* bound on the awaits that reject

ASSUME BoundsAssumption == MaxTasks \in Nat /\ MaxPresses \in Nat /\ MaxFaults \in Nat

\* A random UUID is the number of sessions there were, and one more: each press
\* and the first effect add one at most to the two that may be stored.
Sessions == 1 .. MaxPresses + 3

NoSession == 0  \* undefined

\* Functions are interchangeable: a new one takes the first number that is free.
Tasks == 1 .. MaxTasks

VARIABLES
  \* state and refs of the component
  providerConfig,    \* number of the save, 0 for undefined
  session,           \* the session shown
  sessions,          \* the list shown
  renamingSessionId,
  effectDue,         \* session or providerConfig changed since the effect ran
  task,              \* what each async function waits for
  booting,           \* runtimeInitRef while the first init is under way
  \* the runtime
  ready,             \* its init has succeeded
  provider,          \* options.provider, 0 before createRuntime
  active,            \* activeSession
  queue,             \* workspaceRestoreQueue
  stored,            \* the sessions in the database, last updated first
  \* bounds, and history variables for the properties
  presses, faults,
  unasked,           \* sessions refreshSessions created
  hasty,             \* the user created or saved while the page started up
  chosen             \* the session the user selected last, nothing else since

page == <<providerConfig, session, sessions, renamingSessionId, effectDue>>
runtime == <<ready, provider, active, queue, stored>>
counted == <<presses, faults, unasked, hasty, chosen>>
vars == <<page, task, booting, runtime, counted>>

Summary(id, title) == [id |-> id, title |-> title]

NoTurn == [asked |-> << >>, gets |-> << >>]

Idle == [kind |-> "none", at |-> "done", id |-> NoSession, first |-> FALSE,
         turn |-> NoTurn]

\* A stored config is found when the page starts, or there is none.
Init ==
  /\ providerConfig \in {0, 1} /\ effectDue = (providerConfig # 0)
  /\ session = NoSession /\ sessions = << >> /\ renamingSessionId = NoSession
  /\ task = [t \in Tasks |-> Idle] /\ booting = FALSE
  /\ ready = FALSE /\ provider = 0 /\ active = NoSession /\ queue = << >>
  /\ stored \in {<< >>} \union {<<Summary(2, "NewSession"), Summary(1, "NewSession")>>}
  /\ presses = 0 /\ faults = 0 /\ unasked = {} /\ hasty = FALSE /\ chosen = NoSession

Busy == {t \in Tasks : task[t] # Idle}

Free == {t \in Tasks \ Busy : \A u \in 1 .. t - 1 : u \in Busy}

At(t, step) == task[t].at = step

MoveTo(t, step) == task' = [task EXCEPT ![t].at = step]

Finish(t) == task' = [task EXCEPT ![t] = Idle]

(***************************************************************************)
(* What the page shows of its state, and the controls it offers.           *)
(***************************************************************************)
isRunning == \E t \in Tasks : task[t].kind = "turn"

status == IF booting THEN "booting" ELSE IF isRunning THEN "running" ELSE "summary"

canChat == providerConfig # 0 /\ session # NoSession

NewChatEnabled == providerConfig # 0 /\ ~isRunning

\* A row of the list is a rename form, or a title that loads and a pencil.
RowOffersLoad(s) ==
  /\ ~isRunning /\ renamingSessionId # s
  /\ \E k \in DOMAIN sessions : sessions[k].id = s

RenameFormEnabled ==
  /\ ~isRunning
  /\ \E k \in DOMAIN sessions : sessions[k].id = renamingSessionId

\* Seeded bug: a prompt can be sent while a turn runs.
PromptEnabledWhileRunning == ~booting /\ canChat

PromptEnabled == status = "summary" /\ canChat

(***************************************************************************)
(* ensureRuntime. Once init has succeeded nothing in it waits for anything *)
(* but resolved promises, and it is a part of its caller. Until then a     *)
(* caller that finds an attempt under way joins it, whatever provider      *)
(* config it has itself.                                                   *)
(***************************************************************************)
\* Where a function goes on when it has the runtime.
Entry(kind) == IF kind = "refresh" THEN "list" ELSE kind

\* newSession and loadSession close the rename form.
cancelsRename(kind) == kind \in {"create", "load"}

\* What the user sees when he sends a prompt, and what the turn gets.
Turn(kind, id, config) ==
  IF kind = "turn" THEN [asked |-> <<session, providerConfig>>, gets |-> <<id, config>>]
                   ELSE NoTurn

\* Seeded bug: a runtime that exists keeps the provider it was created with.
ensureRuntimeAsCreated(t, kind, id) ==
  /\ provider' = IF provider = 0 THEN providerConfig ELSE provider
  /\ task' = [task EXCEPT ![t] =
       [kind |-> kind, at |-> IF ready THEN Entry(kind) ELSE "boot", id |-> id,
        first |-> kind = "refresh" /\ session = NoSession, turn |-> Turn(kind, id, provider')]]
  /\ booting' = ~ready
  /\ renamingSessionId' = IF ready /\ cancelsRename(kind) THEN NoSession
                                                          ELSE renamingSessionId

ensureRuntime(t, kind, id) ==
  /\ provider' = IF booting THEN provider ELSE providerConfig
  /\ task' = [task EXCEPT ![t] =
       [kind |-> kind, at |-> IF ready THEN Entry(kind) ELSE "boot", id |-> id,
        first |-> kind = "refresh" /\ session = NoSession, turn |-> Turn(kind, id, provider')]]
  /\ booting' = ~ready
  /\ renamingSessionId' = IF ready /\ cancelsRename(kind) THEN NoSession
                                                          ELSE renamingSessionId

BootDone ==
  /\ booting /\ booting' = FALSE /\ ready' = TRUE
  /\ task' = [t \in Tasks |-> IF At(t, "boot")
                              THEN [task[t] EXCEPT !.at = Entry(task[t].kind)]
                              ELSE task[t]]
  /\ renamingSessionId' = IF \E t \in Tasks : At(t, "boot") /\ cancelsRename(task[t].kind)
                          THEN NoSession ELSE renamingSessionId
  /\ UNCHANGED <<providerConfig, session, sessions, effectDue, provider, active, queue,
                 stored, counted>>

Fault == faults < MaxFaults /\ faults' = faults + 1

\* Everyone who waited for the attempt gets its error.
BootFails ==
  /\ Fault /\ booting /\ booting' = FALSE
  /\ task' = [t \in Tasks |-> IF At(t, "boot") THEN Idle ELSE task[t]]
  /\ UNCHANGED <<page, runtime, presses, unasked, hasty, chosen>>

(***************************************************************************)
(* The effect, and what the user starts.                                   *)
(***************************************************************************)
RunEffect ==
  /\ effectDue /\ effectDue' = FALSE
  /\ \E t \in Free : ensureRuntime(t, "refresh", NoSession)
  /\ UNCHANGED <<providerConfig, session, sessions, ready, active, queue, stored, counted>>

Press == presses < MaxPresses /\ presses' = presses + 1

StartingUp == \E t \in Busy : task[t].kind = "refresh" /\ task[t].first

\* The settings form: four fields, of which three must not be blank.
Form == [apiKey : {"", "text"}, baseUrl : {"", "text"}, model : {"", "text"}]

normalizeProviderConfig(form) ==
  form.apiKey # "" /\ form.baseUrl # "" /\ form.model # ""

saveProviderConfig ==
  /\ Press
  /\ \E form \in Form : normalizeProviderConfig(form)
  /\ providerConfig' = providerConfig + 1 /\ effectDue' = TRUE
  /\ hasty' = (hasty \/ StartingUp)
  /\ UNCHANGED <<session, sessions, renamingSessionId, task, booting, runtime, faults,
                 unasked, chosen>>

newSession ==
  /\ Press /\ NewChatEnabled
  /\ \E t \in Free : ensureRuntime(t, "create", NoSession)
  /\ hasty' = (hasty \/ StartingUp \/ effectDue) /\ chosen' = NoSession
  /\ UNCHANGED <<providerConfig, session, sessions, effectDue, ready, active, queue, stored,
                 faults, unasked>>

Creating == \E t \in Busy : task[t].kind = "create" \/ task[t].first

loadSession(s) ==
  /\ Press /\ RowOffersLoad(s)
  /\ \E t \in Free :
       ensureRuntime(t, "load", s) /\ queue' = Append(queue, t)
  /\ chosen' = IF Creating THEN NoSession ELSE s
  /\ UNCHANGED <<providerConfig, session, sessions, effectDue, ready, active, stored,
                 faults, unasked, hasty>>

startRename(s) ==
  /\ RowOffersLoad(s)
  /\ renamingSessionId' = s
  /\ UNCHANGED <<providerConfig, session, sessions, effectDue, task, booting, runtime, counted>>

cancelRename ==
  /\ RenameFormEnabled
  /\ renamingSessionId' = NoSession
  /\ UNCHANGED <<providerConfig, session, sessions, effectDue, task, booting, runtime, counted>>

saveRename ==
  /\ Press /\ RenameFormEnabled
  /\ \E t \in Free : ensureRuntime(t, "rename", renamingSessionId)
  /\ UNCHANGED <<providerConfig, session, sessions, effectDue, ready, active, queue, stored,
                 faults, unasked, hasty, chosen>>

\* runTurnStream takes the session that is active, not the one on the page.
submit ==
  /\ Press /\ PromptEnabled
  /\ \E t \in Free : ensureRuntime(t, "turn", active)
  /\ chosen' = NoSession
  /\ UNCHANGED <<providerConfig, session, sessions, effectDue, ready, active, queue, stored,
                 faults, unasked, hasty>>

-----------------------------------------------------------------------------

(***************************************************************************)
(* Answers of the runtime.                                                 *)
(***************************************************************************)
show(s) == active' = s /\ session' = s /\ effectDue' = TRUE

\* Seeded bug: the session is loaded again whenever it has changed.
needsSessionAlways(t) == task[t].kind = "refresh" /\ At(t, "list")

\* refreshSessions, as of the render its effect belongs to.
needsSession(t) == task[t].kind = "refresh" /\ At(t, "list") /\ task[t].first

ListedLast(t) ==
  /\ task[t].at \in {"list", "relist"} /\ ~needsSession(t)
  /\ sessions' = stored
  /\ renamingSessionId' = IF task[t].kind = "rename" THEN NoSession ELSE renamingSessionId
  /\ Finish(t)
  /\ UNCHANGED <<providerConfig, session, effectDue, booting, runtime, counted>>

ListedFirst(t) ==
  /\ needsSession(t)
  /\ sessions' = stored
  /\ IF stored = << >>
     THEN MoveTo(t, "create") /\ UNCHANGED queue
     ELSE /\ task' = [task EXCEPT ![t].at = "load", ![t].id = Head(stored).id]
          /\ queue' = Append(queue, t)
  /\ UNCHANGED <<providerConfig, session, renamingSessionId, effectDue, booting, ready,
                 provider, active, stored, counted>>

RowInserted(t) ==
  /\ At(t, "create")
  /\ LET s == Len(stored) + 1
     IN
       /\ stored' = <<Summary(s, "NewSession")>> \o stored
       /\ task' = [task EXCEPT ![t].at = "select", ![t].id = s]
       /\ unasked' = IF task[t].kind = "refresh" THEN unasked \union {s} ELSE unasked
  /\ UNCHANGED <<page, booting, ready, provider, active, queue, presses, faults, hasty, chosen>>

Created(t) ==
  /\ At(t, "select")
  /\ show(task[t].id)
  /\ MoveTo(t, "relist")
  /\ UNCHANGED <<providerConfig, sessions, renamingSessionId, booting, ready, provider,
                 queue, stored, counted>>

\* Seeded bug: restores answer in any order.
LoadedUnqueued(t) ==
  /\ At(t, "load")
  /\ show(task[t].id)
  /\ queue' = Remove(queue, t)
  /\ IF task[t].kind = "refresh" THEN MoveTo(t, "relist") ELSE Finish(t)
  /\ UNCHANGED <<providerConfig, sessions, renamingSessionId, booting, ready, provider,
                 stored, counted>>

Loaded(t) ==
  /\ At(t, "load") /\ Head(queue) = t
  /\ show(task[t].id)
  /\ queue' = Tail(queue)
  /\ IF task[t].kind = "refresh" THEN MoveTo(t, "relist") ELSE Finish(t)
  /\ UNCHANGED <<providerConfig, sessions, renamingSessionId, booting, ready, provider,
                 stored, counted>>

rowOf(s) == CHOOSE k \in DOMAIN stored : stored[k].id = s

\* updated_at is set, so the row comes to the front of the list.
Touched(s, title) == <<Summary(s, title)>> \o RemoveAt(stored, rowOf(s))

titleOf(s) == stored[rowOf(s)].title

Renamed(t) ==
  /\ At(t, "rename")
  /\ stored' = Touched(task[t].id, "renamed")
  /\ show(active)
  /\ MoveTo(t, "relist")
  /\ UNCHANGED <<providerConfig, sessions, renamingSessionId, booting, ready, provider,
                 queue, counted>>

\* The first turn of a session names it.
TurnDone(t) ==
  /\ At(t, "turn")
  /\ \E title \in {titleOf(task[t].id), "userText"} : stored' = Touched(task[t].id, title)
  /\ show(task[t].id)
  /\ MoveTo(t, "relist")
  /\ UNCHANGED <<providerConfig, sessions, renamingSessionId, booting, ready, provider,
                 queue, counted>>

\* An await rejects. A turn may have updated its row before it failed.
Fails(t) ==
  /\ Fault /\ task[t] # Idle /\ ~At(t, "boot") /\ (At(t, "load") => Head(queue) = t)
  /\ stored' \in IF At(t, "turn") THEN {stored, Touched(task[t].id, "userText")} ELSE {stored}
  /\ queue' = IF At(t, "load") THEN Tail(queue) ELSE queue
  /\ Finish(t)
  /\ UNCHANGED <<page, booting, ready, provider, active, presses, unasked, hasty, chosen>>

-----------------------------------------------------------------------------

User ==
  \/ saveProviderConfig \/ newSession \/ saveRename \/ cancelRename \/ submit
  \/ \E s \in Sessions : loadSession(s) \/ startRename(s)

Proceed(t) ==
  \/ ListedLast(t) \/ ListedFirst(t) \/ RowInserted(t) \/ Created(t) \/ Loaded(t)
  \/ Renamed(t) \/ TurnDone(t)

Next ==
  \/ User \/ RunEffect \/ BootDone \/ BootFails
  \/ \E t \in Tasks : Proceed(t) \/ Fails(t)

Spec == Init /\ [][Next]_vars

(***************************************************************************)
(* The browser renders and runs effects, and every await is answered.      *)
(***************************************************************************)
FairSpec ==
  /\ Spec /\ WF_vars(RunEffect) /\ WF_vars(BootDone \/ BootFails)
  /\ \A t \in Tasks : WF_vars(Proceed(t) \/ Fails(t))

-----------------------------------------------------------------------------

Quiet == Busy = {} /\ ~effectDue

\* The functions wait where they can: for the first init only before it
\* succeeded, and in the queue exactly for restores; at most one is a turn
\* (index.tsx:139-178, 264-299).
TypeOK ==
  /\ booting <=> \E t \in Tasks : At(t, "boot")
  /\ ready => ~booting /\ provider # 0
  /\ \A t \in Tasks : At(t, "boot") => task[t].kind \in {"refresh", "create"}
  /\ Cardinality({t \in Tasks : task[t].kind = "turn"}) <= 1
  /\ IsInjective(queue) /\ ToSet(queue) = {t \in Tasks : At(t, "load")}
  /\ session \in Sessions \union {NoSession} /\ unasked \subseteq Sessions
  /\ \A k \in DOMAIN stored : stored[k].id \in Sessions

\* When the page has come to rest it shows what is: the session it shows is the
\* one the runtime would work on, with the provider saved last; if nothing was
\* refused, the list is the stored one and the session is the one the user
\* selected last, however fast he clicked (index.tsx:139-262).
RestsOnTheTruth ==
  Quiet =>
    /\ session = active
    /\ session # NoSession => provider = providerConfig
    /\ faults = 0 =>
         /\ ready => sessions = stored
         /\ chosen # NoSession => session = chosen

\* A prompt goes to the session on the screen and to the provider saved last,
\* whatever else is under way; and a page that starts up undisturbed creates
\* at most one session nobody asked for (index.tsx:139-190, 264-276).
ActsAsShown ==
  /\ \A t \in Busy : task[t].turn.gets = task[t].turn.asked
  /\ ~hasty => Cardinality(unasked) <= 1

\* The effect changes the state that triggers it, and still comes to an end:
\* once the user stops, the page does (index.tsx:179-214).
PageSettles == <>[]Quiet
=============================================================================
