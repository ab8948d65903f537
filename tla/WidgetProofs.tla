----------------------------- MODULE WidgetProofs -----------------------------
(***************************************************************************)
(* Theorems about the parts of the page and of the tools that share no     *)
(* state with each other, for any runtimes, callers, runs of an effect,    *)
(* dialogs, calls, hunks and paths asked for: their safety, of which the   *)
(* runs check bounded instances. That what they promise also comes to pass *)
(* needs fairness, and stays with the runs.                                *)
(* The file tree, which has a run of its own, comes last.                  *)
(***************************************************************************)
EXTENDS MCWidgets, SequenceTheorems, FiniteSetTheorems, WellFoundedInduction, TLAPS

-----------------------------------------------------------------------------

\* One part moves, and the others rest.
LEMMA OnePartMoves ==
  [Next]_vars => /\ Boot!Next \/ UNCHANGED boot
                 /\ Terminal!Next \/ UNCHANGED terminal
                 /\ Dialog!Next \/ UNCHANGED confirmDialog
                 /\ Tools!Next \/ UNCHANGED tools
BY DEF Next, vars, BootMoves, TerminalMoves, DialogMoves, ToolsMove, FilesMove

LEMMA PartsBegin == Init => Boot!Init /\ Terminal!Init /\ Dialog!Init /\ Tools!Init
BY DEF Init

-----------------------------------------------------------------------------

(***************************************************************************)
(* The confirm dialog.                                                     *)
(***************************************************************************)
DialogInv ==
  /\ dialog \in Nat
  /\ open => dialog # 0
  /\ confirming \subseteq 1 .. dialog /\ confirmed \subseteq 1 .. dialog
  /\ confirming = {} \/ \E d \in 1 .. dialog : confirming = {d}
  /\ loading <=> confirming # {} \/ threw
  /\ threw => confirming = {}
  /\ open => dialog \notin confirmed

LEMMA DialogStep == DialogInv /\ [Next]_vars => DialogInv'
<1> SUFFICES ASSUME DialogInv, [Next]_vars PROVE DialogInv'
  OBVIOUS
<1>1. CASE Dialog!openConfirmDialog
  BY <1>1 DEF Dialog!openConfirmDialog, DialogInv
<1>2. CASE Dialog!Dismiss \/ Dialog!Cancel
  <2>1. ~open' /\ UNCHANGED <<dialog, loading, confirming, confirmed, threw>>
    BY <1>2 DEF Dialog!Dismiss, Dialog!Cancel
  <2> QED
    BY <2>1, Zenon DEF DialogInv
<1>3. CASE Dialog!confirm
  BY <1>3 DEF Dialog!confirm, DialogInv
<1>4. CASE Dialog!confirmThrows
  <2>1. loading' /\ threw' /\ UNCHANGED <<open, dialog, confirming, confirmed>> /\ ~loading
    BY <1>4 DEF Dialog!confirmThrows
  <2> QED
    BY <2>1, Zenon DEF DialogInv
<1>5. CASE Dialog!Answer
  <2>1. PICK d : Dialog!Confirmed(d) \/ Dialog!ConfirmFails(d)
    BY <1>5 DEF Dialog!Answer
  <2>2. confirming = {d} /\ d \in 1 .. dialog
    BY <2>1 DEF Dialog!Confirmed, Dialog!ConfirmFails, DialogInv
  <2>3. confirming \ {d} = {}
    BY <2>2
  <2>4. ~threw
    BY <2>2, Zenon DEF DialogInv
  <2>5. /\ confirming' = {} /\ ~loading' /\ ~threw' /\ dialog' = dialog
        /\ open' => open /\ confirmed' = confirmed
        /\ confirmed' = confirmed \union {d} \/ confirmed' = confirmed
    BY <2>1, <2>3, <2>4 DEF Dialog!Confirmed, Dialog!ConfirmFails
  <2>6. confirmed' \subseteq 1 .. dialog' /\ dialog' \in Nat
    BY <2>2, <2>5 DEF DialogInv
  <2>7. open' => dialog' # 0 /\ dialog' \notin confirmed'
    BY <2>5 DEF DialogInv
  <2>8. confirming' \subseteq 1 .. dialog' /\ (loading' <=> confirming' # {} \/ threw')
    BY <2>5
  <2> QED
    BY <2>5, <2>6, <2>7, <2>8, Zenon DEF DialogInv
<1>6. CASE UNCHANGED confirmDialog
  BY <1>6 DEF confirmDialog, DialogInv
<1> QED
  BY <1>1, <1>2, <1>3, <1>4, <1>5, <1>6, OnePartMoves DEF Dialog!Next

(***************************************************************************)
(* Whatever is opened, dismissed or fails meanwhile, one confirmed action  *)
(* is under way at a time, the buttons are disabled as long - or for good, *)
(* once an onConfirm threw before it returned -, and a dialog whose action *)
(* succeeded is not confirmed once more (dialog-portal.tsx:46-56).         *)
(***************************************************************************)
THEOREM ConfirmedOneAtATime == FairSpec => [](Dialog!OneConfirmation /\ Dialog!ConfirmedOnce)
<1>1. Init => DialogInv
  BY PartsBegin DEF Dialog!Init, DialogInv
<1>2. DialogInv => Dialog!OneConfirmation /\ Dialog!ConfirmedOnce
  BY DEF DialogInv, Dialog!OneConfirmation, Dialog!ConfirmedOnce
<1> QED
  BY <1>1, <1>2, DialogStep, PTL DEF FairSpec

-----------------------------------------------------------------------------

(***************************************************************************)
(* The shared WebContainer and WASM modules.                               *)
(***************************************************************************)
BootSteps == {"none", "imports", "boot", "wasm", "store", "done"}

Told == {"none", "waiting", "resolved", "rejected"}

BootTyped ==
  /\ runtime \in [Runtimes -> [key : Keys, at : BootSteps, has : SUBSET Boot!Parts]]
  /\ caller \in [Runtimes \X Callers -> Told]
  /\ boots = IF container = "none" THEN 0 ELSE 1

\* A runtime that has its WASM module has all of its parts.
PartsComplete ==
  \A r \in Runtimes :
    "wasm" \in runtime[r].has \/ runtime[r].at \in {"store", "done"} => runtime[r].has = Boot!Parts

CallersServed ==
  \A r \in Runtimes, c \in Callers : caller[<<r, c>>] = "resolved" => runtime[r].has = Boot!Parts

BootInv == BootTyped /\ PartsComplete /\ CallersServed

\* What a step may do to what a runtime has, and to who waits for it.
RuntimesGrow ==
  /\ runtime' \in [Runtimes -> [key : Keys, at : BootSteps, has : SUBSET Boot!Parts]]
  /\ \A r \in Runtimes : runtime[r].has = Boot!Parts => runtime'[r].has = Boot!Parts
  /\ PartsComplete'

CallersTold ==
  /\ caller' \in [Runtimes \X Callers -> Told]
  /\ \A r \in Runtimes, c \in Callers :
       caller'[<<r, c>>] = "resolved" =>
         caller[<<r, c>>] = "resolved" \/ runtime[r].at \in {"store", "done"}

LEMMA BootInvKept ==
  ASSUME BootInv, RuntimesGrow, CallersTold, boots' = IF container' = "none" THEN 0 ELSE 1
  PROVE  BootInv'
<1>1. BootTyped' /\ PartsComplete'
  BY DEF RuntimesGrow, CallersTold, BootTyped
<1>2. CallersServed'
  BY DEF BootInv, RuntimesGrow, CallersTold, CallersServed, PartsComplete
<1> QED
  BY <1>1, <1>2 DEF BootInv

LEMMA CallersKept == BootInv /\ caller' = caller => CallersTold
BY DEF BootInv, BootTyped, CallersTold

\* loadSharedWasmModule, whose callers have no WebContainer or are at it.
LEMMA LoadGrows ==
  ASSUME BootInv, NEW rs, Boot!loadSharedWasmModule(rs)
  PROVE  RuntimesGrow
<1>1. \A r \in Runtimes : runtime[r] \in [key : Keys, at : BootSteps, has : SUBSET Boot!Parts]
  BY DEF BootInv, BootTyped
<1>2. runtime' = [r \in Runtimes |->
        IF r \notin rs THEN runtime[r]
        ELSE [runtime[r] EXCEPT !.has = @ \union {"webcontainer"},
                                !.at = IF "wasm" \in runtime[r].has THEN "store" ELSE "wasm"]]
  BY DEF Boot!loadSharedWasmModule
<1>3. ASSUME NEW r \in Runtimes
      PROVE  /\ runtime'[r] \in [key : Keys, at : BootSteps, has : SUBSET Boot!Parts]
             /\ runtime[r].has = Boot!Parts => runtime'[r].has = Boot!Parts
             /\ "wasm" \in runtime'[r].has \/ runtime'[r].at \in {"store", "done"}
                  => runtime'[r].has = Boot!Parts
  <2>1. CASE r \notin rs
    BY <1>1, <1>2, <2>1 DEF BootInv, PartsComplete
  <2>2. CASE r \in rs
    <3>1. /\ runtime'[r].key = runtime[r].key
          /\ runtime'[r].has = runtime[r].has \union {"webcontainer"}
          /\ runtime'[r].at = IF "wasm" \in runtime[r].has THEN "store" ELSE "wasm"
          /\ runtime'[r] = [runtime[r] EXCEPT !.has = @ \union {"webcontainer"},
                                 !.at = IF "wasm" \in runtime[r].has THEN "store" ELSE "wasm"]
      BY <1>1, <1>2, <2>2
    <3>2. runtime'[r] \in [key : Keys, at : BootSteps, has : SUBSET Boot!Parts]
      BY <1>1, <3>1 DEF BootSteps, Boot!Parts
    <3>3. "wasm" \in runtime[r].has => runtime[r].has = Boot!Parts
      BY DEF BootInv, PartsComplete
    <3>4. runtime[r].has = Boot!Parts => runtime'[r].has = Boot!Parts
      BY <3>1 DEF Boot!Parts
    <3> QED
      BY <3>1, <3>2, <3>3, <3>4
  <2> QED
    BY <2>1, <2>2
<1>4. \A r \in Runtimes : runtime'[r] \in [key : Keys, at : BootSteps, has : SUBSET Boot!Parts]
  BY <1>3
<1>5. runtime' \in [Runtimes -> [key : Keys, at : BootSteps, has : SUBSET Boot!Parts]]
  BY <1>2, <1>4
<1> QED
  BY <1>3, <1>5 DEF RuntimesGrow, PartsComplete

\* A runtime that only moves on to a step before its store is open.
LEMMA MovingGrows ==
  ASSUME BootInv,
         runtime' \in [Runtimes -> [key : Keys, at : BootSteps, has : SUBSET Boot!Parts]],
         \A r \in Runtimes : /\ runtime'[r].has = runtime[r].has
                             /\ \/ runtime'[r].at \notin {"store", "done"}
                                \/ runtime[r].at \in {"store", "done"}
  PROVE  RuntimesGrow
BY DEF BootInv, PartsComplete, RuntimesGrow

\* Whoever fails has to begin again, with what he has.
LEMMA FailedKeeps ==
  ASSUME BootInv, NEW rs, Boot!Failed(rs)
  PROVE  RuntimesGrow /\ CallersTold
<1>1. runtime' = [r \in Runtimes |->
                    IF r \in rs THEN [runtime[r] EXCEPT !.at = "none"] ELSE runtime[r]]
  BY DEF Boot!Failed
<1>2. runtime' \in [Runtimes -> [key : Keys, at : BootSteps, has : SUBSET Boot!Parts]]
  BY <1>1 DEF BootInv, BootTyped, BootSteps
<1>3. RuntimesGrow
  <2>1. \A r \in Runtimes : /\ runtime'[r].has = runtime[r].has
                            /\ runtime'[r].at \in {"none", runtime[r].at}
    BY <1>1 DEF BootInv, BootTyped
  <2> QED
    BY <1>2, <2>1, MovingGrows
<1>4. caller' = [c \in Runtimes \X Callers |->
                   IF c[1] \in rs /\ caller[c] = "waiting" THEN "rejected" ELSE caller[c]]
  BY DEF Boot!Failed, BootInv, BootTyped
<1>5. CallersTold
  BY <1>4 DEF BootInv, BootTyped, CallersTold, Told
<1> QED
  BY <1>3, <1>5

LEMMA BootStep == BootInv /\ [Next]_vars => BootInv'
<1> SUFFICES ASSUME BootInv, [Next]_vars PROVE BootInv'
  OBVIOUS
<1>0. /\ runtime \in [Runtimes -> [key : Keys, at : BootSteps, has : SUBSET Boot!Parts]]
      /\ caller \in [Runtimes \X Callers -> Told]
      /\ boots = IF container = "none" THEN 0 ELSE 1
  BY DEF BootInv, BootTyped
<1>1. CASE Boot!Call
  <2>1. PICK r \in Runtimes, c \in Callers : Boot!CallInit(r, c)
    BY <1>1 DEF Boot!Call
  <2>2. /\ caller' = [caller EXCEPT ![<<r, c>>] =
                        IF runtime[r].at = "done" THEN "resolved" ELSE "waiting"]
        /\ runtime' = IF runtime[r].at = "none" THEN [runtime EXCEPT ![r].at = "imports"]
                                                ELSE runtime
        /\ UNCHANGED <<container, boots>>
    BY <2>1 DEF Boot!CallInit
  <2>3. runtime' \in [Runtimes -> [key : Keys, at : BootSteps, has : SUBSET Boot!Parts]]
    BY <1>0, <2>2 DEF BootSteps
  <2>4. RuntimesGrow
    <3>1. \A q \in Runtimes : /\ runtime'[q].has = runtime[q].has
                              /\ runtime'[q].at \in {"imports", runtime[q].at}
      BY <1>0, <2>2
    <3> QED
      BY <2>3, <3>1, MovingGrows
  <2>5. CallersTold
    BY <1>0, <2>2 DEF CallersTold, Told
  <2> QED
    BY <1>0, <2>2, <2>4, <2>5, BootInvKept
<1>2. CASE \E r \in Runtimes : Boot!Imported(r)
  <2>1. PICK r \in Runtimes : Boot!Imported(r)
    BY <1>2
  <2>2. CASE Boot!loadSharedWasmModule({r}) /\ UNCHANGED <<container, boots>>
    <3>1. caller' = caller
      BY <2>1 DEF Boot!Imported
    <3> QED
      BY <1>0, <2>2, <3>1, LoadGrows, CallersKept, BootInvKept
  <2>3. CASE Boot!bootSharedWebContainer(r)
    <3>1. /\ runtime' = [runtime EXCEPT ![r].at = "boot"]
          /\ container' = "booting" /\ caller' = caller
          /\ boots' = IF container = "none" THEN boots + 1 ELSE boots
      BY <2>1, <2>3 DEF Boot!Imported, Boot!bootSharedWebContainer
    <3>2. RuntimesGrow
      <4>1. runtime' \in [Runtimes -> [key : Keys, at : BootSteps, has : SUBSET Boot!Parts]]
        BY <1>0, <3>1 DEF BootSteps
      <4>2. \A q \in Runtimes : /\ runtime'[q].has = runtime[q].has
                                /\ runtime'[q].at \in {"boot", runtime[q].at}
        BY <1>0, <3>1
      <4> QED
        BY <4>1, <4>2, MovingGrows
    <3> QED
      BY <1>0, <3>1, <3>2, CallersKept, BootInvKept
  <2> QED
    BY <2>1, <2>2, <2>3 DEF Boot!Imported
<1>3. CASE Boot!Booted
  <2>1. /\ Boot!loadSharedWasmModule(Boot!Waiting("boot"))
        /\ container = "booting" /\ container' = "instance"
        /\ UNCHANGED <<boots, caller>>
    BY <1>3 DEF Boot!Booted
  <2>2. RuntimesGrow /\ CallersTold
    BY <2>1, LoadGrows, CallersKept
  <2> QED
    BY <1>0, <2>1, <2>2, BootInvKept
<1>4. CASE \E k \in Keys : Boot!WasmLoaded(k)
  <2>1. PICK k \in Keys : Boot!WasmLoaded(k)
    BY <1>4
  <2>2. PICK rs : /\ runtime' = [r \in Runtimes |->
                       IF r \in rs THEN [runtime[r] EXCEPT !.has = Boot!Parts, !.at = "store"]
                                   ELSE runtime[r]]
                  /\ UNCHANGED <<container, boots, caller>>
    BY <2>1 DEF Boot!WasmLoaded
  <2>3. runtime' \in [Runtimes -> [key : Keys, at : BootSteps, has : SUBSET Boot!Parts]]
    BY <1>0, <2>2 DEF BootSteps
  <2>4. RuntimesGrow
    <3>1. \A r \in Runtimes : \/ runtime'[r] = runtime[r]
                              \/ runtime'[r].has = Boot!Parts
      BY <1>0, <2>2
    <3> QED
      BY <2>3, <3>1 DEF BootInv, PartsComplete, RuntimesGrow
  <2> QED
    BY <1>0, <2>2, <2>4, CallersKept, BootInvKept
<1>5. CASE \E r \in Runtimes : Boot!StoreOpened(r)
  <2>1. PICK r \in Runtimes : Boot!StoreOpened(r)
    BY <1>5
  <2>2. /\ runtime[r].at = "store" /\ runtime' = [runtime EXCEPT ![r].at = "done"]
        /\ caller' = [c \in Runtimes \X Callers |->
                        IF c[1] = r /\ caller[c] = "waiting" THEN "resolved" ELSE caller[c]]
        /\ UNCHANGED <<container, boots>>
    BY <1>0, <2>1 DEF Boot!StoreOpened
  <2>3. RuntimesGrow
    <3>1. runtime' \in [Runtimes -> [key : Keys, at : BootSteps, has : SUBSET Boot!Parts]]
      BY <1>0, <2>2 DEF BootSteps
    <3>2. \A q \in Runtimes : /\ runtime'[q].has = runtime[q].has
                              /\ q # r => runtime'[q] = runtime[q]
      BY <1>0, <2>2
    <3> QED
      BY <2>2, <3>1, <3>2, MovingGrows
  <2>4. CallersTold
    BY <1>0, <2>2 DEF CallersTold, Told
  <2> QED
    BY <1>0, <2>2, <2>3, <2>4, BootInvKept
<1>6. CASE \/ \E r \in Runtimes : Boot!ImportOrStoreFails(r)
           \/ \E k \in Keys : Boot!WasmFails(k)
  <2>1. PICK rs : Boot!Failed(rs) /\ UNCHANGED <<container, boots>>
    BY <1>6 DEF Boot!ImportOrStoreFails, Boot!WasmFails
  <2> QED
    BY <1>0, <2>1, FailedKeeps, BootInvKept
<1>7. CASE Boot!BootFails
  <2>1. /\ Boot!Failed(Boot!Waiting("boot"))
        /\ container = "booting" /\ container' = "none" /\ boots' = boots - 1
    BY <1>7 DEF Boot!BootFails
  <2>2. RuntimesGrow /\ CallersTold
    BY <2>1, FailedKeeps
  <2> QED
    BY <1>0, <2>1, <2>2, BootInvKept
<1>8. CASE UNCHANGED boot
  BY <1>8 DEF boot, BootInv, BootTyped, PartsComplete, CallersServed
<1> QED
  BY <1>1, <1>2, <1>3, <1>4, <1>5, <1>6, <1>7, <1>8, OnePartMoves DEF Boot!Next, Boot!Answer

(***************************************************************************)
(* However many runtimes a page makes, whoever waits for them and whatever *)
(* fails: no two WebContainers are booted, which a page may not, and who   *)
(* is told that init is over can use every part of the runtime             *)
(* (index.ts:350-391, 426-446).                                            *)
(***************************************************************************)
THEOREM OneContainerForAll == FairSpec => [](Boot!OneContainer /\ Boot!ReadyIsReady)
<1>1. Init => BootInv
  <2> SUFFICES ASSUME Init PROVE BootInv
    OBVIOUS
  <2>1. /\ runtime \in [Runtimes -> [key : Keys, at : {"none"}, has : {{}}]]
        /\ caller = [c \in Runtimes \X Callers |-> "none"]
        /\ container = "none" /\ boots = 0
    BY PartsBegin DEF Boot!Init
  <2>2. \A r \in Runtimes : runtime[r].at = "none" /\ runtime[r].has = {}
    BY <2>1
  <2>3. BootTyped
    BY <2>1 DEF BootTyped, BootSteps, Told
  <2> QED
    BY <2>1, <2>2, <2>3 DEF BootInv, PartsComplete, CallersServed
<1>2. BootInv => Boot!OneContainer /\ Boot!ReadyIsReady
  BY DEF BootInv, BootTyped, CallersServed, Boot!OneContainer, Boot!ReadyIsReady, Boot!Required
<1> QED
  BY <1>1, <1>2, BootStep, PTL DEF FairSpec

-----------------------------------------------------------------------------

(***************************************************************************)
(* The terminal.                                                           *)
(***************************************************************************)
ShellStates == {"none", "starting", "running", "exited", "killed", "failed"}

Texts == {"waiting", "starting", "connected", "error", "exit", "writeFailed"}

TerminalTyped ==
  /\ effects \in Nat /\ effects <= MaxEffects
  /\ shell \in [Terminal!Effects -> ShellStates]
  /\ status \in [by : Nat, says : Texts]
  /\ shellRef \in Nat

\* The runs before the current one were cleaned up, and those to come have no
\* shell.
RunsInOrder ==
  /\ cancelled \subseteq 1 .. effects
  /\ \A e \in Terminal!Effects : e < effects => e \in cancelled
  /\ \A e \in Terminal!Effects : e > effects <=> shell[e] = "none"

TerminalInv ==
  TerminalTyped /\ RunsInOrder /\ Terminal!KeysReachCurrentShell /\ Terminal!TellsCurrentShell

LEMMA TerminalBegins == Init => TerminalInv
<1> SUFFICES ASSUME Init PROVE TerminalInv
  OBVIOUS
<1>1. /\ effects = 0 /\ cancelled = {} /\ shell = [e \in Terminal!Effects |-> "none"]
      /\ shellRef = 0 /\ status = [by |-> 0, says |-> "waiting"]
  BY PartsBegin DEF Terminal!Init
<1>2. TerminalTyped
  BY <1>1, BoundsAssumption DEF TerminalTyped, ShellStates, Texts
<1>3. RunsInOrder
  BY <1>1 DEF RunsInOrder, Terminal!Effects
<1> QED
  BY <1>1, <1>2, <1>3 DEF TerminalInv, Terminal!KeysReachCurrentShell, Terminal!TellsCurrentShell

LEMMA EffectRight == TerminalInv /\ Terminal!Effect => TerminalInv'
<1> SUFFICES ASSUME TerminalInv, Terminal!Effect PROVE TerminalInv'
  OBVIOUS
<1>1. TerminalTyped /\ RunsInOrder
  BY DEF TerminalInv
<1>2. effects < MaxEffects /\ cancelled' = cancelled \union (1 .. effects) /\ shellRef' = 0
  BY DEF Terminal!Effect
<1>3. Terminal!KeysReachCurrentShell'
  BY <1>2 DEF Terminal!KeysReachCurrentShell
<1>4. CASE UNCHANGED <<effects, shell, status>>
  <2>1. TerminalTyped' /\ RunsInOrder'
    BY <1>1, <1>2, <1>4 DEF TerminalTyped, RunsInOrder
  <2>2. effects' \in cancelled' \/ effects' = 0
    BY <1>1, <1>2, <1>4 DEF TerminalTyped
  <2> QED
    BY <1>3, <2>1, <2>2 DEF TerminalInv, Terminal!TellsCurrentShell
<1>5. CASE /\ effects' = effects + 1
           /\ shell' = [e \in Terminal!Effects |->
                          IF e = effects + 1 THEN "starting"
                          ELSE IF Terminal!KillsCurrent(e) THEN "killed" ELSE shell[e]]
           /\ status' = [by |-> effects + 1, says |-> "starting"]
  <2>1. effects + 1 \in Terminal!Effects /\ shell'[effects + 1] = "starting"
    BY <1>1, <1>2, <1>5, BoundsAssumption DEF TerminalTyped, Terminal!Effects
  <2>2. \A e \in Terminal!Effects :
          shell'[e] = "none" <=> e # effects + 1 /\ shell[e] = "none"
    BY <1>1, <1>5 DEF TerminalTyped, Terminal!KillsCurrent
  <2>3. TerminalTyped'
    BY <1>1, <1>2, <1>5, BoundsAssumption
    DEF TerminalTyped, ShellStates, Texts, Terminal!Effects
  <2>4. RunsInOrder'
    BY <1>1, <1>2, <1>5, <2>2 DEF TerminalTyped, RunsInOrder, Terminal!Effects
  <2>5. Terminal!TellsCurrentShell'
    BY <1>5, <2>1 DEF Terminal!TellsCurrentShell
  <2> QED
    BY <1>3, <2>3, <2>4, <2>5 DEF TerminalInv
<1> QED
  BY <1>4, <1>5 DEF Terminal!Effect, Terminal!Say

\* A shell that goes on, told of unless its run was cleaned up.
LEMMA ShellGoesOn ==
  ASSUME TerminalInv, NEW e \in Terminal!Effects, NEW to \in ShellStates \ {"none"},
         NEW text \in Texts, shell[e] # "none",
         shell' = [shell EXCEPT ![e] = to], UNCHANGED <<effects, cancelled>>,
         status' = IF e \in cancelled THEN status ELSE [by |-> e, says |-> text],
         text = "starting" <=> to = "starting",
         text = "connected" => to = "running",
         to = "exited" => text \in {"exit", "error"},
         shellRef' \in Nat,
         shellRef' # 0 => \/ shellRef' = shellRef /\ (shellRef # e \/ to \in {"running", "exited"})
                          \/ shellRef' = e /\ e \notin cancelled /\ to = "running"
  PROVE  TerminalInv'
<1>1. TerminalTyped /\ RunsInOrder /\ Terminal!KeysReachCurrentShell /\ Terminal!TellsCurrentShell
  BY DEF TerminalInv
<1>2. e \in Nat /\ e # 0 /\ e <= effects /\ (e \notin cancelled => e = effects)
  BY <1>1 DEF TerminalTyped, RunsInOrder, Terminal!Effects
<1>3. effects \in Terminal!Effects
  BY <1>1, <1>2 DEF TerminalTyped, Terminal!Effects
<1>4. shell'[e] = to /\ \A d \in Terminal!Effects : d # e => shell'[d] = shell[d]
  BY <1>1 DEF TerminalTyped
<1>5. TerminalTyped'
  <2>1. shell' \in [Terminal!Effects -> ShellStates] /\ effects' \in Nat /\ effects' <= MaxEffects
    BY <1>1 DEF TerminalTyped
  <2>2. status' \in [by : Nat, says : Texts]
    BY <1>1, <1>2 DEF TerminalTyped
  <2> QED
    BY <2>1, <2>2 DEF TerminalTyped
<1>6. RunsInOrder'
  <2>1. \A d \in Terminal!Effects : shell'[d] = "none" <=> shell[d] = "none"
    BY <1>4
  <2> QED
    BY <1>1, <2>1 DEF RunsInOrder
<1>7. Terminal!KeysReachCurrentShell'
  BY <1>1, <1>2, <1>3, <1>4 DEF Terminal!KeysReachCurrentShell
<1>8. Terminal!TellsCurrentShell'
  <2>1. CASE e \in cancelled
    BY <1>1, <1>3, <1>4, <2>1 DEF Terminal!TellsCurrentShell
  <2>2. CASE e \notin cancelled
    BY <1>2, <1>4, <2>2 DEF Terminal!TellsCurrentShell
  <2> QED
    BY <2>1, <2>2
<1> QED
  BY <1>5, <1>6, <1>7, <1>8 DEF TerminalInv

LEMMA TerminalStep == TerminalInv /\ [Next]_vars => TerminalInv'
<1> SUFFICES ASSUME TerminalInv, [Next]_vars PROVE TerminalInv'
  OBVIOUS
<1>0. TerminalTyped /\ RunsInOrder /\ Terminal!KeysReachCurrentShell /\ Terminal!TellsCurrentShell
  BY DEF TerminalInv
<1>1. CASE Terminal!onReady \/ Terminal!SelectSession
  BY <1>1, EffectRight DEF Terminal!onReady, Terminal!SelectSession
<1>2. CASE \E e \in Terminal!Effects : Terminal!Started(e)
  <2>1. PICK e \in Terminal!Effects : Terminal!Started(e)
    BY <1>2
  <2>2. CASE e \in cancelled
    <3>1. /\ shell[e] = "starting" /\ shell' = [shell EXCEPT ![e] = "killed"]
          /\ UNCHANGED <<effects, cancelled, shellRef, status>>
      BY <2>1, <2>2 DEF Terminal!Started
    <3>2. shellRef # 0 => shellRef # e
      BY <1>0, <3>1 DEF Terminal!KeysReachCurrentShell
    <3> QED
      BY <1>0, <2>2, <3>1, <3>2, ShellGoesOn DEF ShellStates, Texts, TerminalTyped
  <2>3. CASE e \notin cancelled
    <3>1. /\ shell[e] = "starting" /\ shell' = [shell EXCEPT ![e] = "running"]
          /\ shellRef' = e /\ status' = [by |-> e, says |-> "connected"]
          /\ UNCHANGED <<effects, cancelled>>
      BY <2>1, <2>3 DEF Terminal!Started, Terminal!Say
    <3>2. e \in Nat
      BY DEF Terminal!Effects
    <3> QED
      BY <2>3, <3>1, <3>2, ShellGoesOn DEF ShellStates, Texts
  <2> QED
    BY <2>2, <2>3
<1>3. CASE \E e \in Terminal!Effects : Terminal!StartFails(e)
  <2>1. PICK e \in Terminal!Effects : Terminal!StartFails(e)
    BY <1>3
  <2>2. /\ shell[e] = "starting" /\ shell' = [shell EXCEPT ![e] = "failed"]
        /\ status' = IF e \in cancelled THEN status ELSE [by |-> e, says |-> "error"]
        /\ UNCHANGED <<effects, cancelled, shellRef>>
    BY <2>1 DEF Terminal!StartFails, Terminal!SayUnlessCancelled, Terminal!Say
  <2>3. shellRef # 0 => shellRef # e
    BY <1>0, <2>2 DEF Terminal!KeysReachCurrentShell
  <2> QED
    BY <1>0, <2>2, <2>3, ShellGoesOn DEF ShellStates, Texts, TerminalTyped
<1>4. CASE \E e \in Terminal!Effects : Terminal!Exits(e)
  <2>1. PICK e \in Terminal!Effects : Terminal!Exits(e)
    BY <1>4
  <2>2. /\ shell[e] = "running" /\ shell' = [shell EXCEPT ![e] = "exited"]
        /\ status' = IF e \in cancelled THEN status ELSE [by |-> e, says |-> "exit"]
        /\ UNCHANGED <<effects, cancelled, shellRef>>
    BY <2>1 DEF Terminal!Exits, Terminal!SayUnlessCancelled, Terminal!Say
  <2> QED
    BY <1>0, <2>2, ShellGoesOn DEF ShellStates, Texts, TerminalTyped
<1>5. CASE \E e \in Terminal!Effects : Terminal!OutputBreaks(e)
  <2>1. PICK e \in Terminal!Effects : Terminal!OutputBreaks(e)
    BY <1>5
  <2>2. /\ shell[e] \in {"running", "exited", "killed"}
        /\ status' = IF e \in cancelled THEN status ELSE [by |-> e, says |-> "error"]
        /\ UNCHANGED <<effects, cancelled, shell, shellRef>>
    BY <2>1 DEF Terminal!OutputBreaks, Terminal!SayUnlessCancelled, Terminal!Say
  <2>3. shell' = [shell EXCEPT ![e] = shell[e]]
    BY <1>0, <2>2 DEF TerminalTyped
  <2>4. shellRef = e /\ shellRef # 0 => shell[e] \in {"running", "exited"}
    BY <1>0 DEF Terminal!KeysReachCurrentShell
  <2> QED
    BY <1>0, <2>2, <2>3, <2>4, ShellGoesOn DEF ShellStates, Texts, TerminalTyped
<1>6. CASE \E e \in Terminal!Effects : Terminal!WriteFails(e)
  <2>1. PICK e \in Terminal!Effects : Terminal!WriteFails(e)
    BY <1>6
  <2>2. /\ status' = [by |-> e, says |-> "writeFailed"]
        /\ UNCHANGED <<effects, cancelled, shell, shellRef>>
    BY <2>1 DEF Terminal!WriteFails, Terminal!Say
  <2>3. status' \in [by : Nat, says : Texts] /\ status'.says = "writeFailed"
    BY <2>2 DEF Terminal!Effects, Texts
  <2>4. TerminalTyped'
    BY <1>0, <2>2, <2>3 DEF TerminalTyped
  <2>5. RunsInOrder' /\ Terminal!KeysReachCurrentShell'
    BY <1>0, <2>2 DEF RunsInOrder, Terminal!KeysReachCurrentShell
  <2> QED
    BY <2>3, <2>4, <2>5 DEF TerminalInv, Terminal!TellsCurrentShell
<1>7. CASE \/ Terminal!onData \/ \E e \in Terminal!Effects : Terminal!WriteDone(e)
           \/ UNCHANGED terminal
  <2>1. UNCHANGED <<effects, cancelled, shell, shellRef, status>>
    BY <1>7 DEF Terminal!onData, Terminal!WriteDone, terminal
  <2> QED
    BY <1>0, <2>1 DEF TerminalInv, TerminalTyped, RunsInOrder, Terminal!KeysReachCurrentShell,
                      Terminal!TellsCurrentShell
<1> QED
  BY <1>1, <1>2, <1>3, <1>4, <1>5, <1>6, <1>7, OnePartMoves
  DEF Terminal!Next, Terminal!User, Terminal!Answer

(***************************************************************************)
(* However fast sessions are switched and in whatever order shells start,  *)
(* fail and end: keys go to the shell of the session shown, and unless a   *)
(* write failed the panel tells of it (index.tsx:728-781).                 *)
(***************************************************************************)
THEOREM TerminalFollowsSession ==
  FairSpec => [](Terminal!KeysReachCurrentShell /\ Terminal!TellsCurrentShell)
<1>1. TerminalInv => Terminal!KeysReachCurrentShell /\ Terminal!TellsCurrentShell
  BY DEF TerminalInv
<1> QED
  BY <1>1, TerminalBegins, TerminalStep, PTL DEF FairSpec

-----------------------------------------------------------------------------

(***************************************************************************)
(* The tools. Types first.                                                 *)
(***************************************************************************)
CallStates == {"called", "asked", "going", "ok", "error", "denied", "refused"}

ToolsTyped ==
  /\ call \in [Tools!Calls -> CallStates]
  /\ contents \in [Paths -> Tools!Texts]
  /\ hunks \in Seq(Tools!Hunks)
  /\ applied \in Nat /\ applied <= Len(hunks)

(***************************************************************************)
(* Approvals. A call that goes on was approved if it had to be.            *)
(***************************************************************************)
ApprovalInv ==
  /\ pendingApproval # NoCall => pendingApproval \in Tools!Calls /\ call[pendingApproval] = "asked"
  /\ \A c \in Tools!Calls : call[c] = "asked" => pendingApproval = c \/ overwritten
  /\ started \subseteq Tools!Calls
  /\ \A c \in Tools!Calls : c \in started \/ call[c] = "going" => ~Tools!Asks(c) \/ c \in approved

(***************************************************************************)
(* The patch. Before its first call of the host nothing is changed, and    *)
(* the next hunk is at the step its kind has.                              *)
(***************************************************************************)
Untouched == applied = 0 /\ step = "none" /\ contents = before

PatchInv ==
  /\ Patch \notin started => Untouched
  /\ Patch \in started => call[Patch] \in {"going", "ok", "error"}
  /\ step # "none" => call[Patch] = "going" /\ Patch \in started /\ applied < Len(hunks)
  /\ step = "read" => Tools!NextHunk.kind \in {"update", "move"}
  /\ step = "write" => Tools!NextHunk.kind # "delete"
  /\ step = "remove" => Tools!NextHunk.kind \in {"delete", "move"}
  /\ step \in {"none", "read", "write", "remove"}
  /\ call[Patch] = "ok" => applied = Len(hunks)

(***************************************************************************)
(* The files. A file is in two places only between the two calls that move *)
(* it, or when the second one has failed.                                  *)
(***************************************************************************)
Applied == \A p \in Paths : Tools!After(applied, p, contents[p])

Moved ==
  /\ applied < Len(hunks) /\ Tools!NextHunk.kind = "move"
  /\ \A p \in Paths \ {Tools!NextHunk.to} : Tools!After(applied, p, contents[p])
  /\ contents[Tools!NextHunk.to] = "new"

Moving == step = "remove" /\ Tools!NextHunk.kind = "move"

FilesInv ==
  \/ Tools!MovesOntoItself
  \/ /\ Applied \/ Moved
     /\ Moving => Moved
     /\ call[Patch] = "going" /\ ~Moving => Applied

ToolsInv == ToolsTyped /\ ApprovalInv /\ PatchInv /\ FilesInv

-----------------------------------------------------------------------------

LEMMA UntouchedIsApplied == Untouched => Applied
BY DEF Untouched, Applied, Tools!After

LEMMA HunkTyped ==
  ASSUME NEW hunk \in Tools!Hunks
  PROVE  /\ hunk.kind \in {"add", "delete", "update", "move"}
         /\ hunk.path \in Paths /\ hunk.to \in Paths
         /\ hunk.kind # "move" => hunk.to = hunk.path
BY DEF Tools!Hunks, Tools!Hunk

LEMMA NextHunkTyped ==
  ASSUME ToolsTyped, applied < Len(hunks)
  PROVE  /\ Tools!NextHunk \in Tools!Hunks
         /\ applied + 1 \in 1 .. Len(hunks)
         /\ ~Tools!MovesOntoItself /\ Tools!NextHunk.kind = "move"
              => Tools!NextHunk.to # Tools!NextHunk.path
<1>1. Len(hunks) \in Nat /\ DOMAIN hunks = 1 .. Len(hunks)
  BY LenProperties DEF ToolsTyped
<1>2. applied + 1 \in 1 .. Len(hunks)
  BY <1>1 DEF ToolsTyped
<1> QED
  BY <1>1, <1>2, ElementOfSeq DEF ToolsTyped, Tools!NextHunk, Tools!MovesOntoItself

\* One more hunk: what it does not touch stays, and what it touches is as it
\* leaves it.
LEMMA OneMoreHunk ==
  ASSUME NEW n \in Nat, NEW p, NEW text,
         IF Tools!Touches(hunks[n + 1], p) THEN text = Tools!TextLeft(hunks[n + 1], p)
                                           ELSE Tools!After(n, p, text)
  PROVE  Tools!After(n + 1, p, text)
<1>1. CASE Tools!Touches(hunks[n + 1], p)
  <2>1. n + 1 \in 1 .. n + 1 /\ \A j \in (n + 1) + 1 .. n + 1 : FALSE
    OBVIOUS
  <2> QED
    BY <1>1, <2>1 DEF Tools!After
<1>2. CASE ~Tools!Touches(hunks[n + 1], p)
  <2>1. Tools!After(n, p, text)
    BY <1>2
  <2>2. \A k \in 1 .. n + 1 : k \in 1 .. n \/ k = n + 1
    OBVIOUS
  <2>3. CASE text = before[p] /\ \A k \in 1 .. n : ~Tools!Touches(hunks[k], p)
    BY <1>2, <2>2, <2>3 DEF Tools!After
  <2>4. CASE \E k \in 1 .. n :
               /\ Tools!Touches(hunks[k], p) /\ text = Tools!TextLeft(hunks[k], p)
               /\ \A j \in k + 1 .. n : ~Tools!Touches(hunks[j], p)
    <3>1. PICK k \in 1 .. n :
            /\ Tools!Touches(hunks[k], p) /\ text = Tools!TextLeft(hunks[k], p)
            /\ \A j \in k + 1 .. n : ~Tools!Touches(hunks[j], p)
      BY <2>4
    <3>2. \A j \in k + 1 .. n + 1 : ~Tools!Touches(hunks[j], p)
      <4>1. \A j \in k + 1 .. n + 1 : j \in k + 1 .. n \/ j = n + 1
        OBVIOUS
      <4> QED
        BY <1>2, <3>1, <4>1
    <3>3. k \in 1 .. n + 1
      OBVIOUS
    <3> QED
      BY <3>1, <3>2, <3>3 DEF Tools!After
  <2> QED
    BY <2>1, <2>3, <2>4 DEF Tools!After
<1> QED
  BY <1>1, <1>2

-----------------------------------------------------------------------------

\* A step of a call that leaves the patch alone, or ends it before it began.
PatchAside ==
  /\ UNCHANGED <<contents, before, hunks, applied, step>>
  /\ Patch \in started' <=> Patch \in started
  /\ \/ call'[Patch] = call[Patch]
     \/ Patch \notin started /\ call'[Patch] # "ok"

LEMMA AsideKeepsPatch == ToolsInv /\ PatchAside => PatchInv' /\ FilesInv'
<1> SUFFICES ASSUME ToolsInv, PatchAside PROVE PatchInv' /\ FilesInv'
  OBVIOUS
<1>1. /\ UNCHANGED <<contents, before, hunks, applied, step>>
      /\ Patch \in started' <=> Patch \in started
      /\ call'[Patch] = call[Patch] \/ (Patch \notin started /\ call'[Patch] # "ok")
  BY DEF PatchAside
<1>2. PatchInv /\ FilesInv
  BY DEF ToolsInv
<1>3. UNCHANGED <<Tools!NextHunk, Untouched, Applied, Moved, Moving, Tools!MovesOntoItself>>
  BY <1>1 DEF Tools!NextHunk, Untouched, Applied, Moved, Moving, Tools!MovesOntoItself, Tools!After
<1>4. PatchInv'
  BY <1>1, <1>2, <1>3 DEF PatchInv
<1>5. Patch \notin started => Applied
  BY <1>2, UntouchedIsApplied DEF PatchInv
<1>6. FilesInv'
  BY <1>1, <1>2, <1>3, <1>5 DEF FilesInv
<1> QED
  BY <1>4, <1>6

\* A call that moves on without a prompt.
LEMMA CallMoves ==
  ASSUME ToolsTyped, ApprovalInv, NEW c \in Tools!Calls, NEW to \in CallStates \ {"asked"},
         call' = [call EXCEPT ![c] = to], UNCHANGED <<config, overwritten>>,
         \/ pendingApproval' = pendingApproval /\ pendingApproval # c
         \/ pendingApproval' = NoCall /\ pendingApproval = c,
         approved \subseteq approved', started \subseteq started',
         started' \subseteq started \union {c},
         c \in started' \/ to = "going" => ~Tools!Asks(c) \/ c \in approved'
  PROVE  call' \in [Tools!Calls -> CallStates] /\ ApprovalInv'
<1>1. /\ call \in [Tools!Calls -> CallStates]
      /\ pendingApproval # NoCall =>
           pendingApproval \in Tools!Calls /\ call[pendingApproval] = "asked"
      /\ \A d \in Tools!Calls : call[d] = "asked" => pendingApproval = d \/ overwritten
      /\ started \subseteq Tools!Calls
      /\ \A d \in Tools!Calls :
           d \in started \/ call[d] = "going" => ~Tools!Asks(d) \/ d \in approved
  BY DEF ToolsTyped, ApprovalInv
<1>2. call' \in [Tools!Calls -> CallStates]
  BY <1>1
<1>3. \A d \in Tools!Calls : call'[d] = IF d = c THEN to ELSE call[d]
  BY <1>1
<1>4. \A d \in Tools!Calls : Tools!Asks(d)' <=> Tools!Asks(d)
  BY DEF Tools!Asks
<1>5. pendingApproval' # NoCall =>
        pendingApproval' \in Tools!Calls /\ call'[pendingApproval'] = "asked"
  BY <1>1, <1>3
<1>6. ASSUME NEW d \in Tools!Calls, call'[d] = "asked"
      PROVE  pendingApproval' = d \/ overwritten'
  <2>1. d # c /\ call[d] = "asked"
    BY <1>3, <1>6
  <2> QED
    BY <1>1, <2>1
<1>7. ASSUME NEW d \in Tools!Calls, d \in started' \/ call'[d] = "going"
      PROVE  ~Tools!Asks(d)' \/ d \in approved'
  <2>1. CASE d = c
    BY <1>3, <1>4, <1>7, <2>1
  <2>2. CASE d # c
    BY <1>1, <1>3, <1>4, <1>7, <2>2
  <2> QED
    BY <2>1, <2>2
<1>8. started' \subseteq Tools!Calls
  BY <1>1
<1> QED
  BY <1>2, <1>5, <1>6, <1>7, <1>8 DEF ApprovalInv

\* A prompt, which may take the slot of another one.
LEMMA PromptShown ==
  ASSUME ToolsTyped, ApprovalInv, NEW c \in Tools!Calls, Tools!Prompt(c), call[c] # "asked",
         UNCHANGED <<config, approved, started>>
  PROVE  call' \in [Tools!Calls -> CallStates] /\ ApprovalInv'
<1>1. /\ call \in [Tools!Calls -> CallStates]
      /\ \A d \in Tools!Calls : call[d] = "asked" => pendingApproval = d \/ overwritten
      /\ started \subseteq Tools!Calls
      /\ \A d \in Tools!Calls :
           d \in started \/ call[d] = "going" => ~Tools!Asks(d) \/ d \in approved
  BY DEF ToolsTyped, ApprovalInv
<1>2. /\ call' = [call EXCEPT ![c] = "asked"] /\ pendingApproval' = c
      /\ overwritten \/ pendingApproval # NoCall => overwritten'
  BY DEF Tools!Prompt, Tools!MoveTo
<1>3. call' \in [Tools!Calls -> CallStates]
  BY <1>1, <1>2 DEF CallStates
<1>4. \A d \in Tools!Calls : call'[d] = IF d = c THEN "asked" ELSE call[d]
  BY <1>1, <1>2
<1>5. \A d \in Tools!Calls : Tools!Asks(d)' <=> Tools!Asks(d)
  BY DEF Tools!Asks
<1>6. ASSUME NEW d \in Tools!Calls, call'[d] = "asked"
      PROVE  pendingApproval' = d \/ overwritten'
  <2>1. d = c \/ call[d] = "asked"
    BY <1>4, <1>6
  <2>2. d # NoCall
    BY CallsAssumption DEF Tools!Calls
  <2> QED
    BY <1>1, <1>2, <2>1, <2>2
<1>7. ASSUME NEW d \in Tools!Calls, d \in started' \/ call'[d] = "going"
      PROVE  ~Tools!Asks(d)' \/ d \in approved'
  BY <1>1, <1>4, <1>5, <1>7
<1> QED
  BY <1>1, <1>2, <1>3, <1>4, <1>6, <1>7 DEF ApprovalInv

\* Steps of a call that is not at the host, and of a command.
LEMMA CallStep ==
  ASSUME ToolsInv,
         \/ Tools!User
         \/ \E c \in Tools!Calls : Tools!Refuse(c)
         \/ \E c \in Execs : Tools!ExecCommand(c) \/ Tools!StartExec(c)
  PROVE  ToolsInv'
<1>0. /\ ToolsTyped /\ ApprovalInv /\ PatchInv
      /\ call \in [Tools!Calls -> CallStates] /\ Patch \in Tools!Calls
      /\ pendingApproval # NoCall =>
           pendingApproval \in Tools!Calls /\ call[pendingApproval] = "asked"
      /\ \A c \in Tools!Calls : c \in started \/ call[c] = "going" => ~Tools!Asks(c) \/ c \in approved
      /\ Patch \in started => call[Patch] \in {"going", "ok", "error"}
  BY DEF ToolsInv, ToolsTyped, ApprovalInv, PatchInv, Tools!Calls
<1>1. SUFFICES call' \in [Tools!Calls -> CallStates] /\ ApprovalInv' /\ PatchAside
  <2>1. PatchAside => UNCHANGED <<contents, hunks, applied>>
    BY DEF PatchAside
  <2> QED
    BY <1>0, <1>1, <2>1, AsideKeepsPatch DEF ToolsInv, ToolsTyped
<1>2. CASE Tools!User
  <2>1. PICK to \in {"going", "denied"} :
          /\ pendingApproval # NoCall /\ pendingApproval' = NoCall
          /\ call' = [call EXCEPT ![pendingApproval] = to]
          /\ IF to = "going" THEN approved' = approved \union {pendingApproval}
                             ELSE approved' = approved
          /\ UNCHANGED <<config, overwritten, started, contents, before, hunks, applied, step>>
    BY <1>2 DEF Tools!User, Tools!resolveApproval, Tools!MoveTo
  <2>2. pendingApproval \notin started \/ pendingApproval \in approved \/ ~Tools!Asks(pendingApproval)
    BY <1>0, <2>1
  <2>3. pendingApproval \in started' \/ to = "going" =>
          ~Tools!Asks(pendingApproval) \/ pendingApproval \in approved'
    BY <2>1, <2>2
  <2>4. to \in CallStates \ {"asked"}
    BY DEF CallStates
  <2>5. approved \subseteq approved' /\ started' = started
    BY <2>1
  <2>6. call' \in [Tools!Calls -> CallStates] /\ ApprovalInv'
    BY <1>0, <2>1, <2>3, <2>4, <2>5, CallMoves
  <2>7. PatchAside
    BY <1>0, <2>1 DEF PatchAside
  <2> QED
    BY <2>6, <2>7
<1>3. CASE \E c \in Tools!Calls : Tools!Refuse(c)
  <2>1. PICK c \in Tools!Calls : Tools!Refuse(c)
    BY <1>3
  <2>2. /\ call[c] = "called" /\ call' = [call EXCEPT ![c] = "refused"]
        /\ UNCHANGED <<config, pendingApproval, overwritten, approved, started, contents, before,
                       hunks, applied, step>>
    BY <2>1 DEF Tools!Refuse, Tools!MayBegin, Tools!MoveTo
  <2>3. pendingApproval # c
    BY <1>0, <2>2, CallsAssumption DEF Tools!Calls
  <2>4. "refused" \in CallStates \ {"asked"}
    BY DEF CallStates
  <2>5. call' \in [Tools!Calls -> CallStates] /\ ApprovalInv'
    BY <1>0, <2>2, <2>3, <2>4, CallMoves
  <2>6. PatchAside
    BY <1>0, <2>2 DEF PatchAside
  <2> QED
    BY <2>5, <2>6
<1>4. CASE \E c \in Execs : Tools!ExecCommand(c)
  <2>1. PICK c \in Execs : Tools!ExecCommand(c)
    BY <1>4
  <2>2. c \in Tools!Calls /\ c # Patch /\ c # NoCall
    BY CallsAssumption DEF Tools!Calls
  <2>3. /\ call[c] = "called"
        /\ UNCHANGED <<config, approved, started, contents, before, hunks, applied, step>>
    BY <2>1 DEF Tools!ExecCommand, Tools!MayBegin
  <2>4. CASE Tools!Prompt(c)
    <3>1. call' \in [Tools!Calls -> CallStates] /\ ApprovalInv'
      BY <1>0, <2>2, <2>3, <2>4, PromptShown
    <3>2. call' = [call EXCEPT ![c] = "asked"]
      BY <2>4 DEF Tools!Prompt, Tools!MoveTo
    <3>3. PatchAside
      BY <1>0, <2>2, <2>3, <3>2 DEF PatchAside
    <3> QED
      BY <3>1, <3>3
  <2>5. CASE ~Tools!Prompt(c)
    <3>1. PICK to \in {"denied", "going"} :
            /\ call' = [call EXCEPT ![c] = to] /\ UNCHANGED <<pendingApproval, overwritten>>
            /\ to = "going" => ~Tools!Asks(c)
      BY <2>1, <2>5 DEF Tools!ExecCommand, Tools!AskOrGo, Tools!MoveTo
    <3>2. pendingApproval # c
      BY <1>0, <2>2, <2>3
    <3>3. to \in CallStates \ {"asked"}
      BY DEF CallStates
    <3>4. c \in started' \/ to = "going" => ~Tools!Asks(c) \/ c \in approved'
      BY <1>0, <2>2, <2>3, <3>1
    <3>5. call' \in [Tools!Calls -> CallStates] /\ ApprovalInv'
      BY <1>0, <2>2, <2>3, <3>1, <3>2, <3>3, <3>4, CallMoves
    <3>6. PatchAside
      BY <1>0, <2>2, <2>3, <3>1 DEF PatchAside
    <3> QED
      BY <3>5, <3>6
  <2> QED
    BY <2>4, <2>5
<1>5. CASE \E c \in Execs : Tools!StartExec(c)
  <2>1. PICK c \in Execs : Tools!StartExec(c)
    BY <1>5
  <2>2. c \in Tools!Calls /\ c # Patch /\ c # NoCall
    BY CallsAssumption DEF Tools!Calls
  <2>3. /\ call[c] = "going" /\ call' = [call EXCEPT ![c] = "ok"]
        /\ started' = started \union {c}
        /\ UNCHANGED <<config, pendingApproval, overwritten, approved, contents, before, hunks,
                       applied, step>>
    BY <2>1 DEF Tools!StartExec, Tools!MoveTo
  <2>4. pendingApproval # c /\ (~Tools!Asks(c) \/ c \in approved)
    BY <1>0, <2>2, <2>3
  <2>5. "ok" \in CallStates \ {"asked"}
    BY DEF CallStates
  <2>6. call' \in [Tools!Calls -> CallStates] /\ ApprovalInv'
    BY <1>0, <2>2, <2>3, <2>4, <2>5, CallMoves
  <2>7. PatchAside
    BY <1>0, <2>2, <2>3 DEF PatchAside
  <2> QED
    BY <2>6, <2>7
<1> QED
  BY <1>2, <1>3, <1>4, <1>5

\* The patch is parsed, and its hunks are known.
LEMMA PatchParsed == ToolsInv /\ Tools!ApplyPatch => ToolsInv'
<1> SUFFICES ASSUME ToolsInv, Tools!ApplyPatch PROVE ToolsInv'
  OBVIOUS
<1>0. /\ ToolsTyped /\ ApprovalInv /\ PatchInv /\ Patch \in Tools!Calls /\ Patch # NoCall
      /\ call \in [Tools!Calls -> CallStates] /\ contents \in [Paths -> Tools!Texts]
      /\ pendingApproval # NoCall => call[pendingApproval] = "asked"
  BY CallsAssumption DEF ToolsInv, ToolsTyped, ApprovalInv, Tools!Calls
<1>1. /\ call[Patch] = "called"
      /\ \E n \in 0 .. MaxHunks : hunks' \in [1 .. n -> Tools!Hunks]
      /\ UNCHANGED <<config, approved, started, contents, before, applied, step>>
  BY DEF Tools!ApplyPatch, Tools!MayBegin
<1>2. Patch \notin started /\ Untouched
  BY <1>0, <1>1 DEF PatchInv
<1>3. hunks' \in Seq(Tools!Hunks) /\ Len(hunks') \in Nat
  <2>1. PICK n \in 0 .. MaxHunks : hunks' \in [1 .. n -> Tools!Hunks]
    BY <1>1
  <2>2. n \in Nat
    BY BoundsAssumption
  <2>3. hunks' \in Seq(Tools!Hunks)
    BY <2>1, <2>2
  <2> QED
    BY <2>3, LenProperties
<1>4. /\ call' \in [Tools!Calls -> CallStates] /\ ApprovalInv'
      /\ call'[Patch] \in {"asked", "going"}
  <2>1. CASE Tools!Prompt(Patch)
    <3>1. call' \in [Tools!Calls -> CallStates] /\ ApprovalInv'
      BY <1>0, <1>1, <2>1, PromptShown
    <3>2. call'[Patch] = "asked"
      BY <1>0, <2>1 DEF Tools!Prompt, Tools!MoveTo
    <3> QED
      BY <3>1, <3>2
  <2>2. CASE ~Tools!Prompt(Patch)
    <3>1. /\ call' = [call EXCEPT ![Patch] = "going"] /\ UNCHANGED <<pendingApproval, overwritten>>
          /\ ~Tools!Asks(Patch)
      BY <2>2 DEF Tools!ApplyPatch, Tools!AskOrGo, Tools!MoveTo
    <3>2. "going" \in CallStates \ {"asked"}
      BY DEF CallStates
    <3>3. pendingApproval # Patch
      BY <1>0, <1>1
    <3>4. call' \in [Tools!Calls -> CallStates] /\ ApprovalInv'
      BY <1>0, <1>1, <3>1, <3>2, <3>3, CallMoves
    <3> QED
      BY <1>0, <3>1, <3>4
  <2> QED
    BY <2>1, <2>2
<1>5. Untouched' /\ Patch \notin started'
  BY <1>1, <1>2 DEF Untouched
<1>6. Applied'
  BY <1>5 DEF Untouched, Applied, Tools!After
<1>7. ToolsTyped'
  BY <1>0, <1>1, <1>3, <1>4, <1>5 DEF ToolsTyped, Untouched
<1>8. PatchInv'
  BY <1>4, <1>5 DEF PatchInv, Untouched
<1>9. FilesInv'
  BY <1>5, <1>6 DEF FilesInv, Moving, Untouched
<1> QED
  BY <1>4, <1>7, <1>8, <1>9 DEF ToolsInv

LEMMA HunkBegins == ToolsInv /\ Tools!BeginHunk => ToolsInv'
<1> SUFFICES ASSUME ToolsInv, Tools!BeginHunk PROVE ToolsInv'
  OBVIOUS
<1>0. /\ ToolsTyped /\ ApprovalInv /\ PatchInv /\ FilesInv
      /\ Patch \in Tools!Calls /\ Patch # NoCall
      /\ call \in [Tools!Calls -> CallStates]
      /\ pendingApproval # NoCall => call[pendingApproval] = "asked"
      /\ Len(hunks) \in Nat /\ applied \in Nat /\ applied <= Len(hunks)
  BY CallsAssumption, LenProperties DEF ToolsInv, ToolsTyped, ApprovalInv, Tools!Calls
<1>1. /\ call[Patch] = "going" /\ step = "none" /\ started' = started \union {Patch}
      /\ UNCHANGED <<config, pendingApproval, overwritten, approved, contents, before, hunks, applied>>
  BY DEF Tools!BeginHunk
<1>2. PICK to \in {"going", "error", "ok"} :
        /\ call' = [call EXCEPT ![Patch] = to]
        /\ to = "going" => applied < Len(hunks) /\ step' = Tools!FirstStep(Tools!NextHunk)
        /\ to # "going" => step' = "none" /\ ~(applied < Len(hunks))
  <2>1. CASE applied < Len(hunks)
    <3>1. call' = [call EXCEPT ![Patch] = "going"]
      BY <1>0, <1>1, <2>1 DEF Tools!BeginHunk
    <3> QED
      BY <2>1, <3>1 DEF Tools!BeginHunk
  <2>2. CASE ~(applied < Len(hunks))
    BY <1>1, <2>2 DEF Tools!BeginHunk, Tools!MoveTo
  <2> QED
    BY <2>1, <2>2
<1>3. call' \in [Tools!Calls -> CallStates] /\ ApprovalInv'
  <2>1. to \in CallStates \ {"asked"} /\ pendingApproval # Patch
    BY <1>0, <1>1 DEF CallStates
  <2>2. ~Tools!Asks(Patch) \/ Patch \in approved
    BY <1>0, <1>1 DEF ApprovalInv
  <2> QED
    BY <1>0, <1>1, <1>2, <2>1, <2>2, CallMoves
<1>4. ToolsTyped'
  BY <1>0, <1>1, <1>3 DEF ToolsTyped
<1>5. call'[Patch] = to /\ Tools!NextHunk' = Tools!NextHunk
  BY <1>0, <1>1, <1>2 DEF Tools!NextHunk
<1>6. applied < Len(hunks) => Tools!NextHunk.kind \in {"add", "delete", "update", "move"}
  BY <1>0, NextHunkTyped, HunkTyped
<1>7. PatchInv'
  BY <1>0, <1>1, <1>2, <1>5, <1>6 DEF PatchInv, Tools!FirstStep
<1>8. Tools!MovesOntoItself \/ Applied
  BY <1>0, <1>1 DEF FilesInv, Moving
<1>9. FilesInv'
  <2>1. UNCHANGED <<Applied, Tools!MovesOntoItself>>
    BY <1>1 DEF Applied, Tools!MovesOntoItself, Tools!After
  <2>2. ~Moving'
    BY <1>2, <1>5, <1>6 DEF Moving, Tools!FirstStep
  <2> QED
    BY <1>8, <2>1, <2>2 DEF FilesInv
<1> QED
  BY <1>3, <1>4, <1>7, <1>9 DEF ToolsInv

\* The host answers: a hunk goes on, or it is applied.
LEMMA HunkGoesOn == ToolsInv /\ Tools!HostAnswers => ToolsInv'
<1> SUFFICES ASSUME ToolsInv, Tools!HostAnswers PROVE ToolsInv'
  OBVIOUS
<1>0. /\ ToolsTyped /\ ApprovalInv /\ PatchInv /\ FilesInv
      /\ Len(hunks) \in Nat /\ applied \in Nat /\ contents \in [Paths -> Tools!Texts]
  BY LenProperties DEF ToolsInv, ToolsTyped
<1>1. /\ step # "none"
      /\ UNCHANGED <<config, call, pendingApproval, overwritten, approved, started, before, hunks>>
  BY DEF Tools!HostAnswers, Tools!ReadFile, Tools!WriteFile, Tools!RemoveFile
<1>2. call[Patch] = "going" /\ Patch \in started /\ applied < Len(hunks)
  BY <1>0, <1>1 DEF PatchInv
<1>3. PICK hunk \in Tools!Hunks :
        /\ hunk = Tools!NextHunk /\ hunk = hunks[applied + 1]
        /\ hunk.kind \in {"add", "delete", "update", "move"}
        /\ hunk.path \in Paths /\ hunk.to \in Paths
        /\ hunk.kind # "move" => hunk.to = hunk.path
        /\ ~Tools!MovesOntoItself /\ hunk.kind = "move" => hunk.to # hunk.path
  BY <1>0, <1>2, NextHunkTyped, HunkTyped DEF Tools!NextHunk
<1>4. ApprovalInv'
  BY <1>0, <1>1 DEF ApprovalInv, Tools!Asks
<1>5. Tools!MovesOntoItself' <=> Tools!MovesOntoItself
  BY <1>1 DEF Tools!MovesOntoItself
<1>6. Tools!MovesOntoItself \/ (IF step = "remove" /\ hunk.kind = "move" THEN Moved ELSE Applied)
  BY <1>0, <1>2, <1>3 DEF FilesInv, Moving
<1>7. CASE Tools!ReadFile
  <2>1. step = "read" /\ step' = "write" /\ UNCHANGED <<contents, applied>>
    BY <1>7 DEF Tools!ReadFile
  <2>2. Tools!NextHunk' = Tools!NextHunk
    BY <1>1, <2>1 DEF Tools!NextHunk
  <2>3. PatchInv'
    BY <1>0, <1>1, <1>2, <2>1, <2>2 DEF PatchInv
  <2>4. Applied' <=> Applied
    BY <1>1, <2>1 DEF Applied, Tools!After
  <2>5. FilesInv'
    BY <1>5, <1>6, <2>1, <2>4 DEF FilesInv, Moving
  <2>6. ToolsTyped'
    BY <1>0, <1>1, <2>1 DEF ToolsTyped
  <2> QED
    BY <1>4, <2>3, <2>5, <2>6 DEF ToolsInv
<1>8. CASE Tools!WriteFile /\ hunk.kind = "move"
  <2>1. /\ step = "write" /\ contents' = [contents EXCEPT ![hunk.to] = "new"]
        /\ step' = "remove" /\ applied' = applied
    BY <1>3, <1>8 DEF Tools!WriteFile
  <2>2. Tools!NextHunk' = hunk
    BY <1>1, <1>3, <2>1 DEF Tools!NextHunk
  <2>3. PatchInv'
    BY <1>0, <1>1, <1>2, <1>8, <2>1, <2>2 DEF PatchInv
  <2>4. Applied => Moved'
    <3> SUFFICES ASSUME Applied PROVE Moved'
      OBVIOUS
    <3>1. contents'[hunk.to] = "new" /\ \A p \in Paths \ {hunk.to} : contents'[p] = contents[p]
      BY <1>0, <1>3, <2>1
    <3>2. \A p \in Paths \ {hunk.to} : Tools!After(applied, p, contents'[p])
      BY <3>1 DEF Applied
    <3> QED
      BY <1>1, <1>2, <1>8, <2>1, <2>2, <3>1, <3>2 DEF Moved, Tools!After
  <2>5. FilesInv'
    BY <1>5, <1>6, <1>8, <2>1, <2>2, <2>4 DEF FilesInv, Moving
  <2>6. ToolsTyped'
    BY <1>0, <1>1, <2>1 DEF ToolsTyped, Tools!Texts
  <2> QED
    BY <1>4, <2>3, <2>5, <2>6 DEF ToolsInv
<1>9. CASE \/ Tools!WriteFile /\ hunk.kind # "move"
           \/ Tools!RemoveFile
  <2>1. PICK path \in Paths, text \in {"new", "absent"} :
          /\ contents' = [contents EXCEPT ![path] = text]
          /\ step' = "none" /\ applied' = applied + 1
          /\ \/ step = "write" /\ hunk.kind # "move" /\ path = hunk.to /\ text = "new"
             \/ step = "remove" /\ path = hunk.path /\ text = "absent"
    BY <1>3, <1>9 DEF Tools!WriteFile, Tools!RemoveFile, Tools!HunkDone
  <2>2. contents'[path] = text /\ \A p \in Paths \ {path} : contents'[p] = contents[p]
    BY <1>0, <2>1
  <2>3. applied' \in Nat /\ applied' <= Len(hunks')
    BY <1>0, <1>1, <1>2, <2>1
  <2>4. ToolsTyped'
    BY <1>0, <1>1, <2>1, <2>3 DEF ToolsTyped, Tools!Texts
  <2>5. PatchInv'
    BY <1>1, <1>2, <2>1 DEF PatchInv
  <2>6. hunk.kind \in (IF step = "write" THEN {"add", "update"} ELSE {"delete", "move"})
    BY <1>0, <1>3, <2>1 DEF PatchInv
  <2>7. ASSUME ~Tools!MovesOntoItself, NEW p \in Paths
        PROVE  IF Tools!Touches(hunk, p) THEN contents'[p] = Tools!TextLeft(hunk, p)
                                         ELSE Tools!After(applied, p, contents'[p])
    <3>1. CASE hunk.kind = "move"
      <4>1. step = "remove" /\ path = hunk.path /\ text = "absent" /\ hunk.to # hunk.path
        BY <1>3, <2>1, <2>7, <3>1
      <4>2. /\ contents[hunk.to] = "new"
            /\ \A q \in Paths \ {hunk.to} : Tools!After(applied, q, contents[q])
        BY <1>3, <1>6, <2>7, <3>1, <4>1 DEF Moved
      <4> QED
        BY <1>3, <2>2, <3>1, <4>1, <4>2 DEF Tools!Touches, Tools!TextLeft
    <3>2. CASE hunk.kind # "move"
      <4>1. Applied /\ path = hunk.path /\ hunk.to = hunk.path
        BY <1>3, <1>6, <2>1, <2>7, <3>2
      <4>2. text = Tools!TextLeft(hunk, path)
        BY <2>1, <2>6, <3>2, <4>1 DEF Tools!TextLeft
      <4> QED
        BY <2>2, <4>1, <4>2 DEF Applied, Tools!Touches
    <3> QED
      BY <3>1, <3>2
  <2>8. ASSUME ~Tools!MovesOntoItself, NEW p \in Paths
        PROVE  Tools!After(applied + 1, p, contents'[p])
    BY <1>0, <1>3, <2>7, <2>8, OneMoreHunk
  <2>9. FilesInv'
    <3>1. ~Tools!MovesOntoItself => Applied'
      BY <1>1, <2>1, <2>8 DEF Applied, Tools!After
    <3> QED
      BY <1>5, <2>1, <3>1 DEF FilesInv, Moving
  <2> QED
    BY <1>4, <2>4, <2>5, <2>9 DEF ToolsInv
<1> QED
  BY <1>3, <1>7, <1>8, <1>9 DEF Tools!HostAnswers, Tools!WriteFile

LEMMA HunkGivenUp == ToolsInv /\ Tools!HunkFails => ToolsInv'
<1> SUFFICES ASSUME ToolsInv, Tools!HunkFails PROVE ToolsInv'
  OBVIOUS
<1>0. /\ ToolsTyped /\ ApprovalInv /\ PatchInv /\ FilesInv
      /\ Patch \in Tools!Calls /\ Patch # NoCall
      /\ call \in [Tools!Calls -> CallStates]
      /\ pendingApproval # NoCall => call[pendingApproval] = "asked"
  BY CallsAssumption DEF ToolsInv, ToolsTyped, ApprovalInv, Tools!Calls
<1>1. /\ step # "none" /\ step' = "none" /\ call' = [call EXCEPT ![Patch] = "error"]
      /\ UNCHANGED <<config, pendingApproval, overwritten, approved, started, contents, before,
                     hunks, applied>>
  BY DEF Tools!HunkFails, Tools!MoveTo
<1>2. call[Patch] = "going" /\ Patch \in started /\ "error" \in CallStates \ {"asked"}
  BY <1>0, <1>1 DEF PatchInv, CallStates
<1>3. pendingApproval # Patch /\ (~Tools!Asks(Patch) \/ Patch \in approved)
  BY <1>0, <1>1, <1>2 DEF ApprovalInv
<1>4. call' \in [Tools!Calls -> CallStates] /\ ApprovalInv'
  BY <1>0, <1>1, <1>2, <1>3, CallMoves
<1>5. ToolsTyped'
  BY <1>0, <1>1, <1>4 DEF ToolsTyped
<1>6. PatchInv'
  BY <1>0, <1>1, <1>2 DEF PatchInv
<1>7. UNCHANGED <<Applied, Moved, Tools!MovesOntoItself>> /\ ~Moving'
  BY <1>1 DEF Applied, Moved, Moving, Tools!MovesOntoItself, Tools!After, Tools!NextHunk
<1>8. FilesInv'
  BY <1>0, <1>1, <1>7 DEF FilesInv
<1> QED
  BY <1>4, <1>5, <1>6, <1>8 DEF ToolsInv

LEMMA ToolsStep == ToolsInv /\ [Next]_vars => ToolsInv'
<1> SUFFICES ASSUME ToolsInv, [Next]_vars PROVE ToolsInv'
  OBVIOUS
<1>1. CASE UNCHANGED tools
  <2>1. ToolsTyped' /\ ApprovalInv'
    BY <1>1 DEF ToolsInv, tools, ToolsTyped, ApprovalInv, Tools!Asks
  <2>2. PatchAside
    BY <1>1 DEF tools, PatchAside
  <2> QED
    BY <2>1, <2>2, AsideKeepsPatch DEF ToolsInv
<1> QED
  BY <1>1, CallStep, PatchParsed, HunkBegins, HunkGoesOn, HunkGivenUp, OnePartMoves
  DEF Tools!Next, Tools!Tool

LEMMA ToolsBegin == Init => ToolsInv
<1> SUFFICES ASSUME Init PROVE ToolsInv
  OBVIOUS
<1>1. /\ call = [c \in Tools!Calls |-> "called"] /\ pendingApproval = NoCall
      /\ started = {} /\ contents \in [Paths -> {"absent", "old"}]
      /\ before = contents /\ hunks = << >> /\ applied = 0 /\ step = "none"
  BY PartsBegin DEF Tools!Init
<1>2. Patch \in Tools!Calls /\ hunks \in Seq(Tools!Hunks) /\ Len(hunks) = 0
  BY <1>1, EmptySeq DEF Tools!Calls
<1>3. \A c \in Tools!Calls : call[c] = "called"
  BY <1>1
<1>4. ToolsTyped
  BY <1>1, <1>2 DEF ToolsTyped, CallStates, Tools!Texts
<1>5. ApprovalInv
  BY <1>1, <1>3 DEF ApprovalInv
<1>6. PatchInv
  BY <1>1, <1>2, <1>3 DEF PatchInv, Untouched
<1>7. FilesInv
  BY <1>1, UntouchedIsApplied DEF FilesInv, Moving, Untouched
<1> QED
  BY <1>4, <1>5, <1>6, <1>7 DEF ToolsInv

(***************************************************************************)
(* Whatever is allowed, refused or fails, for patches of any length over   *)
(* any files: between two calls of the host the files are those of a       *)
(* beginning of the patch, or one that is being moved is in both places; a *)
(* patch reported as applied is applied in full; and one that did not      *)
(* reach the host left everything as it was (apply_patch.rs:162-190,       *)
(* 487-539).                                                               *)
(***************************************************************************)
THEOREM PatchesApplyInOrder == FairSpec => []PatchesInOrder
<1>1. ASSUME ToolsInv PROVE PatchesInOrder
  <2>1. /\ call[Patch] = "ok" => applied = Len(hunks)
        /\ Patch \notin started => contents = before
    BY <1>1 DEF ToolsInv, PatchInv, Untouched
  <2>2. Tools!MovesOntoItself \/ Applied \/ Moved
    BY <1>1 DEF ToolsInv, FilesInv
  <2> QED
    BY <2>1, <2>2 DEF PatchesInOrder, Tools!PatchesInOrder, Applied, Moved
<1> QED
  BY <1>1, ToolsBegin, ToolsStep, PTL DEF FairSpec

(***************************************************************************)
(* However many commands ask at once: nothing reaches the host that the    *)
(* user had to approve and did not, and a prompt that waits is the one     *)
(* shown, unless another one took its place (index.tsx:160-164, 304-307,   *)
(* exec.rs:92-124, apply_patch.rs:162-190).                                *)
(***************************************************************************)
THEOREM NothingRunsUnapproved == FairSpec => [](Tools!NothingUnapproved /\ Tools!PromptsShown)
<1>1. ToolsInv => Tools!NothingUnapproved /\ Tools!PromptsShown
  BY DEF ToolsInv, ApprovalInv, Tools!NothingUnapproved, Tools!PromptsShown
<1> QED
  BY <1>1, ToolsBegin, ToolsStep, PTL DEF FairSpec

-----------------------------------------------------------------------------

(***************************************************************************)
(* The paths and the files of the workspace. First, functions that are     *)
(* given by a first value and a step, as the names a path comes to are.    *)
(***************************************************************************)

\* A set that has zero, and the successor of each of its members up to a number,
\* has all the numbers up to there.
LEMMA UpTo ==
  ASSUME NEW n \in Nat, NEW S, 0 \in S, \A k \in 0 .. n : k \in S /\ k # n => k + 1 \in S
  PROVE  0 .. n \subseteq S
<1> DEFINE T == {k \in Nat : k <= n /\ k \notin S}
<1>1. SUFFICES ASSUME T # {} PROVE FALSE
  OBVIOUS
<1>2. PICK x \in T : \A y \in T : ~(<<y, x>> \in OpToRel(<, Nat))
  <2>1. T \subseteq Nat
    OBVIOUS
  <2> HIDE DEF T
  <2> QED
    BY <1>1, <2>1, WFMin, NatLessThanWellFounded
<1>3. x \in Nat /\ x # 0 /\ x \notin S /\ x <= n
  OBVIOUS
<1>4. x - 1 \in 0 .. n /\ x - 1 # n /\ (x - 1) + 1 = x
  BY <1>3
<1>5. x - 1 \notin S
  BY <1>3, <1>4
<1>6. x - 1 \in T
  BY <1>4, <1>5
<1>7. <<x - 1, x>> \in OpToRel(<, Nat)
  BY <1>3, <1>4 DEF OpToRel
<1> QED
  BY <1>2, <1>6, <1>7

\* A function on an interval that is given by its first value and a move.
Steps(h, n, first, move) ==
  h = [k \in 0 .. n |-> IF k = 0 THEN first ELSE move[k][h[k - 1]]]

LEMMA StepsExist ==
  ASSUME NEW n \in Nat, NEW T, NEW first \in T, NEW move \in [1 .. n -> [T -> T]]
  PROVE  \E h : Steps(h, n, first, move)
<1> DEFINE S == {m \in Nat : \E h : Steps(h, m, first, move)}
<1>1. 0 \in S
  <2>1. PICK h : h = [k \in 0 .. 0 |-> first]
    OBVIOUS
  <2>2. h = [k \in 0 .. 0 |-> IF k = 0 THEN first ELSE move[k][h[k - 1]]]
    BY <2>1
  <2>3. Steps(h, 0, first, move)
    BY <2>2, Zenon DEF Steps
  <2> QED
    BY <2>3
<1>2. ASSUME NEW m \in 0 .. n, m \in S, m # n PROVE m + 1 \in S
  <2>1. PICK h : Steps(h, m, first, move)
    BY <1>2
  <2>2. PICK j : j = [k \in 0 .. m + 1 |-> IF k = 0 THEN first ELSE move[k][h[k - 1]]]
    OBVIOUS
  <2>3. \A k \in 0 .. m : j[k] = h[k]
    <3>1. TAKE k \in 0 .. m
    <3>2. k \in 0 .. m + 1
      OBVIOUS
    <3>3. j[k] = IF k = 0 THEN first ELSE move[k][h[k - 1]]
      BY <2>2, <3>2, Zenon
    <3>4. h[k] = IF k = 0 THEN first ELSE move[k][h[k - 1]]
      BY <2>1, <3>1, Zenon DEF Steps
    <3> QED
      BY <3>3, <3>4
  <2>4. \A k \in 0 .. m + 1 : k # 0 => k - 1 \in 0 .. m
    OBVIOUS
  <2>5. j = [k \in 0 .. m + 1 |-> IF k = 0 THEN first ELSE move[k][j[k - 1]]]
    BY <2>2, <2>3, <2>4
  <2>6. Steps(j, m + 1, first, move)
    BY <2>5, Zenon DEF Steps
  <2> QED
    BY <2>6
<1>3. 0 .. n \subseteq S
  <2> HIDE DEF S
  <2> QED
    BY <1>1, <1>2, UpTo
<1> QED
  BY <1>3

LEMMA StepsOf ==
  ASSUME NEW n \in Nat, NEW T, NEW first \in T, NEW move \in [1 .. n -> [T -> T]],
         NEW h, Steps(h, n, first, move)
  PROVE  /\ h[0] = first
         /\ \A k \in 1 .. n : h[k] = move[k][h[k - 1]]
         /\ \A k \in 0 .. n : h[k] \in T
<1>1. \A k \in 0 .. n : h[k] = IF k = 0 THEN first ELSE move[k][h[k - 1]]
  BY Zenon DEF Steps
<1>2. h[0] = first
  BY <1>1
<1>3. \A k \in 1 .. n : h[k] = move[k][h[k - 1]]
  BY <1>1
<1> DEFINE S == {k \in 0 .. n : h[k] \in T}
<1>4. 0 \in S
  BY <1>2
<1>5. ASSUME NEW k \in 0 .. n, k \in S, k # n PROVE k + 1 \in S
  <2>1. k + 1 \in 1 .. n /\ (k + 1) - 1 = k
    BY <1>5
  <2>2. move[k + 1] \in [T -> T]
    BY <2>1
  <2>3. h[k + 1] = move[k + 1][h[k]]
    BY <1>3, <2>1
  <2> QED
    BY <1>5, <2>1, <2>2, <2>3
<1>6. 0 .. n \subseteq S
  <2> HIDE DEF S
  <2> QED
    BY <1>4, <1>5, UpTo
<1> QED
  BY <1>2, <1>3, <1>6

-----------------------------------------------------------------------------

(***************************************************************************)
(* Paths. What the policy lets through is absolute and below the           *)
(* workspace. Without a backslash it is the path of an entry, and nothing  *)
(* of such a path is lost on the way to the host and back; with one the    *)
(* host, that has no such names, means another file.                       *)
(***************************************************************************)

\* The names that paths are written with, and of those the ones that the host sees.
AskedNames == UNION {{asked[i] : i \in 1 .. Len(asked)} : asked \in Asked}

BetweenNames ==
  UNION {{Backslashed[name][i] : i \in 1 .. Len(Backslashed[name])} : name \in DOMAIN Backslashed}

EntryNames == {"/", "workspace", "session.md", "notes"}

Written == AskedNames \union BetweenNames \union {""} \union EntryNames

Spelled == Written \ DOMAIN Backslashed

Named == Spelled \ {""}

Parts == Written \ {""}

LEMMA WrittenSo ==
  /\ \A asked \in Asked : asked \in Seq(Written) /\ asked # << >>
  /\ "" \in Written /\ "/" \in Written /\ "workspace" \in Written
  /\ \A name \in Spelled : name \in Written /\ name \notin DOMAIN Backslashed
  /\ \A name \in Written : name \in Spelled \/ name \in DOMAIN Backslashed
<1>1. ASSUME NEW asked \in Asked PROVE asked \in Seq(Written) /\ asked # << >>
  <2>1. Len(asked) \in Nat \ {0} /\ asked = [i \in 1 .. Len(asked) |-> asked[i]]
    BY AskedAssumption
  <2>2. ASSUME NEW i \in 1 .. Len(asked) PROVE asked[i] \in Written
    <3>1. asked[i] \in {asked[j] : j \in 1 .. Len(asked)}
      OBVIOUS
    <3>2. asked[i] \in AskedNames
      BY <3>1 DEF AskedNames
    <3> QED
      BY <3>2, Zenon DEF Written
  <2>3. PICK n \in Nat \ {0} : n = Len(asked)
    BY <2>1
  <2>4. asked \in [1 .. n -> Written]
    BY <2>1, <2>2, <2>3
  <2>5. asked \in Seq(Written)
    BY <2>4, SeqDef
  <2> QED
    BY <2>5, <2>1
<1>2. "" \in Written /\ EntryNames \subseteq Written
  BY Zenon DEF Written
<1>3. "/" \in Written /\ "workspace" \in Written
  BY <1>2, Zenon DEF EntryNames
<1> QED
  BY <1>1, <1>2, <1>3, Zenon DEF Spelled

LEMMA SpelledSo ==
  /\ "" \in Spelled
  /\ {"/", "workspace", "session.md", "notes"} \subseteq Named
  /\ \A name \in Named : name \in Spelled /\ name # ""
  /\ \A name \in Spelled : name \in Named \/ name = ""
<1>1. \A name \in EntryNames : name # ""
  BY DEF EntryNames
<1>2. \A name \in {"", "/", "workspace", "session.md", "notes"} : name \notin DOMAIN Backslashed
  BY BackslashedAssumption, Zenon
<1>3. EntryNames \subseteq Written /\ "" \in Written
  BY Zenon DEF Written
<1>4. "" \in Spelled
  BY <1>2, <1>3, Zenon DEF Spelled
<1>5. {"/", "workspace", "session.md", "notes"} \subseteq Spelled
  BY <1>2, <1>3, Zenon DEF Spelled, EntryNames
<1>6. {"/", "workspace", "session.md", "notes"} \subseteq Named
  BY <1>1, <1>5, Zenon DEF Named, EntryNames
<1> QED
  BY <1>4, <1>6, Zenon DEF Named

\* Of a name that the core takes for one, the host sees the names between its
\* backslashes.
LEMMA BetweenIs ==
  ASSUME NEW name \in Written
  PROVE  Files!Between(name) \in Seq(Spelled)
<1>1. CASE name \in DOMAIN Backslashed
  <2>1. PICK between : between = Backslashed[name]
    OBVIOUS
  <2>2. /\ Len(between) \in Nat \ {0} /\ between = [i \in 1 .. Len(between) |-> between[i]]
        /\ \A i \in 1 .. Len(between) : between[i] \notin DOMAIN Backslashed
    BY <1>1, <2>1, BackslashedAssumption, Zenon
  <2>3. ASSUME NEW i \in 1 .. Len(between) PROVE between[i] \in Spelled
    <3>1. between[i] \in BetweenNames
      BY <1>1, <2>1 DEF BetweenNames
    <3> QED
      BY <2>2, <3>1, Zenon DEF Written, Spelled
  <2>4. PICK n \in Nat \ {0} : n = Len(between)
    BY <2>2
  <2>5. between \in [1 .. n -> Spelled]
    BY <2>2, <2>3, <2>4
  <2>6. between \in Seq(Spelled)
    BY <2>5, SeqDef
  <2> QED
    BY <1>1, <2>1, <2>6, Zenon DEF Files!Between
<1>2. CASE name \notin DOMAIN Backslashed
  <2>1. name \in Spelled
    BY <1>2, WrittenSo, Zenon
  <2>2. <<name>> \in Seq(Spelled)
    BY <2>1
  <2> QED
    BY <1>2, <2>2, Zenon DEF Files!Between
<1> QED
  BY <1>1, <1>2

LEMMA OneName ==
  ASSUME NEW name \in Spelled
  PROVE  <<name>> \in Seq(Spelled) /\ Len(<<name>>) = 1 /\ <<name>>[1] = name
OBVIOUS

LEMMA TwoNames ==
  ASSUME NEW root \in Spelled, NEW top \in Spelled
  PROVE  /\ <<root, top>> \in Seq(Spelled) /\ Len(<<root, top>>) = 2
         /\ <<root, top>>[1] = root /\ <<root, top>>[2] = top
OBVIOUS

\* What of a path comes before another.
LEMMA PrefixIs ==
  ASSUME NEW p \in Seq(Written), NEW q \in Seq(Written)
  PROVE  /\ Files!IsPrefix(p, q) <=> Len(p) <= Len(q) /\ \A i \in 1 .. Len(p) : p[i] = q[i]
         /\ Files!IsStrictPrefix(p, q) <=> Len(p) < Len(q) /\ \A i \in 1 .. Len(p) : p[i] = q[i]
<1>1. Len(p) \in Nat /\ Len(q) \in Nat
  OBVIOUS
<1>2. Files!IsPrefix(p, q) <=> Len(p) <= Len(q) /\ \A i \in 1 .. Len(p) : p[i] = q[i]
  <2>1. CASE Len(p) <= Len(q)
    <3>1. /\ SubSeq(q, 1, Len(p)) \in Seq(Written)
          /\ Len(SubSeq(q, 1, Len(p))) = Len(p)
          /\ \A i \in 1 .. Len(p) : SubSeq(q, 1, Len(p))[i] = q[i]
      BY <1>1, <2>1
    <3>2. SubSeq(p, 1, Len(p)) = p
      BY SubSeqFull
    <3>3. (\A i \in 1 .. Len(p) : p[i] = q[i]) => p = SubSeq(q, 1, Len(p))
      BY <3>1, SeqEqual
    <3> QED
      BY <2>1, <3>1, <3>2, <3>3 DEF Files!IsPrefix
  <2> QED
    BY <2>1 DEF Files!IsPrefix
<1>3. Len(p) = Len(q) /\ (\A i \in 1 .. Len(p) : p[i] = q[i]) => p = q
  BY SeqEqual
<1>4. p = q => Len(p) = Len(q)
  OBVIOUS
<1> QED
  BY <1>1, <1>2, <1>3, <1>4 DEF Files!IsStrictPrefix

LEMMA PrefixSays ==
  ASSUME NEW p \in Seq(Spelled), NEW q \in Seq(Spelled)
  PROVE  /\ Files!IsPrefix(p, q) <=> Len(p) <= Len(q) /\ \A i \in 1 .. Len(p) : p[i] = q[i]
         /\ Files!IsStrictPrefix(p, q) <=> Len(p) < Len(q) /\ \A i \in 1 .. Len(p) : p[i] = q[i]
<1>1. Spelled \subseteq Written
  BY Zenon DEF Spelled
<1>2. p \in Seq(Written) /\ q \in Seq(Written)
  BY <1>1, SeqMonotonic
<1> QED
  BY <1>2, PrefixIs, Zenon

\* The path of the workspace in the container begins every other.
LEMMA BeginningIs ==
  ASSUME NEW q \in Seq(Written)
  PROVE  /\ Files!AtOrBelow(q, <<"workspace">>) <=> Len(q) >= 1 /\ q[1] = "workspace"
         /\ Files!AtOrBelow(q, Files!Root) <=> Len(q) >= 2 /\ q[1] = "" /\ q[2] = "workspace"
         /\ Files!AtOrBelow(q, Files!Workspace) <=> Len(q) >= 1 /\ q[1] = "workspace"
<1>1. PICK root : root = "" /\ root \in Written
  BY WrittenSo, Zenon
<1>2. PICK top : top = "workspace" /\ top \in Written
  BY WrittenSo, Zenon
<1>3. PICK one : one = <<top>>
  OBVIOUS
<1>4. one \in Seq(Written) /\ Len(one) = 1 /\ one[1] = top
  BY <1>2, <1>3
<1>5. PICK two : two = <<root, top>>
  OBVIOUS
<1>6. two \in Seq(Written) /\ Len(two) = 2 /\ two[1] = root /\ two[2] = top
  <2>1. root \in Written /\ top \in Written
    BY <1>1, <1>2, Zenon
  <2> QED
    BY <1>5, <2>1
<1>7. Files!IsPrefix(one, q) <=> Len(q) >= 1 /\ q[1] = top
  <2>1. \A i \in 1 .. 1 : i = 1
    OBVIOUS
  <2>2. Files!IsPrefix(one, q) <=> 1 <= Len(q) /\ \A i \in 1 .. 1 : one[i] = q[i]
    BY <1>4, PrefixIs
  <2> QED
    BY <1>4, <2>1, <2>2
<1>8. Files!IsPrefix(two, q) <=> Len(q) >= 2 /\ q[1] = root /\ q[2] = top
  <2>1. \A i \in 1 .. 2 : i = 1 \/ i = 2
    OBVIOUS
  <2>2. Files!IsPrefix(two, q) <=> 2 <= Len(q) /\ \A i \in 1 .. 2 : two[i] = q[i]
    BY <1>6, PrefixIs
  <2>3. 1 \in 1 .. 2 /\ 2 \in 1 .. 2
    OBVIOUS
  <2>4. (\A i \in 1 .. 2 : two[i] = q[i]) <=> two[1] = q[1] /\ two[2] = q[2]
    BY <2>1, <2>3
  <2> QED
    BY <1>6, <2>2, <2>4
<1> QED
  BY <1>1, <1>2, <1>3, <1>5, <1>7, <1>8, Zenon DEF Files!AtOrBelow, Files!Root, Files!Workspace

LEMMA Beginning ==
  ASSUME NEW q \in Seq(Spelled)
  PROVE  /\ Files!AtOrBelow(q, <<"workspace">>) <=> Len(q) >= 1 /\ q[1] = "workspace"
         /\ Files!AtOrBelow(q, Files!Root) <=> Len(q) >= 2 /\ q[1] = "" /\ q[2] = "workspace"
         /\ Files!AtOrBelow(q, Files!Workspace) <=> Len(q) >= 1 /\ q[1] = "workspace"
<1>1. Spelled \subseteq Written
  BY Zenon DEF Spelled
<1>2. q \in Seq(Written)
  BY <1>1, SeqMonotonic
<1> QED
  BY <1>2, BeginningIs, Zenon

\* The path of an entry below the workspace, which may have a slash at its end.
IsContainer(q) ==
  /\ q \in Seq(Spelled) /\ Len(q) >= 1 /\ q[1] = "workspace"
  /\ \A i \in 1 .. Len(q) - 1 : q[i] \in Named

LEMMA AbsoluteIs ==
  ASSUME NEW q \in Seq(Written)
  PROVE  /\ <<"">> \o q \in Seq(Written) /\ Len(<<"">> \o q) = Len(q) + 1
         /\ (<<"">> \o q)[1] = "" /\ \A i \in 1 .. Len(q) : (<<"">> \o q)[i + 1] = q[i]
         /\ Tail(<<"">> \o q) = q
<1>1. PICK root : root = "" /\ root \in Written
  BY WrittenSo, Zenon
<1>2. PICK one : one = <<root>>
  OBVIOUS
<1>3. one \in Seq(Written) /\ Len(one) = 1 /\ one[1] = root
  <2>1. root \in Written
    BY <1>1, Zenon
  <2> QED
    BY <1>2, <2>1
<1>4. /\ one \o q \in Seq(Written) /\ Len(one \o q) = Len(one) + Len(q)
      /\ \A i \in 1 .. Len(one) + Len(q) :
           (one \o q)[i] = IF i <= Len(one) THEN one[i] ELSE q[i - Len(one)]
  BY <1>3, ConcatProperties
<1>5. PICK a : a = one \o q
  OBVIOUS
<1>12. /\ a \in Seq(Written) /\ Len(a) = 1 + Len(q)
       /\ \A i \in 1 .. 1 + Len(q) : a[i] = IF i <= 1 THEN one[i] ELSE q[i - 1]
  BY <1>3, <1>4, <1>5, Zenon
<1>6. Len(q) \in Nat
  OBVIOUS
<1>7. a[1] = root
  BY <1>3, <1>12, <1>6
<1>8. ASSUME NEW i \in 1 .. Len(q) PROVE a[i + 1] = q[i]
  <2>1. i + 1 \in 1 .. 1 + Len(q) /\ ~(i + 1 <= 1) /\ (i + 1) - 1 = i
    BY <1>6
  <2> QED
    BY <1>12, <2>1
<1>9. /\ a # << >> /\ Tail(a) \in Seq(Written) /\ Len(Tail(a)) = Len(q)
      /\ \A i \in 1 .. Len(q) : Tail(a)[i] = a[i + 1]
  <2>1. a # << >>
    BY <1>12, <1>6
  <2> QED
    BY <1>12, <1>6, <2>1, HeadTailProperties
<1>10. Tail(a) = q
  BY <1>8, <1>9, SeqEqual
<1>11. Len(a) = Len(q) + 1
  BY <1>12, <1>6
<1> QED
  BY <1>1, <1>2, <1>5, <1>12, <1>7, <1>8, <1>10, <1>11, Zenon

LEMMA AbsoluteOf ==
  ASSUME NEW q \in Seq(Spelled)
  PROVE  /\ <<"">> \o q \in Seq(Spelled) /\ Len(<<"">> \o q) = Len(q) + 1
         /\ (<<"">> \o q)[1] = "" /\ \A i \in 1 .. Len(q) : (<<"">> \o q)[i + 1] = q[i]
         /\ Tail(<<"">> \o q) = q
<1>1. Spelled \subseteq Written
  BY Zenon DEF Spelled
<1>2. q \in Seq(Written)
  BY <1>1, SeqMonotonic
<1>3. PICK root \in Spelled : root = ""
  BY SpelledSo, Zenon
<1>4. <<root>> \in Seq(Spelled)
  OBVIOUS
<1>5. <<root>> \o q \in Seq(Spelled)
  BY <1>4, ConcatProperties
<1>6. <<"">> \o q \in Seq(Spelled)
  BY <1>3, <1>5, Zenon
<1>7. /\ Len(<<"">> \o q) = Len(q) + 1
      /\ (<<"">> \o q)[1] = "" /\ \A i \in 1 .. Len(q) : (<<"">> \o q)[i + 1] = q[i]
      /\ Tail(<<"">> \o q) = q
  BY <1>2, AbsoluteIs, Zenon
<1> QED
  BY <1>6, <1>7, Zenon

\* A path as the host sees it, name by name.
Flattens(flat, seqs) ==
  flat = [i \in 1 .. Len(seqs) |-> IF i = 1 THEN seqs[i] ELSE flat[i-1] \o seqs[i]]

LEMMA SlashedByNames ==
  ASSUME NEW path \in Seq(Written), path # << >>
  PROVE  \E f0 : /\ f0[1] = Files!Between(path[1])
                 /\ \A k \in 1 .. Len(path) - 1 : f0[k + 1] = f0[k] \o Files!Between(path[k + 1])
                 /\ Files!Slashed(path) = f0[Len(path)]
<1>1. PICK n \in Nat \ {0} : n = Len(path)
  BY path \in Seq(Written), path # << >>
<1>2. PICK seqs : seqs = [k \in DOMAIN path |-> Files!Between(path[k])]
  OBVIOUS
<1>3. DOMAIN path = 1 .. n /\ \A k \in 1 .. n : path[k] \in Written
  BY <1>1
<1>4. \A k \in 1 .. n : seqs[k] = Files!Between(path[k]) /\ seqs[k] \in Seq(Spelled)
  BY <1>2, <1>3, BetweenIs
<1>5. seqs \in [1 .. n -> Seq(Spelled)]
  <2>1. seqs = [k \in 1 .. n |-> Files!Between(path[k])]
    BY <1>2, <1>3, Zenon
  <2>2. \A k \in 1 .. n : Files!Between(path[k]) \in Seq(Spelled)
    BY <1>3, BetweenIs, Zenon
  <2> QED
    BY <2>1, <2>2, Zenon
<1>6. Len(seqs) = n
  <2>1. seqs \in Seq(Seq(Spelled))
    BY <1>5, SeqDef
  <2> QED
    BY <1>5, <2>1, LenProperties
<1>7. PICK move : move = [k \in 1 .. n |-> [t \in Seq(Spelled) |-> t \o seqs[k]]]
  OBVIOUS
<1>8. \A k \in 1 .. n : move[k] = [t \in Seq(Spelled) |-> t \o seqs[k]]
  BY <1>7
<1>9. move \in [1 .. n -> [Seq(Spelled) -> Seq(Spelled)]]
  <2>1. \A k \in 1 .. n : \A t \in Seq(Spelled) : t \o seqs[k] \in Seq(Spelled)
    BY <1>4, ConcatProperties
  <2>2. \A k \in 1 .. n : move[k] \in [Seq(Spelled) -> Seq(Spelled)]
    BY <1>8, <2>1
  <2> QED
    BY <1>7, <2>2
<1>10. << >> \in Seq(Spelled)
  OBVIOUS
<1>11. PICK j : Steps(j, n, << >>, move)
  BY <1>9, <1>10, StepsExist
<1>12. /\ j[0] = << >>
       /\ \A k \in 1 .. n : j[k] = move[k][j[k - 1]]
       /\ \A k \in 0 .. n : j[k] \in Seq(Spelled)
  BY <1>9, <1>10, <1>11, StepsOf
<1>13. \A k \in 1 .. n : k - 1 \in 0 .. n
  BY <1>1
<1>14. \A k \in 1 .. n : j[k] = j[k - 1] \o seqs[k]
  BY ZenonT(30), <1>8, <1>12, <1>13
<1>15. PICK g0 : g0 = [k \in 1 .. n |-> j[k]]
  OBVIOUS
<1>16. \A k \in 1 .. n : g0[k] = IF k = 1 THEN seqs[k] ELSE g0[k-1] \o seqs[k]
  <2>1. ASSUME NEW k \in 1 .. n, k = 1 PROVE g0[k] = seqs[k]
    <3>1. j[k] = << >> \o seqs[k]
      <4>1. k - 1 = 0
        BY <2>1
      <4> QED
        BY <1>12, <1>14, <4>1, Zenon
    <3>2. << >> \o seqs[k] = seqs[k]
      BY <1>4, ConcatEmptySeq
    <3> QED
      BY <1>15, <3>1, <3>2, Zenon
  <2>2. ASSUME NEW k \in 1 .. n, k # 1 PROVE g0[k] = g0[k-1] \o seqs[k]
    <3>1. k - 1 \in 1 .. n
      BY <2>2
    <3> QED
      BY <1>14, <1>15, <3>1, Zenon
  <2> QED
    BY <2>1, <2>2, Zenon
<1>17. Flattens(g0, seqs)
  BY <1>6, <1>15, <1>16, Zenon DEF Flattens
<1>18. PICK f0 : f0 = CHOOSE e0 : Flattens(e0, seqs)
  OBVIOUS
<1>19. Flattens(f0, seqs)
  BY <1>17, <1>18
<1>20. Files!Slashed(path) = f0[n]
  <2>1. Files!Slashed(path) = Files!FlattenSeq(seqs)
    BY <1>2, Zenon DEF Files!Slashed
  <2>2. Len(seqs) # 0
    BY <1>1, <1>6
  <2> QED
    BY <1>6, <1>18, <2>1, <2>2, Zenon DEF Flattens, Files!FlattenSeq
<1>21. \A k \in 1 .. n : f0[k] = IF k = 1 THEN seqs[k] ELSE f0[k-1] \o seqs[k]
  BY <1>6, <1>19, Zenon DEF Flattens
<1>22. f0[1] = Files!Between(path[1])
  <2>1. 1 \in 1 .. n
    BY <1>1
  <2> QED
    BY <1>4, <1>21, <2>1, Zenon
<1>23. ASSUME NEW k \in 1 .. n - 1 PROVE f0[k + 1] = f0[k] \o Files!Between(path[k + 1])
  <2>1. k + 1 \in 1 .. n /\ k + 1 # 1 /\ (k + 1) - 1 = k
    BY <1>1
  <2> QED
    BY <1>4, <1>21, <2>1
<1> QED
  BY <1>1, <1>20, <1>22, <1>23, Zenon

LEMMA SlashedIs ==
  ASSUME NEW path \in Seq(Written), path # << >>
  PROVE  Files!Slashed(path) \in Seq(Spelled)
<1>1. PICK n \in Nat \ {0} : n = Len(path)
  BY path \in Seq(Written), path # << >>
<1>2. PICK f0 : /\ f0[1] = Files!Between(path[1])
                /\ \A k \in 1 .. n - 1 : f0[k + 1] = f0[k] \o Files!Between(path[k + 1])
                /\ Files!Slashed(path) = f0[n]
  BY <1>1, SlashedByNames, Zenon
<1>3. \A k \in 1 .. n : Files!Between(path[k]) \in Seq(Spelled)
  BY <1>1, BetweenIs
<1> DEFINE S == {k \in 0 .. n - 1 : f0[k + 1] \in Seq(Spelled)}
<1>4. 0 \in S
  <2>1. 1 \in 1 .. n /\ 0 \in 0 .. n - 1 /\ 0 + 1 = 1
    OBVIOUS
  <2> QED
    BY <1>2, <1>3, <2>1
<1>5. ASSUME NEW k \in 0 .. n - 1, k \in S, k # n - 1 PROVE k + 1 \in S
  <2>1. k + 1 \in 1 .. n - 1 /\ k + 1 \in 0 .. n - 1 /\ (k + 1) + 1 \in 1 .. n
    BY <1>5
  <2>2. f0[(k + 1) + 1] = f0[k + 1] \o Files!Between(path[(k + 1) + 1])
    BY <1>2, <2>1
  <2>3. f0[k + 1] \o Files!Between(path[(k + 1) + 1]) \in Seq(Spelled)
    BY <1>3, <1>5, <2>1, ConcatProperties
  <2> QED
    BY <2>1, <2>2, <2>3
<1>6. 0 .. n - 1 \subseteq S
  <2>1. n - 1 \in Nat
    OBVIOUS
  <2> HIDE DEF S
  <2> QED
    BY <1>4, <1>5, <2>1, UpTo
<1>7. n - 1 \in S /\ (n - 1) + 1 = n
  BY <1>6
<1> QED
  BY <1>2, <1>7

\* Without a backslash it is the path itself.
LEMMA SlashedSame ==
  ASSUME NEW path \in Seq(Spelled), path # << >>
  PROVE  Files!Slashed(path) = path
<1>1. PICK n \in Nat \ {0} : n = Len(path)
  BY path \in Seq(Spelled), path # << >>
<1>2. path \in Seq(Written)
  <2>1. Spelled \subseteq Written
    BY WrittenSo, Zenon
  <2> QED
    BY <2>1, SeqMonotonic
<1>3. PICK f0 : /\ f0[1] = Files!Between(path[1])
                /\ \A k \in 1 .. n - 1 : f0[k + 1] = f0[k] \o Files!Between(path[k + 1])
                /\ Files!Slashed(path) = f0[n]
  BY <1>1, <1>2, SlashedByNames, Zenon
<1>4. \A k \in 1 .. n : path[k] \in Spelled
  BY <1>1
<1>5. \A k \in 1 .. n : Files!Between(path[k]) = <<path[k]>>
  BY <1>4, WrittenSo, Zenon DEF Files!Between
<1> DEFINE S == {k \in 0 .. n - 1 : f0[k + 1] = SubSeq(path, 1, k + 1)}
<1>6. 0 \in S
  <2>1. 1 \in 1 .. n /\ 0 \in 0 .. n - 1 /\ 0 + 1 = 1
    OBVIOUS
  <2>2. SubSeq(path, 1, 1) = <<path[1]>>
    <3>1. SubSeq(path, 1, 1) = <<path[1]>> \o SubSeq(path, 1 + 1, 1)
      BY <1>1, <2>1, SubSeqRecursiveFirst
    <3>2. SubSeq(path, 1 + 1, 1) = << >>
      BY SubSeqEmpty
    <3>3. <<path[1]>> \in Seq(Spelled)
      BY <1>4, <2>1
    <3> QED
      BY <3>1, <3>2, <3>3, ConcatEmptySeq, Zenon
  <2> QED
    BY <1>3, <1>5, <2>1, <2>2
<1>7. ASSUME NEW k \in 0 .. n - 1, k \in S, k # n - 1 PROVE k + 1 \in S
  <2>1. PICK m \in 1 .. n - 1 : m = k + 1
    BY <1>7
  <2>2. m \in 0 .. n - 1 /\ m + 1 \in 1 .. n /\ (m + 1) - 1 = m /\ 1 \in 1 .. n
    BY <2>1
  <2>3. f0[m + 1] = f0[m] \o Files!Between(path[m + 1])
    BY <1>3, <2>1
  <2>4. f0[m] = SubSeq(path, 1, m)
    BY <1>7, <2>1
  <2>5. f0[m + 1] = SubSeq(path, 1, m) \o <<path[m + 1]>>
    BY <1>5, <2>2, <2>3, <2>4, Zenon
  <2>6. SubSeq(path, 1, m + 1) = SubSeq(path, 1, (m + 1) - 1) \o <<path[m + 1]>>
    BY <1>1, <2>2, SubSeqRecursiveSecond
  <2> QED
    BY <2>1, <2>2, <2>5, <2>6
<1>8. 0 .. n - 1 \subseteq S
  <2>1. n - 1 \in Nat
    OBVIOUS
  <2> HIDE DEF S
  <2> QED
    BY <1>6, <1>7, <2>1, UpTo
<1>9. n - 1 \in 0 .. n - 1 /\ (n - 1) + 1 = n
  OBVIOUS
<1>10. f0[(n - 1) + 1] = SubSeq(path, 1, (n - 1) + 1)
  BY <1>8, <1>9, Zenon
<1>11. f0[n] = SubSeq(path, 1, n)
  BY <1>9, <1>10, Zenon
<1> QED
  BY <1>1, <1>3, <1>11, SubSeqFull

LEMMA FromContainer ==
  ASSUME NEW q, IsContainer(q)
  PROVE  Files!fromContainerPath(q) = <<"">> \o q
<1>1. q \in Seq(Spelled) /\ q # << >> /\ q[1] = "workspace"
  BY DEF IsContainer
<1>2. Files!Slashed(q) = q
  BY <1>1, SlashedSame
<1>3. Files!AtOrBelow(q, <<"workspace">>)
  BY Beginning, Zenon DEF IsContainer
<1>4. q[1] # ""
  BY <1>1, "" # "workspace", Zenon
<1> QED
  BY <1>2, <1>3, <1>4, Zenon DEF Files!fromContainerPath

IsKept(h, path) ==
  h = [k \in 0 .. Len(path) |-> IF k = 0 THEN << >> ELSE Files!Kept(h[k - 1], path[k])]

IsPushed(h, path) ==
  h = [k \in 0 .. Len(path) |-> IF k = 0 THEN << >> ELSE Files!Pushed(h[k - 1], path[k])]

LEMMA KeptExists ==
  ASSUME NEW path \in Seq(Spelled)
  PROVE  \E h : /\ IsKept(h, path) /\ Files!Names(path) = h[Len(path)]
                /\ h[0] = << >>
                /\ \A k \in 1 .. Len(path) : h[k] = Files!Kept(h[k - 1], path[k])
                /\ \A k \in 0 .. Len(path) : h[k] \in Seq(Named)
<1>1. PICK n \in Nat : n = Len(path)
  OBVIOUS
<1>2. PICK move : move = [k \in 1 .. n |-> [names \in Seq(Named) |-> Files!Kept(names, path[k])]]
  OBVIOUS
<1>3. ASSUME NEW k \in 1 .. n PROVE move[k] = [names \in Seq(Named) |-> Files!Kept(names, path[k])]
  BY <1>2
<1>4. ASSUME NEW k \in 1 .. n, NEW names \in Seq(Named)
      PROVE  Files!Kept(names, path[k]) \in Seq(Named)
  <2>1. path[k] \in Spelled
    BY <1>1
  <2>2. path[k] \in Named \/ path[k] = ""
    BY <2>1, SpelledSo, Zenon
  <2>3. path[k] \in Named => Append(names, path[k]) \in Seq(Named)
    BY AppendProperties
  <2> QED
    BY <2>2, <2>3 DEF Files!Kept
<1>5. move \in [1 .. n -> [Seq(Named) -> Seq(Named)]]
  <2>1. \A k \in 1 .. n : move[k] \in [Seq(Named) -> Seq(Named)]
    BY <1>3, <1>4
  <2> QED
    BY <1>2, <2>1
<1>6. << >> \in Seq(Named)
  OBVIOUS
<1>7. PICK j : Steps(j, n, << >>, move)
  BY <1>5, <1>6, StepsExist
<1>8. /\ j[0] = << >>
      /\ \A k \in 1 .. n : j[k] = move[k][j[k - 1]]
      /\ \A k \in 0 .. n : j[k] \in Seq(Named)
  BY <1>5, <1>6, <1>7, StepsOf
<1>9. \A k \in 1 .. n : k - 1 \in 0 .. n
  BY <1>1
<1>10. ASSUME NEW k \in 1 .. n PROVE j[k] = Files!Kept(j[k - 1], path[k])
  BY <1>3, <1>8, <1>9
<1>11. j = [k \in 0 .. n |-> IF k = 0 THEN << >> ELSE move[k][j[k - 1]]]
  BY <1>7, Zenon DEF Steps
<1>12. \A k \in 0 .. n : k # 0 => k \in 1 .. n
  OBVIOUS
<1>13. j = [k \in 0 .. n |-> IF k = 0 THEN << >> ELSE Files!Kept(j[k - 1], path[k])]
  BY <1>8, <1>10, <1>11, <1>12
<1>14. IsKept(j, path)
  BY <1>1, <1>13, Zenon DEF IsKept
<1>15. PICK h : h = CHOOSE e0 : IsKept(e0, path)
  OBVIOUS
<1>16. IsKept(h, path)
  BY <1>14, <1>15
<1>17. Files!Names(path) = h[Len(path)]
  BY <1>15, Zenon DEF IsKept, Files!Names
<1>18. h = [k \in 0 .. n |-> IF k = 0 THEN << >> ELSE Files!Kept(h[k - 1], path[k])]
  BY <1>1, <1>16, Zenon DEF IsKept
<1>19. h[0] = << >>
  BY <1>18
<1>20. \A k \in 1 .. n : h[k] = Files!Kept(h[k - 1], path[k])
  BY <1>18
<1> DEFINE S == {k \in 0 .. n : h[k] \in Seq(Named)}
<1>21. 0 \in S
  <2>1. 0 \in 0 .. n
    OBVIOUS
  <2> QED
    BY <1>6, <1>19, <2>1, Zenon
<1>22. ASSUME NEW k \in 0 .. n, k \in S, k # n PROVE k + 1 \in S
  <2>1. k + 1 \in 1 .. n /\ (k + 1) - 1 = k
    BY <1>22
  <2>2. h[k + 1] = Files!Kept(h[k], path[k + 1])
    BY <1>20, <2>1
  <2> QED
    BY <1>4, <1>22, <2>1, <2>2
<1>23. 0 .. n \subseteq S
  <2> HIDE DEF S
  <2> QED
    BY <1>21, <1>22, UpTo
<1>24. \A k \in 0 .. n : h[k] \in Seq(Named)
  BY <1>23
<1> QED
  BY <1>1, <1>16, <1>17, <1>19, <1>20, <1>24, Zenon

LEMMA PushedExists ==
  ASSUME NEW path \in Seq(Written)
  PROVE  \E h : /\ IsPushed(h, path)
                /\ Files!normalizeAbsolute(path) =
                     IF h[Len(path)] = Files!Invalid THEN Files!Invalid ELSE <<"">> \o h[Len(path)]
                /\ h[Len(path)] \in Seq(Parts)
<1>1. PICK n \in Nat : n = Len(path)
  OBVIOUS
<1>2. PICK move : move = [k \in 1 .. n |-> [parts \in Seq(Parts) |-> Files!Pushed(parts, path[k])]]
  OBVIOUS
<1>3. ASSUME NEW k \in 1 .. n PROVE move[k] = [parts \in Seq(Parts) |-> Files!Pushed(parts, path[k])]
  BY <1>2
<1>4. ASSUME NEW k \in 1 .. n, NEW parts \in Seq(Parts)
      PROVE  Files!Pushed(parts, path[k]) \in Seq(Parts)
  <2>1. path[k] \in Written
    BY <1>1
  <2>2. path[k] \in Parts \/ path[k] = ""
    BY <2>1, WrittenSo, Zenon DEF Parts
  <2>3. path[k] \in Parts => Append(parts, path[k]) \in Seq(Parts)
    BY AppendProperties
  <2>4. parts # << >> => Files!Front(parts) \in Seq(Parts)
    BY DEF Files!Front
  <2>5. Files!Invalid \in Seq(Parts) /\ Files!Invalid # << >>
    <3>1. PICK name : name = "/" /\ name \in Parts
      BY WrittenSo, "/" # "", Zenon DEF Parts
    <3>2. <<name>> \in Seq(Parts)
      BY <3>1
    <3> QED
      BY <3>1, <3>2, Zenon DEF Files!Invalid
  <2>6. \/ Files!Pushed(parts, path[k]) = parts \/ Files!Pushed(parts, path[k]) = Files!Invalid
        \/ parts # << >> /\ Files!Pushed(parts, path[k]) = Files!Front(parts)
        \/ path[k] \in Parts /\ Files!Pushed(parts, path[k]) = Append(parts, path[k])
    <3>1. CASE parts = Files!Invalid \/ path[k] \in {"", "."}
      BY <3>1 DEF Files!Pushed
    <3>2. CASE parts # Files!Invalid /\ path[k] = ".."
      BY <3>2 DEF Files!Pushed
    <3>3. CASE ~(parts = Files!Invalid \/ path[k] \in {"", "."}) /\ path[k] # ".."
      BY <2>2, <3>3 DEF Files!Pushed
    <3> QED
      BY <3>1, <3>2, <3>3
  <2> QED
    BY <2>3, <2>4, <2>5, <2>6
<1>5. move \in [1 .. n -> [Seq(Parts) -> Seq(Parts)]]
  <2>1. \A k \in 1 .. n : move[k] \in [Seq(Parts) -> Seq(Parts)]
    BY <1>3, <1>4
  <2> QED
    BY <1>2, <2>1
<1>6. << >> \in Seq(Parts)
  OBVIOUS
<1>7. PICK j : Steps(j, n, << >>, move)
  BY <1>5, <1>6, StepsExist
<1>8. /\ j[0] = << >>
      /\ \A k \in 1 .. n : j[k] = move[k][j[k - 1]]
      /\ \A k \in 0 .. n : j[k] \in Seq(Parts)
  BY <1>5, <1>6, <1>7, StepsOf
<1>9. \A k \in 1 .. n : k - 1 \in 0 .. n
  BY <1>1
<1>10. ASSUME NEW k \in 1 .. n PROVE j[k] = Files!Pushed(j[k - 1], path[k])
  BY <1>3, <1>8, <1>9
<1>11. j = [k \in 0 .. n |-> IF k = 0 THEN << >> ELSE move[k][j[k - 1]]]
  BY <1>7, Zenon DEF Steps
<1>12. \A k \in 0 .. n : k # 0 => k \in 1 .. n
  OBVIOUS
<1>13. j = [k \in 0 .. n |-> IF k = 0 THEN << >> ELSE Files!Pushed(j[k - 1], path[k])]
  BY <1>8, <1>10, <1>11, <1>12
<1>14. IsPushed(j, path)
  BY <1>1, <1>13, Zenon DEF IsPushed
<1>15. PICK h : h = CHOOSE e0 : IsPushed(e0, path)
  OBVIOUS
<1>16. IsPushed(h, path)
  BY <1>14, <1>15
<1>17. Files!normalizeAbsolute(path) =
         IF h[Len(path)] = Files!Invalid THEN Files!Invalid ELSE <<"">> \o h[Len(path)]
  BY <1>15 DEF IsPushed, Files!normalizeAbsolute
<1>18. h = [k \in 0 .. n |-> IF k = 0 THEN << >> ELSE Files!Pushed(h[k - 1], path[k])]
  BY <1>1, <1>16, Zenon DEF IsPushed
<1>19. h[0] = << >>
  BY <1>18
<1>20. \A k \in 1 .. n : h[k] = Files!Pushed(h[k - 1], path[k])
  BY <1>18
<1> DEFINE S == {k \in 0 .. n : h[k] \in Seq(Parts)}
<1>21. 0 \in S
  <2>1. 0 \in 0 .. n
    OBVIOUS
  <2> QED
    BY <1>6, <1>19, <2>1, Zenon
<1>22. ASSUME NEW k \in 0 .. n, k \in S, k # n PROVE k + 1 \in S
  <2>1. k + 1 \in 1 .. n /\ (k + 1) - 1 = k
    BY <1>22
  <2>2. h[k + 1] = Files!Pushed(h[k], path[k + 1])
    BY <1>20, <2>1
  <2> QED
    BY <1>4, <1>22, <2>1, <2>2
<1>23. 0 .. n \subseteq S
  <2> HIDE DEF S
  <2> QED
    BY <1>21, <1>22, UpTo
<1>24. h[Len(path)] \in Seq(Parts)
  <2>1. n \in 0 .. n
    BY <1>1
  <2> QED
    BY <1>1, <1>23, <2>1
<1> QED
  BY <1>1, <1>16, <1>17, <1>24, Zenon

\* The names of a container path are its names but for the slash at its end.
LEMMA NamesOfContainer ==
  ASSUME NEW q, IsContainer(q)
  PROVE  Files!Names(<<"">> \o q) = IF q[Len(q)] = "" THEN Files!Front(q) ELSE q
<1>1. /\ q \in Seq(Spelled) /\ Len(q) \in Nat /\ Len(q) >= 1 /\ q[1] = "workspace"
      /\ \A i \in 1 .. Len(q) - 1 : q[i] \in Named
  BY DEF IsContainer
<1>2. PICK a : a = <<"">> \o q
  OBVIOUS
<1>3. /\ a \in Seq(Spelled) /\ Len(a) = Len(q) + 1
      /\ a[1] = "" /\ \A i \in 1 .. Len(q) : a[i + 1] = q[i]
  BY <1>1, <1>2, AbsoluteOf
<1>4. PICK h : /\ Files!Names(a) = h[Len(a)] /\ h[0] = << >>
               /\ \A k \in 1 .. Len(a) : h[k] = Files!Kept(h[k - 1], a[k])
  BY <1>3, KeptExists
<1>5. \A k \in 1 .. Len(q) + 1 : h[k] = IF a[k] = "" THEN h[k - 1] ELSE Append(h[k - 1], a[k])
  BY <1>3, <1>4 DEF Files!Kept
<1>6. h[1] = << >>
  <2>1. 1 \in 1 .. Len(q) + 1 /\ 1 - 1 = 0
    BY <1>1
  <2> QED
    BY <1>3, <1>4, <1>5, <2>1
<1>7. ASSUME NEW k \in 1 .. Len(q) PROVE h[k + 1] = IF q[k] = "" THEN h[k] ELSE Append(h[k], q[k])
  <2>1. k + 1 \in 1 .. Len(q) + 1 /\ (k + 1) - 1 = k
    BY <1>1
  <2> QED
    BY <1>3, <1>5, <2>1
<1> DEFINE S == {k \in 0 .. Len(q) - 1 : h[k + 1] = SubSeq(q, 1, k)}
<1>8. 0 \in S
  <2>1. SubSeq(q, 1, 0) = << >>
    BY SubSeqEmpty
  <2>2. 0 \in 0 .. Len(q) - 1 /\ 0 + 1 = 1
    BY <1>1
  <2> QED
    BY <1>6, <2>1, <2>2
<1>9. ASSUME NEW k \in 0 .. Len(q) - 1, k \in S, k # Len(q) - 1 PROVE k + 1 \in S
  <2>1. k + 1 \in 1 .. Len(q) /\ k + 1 \in 1 .. Len(q) - 1 /\ k + 1 \in 0 .. Len(q) - 1
    BY <1>1, <1>9
  <2>2. q[k + 1] # ""
    <3>1. q[k + 1] \in Named
      BY <1>1, <2>1
    <3> QED
      BY <3>1, SpelledSo, Zenon
  <2>3. h[(k + 1) + 1] = Append(SubSeq(q, 1, k), q[k + 1])
    BY <1>7, <1>9, <2>1, <2>2
  <2>4. SubSeq(q, 1, k + 1) = SubSeq(q, 1, k) \o <<q[k + 1]>>
    <3>1. 1 \in 1 .. Len(q) /\ k + 1 \in 1 .. Len(q) /\ (k + 1) - 1 = k
      BY <1>1, <2>1
    <3> QED
      BY <1>1, <3>1, SubSeqRecursiveSecond
  <2>5. SubSeq(q, 1, k) \in Seq(Spelled) /\ q[k + 1] \in Spelled
    BY <1>1, <1>9, <2>1
  <2>6. Append(SubSeq(q, 1, k), q[k + 1]) = SubSeq(q, 1, k) \o <<q[k + 1]>>
    BY <2>5, AppendIsConcat
  <2> QED
    BY <2>1, <2>3, <2>4, <2>6
<1>10. 0 .. Len(q) - 1 \subseteq S
  <2>1. Len(q) - 1 \in Nat
    BY <1>1
  <2> HIDE DEF S
  <2> QED
    BY <1>8, <1>9, <2>1, UpTo
<1>11. h[Len(q)] = Files!Front(q)
  <2>1. Len(q) - 1 \in 0 .. Len(q) - 1 /\ (Len(q) - 1) + 1 = Len(q)
    BY <1>1
  <2>2. Len(q) - 1 \in S
    BY <1>10, <2>1
  <2>3. h[(Len(q) - 1) + 1] = SubSeq(q, 1, Len(q) - 1)
    BY <2>2
  <2> QED
    BY <2>1, <2>3 DEF Files!Front
<1>12. Len(q) \in 1 .. Len(q)
  BY <1>1
<1>13. h[Len(q) + 1] = IF q[Len(q)] = "" THEN Files!Front(q) ELSE Append(Files!Front(q), q[Len(q)])
  BY <1>7, <1>11, <1>12
<1>14. Append(Files!Front(q), q[Len(q)]) = q
  <2>1. SubSeq(q, 1, Len(q)) = SubSeq(q, 1, Len(q) - 1) \o <<q[Len(q)]>>
    <3>1. 1 \in 1 .. Len(q)
      BY <1>1
    <3> QED
      BY <1>1, <1>12, <3>1, SubSeqRecursiveSecond
  <2>2. SubSeq(q, 1, Len(q)) = q
    BY <1>1, SubSeqFull
  <2>3. SubSeq(q, 1, Len(q) - 1) \in Seq(Spelled) /\ q[Len(q)] \in Spelled
    BY <1>1, <1>12
  <2> QED
    BY <2>1, <2>2, <2>3, AppendIsConcat DEF Files!Front
<1> QED
  BY <1>2, <1>3, <1>4, <1>13, <1>14

LEMMA JoinedAgain == \A s, t, u \in Seq(Spelled) : (s \o t) \o u = s \o (t \o u)
<1> SUFFICES ASSUME NEW s \in Seq(Spelled), NEW t \in Seq(Spelled), NEW u \in Seq(Spelled)
             PROVE (s \o t) \o u = s \o (t \o u)
  OBVIOUS
<1> QED
  BY ConcatAssociative

LEMMA FrontOf ==
  ASSUME NEW q \in Seq(Spelled), q # << >>
  PROVE  /\ Files!Front(q) \in Seq(Spelled) /\ Len(Files!Front(q)) = Len(q) - 1
         /\ \A i \in 1 .. Len(q) - 1 : Files!Front(q)[i] = q[i]
         /\ Files!Front(q) \o <<q[Len(q)]>> = q
<1>1. Len(q) \in Nat /\ Len(q) >= 1
  OBVIOUS
<1>2. SubSeq(q, 1, Len(q)) = SubSeq(q, 1, Len(q) - 1) \o <<q[Len(q)]>>
  <2>1. 1 \in 1 .. Len(q) /\ Len(q) \in 1 .. Len(q)
    BY <1>1
  <2> QED
    BY <1>1, <2>1, SubSeqRecursiveSecond
<1>3. SubSeq(q, 1, Len(q)) = q
  BY SubSeqFull
<1>4. /\ SubSeq(q, 1, Len(q) - 1) \in Seq(Spelled) /\ Len(SubSeq(q, 1, Len(q) - 1)) = Len(q) - 1
      /\ \A i \in 1 .. Len(q) - 1 : SubSeq(q, 1, Len(q) - 1)[i] = q[i]
  <2>1. PICK m \in Nat : m = Len(q) - 1
    BY <1>1
  <2>2. /\ \A i \in 1 .. m : q[i] \in Spelled
        /\ (IF 1 <= m THEN m - 1 + 1 ELSE 0) = m /\ m - 1 + 1 = m
    BY <1>1, <2>1
  <2>3. /\ SubSeq(q, 1, m) \in Seq(Spelled) /\ Len(SubSeq(q, 1, m)) = m
        /\ \A i \in 1 .. m : SubSeq(q, 1, m)[i] = q[1 + i - 1]
    BY <2>2, SubSeqProperties
  <2>4. \A i \in 1 .. m : 1 + i - 1 = i
    OBVIOUS
  <2> QED
    BY <2>1, <2>3, <2>4
<1> QED
  BY <1>2, <1>3, <1>4 DEF Files!Front

\* Nothing of the path of an entry is lost on the way to the tools and back.
LEMMA ToContainer ==
  ASSUME NEW q, IsContainer(q)
  PROVE  /\ Files!toContainerPath(<<"">> \o q) = q
         /\ Files!Normalized(<<"">> \o q) = <<"">> \o q
<1>1. /\ q \in Seq(Spelled) /\ Len(q) \in Nat /\ Len(q) >= 1 /\ q[1] = "workspace" /\ q # << >>
      /\ \A i \in 1 .. Len(q) - 1 : q[i] \in Named
  BY DEF IsContainer
<1>2. PICK a : a = <<"">> \o q
  OBVIOUS
<1>3. /\ a \in Seq(Spelled) /\ Len(a) = Len(q) + 1
      /\ a[1] = "" /\ \A i \in 1 .. Len(q) : a[i + 1] = q[i]
      /\ Tail(a) = q
  BY <1>1, <1>2, AbsoluteOf
<1>7. Files!Slashed(a) = a
  <2>1. a # << >>
    <3>1. Len(q) \in Nat /\ Len(a) = Len(q) + 1
      BY <1>1, <1>3, Zenon
    <3>2. Len(a) # 0
      BY <3>1
    <3> QED
      BY <3>2
  <2> QED
    BY <1>3, <2>1, SlashedSame, Zenon
<1>4. Files!IsAbsolute(a) /\ Files!Last(a) = q[Len(q)]
  <2>0. Len(q) \in Nat /\ Len(q) >= 1 /\ Len(a) = Len(q) + 1
    BY <1>1, <1>3, Zenon
  <2>1. Len(q) \in 1 .. Len(q) /\ Len(a) > 1
    BY <2>0
  <2>2. a[Len(a)] = q[Len(q)]
    BY <1>3, <2>1
  <2> QED
    BY <1>3, <2>1, <2>2, Zenon DEF Files!IsAbsolute, Files!Last
<1>5. Files!Normalized(a) = a
  <2>1. Files!Slash(TRUE) = <<"">> /\ Files!Slash(FALSE) = << >>
    BY Zenon DEF Files!Slash
  <2>2. CASE q[Len(q)] # ""
    <3>1. Files!Names(a) = q
      BY <1>2, <2>2, NamesOfContainer
    <3>2. Files!Normalized(a) = (Files!Slash(TRUE) \o q) \o Files!Slash(FALSE)
      BY <1>4, <1>7, <2>2, <3>1, Zenon DEF Files!Normalized
    <3>3. Files!Normalized(a) = a \o << >>
      BY <1>2, <2>1, <3>2, Zenon
    <3> QED
      BY <1>3, <3>3, ConcatEmptySeq
  <2>3. CASE q[Len(q)] = ""
    <3>1. Files!Names(a) = Files!Front(q)
      BY <1>2, <2>3, NamesOfContainer
    <3>2. /\ Files!Front(q) \in Seq(Spelled) /\ Len(Files!Front(q)) = Len(q) - 1
          /\ Files!Front(q) \o <<"">> = q
      BY <1>1, <2>3, FrontOf
    <3>3. Files!Front(q) # << >>
      <4>1. Len(q) # 1
        BY <1>1, <2>3
      <4> QED
        <5>1. /\ Len(q) \in Nat /\ Len(q) >= 1
              /\ Len(Files!Front(q)) = Len(q) - 1
          BY <1>1, <3>2, Zenon
        <5>2. Len(Files!Front(q)) # 0
          BY <4>1, <5>1
        <5> QED
          BY <5>2
    <3>4. Files!Normalized(a) = (Files!Slash(TRUE) \o Files!Front(q)) \o Files!Slash(TRUE)
      BY <1>4, <1>7, <2>3, <3>1, <3>3, Zenon DEF Files!Normalized
    <3>5. (<<"">> \o Files!Front(q)) \o <<"">> = <<"">> \o (Files!Front(q) \o <<"">>)
      <4>1. PICK root \in Spelled : root = ""
        BY SpelledSo, Zenon
      <4>2. PICK one \in Seq(Spelled) : one = <<root>>
        BY OneName
      <4>3. PICK front \in Seq(Spelled) : front = Files!Front(q)
        BY <3>2
      <4>4. (one \o front) \o one = one \o (front \o one)
        BY JoinedAgain, Zenon
      <4> QED
        BY <4>1, <4>2, <4>3, <4>4, Zenon
    <3> QED
      BY <1>2, <2>1, <3>2, <3>4, <3>5, Zenon
  <2> QED
    BY <2>2, <2>3
<1>6. Files!AtOrBelow(a, Files!Root) /\ ~Files!AtOrBelow(a, <<"workspace">>)
  <2>1. 1 \in 1 .. Len(q) /\ 1 + 1 = 2
    BY <1>1
  <2>2. a[2] = "workspace"
    BY <1>1, <1>3, <2>1
  <2>3. Len(q) \in Nat /\ Len(q) >= 1 /\ Len(a) = Len(q) + 1
    BY <1>1, <1>3, Zenon
  <2>4. Len(a) >= 2
    BY <2>3
  <2>5. a[1] # "workspace"
    BY <1>3, "" # "workspace", Zenon
  <2> QED
    BY <1>3, <2>2, <2>3, <2>4, <2>5, Beginning, Zenon
<1> QED
  BY <1>2, <1>3, <1>5, <1>6 DEF Files!toContainerPath

\* What the policy lets through is absolute, and below the workspace.
LEMMA ResolvedBelow ==
  ASSUME NEW asked \in Asked, Files!resolve(asked) # Files!Invalid
  PROVE  \E q \in Seq(Parts) : /\ Len(q) >= 1 /\ q[1] = "workspace"
                               /\ Files!resolve(asked) = <<"">> \o q
<1>1. PICK path : path = IF Files!IsAbsolute(asked) THEN asked ELSE Files!Root \o asked
  OBVIOUS
<1>2. path \in Seq(Written)
  <2>1. asked \in Seq(Written)
    BY WrittenSo, Zenon
  <2>2. Files!Root \in Seq(Written)
    <3>1. PICK root \in Written : root = ""
      BY WrittenSo, Zenon
    <3>2. PICK top \in Written : top = "workspace"
      BY WrittenSo, Zenon
    <3>3. <<root, top>> \in Seq(Written)
      OBVIOUS
    <3> QED
      BY <3>1, <3>2, <3>3, Zenon DEF Files!Root
  <2>3. Files!Root \o asked \in Seq(Written)
    BY <2>1, <2>2, ConcatProperties
  <2> QED
    BY <1>1, <2>1, <2>3
<1>3. PICK parts \in Seq(Parts) :
        Files!normalizeAbsolute(path) = IF parts = Files!Invalid THEN Files!Invalid ELSE <<"">> \o parts
  <2>1. PICK h : /\ h[Len(path)] \in Seq(Parts)
                 /\ Files!normalizeAbsolute(path) =
                      IF h[Len(path)] = Files!Invalid THEN Files!Invalid ELSE <<"">> \o h[Len(path)]
    BY <1>2, PushedExists, Zenon
  <2> QED
    BY <2>1, Zenon
<1>4. /\ Files!resolve(asked) = Files!normalizeAbsolute(path)
      /\ Files!AtOrBelow(Files!normalizeAbsolute(path), Files!Root)
  BY <1>1, Zenon DEF Files!resolve
<1>5. Files!resolve(asked) = <<"">> \o parts
  BY <1>3, <1>4, Zenon
<1>6. Files!AtOrBelow(<<"">> \o parts, Files!Root)
  BY <1>4, <1>5, Zenon
<1>7. parts \in Seq(Written)
  <2>1. Parts \subseteq Written
    BY Zenon DEF Parts
  <2> QED
    BY <2>1, SeqMonotonic
<1>8. PICK a \in Seq(Written) :
        /\ a = <<"">> \o parts /\ Len(a) = Len(parts) + 1
        /\ \A i \in 1 .. Len(parts) : a[i + 1] = parts[i]
  BY <1>7, AbsoluteIs
<1>9. Len(a) >= 2 /\ a[2] = "workspace"
  BY <1>6, <1>8, BeginningIs, Zenon
<1>10. Len(parts) \in Nat /\ Len(parts) >= 1
  <2>1. Len(parts) \in Nat
    BY <1>7
  <2>2. Len(a) >= 2 /\ Len(a) = Len(parts) + 1
    BY <1>8, <1>9, Zenon
  <2> QED
    BY <2>1, <2>2
<1>11. 1 \in 1 .. Len(parts) /\ 1 + 1 = 2
  BY <1>10
<1>12. parts[1] = "workspace"
  BY <1>8, <1>9, <1>11
<1> QED
  BY <1>5, <1>10, <1>12, Zenon

\* Without a backslash in it, it is the path of an entry.
LEMMA ResolvedIs ==
  ASSUME NEW asked \in Asked, Files!resolve(asked) # Files!Invalid,
         Files!Plain(Files!resolve(asked))
  PROVE  \E q \in Seq(Named) : IsContainer(q) /\ Files!resolve(asked) = <<"">> \o q
<1>1. PICK q \in Seq(Parts) :
        Len(q) >= 1 /\ q[1] = "workspace" /\ Files!resolve(asked) = <<"">> \o q
  BY ResolvedBelow, Zenon
<1>2. q \in Seq(Written)
  <2>1. Parts \subseteq Written
    BY Zenon DEF Parts
  <2> QED
    BY <2>1, SeqMonotonic
<1>3. PICK a \in Seq(Written) :
        /\ a = <<"">> \o q /\ Len(a) = Len(q) + 1
        /\ \A i \in 1 .. Len(q) : a[i + 1] = q[i]
  BY <1>2, AbsoluteIs
<1>4. ASSUME NEW i \in 1 .. Len(q) PROVE q[i] \in Named
  <2>1. i + 1 \in DOMAIN a
    <3>1. a \in Seq(Written) /\ Len(a) = Len(q) + 1 /\ Len(q) \in Nat
      BY <1>2, <1>3, LenProperties, Zenon
    <3>2. i + 1 \in 1 .. Len(a)
      BY <3>1
    <3> QED
      BY <3>1, <3>2, LenProperties, Zenon
  <2>2. q[i] \notin DOMAIN Backslashed
    BY <1>1, <1>3, <2>1, Zenon DEF Files!Plain
  <2>3. q[i] \in Parts
    OBVIOUS
  <2> QED
    BY <2>2, <2>3, Zenon DEF Parts, Spelled, Named
<1>5. q \in Seq(Named)
  <2>1. PICK n \in Nat : n = Len(q)
    OBVIOUS
  <2>2. q \in [1 .. n -> Named]
    BY <1>4, <2>1
  <2> QED
    BY <2>2, SeqDef
<1>6. q \in Seq(Spelled)
  <2>1. Named \subseteq Spelled
    BY Zenon DEF Named
  <2> QED
    BY <1>5, <2>1, SeqMonotonic
<1>7. \A i \in 1 .. Len(q) - 1 : q[i] \in Named
  BY <1>5
<1> QED
  BY <1>1, <1>5, <1>6, <1>7, Zenon DEF IsContainer

\* A path that the host takes is the path of an entry too, whatever it went through.
LEMMA HostPathIs ==
  ASSUME NEW asked \in Seq(Written), asked # << >>, Files!toContainerPath(asked) # Files!Invalid
  PROVE  IsContainer(Files!toContainerPath(asked))
<1>0. PICK slashed \in Seq(Spelled) : slashed = Files!Slashed(asked)
  BY SlashedIs, Zenon
<1>1. PICK names \in Seq(Named) : names = Files!Names(slashed)
  <2>2. PICK h : /\ Files!Names(slashed) = h[Len(slashed)]
                 /\ \A k \in 0 .. Len(slashed) : h[k] \in Seq(Named)
    BY KeptExists
  <2>3. Len(slashed) \in 0 .. Len(slashed)
    OBVIOUS
  <2> QED
    BY <2>2, <2>3
<1>2. PICK root \in Spelled : root = ""
  BY SpelledSo, Zenon
<1>3. PICK slash : slash = <<root>>
  OBVIOUS
<1>4. slash \in Seq(Spelled) /\ Len(slash) = 1 /\ slash[1] = root
  BY <1>3, OneName
<1>5. PICK none : none = << >>
  OBVIOUS
<1>6. none \in Seq(Spelled) /\ Len(none) = 0
  BY <1>5, EmptySeq
<1>7. PICK first, last :
        /\ first \in {slash, none} /\ last \in {slash, none}
        /\ last = slash => names # << >>
        /\ Files!Normalized(asked) = (first \o names) \o last
  <2>1. Files!Slash(TRUE) = slash /\ Files!Slash(FALSE) = none
    BY <1>2, <1>3, <1>5, Zenon DEF Files!Slash
  <2>2. PICK first : first = Files!Slash(Files!IsAbsolute(slashed))
    OBVIOUS
  <2>3. PICK last : last = Files!Slash(Files!Last(slashed) = "" /\ Files!Names(slashed) # << >>)
    OBVIOUS
  <2>4. first \in {slash, none}
    BY <2>1, <2>2, Zenon DEF Files!Slash
  <2>5. last \in {slash, none} /\ (last = slash => names # << >>)
    <3>1. slash # none
      <4>1. Len(slash) = 1 /\ Len(none) = 0
        BY <1>4, <1>6, Zenon
      <4> QED
        BY <4>1, 1 # 0, Zenon
    <3>2. CASE Files!Last(slashed) = "" /\ Files!Names(slashed) # << >>
      BY <1>1, <2>1, <2>3, <3>1, <3>2, Zenon DEF Files!Slash
    <3>3. CASE ~(Files!Last(slashed) = "" /\ Files!Names(slashed) # << >>)
      BY <2>1, <2>3, <3>1, <3>3, Zenon DEF Files!Slash
    <3> QED
      BY <3>2, <3>3
  <2> QED
    BY <1>0, <1>1, <2>2, <2>3, <2>4, <2>5, Zenon DEF Files!Normalized
<1>8. first \in Seq(Spelled) /\ last \in Seq(Spelled) /\ names \in Seq(Spelled)
  <2>1. Named \subseteq Spelled
    BY SpelledSo, Zenon
  <2>2. names \in Seq(Spelled)
    BY <2>1, SeqMonotonic
  <2> QED
    BY <1>4, <1>6, <1>7, <2>2, Zenon
<1>9. PICK q \in Seq(Spelled) :
        /\ q = names \o last /\ Len(q) = Len(names) + Len(last)
        /\ \A i \in 1 .. Len(names) + Len(last) : q[i] = IF i <= Len(names) THEN names[i] ELSE last[i - Len(names)]
  <2>1. /\ names \o last \in Seq(Spelled) /\ Len(names \o last) = Len(names) + Len(last)
        /\ \A i \in 1 .. Len(names) + Len(last) :
             (names \o last)[i] = IF i <= Len(names) THEN names[i] ELSE last[i - Len(names)]
    BY <1>8, ConcatProperties
  <2> QED
    BY <2>1, Zenon
<1>10. /\ Len(names) \in Nat /\ (Len(last) = 0 \/ Len(last) = 1) /\ Len(q) = Len(names) + Len(last)
       /\ Len(last) = 1 => Len(names) >= 1
  <2>1. Len(last) = 0 \/ Len(last) = 1
    BY <1>4, <1>6, <1>7, Zenon
  <2>2. Len(names) \in Nat /\ (names # << >> => Len(names) # 0)
    OBVIOUS
  <2>3. Len(last) = 1 => last = slash
    <3>1. Len(none) = 0 /\ (last = slash \/ last = none)
      BY <1>6, <1>7, Zenon
    <3> QED
      BY <3>1, 1 # 0, Zenon
  <2>4. Len(last) = 1 => Len(names) # 0
    BY <1>7, <2>2, <2>3, Zenon
  <2>5. Len(q) = Len(names) + Len(last)
    BY <1>9, Zenon
  <2> QED
    BY <2>1, <2>2, <2>4, <2>5
<1>11. \A i \in 1 .. Len(names) : q[i] = names[i] /\ q[i] \in Named
  <2>1. TAKE i \in 1 .. Len(names)
  <2>2. i \in 1 .. Len(names) + Len(last) /\ i <= Len(names)
    BY <1>10
  <2>3. q[i] = names[i]
    BY <1>9, <2>2
  <2> QED
    BY <2>3
<1>12. \A i \in 1 .. Len(q) - 1 : q[i] \in Named
  <2>1. Len(q) - 1 <= Len(names) /\ Len(names) \in Nat /\ Len(q) \in Nat
    <3>1. ASSUME NEW n, NEW m, NEW l, n \in Nat, m = 0 \/ m = 1, l = n + m
          PROVE  l - 1 <= n /\ n \in Nat /\ l \in Nat
      BY <3>1
    <3> QED
      BY <1>10, <3>1, Zenon
  <2>3. \A i \in 1 .. Len(q) - 1 : i \in 1 .. Len(names)
    BY <2>1
  <2> QED
    BY <1>11, <2>3
<1>13. Len(q) >= 1 => q[1] # ""
  <2>1. Len(q) >= 1 => 1 \in 1 .. Len(names)
    BY <1>10
  <2> QED
    BY <1>11, <2>1, SpelledSo, Zenon
<1>14. (first \o names) \o last = first \o q
  <2>1. (first \o names) \o last = first \o (names \o last)
    BY <1>8, JoinedAgain, ZenonT(30)
  <2> QED
    BY <1>9, <2>1, Zenon
<1>15. Len(q) >= 1 /\ q[1] = "workspace" => IsContainer(q)
  BY <1>12, Zenon DEF IsContainer
<1>16. CASE first = slash
  <2>1. Files!Normalized(asked) = <<"">> \o q
    BY <1>2, <1>3, <1>7, <1>14, <1>16, Zenon
  <2>2. PICK a \in Seq(Spelled) :
          /\ a = <<"">> \o q /\ Len(a) = Len(q) + 1 /\ a[1] = ""
          /\ \A i \in 1 .. Len(q) : a[i + 1] = q[i]
          /\ Tail(a) = q
    BY AbsoluteOf
  <2>3. ~Files!AtOrBelow(a, <<"workspace">>)
    BY <2>2, "" # "workspace", Beginning, Zenon
  <2>4. Files!AtOrBelow(a, Files!Root) /\ Files!toContainerPath(asked) = q
    BY <2>1, <2>2, <2>3 DEF Files!toContainerPath
  <2>5. Len(a) >= 2 /\ a[2] = "workspace"
    BY <2>4, Beginning, Zenon
  <2>6. Len(q) >= 1
    <3>1. Len(a) >= 2 /\ Len(a) = Len(q) + 1
      BY <2>2, <2>5, Zenon
    <3> QED
      BY <1>10, <3>1
  <2>7. 1 \in 1 .. Len(q) /\ 1 + 1 = 2
    BY <1>10, <2>6
  <2>8. q[1] = "workspace"
    BY <2>2, <2>5, <2>7
  <2> QED
    BY <1>15, <2>4, <2>6, <2>8, Zenon
<1>17. CASE first = none
  <2>1. Files!Normalized(asked) = q
    <3>1. << >> \o q = q
      BY ConcatEmptySeq
    <3> QED
      BY <1>5, <1>7, <1>14, <1>17, <3>1, Zenon
  <2>2. ~Files!AtOrBelow(q, Files!Root)
    <3>1. Len(q) >= 2 => Len(q) >= 1
      BY <1>10
    <3> QED
      BY <1>13, <3>1, Beginning, Zenon
  <2>3. Files!AtOrBelow(q, <<"workspace">>) /\ Files!toContainerPath(asked) = q
    BY <2>1, <2>2 DEF Files!toContainerPath
  <2> QED
    BY <1>15, <2>3, Beginning, Zenon
<1> QED
  BY <1>7, <1>16, <1>17, Zenon

LEMMA NormalizedIs ==
  ASSUME NEW asked \in Seq(Written), asked # << >>
  PROVE  Files!Normalized(asked) \in Seq(Spelled)
<1>0. PICK slashed \in Seq(Spelled) : slashed = Files!Slashed(asked)
  BY SlashedIs, Zenon
<1>1. Files!Names(slashed) \in Seq(Spelled)
  <2>2. PICK h : /\ Files!Names(slashed) = h[Len(slashed)]
                 /\ \A k \in 0 .. Len(slashed) : h[k] \in Seq(Named)
    BY KeptExists
  <2>3. Len(slashed) \in 0 .. Len(slashed)
    OBVIOUS
  <2>4. Files!Names(slashed) \in Seq(Named)
    BY <2>2, <2>3
  <2>5. Named \subseteq Spelled
    BY SpelledSo, Zenon
  <2> QED
    BY <2>4, <2>5, SeqMonotonic
<1>2. \A present : Files!Slash(present) \in Seq(Spelled)
  <2>1. PICK root \in Spelled : root = ""
    BY SpelledSo, Zenon
  <2>2. <<root>> \in Seq(Spelled)
    BY OneName
  <2>3. << >> \in Seq(Spelled)
    BY EmptySeq
  <2> QED
    BY <2>1, <2>2, <2>3, Zenon DEF Files!Slash
<1>3. \A s, t \in Seq(Spelled) : s \o t \in Seq(Spelled)
  BY ConcatProperties
<1> QED
  BY <1>0, <1>1, <1>2, <1>3, Zenon DEF Files!Normalized

LEMMA TwoTogether ==
  ASSUME NEW root \in Spelled, NEW top \in Spelled
  PROVE  <<root>> \o <<top>> = <<root, top>>
<1>1. PICK one \in Seq(Spelled) : one = <<root>> /\ Len(one) = 1 /\ one[1] = root
  BY OneName
<1>2. PICK other \in Seq(Spelled) : other = <<top>> /\ Len(other) = 1 /\ other[1] = top
  BY OneName
<1>3. PICK two \in Seq(Spelled) : two = <<root, top>> /\ Len(two) = 2 /\ two[1] = root /\ two[2] = top
  BY ZenonT(30), TwoNames
<1>4. /\ one \o other \in Seq(Spelled) /\ Len(one \o other) = Len(one) + Len(other)
      /\ \A i \in 1 .. Len(one) + Len(other) :
           (one \o other)[i] = IF i <= Len(one) THEN one[i] ELSE other[i - Len(one)]
  BY ConcatProperties
<1>5. PICK both \in Seq(Spelled) : both = one \o other
  BY <1>4
<1>6. Len(both) = 2 /\ \A i \in 1 .. 2 : both[i] = IF i <= 1 THEN one[i] ELSE other[i - 1]
  BY <1>1, <1>2, <1>4, <1>5
<1>7. both[1] = root /\ both[2] = top
  BY <1>1, <1>2, <1>6
<1>8. both = two
  <2>1. \A i \in 1 .. 2 : i = 1 \/ i = 2
    OBVIOUS
  <2>2. Len(both) = Len(two) /\ \A i \in 1 .. Len(both) : both[i] = two[i]
    BY <1>3, <1>6, <1>7, <2>1
  <2> QED
    BY <2>2, SeqEqual
<1> QED
  BY <1>1, <1>2, <1>3, <1>5, <1>8, Zenon

\* Where the host looks for what the policy lets through: there is no backslash in
\* the path, whatever was asked for, and it is the path of an entry if it is one.
LEMMA ResolvedSpelled ==
  ASSUME NEW asked \in Asked, Files!resolve(asked) # Files!Invalid
  PROVE  /\ Files!toContainerPath(Files!resolve(asked)) \in Seq(Spelled)
         /\ Files!toContainerPath(Files!resolve(asked)) # Files!Invalid =>
              IsContainer(Files!toContainerPath(Files!resolve(asked)))
<1>1. PICK q \in Seq(Parts) : Files!resolve(asked) = <<"">> \o q
  BY ResolvedBelow, Zenon
<1>2. q \in Seq(Written)
  <2>1. Parts \subseteq Written
    BY Zenon DEF Parts
  <2> QED
    BY <2>1, SeqMonotonic
<1>3. PICK a \in Seq(Written) : a = <<"">> \o q /\ Len(a) = Len(q) + 1
  BY <1>2, AbsoluteIs
<1>4. a # << >>
  <2>1. Len(q) \in Nat /\ Len(a) = Len(q) + 1
    BY <1>2, <1>3, LenProperties, Zenon
  <2>2. Len(a) # 0
    BY <2>1
  <2> QED
    BY <2>2
<1>5. Files!toContainerPath(a) # Files!Invalid => IsContainer(Files!toContainerPath(a))
  BY <1>4, HostPathIs, Zenon
<1>6. Files!Invalid \in Seq(Spelled)
  <2>1. PICK name \in Spelled : name = "/"
    BY SpelledSo, Zenon
  <2>2. <<name>> \in Seq(Spelled)
    OBVIOUS
  <2> QED
    BY <2>1, <2>2, Zenon DEF Files!Invalid
<1>7. Files!toContainerPath(a) \in Seq(Spelled)
  BY <1>5, <1>6, Zenon DEF IsContainer
<1> QED
  BY <1>1, <1>3, <1>5, <1>7, Zenon

LEMMA PathsAlwaysAgree == Files!PathsAgree
<1>1. SUFFICES ASSUME NEW asked \in Asked
               PROVE  /\ Files!resolve(asked) # Files!Invalid =>
                           (<<"">> \o Files!toContainerPath(Files!resolve(asked)) = Files!resolve(asked)
                              <=> Files!Plain(Files!resolve(asked)))
                      /\ Files!toContainerPath(asked) # Files!Invalid =>
                           Files!toContainerPath(Files!fromContainerPath(Files!toContainerPath(asked)))
                             = Files!toContainerPath(asked)
                      /\ \/ Files!terminalCwd(asked) \in {Files!Invalid, Files!toContainerPath(asked)}
                         \/ asked = <<"">>
  BY Zenon DEF Files!PathsAgree
<1>2. Files!resolve(asked) # Files!Invalid =>
        (<<"">> \o Files!toContainerPath(Files!resolve(asked)) = Files!resolve(asked)
           <=> Files!Plain(Files!resolve(asked)))
  <2>1. ASSUME Files!resolve(asked) # Files!Invalid, Files!Plain(Files!resolve(asked))
        PROVE  <<"">> \o Files!toContainerPath(Files!resolve(asked)) = Files!resolve(asked)
    BY <2>1, ResolvedIs, ToContainer, Zenon
  <2>2. ASSUME Files!resolve(asked) # Files!Invalid,
               <<"">> \o Files!toContainerPath(Files!resolve(asked)) = Files!resolve(asked)
        PROVE  Files!Plain(Files!resolve(asked))
    <3>1. PICK c \in Seq(Spelled) : c = Files!toContainerPath(Files!resolve(asked))
      BY <2>2, ResolvedSpelled, Zenon
    <3>2. <<"">> \o c \in Seq(Spelled)
      BY AbsoluteOf, Zenon
    <3>3. PICK a \in Seq(Spelled) : a = Files!resolve(asked)
      BY <2>2, <3>1, <3>2, Zenon
    <3>4. \A k \in DOMAIN a : a[k] \in Spelled
      OBVIOUS
    <3> QED
      BY <3>3, <3>4, Zenon DEF Files!Plain, Spelled
  <2> QED
    BY <2>1, <2>2, Zenon
<1>3. Files!toContainerPath(asked) # Files!Invalid =>
        Files!toContainerPath(Files!fromContainerPath(Files!toContainerPath(asked)))
          = Files!toContainerPath(asked)
  <2>1. asked \in Seq(Written) /\ asked # << >>
    BY WrittenSo, Zenon
  <2> QED
    BY <2>1, HostPathIs, FromContainer, ToContainer, Zenon
<1>4. PICK n \in Seq(Spelled) : n = Files!Normalized(asked)
  <2>1. asked \in Seq(Written) /\ asked # << >>
    BY WrittenSo, Zenon
  <2> QED
    BY <2>1, NormalizedIs, Zenon
<1>5. ~(Files!AtOrBelow(n, Files!Root) /\ Files!AtOrBelow(n, <<"workspace">>))
  BY Beginning, "" # "workspace", Zenon
<1>6. PICK root \in Seq(Spelled) :
        /\ root = Files!Root /\ Files!toContainerPath(root) = <<"workspace">>
        /\ Files!Normalized(root) = root
  <2>1. PICK top \in Named : top = "workspace"
    BY SpelledSo, Zenon
  <2>2. PICK one : one = <<top>>
    OBVIOUS
  <2>3. top \in Spelled
    BY SpelledSo, Zenon
  <2>4. one \in Seq(Spelled) /\ Len(one) = 1 /\ one[1] = top
    BY <2>2, <2>3, OneName
  <2>5. Len(one) >= 1 /\ \A i \in 1 .. Len(one) - 1 : one[i] \in Named
    <3>1. Len(one) = 1
      BY <2>4
    <3> QED
      BY <3>1
  <2>6. IsContainer(one)
    BY <2>1, <2>4, <2>5, Zenon DEF IsContainer
  <2>7. <<"">> \o <<"workspace">> = <<"", "workspace">>
    BY <2>1, <2>3, SpelledSo, TwoTogether, Zenon
  <2>8. <<"">> \o one = Files!Root /\ <<"">> \o one \in Seq(Spelled)
    BY <2>1, <2>2, <2>4, <2>7, AbsoluteOf, Zenon DEF Files!Root
  <2> QED
    BY <2>1, <2>2, <2>6, <2>8, ToContainer, Zenon
<1>7. CASE asked = Files!Root
  <2>1. /\ Files!Normalized(asked) = Files!Root /\ Files!toContainerPath(asked) = <<"workspace">>
        /\ Files!AtOrBelow(n, Files!Root)
    BY <1>4, <1>6, <1>7, PrefixSays DEF Files!AtOrBelow
  <2>2. Files!terminalCwd(asked) = <<"workspace">>
    BY <1>4, <1>5, <1>7, <2>1 DEF Files!terminalCwd
  <2> QED
    BY <1>2, <1>3, <2>1, <2>2, Zenon
<1>8. CASE asked # Files!Root /\ asked # <<"">>
  <2>1. n # Files!Root /\ Files!AtOrBelow(n, Files!Root) =>
          Files!terminalCwd(asked) = Tail(n) /\ Files!toContainerPath(asked) = Tail(n)
    BY <1>4, <1>5, <1>8 DEF Files!terminalCwd, Files!toContainerPath
  <2>2. Files!AtOrBelow(n, <<"workspace">>) =>
          Files!terminalCwd(asked) = n /\ Files!toContainerPath(asked) = n
    BY <1>4, <1>5, <1>8 DEF Files!terminalCwd, Files!toContainerPath
  <2>3. ~(n # Files!Root /\ Files!AtOrBelow(n, Files!Root)) /\ ~Files!AtOrBelow(n, <<"workspace">>) =>
          Files!terminalCwd(asked) = Files!Invalid
    BY <1>4, <1>8 DEF Files!terminalCwd
  <2>4. Files!terminalCwd(asked) \in {Files!Invalid, Files!toContainerPath(asked)}
    BY <2>1, <2>2, <2>3, Zenon
  <2> QED
    BY <1>2, <1>3, <2>4, Zenon
<1> QED
  BY <1>2, <1>3, <1>7, <1>8, Zenon

-----------------------------------------------------------------------------

(***************************************************************************)
(* Trees. An entry is in a directory, and so is that; each call leaves a   *)
(* tree a tree.                                                            *)
(***************************************************************************)

\* Paths that an entry of the container can have: a shell writes outside of the
\* workspace, beside it.
Entries == {p \in Seq(Named) : Len(p) >= 1 /\ (p[1] = "workspace" \/ Len(p) = 1)}

LEMMA EntrySays ==
  ASSUME NEW p \in Entries
  PROVE  /\ p \in Seq(Named) /\ p \in Seq(Spelled) /\ Len(p) \in Nat /\ Len(p) >= 1
         /\ p[1] = "workspace" \/ Len(p) = 1
<1>1. p \in Seq(Named) /\ Len(p) >= 1 /\ (p[1] = "workspace" \/ Len(p) = 1)
  BY Zenon DEF Entries
<1>2. p \in Seq(Named)
  BY <1>1
<1>3. Len(p) \in Nat
  BY <1>2
<1>4. p \in Seq(Spelled)
  <2>1. Named \subseteq Spelled
    BY SpelledSo, Zenon
  <2> QED
    BY <1>2, <2>1, SeqMonotonic
<1> QED
  BY <1>1, <1>3, <1>4, Zenon

LEMMA EntryIsContainer ==
  ASSUME NEW p \in Entries, p[1] = "workspace"
  PROVE  IsContainer(p)
<1>1. p \in Seq(Named) /\ p \in Seq(Spelled) /\ Len(p) >= 1
  BY EntrySays, Zenon
<1>2. \A i \in 1 .. Len(p) - 1 : p[i] \in Named
  BY <1>1
<1> QED
  BY <1>1, <1>2, Zenon DEF IsContainer

\* Being above is an order.
LEMMA AboveIsTransitive ==
  ASSUME NEW p \in Entries, NEW q \in Entries, NEW r \in Entries,
         Files!IsStrictPrefix(p, q), Files!IsStrictPrefix(q, r)
  PROVE  Files!IsStrictPrefix(p, r)
<1>1. p \in Seq(Spelled) /\ q \in Seq(Spelled) /\ r \in Seq(Spelled)
  BY EntrySays, Zenon
<1>2. Len(p) < Len(q) /\ \A i \in 1 .. Len(p) : p[i] = q[i]
  BY <1>1, PrefixSays, Zenon
<1>3. Len(q) < Len(r) /\ \A i \in 1 .. Len(q) : q[i] = r[i]
  BY <1>1, PrefixSays, Zenon
<1>4. Len(p) \in Nat /\ Len(q) \in Nat /\ Len(r) \in Nat
  BY <1>1
<1>5. Len(p) < Len(r) /\ \A i \in 1 .. Len(p) : i \in 1 .. Len(q)
  BY <1>2, <1>3, <1>4
<1>6. \A i \in 1 .. Len(p) : p[i] = r[i]
  BY <1>2, <1>3, <1>5, Zenon
<1> QED
  BY <1>1, <1>5, <1>6, PrefixSays, Zenon

\* What is above a path begins as it does.
LEMMA AboveBegins ==
  ASSUME NEW p \in Entries, NEW q \in Entries, Files!IsStrictPrefix(p, q)
  PROVE  p[1] = q[1] /\ q[1] = "workspace" /\ Len(p) < Len(q)
<1>1. p \in Seq(Spelled) /\ q \in Seq(Spelled)
  BY EntrySays, Zenon
<1>2. Len(p) < Len(q) /\ \A i \in 1 .. Len(p) : p[i] = q[i]
  BY <1>1, PrefixSays, Zenon
<1>3. Len(p) \in Nat /\ Len(q) \in Nat /\ Len(p) >= 1
  BY EntrySays, Zenon
<1>4. 1 \in 1 .. Len(p) /\ Len(q) # 1
  <2>1. Len(p) \in Nat /\ Len(q) \in Nat /\ Len(p) >= 1 /\ Len(p) < Len(q)
    BY <1>2, <1>3, Zenon
  <2> QED
    <3>1. \A n, m \in Nat : n >= 1 /\ n < m => 1 \in 1 .. n /\ m # 1
      OBVIOUS
    <3> QED
      BY <2>1, <3>1, Zenon
<1> QED
  BY <1>2, <1>4, EntrySays, Zenon

\* The directory of an entry.
LEMMA ParentOf ==
  ASSUME NEW p \in Entries
  PROVE  /\ Len(p) = 1 => Files!parentPath(p) = << >>
         /\ Len(p) # 1 => /\ Files!parentPath(p) \in Entries
                          /\ Len(Files!parentPath(p)) = Len(p) - 1
                          /\ Files!IsStrictPrefix(Files!parentPath(p), p)
                          /\ \A q \in Entries :
                               Files!IsStrictPrefix(q, p) =>
                                 q = Files!parentPath(p) \/ Files!IsStrictPrefix(q, Files!parentPath(p))
<1>1. p \in Seq(Spelled) /\ p \in Seq(Named) /\ Len(p) \in Nat /\ Len(p) >= 1
  BY EntrySays, Zenon
<1>2. Len(p) = 1 => Files!parentPath(p) = << >>
  BY DEF Files!parentPath
<1>3. SUFFICES ASSUME Len(p) # 1
               PROVE  /\ Files!parentPath(p) \in Entries
                      /\ Len(Files!parentPath(p)) = Len(p) - 1
                      /\ Files!IsStrictPrefix(Files!parentPath(p), p)
                      /\ \A q \in Entries :
                           Files!IsStrictPrefix(q, p) =>
                             q = Files!parentPath(p) \/ Files!IsStrictPrefix(q, Files!parentPath(p))
  BY <1>2, Zenon
<1>4. Len(p) > 1 /\ p # << >>
  <2>1. Len(p) \in Nat /\ Len(p) >= 1
    BY <1>1, Zenon
  <2>2. Len(p) > 1
    <3>1. \A n \in Nat : n >= 1 /\ n # 1 => n > 1
      OBVIOUS
    <3> QED
      BY <1>3, <2>1, <3>1, Zenon
  <2>3. Len(<< >>) = 0
    OBVIOUS
  <2>4. Len(p) # 0
    BY <2>1
  <2> QED
    BY <2>2, <2>3, <2>4, Zenon
<1>5. Files!parentPath(p) = Files!Front(p)
  BY <1>4 DEF Files!parentPath
<1>6. PICK dir \in Seq(Spelled) :
        /\ dir = Files!Front(p) /\ Len(dir) = Len(p) - 1
        /\ \A i \in 1 .. Len(p) - 1 : dir[i] = p[i]
  BY <1>1, <1>4, FrontOf
<1>7. Len(dir) \in Nat /\ Len(dir) >= 1 /\ Len(dir) < Len(p)
  <2>1. Len(p) \in Nat /\ Len(p) > 1 /\ Len(dir) = Len(p) - 1
    BY <1>1, <1>4, <1>6, Zenon
  <2> QED
    BY <2>1
<1>8. Files!IsStrictPrefix(dir, p)
  <2>1. \A i \in 1 .. Len(dir) : dir[i] = p[i]
    BY <1>6
  <2> QED
    BY <1>1, <1>7, <2>1, PrefixSays, Zenon
<1>9. dir \in Entries
  <2>1. dir[1] = p[1]
    <3>1. 1 \in 1 .. Len(p) - 1
      BY <1>1, <1>4
    <3> QED
      BY <1>6, <3>1
  <2>2. p[1] = "workspace"
    BY <1>3, EntrySays, Zenon
  <2>3. dir \in Seq(Named)
    <3>1. \A i \in 1 .. Len(dir) : dir[i] \in Named
      BY <1>1, <1>6, <1>7
    <3>2. PICK n \in Nat : n = Len(dir)
      BY <1>7
    <3>3. dir \in [1 .. n -> Spelled]
      BY <3>2
    <3>4. dir \in [1 .. n -> Named]
      BY <3>1, <3>2, <3>3
    <3> QED
      BY <3>4, SeqDef
  <2> QED
    BY <1>7, <2>1, <2>2, <2>3, Zenon DEF Entries
<1>10. ASSUME NEW q \in Entries, Files!IsStrictPrefix(q, p)
       PROVE  q = dir \/ Files!IsStrictPrefix(q, dir)
  <2>1. q \in Seq(Spelled) /\ Len(q) \in Nat
    BY EntrySays, Zenon
  <2>2. Len(q) < Len(p) /\ \A i \in 1 .. Len(q) : q[i] = p[i]
    BY <1>1, <1>10, <2>1, PrefixSays, Zenon
  <2>3. /\ \A i \in 1 .. Len(q) : i \in 1 .. Len(p) - 1
        /\ Len(q) = Len(dir) \/ Len(q) < Len(dir)
    <3>1. Len(q) \in Nat /\ Len(p) \in Nat /\ Len(q) < Len(p) /\ Len(dir) = Len(p) - 1
      BY <1>1, <1>6, <2>1, <2>2, Zenon
    <3> QED
      BY <3>1
  <2>4. \A i \in 1 .. Len(q) : q[i] = dir[i]
    BY <1>6, <2>2, <2>3, Zenon
  <2>5. Len(q) = Len(dir) => q = dir
    BY <2>1, <2>4, SeqEqual
  <2> QED
    BY <2>1, <2>3, <2>4, <2>5, PrefixSays, Zenon
<1> QED
  BY <1>5, <1>6, <1>8, <1>9, <1>10, Zenon

\* What is on the way to a path is as much of it as there is of a length.
LEMMA WayHas ==
  ASSUME NEW p, p \in Seq(Spelled), p \in Seq(Named)
  PROVE  /\ \A l \in 1 .. Len(p) :
              \E q \in Files!Way(p) :
                /\ q \in Seq(Named) /\ q \in Seq(Spelled) /\ Len(q) = l
                /\ \A i \in 1 .. l : q[i] = p[i]
         /\ \A q \in Files!Way(p) :
              \E l \in 1 .. Len(p) :
                /\ q \in Seq(Named) /\ q \in Seq(Spelled) /\ Len(q) = l
                /\ \A i \in 1 .. l : q[i] = p[i]
<1>1. Len(p) \in Nat
  OBVIOUS
<1>2. Files!Way(p) = {SubSeq(p, 1, l) : l \in 0 .. Len(p)} \ {<< >>}
  BY Zenon DEF Files!Way, Files!Prefixes
<1>3. ASSUME NEW l \in 1 .. Len(p)
      PROVE  /\ SubSeq(p, 1, l) \in Seq(Named) /\ SubSeq(p, 1, l) \in Seq(Spelled)
             /\ Len(SubSeq(p, 1, l)) = l /\ SubSeq(p, 1, l) # << >>
             /\ \A i \in 1 .. l : SubSeq(p, 1, l)[i] = p[i]
  <2>1. /\ \A i \in 1 .. l : p[i] \in Named
        /\ (IF 1 <= l THEN l - 1 + 1 ELSE 0) = l /\ l - 1 + 1 = l
    BY <1>1, <1>3
  <2>2. /\ SubSeq(p, 1, l) \in Seq(Named) /\ Len(SubSeq(p, 1, l)) = l
        /\ \A i \in 1 .. l : SubSeq(p, 1, l)[i] = p[1 + i - 1]
    BY <2>1, SubSeqProperties
  <2>3. \A i \in 1 .. l : 1 + i - 1 = i
    OBVIOUS
  <2>4. Len(<< >>) = 0 /\ l # 0
    OBVIOUS
  <2>5. Named \subseteq Spelled
    BY SpelledSo, Zenon
  <2>6. SubSeq(p, 1, l) \in Seq(Spelled)
    BY <2>2, <2>5, SeqMonotonic
  <2> QED
    BY <2>2, <2>3, <2>4, <2>6
<1>4. SubSeq(p, 1, 0) = << >>
  BY SubSeqEmpty
<1>5. \A q : q \in Files!Way(p) <=> \E l \in 1 .. Len(p) : q = SubSeq(p, 1, l)
  <2>1. \A l \in 0 .. Len(p) : l = 0 \/ l \in 1 .. Len(p)
    BY <1>1
  <2>2. \A l \in 1 .. Len(p) : l \in 0 .. Len(p)
    BY <1>1
  <2> QED
    BY <1>2, <1>3, <1>4, <2>1, <2>2, Zenon
<1> QED
  BY <1>3, <1>5, ZenonT(30)

\* What mkdir makes on the way to a path.
\* What mkdir makes on the way to a path.
LEMMA WayTo ==
  ASSUME NEW p \in Entries
  PROVE  /\ \A q : q \in Files!Way(p) => q \in Entries /\ (q = p \/ Files!IsStrictPrefix(q, p))
         /\ p \in Files!Way(p)
         /\ \A q \in Entries : Files!IsStrictPrefix(q, p) => q \in Files!Way(p)
<1>1. p \in Seq(Spelled) /\ p \in Seq(Named) /\ Len(p) \in Nat /\ Len(p) >= 1
      /\ (p[1] = "workspace" \/ Len(p) = 1)
  BY EntrySays, Zenon
<1>6. ASSUME NEW q, q \in Files!Way(p) PROVE q \in Entries /\ (q = p \/ Files!IsStrictPrefix(q, p))
  <2>1. PICK l \in 1 .. Len(p) : /\ q \in Seq(Named) /\ q \in Seq(Spelled) /\ Len(q) = l
                                 /\ \A i \in 1 .. l : q[i] = p[i]
    BY <1>1, <1>6, WayHas, Zenon
  <2>2. /\ q \in Seq(Named) /\ q \in Seq(Spelled) /\ Len(q) = l
        /\ \A i \in 1 .. l : q[i] = p[i]
    BY <2>1
  <2>3. 1 \in 1 .. l /\ l >= 1 /\ l \in Nat
    BY <1>1
  <2>4. Len(p) = 1 => l = 1
    BY <1>1, <2>3
  <2>5. q \in Entries
    BY <1>1, <2>2, <2>3, <2>4, Zenon DEF Entries
  <2>6. l = Len(p) => q = p
    BY <1>1, <2>2, SeqEqual
  <2>7. l # Len(p) => l < Len(p)
    BY <1>1
  <2> QED
    BY <1>1, <2>2, <2>5, <2>6, <2>7, PrefixSays, Zenon
<1>7. ASSUME NEW q \in Entries, q = p \/ Files!IsStrictPrefix(q, p) PROVE q \in Files!Way(p)
  <2>1. q \in Seq(Spelled) /\ Len(q) \in Nat /\ Len(q) >= 1
    BY EntrySays, Zenon
  <2>2. Len(q) <= Len(p) /\ \A i \in 1 .. Len(q) : q[i] = p[i]
    <3>1. CASE q = p
      BY <1>1, <3>1
    <3>2. CASE Files!IsStrictPrefix(q, p)
      <4>1. Len(q) < Len(p) /\ \A i \in 1 .. Len(q) : q[i] = p[i]
        BY <1>1, <2>1, <3>2, PrefixSays, Zenon
      <4>2. Len(q) <= Len(p)
        <5>1. Len(q) < Len(p) /\ Len(q) \in Nat /\ Len(p) \in Nat
          BY <1>1, <2>1, <4>1, Zenon
        <5> QED
          BY <5>1
      <4> QED
        BY <4>1, <4>2, Zenon
    <3> QED
      BY <1>7, <3>1, <3>2
  <2>3. PICK l \in 1 .. Len(p) : l = Len(q)
    <3>1. Len(q) \in Nat /\ Len(p) \in Nat /\ Len(q) >= 1 /\ Len(q) <= Len(p)
      BY <1>1, <2>1, <2>2, Zenon
    <3> QED
      BY <3>1
  <2>4. PICK s \in Seq(Spelled) :
          s \in Files!Way(p) /\ Len(s) = l /\ \A i \in 1 .. l : s[i] = p[i]
    BY <1>1, WayHas, Zenon
  <2>5. Len(s) = Len(q) /\ \A i \in 1 .. Len(s) : s[i] = q[i]
    BY <2>2, <2>3, <2>4, Zenon
  <2>6. s = q
    BY <2>1, <2>5, SeqEqual
  <2> QED
    BY <2>4, <2>6, Zenon
<1> QED
  BY <1>6, <1>7, Zenon

\* A tree has the directories its entries are in, and its paths are no longer
\* than some number.
IsTree(tree) ==
  /\ DOMAIN tree \subseteq Entries
  /\ \A p \in DOMAIN tree : tree[p] \in {"directory", "file"}
  /\ \A p \in DOMAIN tree, q \in Entries :
       Files!IsStrictPrefix(q, p) => q \in DOMAIN tree /\ tree[q] = "directory"
  /\ \E n \in Nat : \A p \in DOMAIN tree : Len(p) <= n

LEMMA OnlySays ==
  ASSUME NEW kind, NEW paths
  PROVE  /\ DOMAIN Files!Only(kind, paths) = paths
         /\ \A p \in paths : Files!Only(kind, paths)[p] = kind
BY DEF Files!Only

LEMMA OverSays ==
  ASSUME NEW above, NEW tree
  PROVE  /\ DOMAIN Files!Over(above, tree) = DOMAIN above \union DOMAIN tree
         /\ \A p \in DOMAIN above : Files!Over(above, tree)[p] = above[p]
         /\ \A p \in DOMAIN tree : p \notin DOMAIN above => Files!Over(above, tree)[p] = tree[p]
BY DEF Files!Over

LEMMA RestrictSays ==
  ASSUME NEW tree, NEW paths
  PROVE  /\ DOMAIN Files!Restrict(tree, paths) = paths
         /\ \A p \in paths : Files!Restrict(tree, paths)[p] = tree[p]
BY DEF Files!Restrict

\* What is left of a tree is one if it has the directories of what is left.
LEMMA LeftOfTree ==
  ASSUME NEW tree, IsTree(tree), NEW left, DOMAIN left \subseteq DOMAIN tree,
         \A p \in DOMAIN left : left[p] = tree[p],
         \A p \in DOMAIN left, q \in DOMAIN tree : Files!IsStrictPrefix(q, p) => q \in DOMAIN left
  PROVE  IsTree(left)
<1>1. DOMAIN left \subseteq Entries /\ \A p \in DOMAIN left : left[p] \in {"directory", "file"}
  BY Zenon DEF IsTree
<1>2. \A p \in DOMAIN left, q \in Entries :
        Files!IsStrictPrefix(q, p) => q \in DOMAIN left /\ left[q] = "directory"
  BY Zenon DEF IsTree
<1>3. \E n \in Nat : \A p \in DOMAIN left : Len(p) <= n
  BY Zenon DEF IsTree
<1> QED
  BY <1>1, <1>2, <1>3, Zenon DEF IsTree

\* What one tree has over another is one if each finds its directories there.
LEMMA TreeOver ==
  ASSUME NEW above, NEW tree,
         DOMAIN above \subseteq Entries, DOMAIN tree \subseteq Entries,
         \A p \in DOMAIN above : above[p] \in {"directory", "file"},
         \A p \in DOMAIN tree : tree[p] \in {"directory", "file"},
         \A p \in DOMAIN above \union DOMAIN tree, q \in Entries :
           Files!IsStrictPrefix(q, p) => \/ q \in DOMAIN above /\ above[q] = "directory"
                                         \/ q \in DOMAIN tree \ DOMAIN above /\ tree[q] = "directory",
         \E n \in Nat : \A p \in DOMAIN above : Len(p) <= n,
         \E n \in Nat : \A p \in DOMAIN tree : Len(p) <= n
  PROVE  IsTree(Files!Over(above, tree))
<1>1. PICK both : both = Files!Over(above, tree)
  OBVIOUS
<1>2. /\ DOMAIN both = DOMAIN above \union DOMAIN tree
      /\ \A p \in DOMAIN above : both[p] = above[p]
      /\ \A p \in DOMAIN tree : p \notin DOMAIN above => both[p] = tree[p]
  <2>1. /\ DOMAIN Files!Over(above, tree) = DOMAIN above \union DOMAIN tree
        /\ \A p \in DOMAIN above : Files!Over(above, tree)[p] = above[p]
        /\ \A p \in DOMAIN tree : p \notin DOMAIN above => Files!Over(above, tree)[p] = tree[p]
    BY OverSays
  <2> QED
    BY <1>1, <2>1, Zenon
<1>3. DOMAIN both \subseteq Entries /\ \A p \in DOMAIN both : both[p] \in {"directory", "file"}
  BY <1>2, Zenon
<1>4. \A p \in DOMAIN both, q \in Entries :
        Files!IsStrictPrefix(q, p) => q \in DOMAIN both /\ both[q] = "directory"
  BY <1>2, Zenon
<1>5. \E n \in Nat : \A p \in DOMAIN both : Len(p) <= n
  <2>1. PICK m \in Nat : \A p \in DOMAIN above : Len(p) <= m
    OBVIOUS
  <2>2. PICK n \in Nat : \A p \in DOMAIN tree : Len(p) <= n
    OBVIOUS
  <2>3. \A k \in Nat : (k <= m => k <= m + n) /\ (k <= n => k <= m + n)
    OBVIOUS
  <2>4. m + n \in Nat
    OBVIOUS
  <2>5. \A p \in DOMAIN both : Len(p) \in Nat
    BY <1>3, EntrySays, Zenon
  <2>6. \A p \in DOMAIN both : Len(p) <= m + n
    BY <1>2, <2>1, <2>2, <2>3, <2>5, Zenon
  <2> QED
    BY <2>4, <2>6, Zenon
<1> QED
  BY <1>1, <1>3, <1>4, <1>5, Zenon DEF IsTree

\* mkdir.
LEMMA MadeIsTree ==
  ASSUME IsTree(files), NEW path \in Entries, Files!CanMake(path)
  PROVE  IsTree(Files!Made(path)) /\ \A q \in Files!Way(path) :
                                       q \in DOMAIN Files!Made(path) /\ Files!Made(path)[q] = "directory"
<1>1. PICK new : new = Files!Only("directory", Files!Way(path))
  OBVIOUS
<1>2. DOMAIN new = Files!Way(path) /\ \A p \in DOMAIN new : new[p] = "directory"
  BY <1>1, OnlySays, ZenonT(30)
<1>3. /\ \A q \in Files!Way(path) : q \in Entries /\ (q = path \/ Files!IsStrictPrefix(q, path))
      /\ \A q \in Entries : Files!IsStrictPrefix(q, path) => q \in Files!Way(path)
  BY WayTo, Zenon
<1>4. \A q \in Files!Way(path) : q \in DOMAIN files => files[q] = "directory"
  BY Zenon DEF Files!CanMake
<1>5. \E n \in Nat : \A p \in DOMAIN new : Len(p) <= n
  <2>1. Len(path) \in Nat
    BY EntrySays, Zenon
  <2>2. ASSUME NEW q \in DOMAIN new PROVE Len(q) <= Len(path)
    <3>1. q \in Entries /\ (q = path \/ Files!IsStrictPrefix(q, path))
      BY <1>2, <1>3, Zenon
    <3>2. Len(q) \in Nat
      BY <3>1, EntrySays, Zenon
    <3>3. Len(q) = Len(path) \/ Len(q) < Len(path)
      BY <3>1, AboveBegins, Zenon
    <3> QED
      BY <2>1, <3>2, <3>3
  <2> QED
    BY <2>1, <2>2, Zenon
<1>6. /\ DOMAIN files \subseteq Entries
      /\ \A p \in DOMAIN files : files[p] \in {"directory", "file"}
      /\ \A p \in DOMAIN files, q \in Entries :
           Files!IsStrictPrefix(q, p) => q \in DOMAIN files /\ files[q] = "directory"
      /\ \E n \in Nat : \A p \in DOMAIN files : Len(p) <= n
  BY Zenon DEF IsTree
<1>7. ASSUME NEW p \in DOMAIN files \union DOMAIN new, NEW q \in Entries, Files!IsStrictPrefix(q, p)
      PROVE  \/ q \in DOMAIN files /\ files[q] = "directory"
             \/ q \in DOMAIN new \ DOMAIN files /\ new[q] = "directory"
  <2>1. CASE p \in DOMAIN files
    BY <1>6, <1>7, <2>1, Zenon
  <2>2. CASE p \in DOMAIN new
    <3>1. p \in Entries /\ (p = path \/ Files!IsStrictPrefix(p, path))
      BY <1>2, <1>3, <2>2, Zenon
    <3>2. Files!IsStrictPrefix(q, path)
      BY <1>7, <3>1, AboveIsTransitive, Zenon
    <3>3. q \in Files!Way(path)
      BY <1>3, <3>2, Zenon
    <3> QED
      BY <1>2, <1>4, <3>3, Zenon
  <2> QED
    BY <2>1, <2>2, Zenon
<1>8. IsTree(Files!Over(files, new))
  <2>1. DOMAIN new \subseteq Entries /\ \A p \in DOMAIN new : new[p] \in {"directory", "file"}
    BY <1>2, <1>3, Zenon
  <2> QED
    BY <1>5, <1>6, <1>7, <2>1, TreeOver, Zenon
<1>9. Files!Made(path) = Files!Over(files, new)
  BY <1>1, Zenon DEF Files!Made
<1>10. \A q \in Files!Way(path) :
         q \in DOMAIN Files!Over(files, new) /\ Files!Over(files, new)[q] = "directory"
  <2>1. /\ DOMAIN Files!Over(files, new) = DOMAIN files \union DOMAIN new
        /\ \A p \in DOMAIN files : Files!Over(files, new)[p] = files[p]
        /\ \A p \in DOMAIN new : p \notin DOMAIN files => Files!Over(files, new)[p] = new[p]
    BY OverSays
  <2> QED
    BY <1>2, <1>4, <2>1, Zenon
<1> QED
  BY <1>8, <1>9, <1>10, Zenon

LEMMA TreeSays ==
  ASSUME NEW tree, IsTree(tree)
  PROVE  /\ DOMAIN tree \subseteq Entries
         /\ \A p \in DOMAIN tree : tree[p] \in {"directory", "file"}
         /\ \A p \in DOMAIN tree, q \in Entries :
              Files!IsStrictPrefix(q, p) => q \in DOMAIN tree /\ tree[q] = "directory"
         /\ \E n \in Nat : \A p \in DOMAIN tree : Len(p) <= n
BY Zenon DEF IsTree

\* A file comes to a directory, or over a file.
LEMMA FileInTree ==
  ASSUME NEW tree, IsTree(tree), NEW path \in Entries,
         \A p \in DOMAIN tree : ~Files!IsStrictPrefix(path, p),
         \A q \in Entries : Files!IsStrictPrefix(q, path) => q \in DOMAIN tree /\ tree[q] = "directory"
  PROVE  IsTree(Files!Over(Files!Only("file", {path}), tree))
<1>1. PICK new : new = Files!Only("file", {path})
  OBVIOUS
<1>2. DOMAIN new = {path} /\ new[path] = "file"
  <2>1. DOMAIN Files!Only("file", {path}) = {path} /\ \A p \in {path} : Files!Only("file", {path})[p] = "file"
    BY OnlySays
  <2> QED
    BY <1>1, <2>1, Zenon
<1>3. /\ DOMAIN new \subseteq Entries /\ \A p \in DOMAIN new : new[p] \in {"directory", "file"}
  BY <1>2, Zenon
<1>4. \E n \in Nat : \A p \in DOMAIN new : Len(p) <= n
  <2>1. Len(path) \in Nat
    BY EntrySays, Zenon
  <2>2. Len(path) <= Len(path)
    BY <2>1
  <2> QED
    BY <1>2, <2>1, <2>2, Zenon
<1>6. ASSUME NEW p \in DOMAIN new \union DOMAIN tree, NEW q \in Entries, Files!IsStrictPrefix(q, p)
      PROVE  \/ q \in DOMAIN new /\ new[q] = "directory"
             \/ q \in DOMAIN tree \ DOMAIN new /\ tree[q] = "directory"
  <2>1. q \in DOMAIN tree /\ tree[q] = "directory"
    <3>1. CASE p = path
      BY <1>6, <3>1, Zenon
    <3>2. CASE p \in DOMAIN tree
      BY <1>6, <3>2, TreeSays, Zenon
    <3> QED
      BY <1>2, <3>1, <3>2, Zenon
  <2>2. p = path => q # path
    BY <1>6, Zenon DEF Files!IsStrictPrefix
  <2>3. p \in DOMAIN tree => q # path
    BY <1>6, Zenon
  <2> QED
    BY <1>2, <2>1, <2>2, <2>3, Zenon
<1>7. /\ DOMAIN tree \subseteq Entries /\ \A p \in DOMAIN tree : tree[p] \in {"directory", "file"}
      /\ \E n \in Nat : \A p \in DOMAIN tree : Len(p) <= n
  BY TreeSays, Zenon
<1> QED
  BY <1>1, <1>3, <1>4, <1>6, <1>7, TreeOver, Zenon

\* A tool's path in the container.
LEMMA AskedEntry ==
  ASSUME NEW asked \in Asked, Files!resolve(asked) # Files!Invalid,
         Files!Straight(Files!toContainerPath(Files!resolve(asked)))
  PROVE  Files!toContainerPath(Files!resolve(asked)) \in Entries
<1>1. PICK q : q = Files!toContainerPath(Files!resolve(asked))
  OBVIOUS
<1>2. q # Files!Invalid /\ \A k \in DOMAIN q : q[k] # ""
  BY <1>1, Zenon DEF Files!Straight
<1>3. IsContainer(q)
  BY <1>1, <1>2, ResolvedSpelled, Zenon
<1>4. q \in Seq(Spelled) /\ Len(q) >= 1 /\ q[1] = "workspace"
  BY <1>3, Zenon DEF IsContainer
<1>5. \A k \in 1 .. Len(q) : q[k] \in Spelled /\ k \in DOMAIN q
  BY <1>4
<1>6. \A k \in 1 .. Len(q) : q[k] \in Named
  BY <1>2, <1>5, SpelledSo, Zenon
<1>7. q \in Seq(Named)
  <2>1. PICK n \in Nat : n = Len(q)
    BY <1>4
  <2>2. q \in [1 .. n -> Named]
    BY <1>4, <1>6, <2>1
  <2> QED
    BY <2>2, SeqDef
<1> QED
  BY <1>1, <1>4, <1>7, Zenon DEF Entries

LEMMA WriteKeepsTree ==
  ASSUME IsTree(files), NEW path, Files!toContainerPath(path) \in Entries, Files!writeFile(path)
  PROVE  IsTree(files')
<1>1. PICK entry \in Entries : entry = Files!toContainerPath(path)
  OBVIOUS
<1>2. /\ Files!CanMake(Files!parentPath(entry))
      /\ ~(entry \in DOMAIN files /\ files[entry] = "directory")
      /\ files' = Files!Over(Files!Only("file", {entry}), Files!Made(Files!parentPath(entry)))
  BY <1>1, Zenon DEF Files!writeFile, Files!Is
<1>3. PICK made : made = Files!Made(Files!parentPath(entry))
  OBVIOUS
<1>4. CASE Len(entry) = 1
  <2>1. Files!parentPath(entry) = << >>
    BY <1>4, ParentOf, Zenon
  <2>2. Files!Way(<< >>) = {}
    <3>1. Files!Way(<< >>) = {SubSeq(<< >>, 1, l) : l \in 0 .. Len(<< >>)} \ {<< >>}
      BY Zenon DEF Files!Way, Files!Prefixes
    <3>2. Len(<< >>) = 0 /\ \A l \in 0 .. 0 : l = 0
      OBVIOUS
    <3>3. SubSeq(<< >>, 1, 0) = << >>
      BY SubSeqEmpty
    <3> QED
      BY <3>1, <3>2, <3>3, Zenon
  <2>3. made = Files!Over(files, Files!Only("directory", {}))
    BY <1>3, <2>1, <2>2, Zenon DEF Files!Made
  <2>4. DOMAIN made = DOMAIN files /\ \A p \in DOMAIN files : made[p] = files[p]
    BY <2>3 DEF Files!Over, Files!Only
  <2>5. IsTree(made)
    BY <2>4, Zenon DEF IsTree
  <2>6. \A q \in Entries : ~Files!IsStrictPrefix(q, entry)
    <3>1. ASSUME NEW q \in Entries, Files!IsStrictPrefix(q, entry) PROVE FALSE
      <4>1. Len(q) \in Nat /\ Len(q) >= 1
        BY EntrySays, Zenon
      <4>2. Len(q) < Len(entry)
        BY <3>1, AboveBegins, Zenon
      <4>3. \A n \in Nat : n >= 1 => ~(n < 1)
        OBVIOUS
      <4> QED
        BY <1>4, <4>1, <4>2, <4>3, Zenon
    <3> QED
      BY <3>1, Zenon
  <2>8. \A p \in DOMAIN made : ~Files!IsStrictPrefix(entry, p)
    BY <1>2, <2>4, <2>5, TreeSays, Zenon
  <2>7. IsTree(Files!Over(Files!Only("file", {entry}), made))
    BY <2>5, <2>6, <2>8, FileInTree, Zenon
  <2> QED
    BY <1>2, <1>3, <2>7, Zenon
<1>5. CASE Len(entry) # 1
  <2>1. PICK dir \in Entries :
          /\ dir = Files!parentPath(entry) /\ Files!IsStrictPrefix(dir, entry)
          /\ \A q \in Entries : Files!IsStrictPrefix(q, entry) => q = dir \/ Files!IsStrictPrefix(q, dir)
    BY <1>5, ParentOf, Zenon
  <2>2. /\ IsTree(made)
        /\ \A q \in Files!Way(dir) : q \in DOMAIN made /\ made[q] = "directory"
    BY <1>2, <1>3, <2>1, MadeIsTree, Zenon
  <2>3. \A q \in Entries : Files!IsStrictPrefix(q, entry) => q \in DOMAIN made /\ made[q] = "directory"
    BY <2>1, <2>2, WayTo, Zenon
  <2>4. ~(entry \in DOMAIN made /\ made[entry] = "directory")
    <3>1. entry \notin Files!Way(dir)
      <4>1. entry # dir /\ ~Files!IsStrictPrefix(entry, dir)
        <5>1. ~Files!IsStrictPrefix(entry, entry)
          BY DEF Files!IsStrictPrefix
        <5> QED
          BY <2>1, <5>1, AboveIsTransitive, Zenon
      <4> QED
        BY <4>1, WayTo, Zenon
    <3>2. made = Files!Over(files, Files!Only("directory", Files!Way(dir)))
      BY <1>3, <2>1, Zenon DEF Files!Made
    <3>3. entry \in DOMAIN made => entry \in DOMAIN files /\ made[entry] = files[entry]
      BY <3>1, <3>2 DEF Files!Over, Files!Only
    <3> QED
      BY <1>2, <3>3, Zenon
  <2>6. \A p \in DOMAIN made : ~Files!IsStrictPrefix(entry, p)
    BY <2>2, <2>4, TreeSays, Zenon
  <2>5. IsTree(Files!Over(Files!Only("file", {entry}), made))
    BY <2>2, <2>3, <2>6, FileInTree, Zenon
  <2> QED
    BY <1>2, <1>3, <2>5, Zenon
<1> QED
  BY <1>4, <1>5

LEMMA MkdirKeepsTree ==
  ASSUME IsTree(files), NEW path, Files!toContainerPath(path) \in Entries, Files!mkdir(path)
  PROVE  IsTree(files')
BY MadeIsTree, Zenon DEF Files!mkdir

LEMMA RemoveKeepsTree ==
  ASSUME IsTree(files), NEW path, Files!toContainerPath(path) \in Entries,
         NEW recursive, Files!remove(path, recursive)
  PROVE  IsTree(files')
<1>1. PICK entry \in Entries : entry = Files!toContainerPath(path)
  OBVIOUS
<1>2. PICK left : left = DOMAIN files \ ({entry} \union Files!Below(entry))
  OBVIOUS
<1>3. files' = Files!Restrict(files, left)
  BY <1>1, <1>2, Zenon DEF Files!remove
<1>4. \A p : p \in left <=> p \in DOMAIN files /\ p # entry /\ ~Files!IsStrictPrefix(entry, p)
  BY <1>2, Zenon DEF Files!Below
<1>5. \A p \in left, q \in DOMAIN files : Files!IsStrictPrefix(q, p) => q \in left
  BY <1>4, TreeSays, AboveIsTransitive, Zenon
<1> QED
  <2>1. /\ DOMAIN Files!Restrict(files, left) = left
        /\ \A p \in left : Files!Restrict(files, left)[p] = files[p]
    BY RestrictSays
  <2>2. IsTree(Files!Restrict(files, left))
    BY <1>4, <1>5, <2>1, LeftOfTree, Zenon
  <2> QED
    BY <1>3, <2>2, Zenon

-----------------------------------------------------------------------------

(***************************************************************************)
(* Snapshots.                                                              *)
(***************************************************************************)

\* A snapshot leaves out what is below what it leaves out.
LEMMA ExcludedBelow ==
  ASSUME NEW p \in Entries, NEW q \in Entries, Files!IsStrictPrefix(q, p),
         Files!workspaceSnapshotExcludes(q)
  PROVE  Files!workspaceSnapshotExcludes(p)
<1>1. p[1] = "workspace" /\ q[1] = "workspace" /\ Len(q) < Len(p)
  BY AboveBegins, Zenon
<1>2. PICK r \in Seq(Spelled) : r = q
  BY EntrySays, Zenon
<1>3. PICK s \in Seq(Spelled) : s = p
  BY EntrySays, Zenon
<1>4. \A i \in 1 .. Len(r) : r[i] = s[i]
  BY <1>2, <1>3, PrefixSays, Zenon
<1>5. Len(r) \in Nat /\ Len(s) \in Nat /\ Len(r) >= 1 /\ Len(r) < Len(s)
  BY <1>1, <1>2, <1>3, EntrySays, Zenon
<1>6. PICK m \in Nat, n \in Nat : m = Len(r) /\ n = Len(s) /\ m >= 1 /\ m < n
  BY <1>5, Zenon
<1>7. r # << >> /\ s # << >>
  <2>1. Len(<< >>) = 0 /\ m # 0 /\ n # 0
    BY <1>6
  <2> QED
    BY <1>6, <2>1, Zenon
<1>8. PICK rest \in Seq(Spelled) :
        /\ rest = Tail(r) /\ Len(rest) = Len(r) - 1
        /\ \A i \in 1 .. Len(rest) : rest[i] = r[i + 1]
  BY <1>7, HeadTailProperties
<1>9. PICK long \in Seq(Spelled) :
        /\ long = Tail(s) /\ Len(long) = Len(s) - 1
        /\ \A i \in 1 .. Len(long) : long[i] = s[i + 1]
  BY <1>7, HeadTailProperties
<1>10. Len(rest) = m - 1 /\ Len(long) = n - 1
  BY <1>6, <1>8, <1>9, Zenon
<1>11. \/ Len(rest) > 1 /\ rest[1] \in Files!ExcludedDirectories
       \/ rest # << >> /\ rest[1] = "npm.log"
  BY <1>1, <1>2, <1>8, Zenon DEF Files!workspaceSnapshotExcludes
<1>12. Len(rest) >= 1
  <2>1. Len(rest) \in Nat /\ (Len(rest) = 0 => rest = << >>)
    OBVIOUS
  <2>2. \A k \in Nat : (k > 1 => k >= 1) /\ (k # 0 => k >= 1)
    OBVIOUS
  <2> QED
    BY <1>11, <2>1, <2>2, Zenon
<1>13. m >= 2
  BY <1>6, <1>10, <1>12
<1>14. 1 \in 1 .. m - 1 /\ 1 \in 1 .. n - 1 /\ 2 \in 1 .. m /\ 1 + 1 = 2 /\ n - 1 > 1
  BY <1>6, <1>13
<1>15. rest[1] = r[2] /\ long[1] = s[2] /\ r[2] = s[2]
  BY <1>4, <1>6, <1>8, <1>9, <1>10, <1>14, Zenon
<1>16. Len(long) > 1 /\ long # << >>
  <2>1. Len(long) > 1
    BY <1>10, <1>14, Zenon
  <2>2. Len(<< >>) = 0 /\ ~(0 > 1)
    OBVIOUS
  <2> QED
    BY <2>1, <2>2, Zenon
<1>17. \/ Len(long) > 1 /\ long[1] \in Files!ExcludedDirectories
       \/ long # << >> /\ long[1] = "npm.log"
  BY <1>11, <1>15, <1>16, Zenon
<1> QED
  BY <1>1, <1>3, <1>9, <1>17, Zenon DEF Files!workspaceSnapshotExcludes

LEMMA DefaultIsTree == IsTree(Files!DefaultTree)
<1>1. PICK top \in Named : top = "workspace"
  BY SpelledSo, Zenon
<1>2. PICK name \in Named : name = "session.md"
  BY SpelledSo, Zenon
<1>3. top \in Spelled /\ name \in Spelled
  BY SpelledSo, Zenon
<1>4. PICK one \in Seq(Spelled) : one = <<top>> /\ Len(one) = 1 /\ one[1] = top
  BY <1>3, OneName
<1>5. PICK two \in Seq(Spelled) : two = <<top, name>> /\ Len(two) = 2 /\ two[1] = top /\ two[2] = name
  BY ZenonT(30), <1>3, TwoNames
<1>6. one = Files!Workspace /\ two = Files!Workspace \o <<"session.md">>
  <2>1. <<top>> \o <<name>> = <<top, name>>
    BY <1>3, TwoTogether
  <2> QED
    BY <1>1, <1>2, <1>4, <1>5, <2>1, Zenon DEF Files!Workspace
<1>7. one \in Entries /\ two \in Entries
  <2>1. <<top>> \in Seq(Named) /\ <<top, name>> \in Seq(Named)
    OBVIOUS
  <2>2. Len(one) >= 1 /\ Len(two) >= 1
    BY <1>4, <1>5
  <2> QED
    BY <1>1, <1>4, <1>5, <2>1, <2>2, Zenon DEF Entries
<1>8. PICK dirs : dirs = Files!Only("directory", {one})
  OBVIOUS
<1>9. DOMAIN dirs = {one} /\ dirs[one] = "directory"
  BY <1>8 DEF Files!Only
<1>10. PICK texts : texts = Files!Only("file", {two})
  OBVIOUS
<1>11. DOMAIN texts = {two} /\ texts[two] = "file"
  BY <1>10 DEF Files!Only
<1>12. ASSUME NEW p \in {one, two}, NEW q \in Entries, Files!IsStrictPrefix(q, p)
       PROVE  q = one /\ p = two
  <2>1. PICK r \in Seq(Spelled) : r = q /\ Len(r) \in Nat /\ Len(r) >= 1
    BY EntrySays, Zenon
  <2>2. r[1] = p[1] /\ Len(r) < Len(p)
    BY <1>7, <1>12, <2>1, AboveBegins, Zenon
  <2>3. p # one
    <3>1. \A k \in Nat : ~(k >= 1 /\ k < 1)
      OBVIOUS
    <3> QED
      BY <1>4, <2>1, <2>2, <3>1, Zenon
  <2>4. p = two
    BY <2>3
  <2>5. Len(r) = 1
    <3>1. \A k \in Nat : k >= 1 /\ k < 2 => k = 1
      OBVIOUS
    <3> QED
      BY <1>5, <2>1, <2>2, <2>4, <3>1, Zenon
  <2>6. r[1] = one[1]
    BY <1>4, <1>5, <2>2, <2>4, Zenon
  <2>7. Len(r) = Len(one) /\ \A i \in 1 .. Len(r) : r[i] = one[i]
    <3>1. \A i \in 1 .. 1 : i = 1
      OBVIOUS
    <3> QED
      BY <1>4, <2>5, <2>6, <3>1, Zenon
  <2>8. r = one
    BY <2>7, SeqEqual
  <2> QED
    BY <2>1, <2>4, <2>8, Zenon
<1>13. \A p \in DOMAIN dirs \union DOMAIN texts, q \in Entries :
         Files!IsStrictPrefix(q, p) => q \in DOMAIN dirs /\ dirs[q] = "directory"
  BY <1>9, <1>11, <1>12, Zenon
<1>14. /\ \E n \in Nat : \A p \in DOMAIN dirs : Len(p) <= n
       /\ \E n \in Nat : \A p \in DOMAIN texts : Len(p) <= n
  <2>1. 1 \in Nat /\ 2 \in Nat /\ 1 <= 1 /\ 2 <= 2
    OBVIOUS
  <2> QED
    BY <1>4, <1>5, <1>9, <1>11, <2>1, Zenon
<1>15. IsTree(Files!Over(dirs, texts))
  BY <1>7, <1>9, <1>11, <1>13, <1>14, TreeOver, Zenon
<1> QED
  BY <1>6, <1>8, <1>10, <1>15, Zenon DEF Files!DefaultTree

\* What a snapshot has is what was exported, but for what is left out.
SnapshotOfTree ==
  latest # Files!NoSnapshot =>
    /\ IsTree(exported)
    /\ \A p : p \in DOMAIN latest <=> p \in DOMAIN exported /\ ~Files!workspaceSnapshotExcludes(p)
    /\ \A p \in DOMAIN latest : latest[p] = exported[p]

WorkspaceInv == IsTree(files) /\ SnapshotOfTree /\ Files!RestoreGivesBack

LEMMA MountedIsTree ==
  ASSUME IsTree(files), SnapshotOfTree
  PROVE  IsTree(Files!Mounted)
<1>1. CASE latest = Files!NoSnapshot
  BY <1>1, DefaultIsTree, Zenon DEF Files!Mounted
<1>2. CASE latest # Files!NoSnapshot
  <2>1. /\ IsTree(exported)
        /\ \A p : p \in DOMAIN latest <=> p \in DOMAIN exported /\ ~Files!workspaceSnapshotExcludes(p)
        /\ \A p \in DOMAIN latest : latest[p] = exported[p]
    BY <1>2, Zenon DEF SnapshotOfTree
  <2>2. \A p \in DOMAIN latest, q \in DOMAIN exported : Files!IsStrictPrefix(q, p) => q \in DOMAIN latest
    BY <2>1, TreeSays, ExcludedBelow, Zenon
  <2>3. IsTree(latest)
    BY <2>1, <2>2, LeftOfTree, Zenon
  <2> QED
    BY <1>2, <2>3, Zenon DEF Files!Mounted
<1> QED
  BY <1>1, <1>2

LEMMA OutsideSays ==
  ASSUME IsTree(files)
  PROVE  /\ DOMAIN Files!Outside \subseteq Entries
         /\ \A p \in DOMAIN Files!Outside : p \in DOMAIN files /\ Files!Outside[p] = files[p]
         /\ \A p \in DOMAIN Files!Outside : p[1] # "workspace" /\ ~Files!AtOrBelow(p, Files!Workspace)
<1>1. PICK kept : kept = {p \in DOMAIN files : ~Files!AtOrBelow(p, Files!Workspace)}
  OBVIOUS
<1>2. Files!Outside = Files!Restrict(files, kept)
  BY <1>1, Zenon DEF Files!Outside
<1>3. DOMAIN Files!Outside = kept /\ \A p \in kept : Files!Outside[p] = files[p]
  BY <1>2, RestrictSays
<1>4. \A p \in kept : p \in DOMAIN files /\ p \in Entries /\ ~Files!AtOrBelow(p, Files!Workspace)
  BY <1>1, TreeSays, Zenon
<1>5. \A p \in Entries : ~Files!AtOrBelow(p, Files!Workspace) => p[1] # "workspace"
  BY EntrySays, Beginning, Zenon
<1> QED
  BY <1>3, <1>4, <1>5, Zenon

LEMMA RestoreKeeps ==
  ASSUME WorkspaceInv, Files!restoreWorkspaceSnapshot
  PROVE  WorkspaceInv'
<1>1. /\ files' = Files!Over(Files!Mounted, Files!Outside)
      /\ restored' = (latest # Files!NoSnapshot)
      /\ latest' = latest /\ exported' = exported
  BY Zenon DEF Files!restoreWorkspaceSnapshot
<1>2. PICK mounted : mounted = Files!Mounted
  OBVIOUS
<1>3. PICK outside : outside = Files!Outside
  OBVIOUS
<1>4. IsTree(mounted)
  BY <1>2, MountedIsTree, Zenon DEF WorkspaceInv
<1>5. /\ DOMAIN outside \subseteq Entries
      /\ \A p \in DOMAIN outside : p \in DOMAIN files /\ outside[p] = files[p]
      /\ \A p \in DOMAIN outside : p[1] # "workspace" /\ ~Files!AtOrBelow(p, Files!Workspace)
  BY <1>3, OutsideSays, Zenon DEF WorkspaceInv
<1>6. IsTree(files')
  <2>1. /\ DOMAIN mounted \subseteq Entries
        /\ \A p \in DOMAIN mounted : mounted[p] \in {"directory", "file"}
        /\ \A p \in DOMAIN mounted, q \in Entries :
             Files!IsStrictPrefix(q, p) => q \in DOMAIN mounted /\ mounted[q] = "directory"
        /\ \E n \in Nat : \A p \in DOMAIN mounted : Len(p) <= n
    BY <1>4, TreeSays, Zenon
  <2>2. /\ \A p \in DOMAIN outside : outside[p] \in {"directory", "file"}
        /\ \E n \in Nat : \A p \in DOMAIN outside : Len(p) <= n
    BY <1>5, TreeSays, Zenon DEF WorkspaceInv
  <2>3. \A p \in DOMAIN mounted \union DOMAIN outside, q \in Entries :
          Files!IsStrictPrefix(q, p) => q \in DOMAIN mounted /\ mounted[q] = "directory"
    BY <1>5, <2>1, AboveBegins, Zenon
  <2>4. IsTree(Files!Over(mounted, outside))
    BY <1>5, <2>1, <2>2, <2>3, TreeOver, Zenon
  <2> QED
    BY <1>1, <1>2, <1>3, <2>4, Zenon
<1>7. SnapshotOfTree'
  BY <1>1, Zenon DEF WorkspaceInv, SnapshotOfTree, IsTree, Files!NoSnapshot, Files!workspaceSnapshotExcludes
<1>8. ASSUME latest # Files!NoSnapshot, NEW p, p \in DOMAIN files' \union DOMAIN exported,
             Files!AtOrBelow(p, Files!Workspace), ~Files!workspaceSnapshotExcludes(p)
      PROVE  p \in DOMAIN files' /\ p \in DOMAIN exported /\ files'[p] = exported[p]
  <2>1. mounted = latest
    BY <1>2, <1>8, Zenon DEF Files!Mounted
  <2>2. /\ p \in DOMAIN latest <=> p \in DOMAIN exported
        /\ p \in DOMAIN latest => latest[p] = exported[p]
    BY <1>8, Zenon DEF WorkspaceInv, SnapshotOfTree
  <2>3. /\ DOMAIN Files!Over(mounted, outside) = DOMAIN mounted \union DOMAIN outside
        /\ \A q \in DOMAIN mounted : Files!Over(mounted, outside)[q] = mounted[q]
    BY OverSays
  <2>4. p \notin DOMAIN outside
    BY <1>5, <1>8, Zenon
  <2>5. p \in DOMAIN latest
    BY <1>1, <1>2, <1>3, <1>8, <2>1, <2>2, <2>3, <2>4, Zenon
  <2> QED
    BY <1>1, <1>2, <1>3, <2>1, <2>2, <2>3, <2>5, Zenon
<1>9. Files!RestoreGivesBack'
  BY <1>1, <1>8, Zenon DEF Files!RestoreGivesBack, Files!AtOrBelow, Files!Workspace, Files!workspaceSnapshotExcludes
<1> QED
  BY <1>6, <1>7, <1>9, Zenon DEF WorkspaceInv

LEMMA SaveKeeps ==
  ASSUME WorkspaceInv, Files!saveLatest
  PROVE  WorkspaceInv'
<1>1. /\ latest' = Files!Exported /\ exported' = files
      /\ files' = files /\ restored' = restored
  BY Zenon DEF Files!saveLatest
<1>2. PICK kept : kept = {p \in DOMAIN files : ~Files!workspaceSnapshotExcludes(p)}
  OBVIOUS
<1>3. latest' = Files!Restrict(files, kept)
  BY <1>1, <1>2, Zenon DEF Files!Exported
<1>4. DOMAIN latest' = kept /\ \A p \in kept : latest'[p] = files[p]
  BY <1>3, RestrictSays
<1>5. IsTree(files')
  BY <1>1, Zenon DEF WorkspaceInv
<1>6. SnapshotOfTree'
  <2>1. IsTree(exported')
    BY <1>1, Zenon DEF WorkspaceInv
  <2>2. \A p : p \in DOMAIN latest' <=> p \in DOMAIN exported' /\ ~Files!workspaceSnapshotExcludes(p)
    BY <1>1, <1>2, <1>4, Zenon
  <2>3. \A p \in DOMAIN latest' : latest'[p] = exported'[p]
    BY <1>1, <1>4, Zenon
  <2> QED
    BY <2>1, <2>2, <2>3, Zenon DEF SnapshotOfTree
<1>7. Files!RestoreGivesBack'
  BY <1>1, Zenon DEF Files!RestoreGivesBack
<1> QED
  BY <1>5, <1>6, <1>7, Zenon DEF WorkspaceInv

LEMMA ChangeKeeps ==
  ASSUME WorkspaceInv, Files!FileCall \/ Files!ShellWritesOutside
  PROVE  WorkspaceInv'
<1>1. restored' = FALSE /\ latest' = latest /\ exported' = exported
  BY Zenon DEF Files!FileCall, Files!ShellWritesOutside, Files!Changes
<1>2. SnapshotOfTree'
  BY <1>1, Zenon DEF WorkspaceInv, SnapshotOfTree
<1>3. Files!RestoreGivesBack'
  BY <1>1, Zenon DEF Files!RestoreGivesBack
<1>4. ASSUME Files!FileCall PROVE IsTree(files')
  <2>1. PICK asked \in Asked :
          /\ Files!resolve(asked) # Files!Invalid
          /\ Files!Straight(Files!toContainerPath(Files!resolve(asked)))
          /\ \/ Files!writeFile(Files!resolve(asked)) \/ Files!mkdir(Files!resolve(asked))
             \/ \E recursive \in BOOLEAN : Files!remove(Files!resolve(asked), recursive)
    BY <1>4, Zenon DEF Files!FileCall, Files!Changes
  <2>2. IsTree(files) /\ Files!toContainerPath(Files!resolve(asked)) \in Entries
    BY <2>1, AskedEntry, Zenon DEF WorkspaceInv
  <2>3. CASE Files!writeFile(Files!resolve(asked))
    BY <2>2, <2>3, WriteKeepsTree
  <2>4. CASE Files!mkdir(Files!resolve(asked))
    BY <2>2, <2>4, MkdirKeepsTree
  <2>5. CASE \E recursive \in BOOLEAN : Files!remove(Files!resolve(asked), recursive)
    <3>1. PICK recursive \in BOOLEAN : Files!remove(Files!resolve(asked), recursive)
      BY <2>5
    <3> QED
      BY <2>2, <3>1, RemoveKeepsTree
  <2> QED
    BY <2>1, <2>3, <2>4, <2>5, Zenon
<1>5. ASSUME Files!ShellWritesOutside PROVE IsTree(files')
  <2>1. PICK name \in Named : name = "notes"
    BY SpelledSo, Zenon
  <2>2. name \in Spelled
    BY <2>1, SpelledSo, Zenon
  <2>3. PICK notes \in Seq(Spelled) : notes = <<name>> /\ Len(notes) = 1 /\ notes[1] = name
    BY <2>2, OneName
  <2>4. notes \in Entries
    <3>1. <<name>> \in Seq(Named)
      OBVIOUS
    <3>2. Len(notes) >= 1
      BY <2>3
    <3> QED
      BY <2>3, <3>1, <3>2, Zenon DEF Entries
  <2>5. files' = Files!Over(Files!Only("file", {notes}), files)
    BY <1>5, <2>1, <2>3, Zenon DEF Files!ShellWritesOutside, Files!Changes
  <2>6. \A p \in DOMAIN files, q \in Entries : Files!IsStrictPrefix(q, p) => q[1] = "workspace"
    BY TreeSays, AboveBegins, Zenon DEF WorkspaceInv
  <2>7. \A p \in DOMAIN files : ~Files!IsStrictPrefix(notes, p)
    BY <2>1, <2>3, <2>4, <2>6, "notes" # "workspace", Zenon
  <2>8. \A q \in Entries : ~Files!IsStrictPrefix(q, notes)
    BY <2>1, <2>3, <2>4, AboveBegins, "notes" # "workspace", Zenon
  <2>9. IsTree(Files!Over(Files!Only("file", {notes}), files))
    BY <2>4, <2>7, <2>8, FileInTree, Zenon DEF WorkspaceInv
  <2> QED
    BY <2>5, <2>9, Zenon
<1> QED
  BY <1>2, <1>3, <1>4, <1>5, Zenon DEF WorkspaceInv

-----------------------------------------------------------------------------

(***************************************************************************)
(* Listings. The recursion of snapshotDirectory has one result on a tree,  *)
(* and it is all the files there are.                                      *)
(***************************************************************************)

Inside == {p \in DOMAIN files : Files!AtOrBelow(p, Files!Workspace)}

Children(dir) == {p \in DOMAIN files : Files!parentPath(p) = dir}

FilesBelow(dir) == {<<"">> \o p : p \in {p \in Files!Below(dir) : files[p] = "file"}}

\* What the recursion of snapshotDirectory makes of what it found below.
IsListing(under) ==
  under = [path \in {<<"">> \o p : p \in {p \in DOMAIN files : Files!AtOrBelow(p, Files!Workspace)}} |->
             {e.path : e \in {e \in Files!readDir(path) : e.is_file}} \union
             UNION {under[e.path] : e \in {e \in Files!readDir(path) : e.is_dir}}]

LEMMA InsideSays ==
  ASSUME IsTree(files), NEW dir \in Inside
  PROVE  /\ dir \in Entries /\ dir \in DOMAIN files /\ dir[1] = "workspace" /\ IsContainer(dir)
         /\ Files!fromContainerPath(dir) = <<"">> \o dir
         /\ Files!toContainerPath(<<"">> \o dir) = dir
<1>1. dir \in DOMAIN files /\ Files!AtOrBelow(dir, Files!Workspace)
  BY Zenon DEF Inside
<1>2. dir \in Entries
  BY <1>1, TreeSays, Zenon
<1>3. dir[1] = "workspace"
  BY <1>1, <1>2, EntrySays, Beginning, Zenon
<1> QED
  BY <1>1, <1>2, <1>3, EntryIsContainer, FromContainer, ToContainer, Zenon

LEMMA ChildrenSay ==
  ASSUME IsTree(files), NEW dir \in Inside
  PROVE  /\ Children(dir) \subseteq Inside
         /\ \A p \in Children(dir) : Len(p) = Len(dir) + 1 /\ Files!IsStrictPrefix(dir, p)
<1>1. SUFFICES ASSUME NEW p \in Children(dir)
               PROVE  p \in Inside /\ Len(p) = Len(dir) + 1 /\ Files!IsStrictPrefix(dir, p)
  BY Zenon
<1>2. p \in DOMAIN files /\ p \in Entries /\ Files!parentPath(p) = dir
  BY TreeSays, Zenon DEF Children
<1>3. dir \in Entries
  BY InsideSays, Zenon
<1>4. Len(p) # 1
  <2>1. dir # << >>
    <3>1. Len(dir) >= 1 /\ Len(dir) \in Nat
      BY <1>3, EntrySays, Zenon
    <3>2. Len(<< >>) = 0 /\ ~(0 >= 1)
      OBVIOUS
    <3> QED
      BY <3>1, <3>2, Zenon
  <2> QED
    BY <1>2, <2>1, ParentOf, Zenon
<1>5. Len(dir) = Len(p) - 1 /\ Files!IsStrictPrefix(dir, p)
  BY <1>2, <1>4, ParentOf, Zenon
<1>6. Len(p) = Len(dir) + 1
  <2>1. \A m, n \in Nat : m = n - 1 => n = m + 1
    OBVIOUS
  <2> QED
    BY <1>2, <1>3, <1>5, <2>1, EntrySays, Zenon
<1>7. p \in Inside
  BY <1>2, <1>4, EntrySays, Beginning, Zenon DEF Inside
<1> QED
  BY <1>5, <1>6, <1>7, Zenon

\* What readDir gives out.
LEMMA ReadDirSays ==
  ASSUME IsTree(files), NEW dir \in Inside
  PROVE  \A e : e \in Files!readDir(<<"">> \o dir) <=>
                  \E p \in Children(dir) :
                    e = [path |-> <<"">> \o p,
                         is_dir |-> Files!Is(p, "directory"), is_file |-> Files!Is(p, "file")]
<1>1. Files!readDir(<<"">> \o dir) =
        {[path |-> Files!fromContainerPath(p),
          is_dir |-> Files!Is(p, "directory"), is_file |-> Files!Is(p, "file")] : p \in Children(dir)}
  BY InsideSays, Zenon DEF Files!readDir, Children
<1>2. \A p \in Children(dir) : Files!fromContainerPath(p) = <<"">> \o p
  BY ChildrenSay, InsideSays, Zenon
<1> QED
  BY <1>1, <1>2, Zenon

LEMMA KindsAre ==
  ASSUME IsTree(files), NEW p \in DOMAIN files
  PROVE  /\ Files!Is(p, "directory") <=> files[p] = "directory"
         /\ Files!Is(p, "file") <=> files[p] = "file"
         /\ Files!Is(p, "directory") <=> ~Files!Is(p, "file")
<1>1. files[p] \in {"directory", "file"}
  BY TreeSays, Zenon
<1>2. "directory" # "file"
  OBVIOUS
<1> QED
  BY <1>1, <1>2, Zenon DEF Files!Is

LEMMA EntriesToldRight ==
  ASSUME IsTree(files), NEW path \in {p \in DOMAIN files : Files!AtOrBelow(p, Files!Workspace)},
         NEW entry \in Files!readDir(Files!fromContainerPath(path))
  PROVE  Files!metadata(entry.path) = IF entry.is_dir THEN "directory" ELSE "file"
<1>1. PICK dir \in Inside : dir = path
  BY Zenon DEF Inside
<1>2. entry \in Files!readDir(<<"">> \o dir)
  BY <1>1, InsideSays, Zenon
<1>3. PICK p \in Children(dir) :
        entry = [path |-> <<"">> \o p,
                 is_dir |-> Files!Is(p, "directory"), is_file |-> Files!Is(p, "file")]
  BY <1>2, ReadDirSays, Zenon
<1>4. entry.path = <<"">> \o p /\ entry.is_dir = Files!Is(p, "directory")
  BY <1>3
<1>5. p \in Inside /\ p \in DOMAIN files
  BY ChildrenSay, InsideSays, Zenon
<1>6. Files!toContainerPath(entry.path) = p
  BY <1>4, <1>5, InsideSays, Zenon
<1>7. CASE Files!Is(p, "directory")
  <2>1. ~Files!Is(p, "file")
    BY <1>5, <1>7, KindsAre, Zenon
  <2>2. Files!metadata(entry.path) = "directory"
    BY <1>6, <1>7, <2>1 DEF Files!metadata
  <2> QED
    BY <1>4, <1>7, <2>2, Zenon
<1>8. CASE ~Files!Is(p, "directory")
  <2>1. Files!Is(p, "file")
    BY <1>5, <1>8, KindsAre, Zenon
  <2>2. Files!metadata(entry.path) = "file"
    BY <1>6, <1>8, <2>1 DEF Files!metadata
  <2> QED
    BY <1>4, <1>8, <2>2, Zenon
<1> QED
  BY <1>7, <1>8

\* What the recursion makes of a directory.
LEMMA ListingStep ==
  ASSUME IsTree(files), NEW dir \in Inside, NEW under
  PROVE  {e.path : e \in {e \in Files!readDir(<<"">> \o dir) : e.is_file}} \union
         UNION {under[e.path] : e \in {e \in Files!readDir(<<"">> \o dir) : e.is_dir}}
               = {<<"">> \o p : p \in {p \in Children(dir) : files[p] = "file"}} \union
                 UNION {under[<<"">> \o p] : p \in {p \in Children(dir) : files[p] = "directory"}}
<1>1. PICK entries : entries = Files!readDir(<<"">> \o dir)
  OBVIOUS
<1>2. \A e : e \in entries <=>
         \E p \in Children(dir) :
           e = [path |-> <<"">> \o p,
                is_dir |-> Files!Is(p, "directory"), is_file |-> Files!Is(p, "file")]
  BY <1>1, ReadDirSays, Zenon
<1>3. \A p \in Children(dir) : /\ Files!Is(p, "directory") <=> files[p] = "directory"
                               /\ Files!Is(p, "file") <=> files[p] = "file"
  BY ChildrenSay, InsideSays, KindsAre, Zenon
<1>4. ASSUME NEW p \in Children(dir)
      PROVE  \E e \in entries : /\ e.path = <<"">> \o p
                                /\ e.is_dir = Files!Is(p, "directory") /\ e.is_file = Files!Is(p, "file")
  <2>1. PICK e : e = [path |-> <<"">> \o p,
                      is_dir |-> Files!Is(p, "directory"), is_file |-> Files!Is(p, "file")]
    OBVIOUS
  <2>2. e \in entries
    BY <1>2, <2>1, Zenon
  <2>3. e.path = <<"">> \o p /\ e.is_dir = Files!Is(p, "directory") /\ e.is_file = Files!Is(p, "file")
    BY <2>1
  <2> QED
    BY <2>2, <2>3, Zenon
<1>5. ASSUME NEW e \in entries
      PROVE  \E p \in Children(dir) :
               /\ e.path = <<"">> \o p
               /\ e.is_dir = Files!Is(p, "directory") /\ e.is_file = Files!Is(p, "file")
  <2>1. PICK p \in Children(dir) : e = [path |-> <<"">> \o p,
                      is_dir |-> Files!Is(p, "directory"), is_file |-> Files!Is(p, "file")]
    BY <1>2, Zenon
  <2>3. e.path = <<"">> \o p /\ e.is_dir = Files!Is(p, "directory") /\ e.is_file = Files!Is(p, "file")
    BY <2>1
  <2> QED
    BY <2>3, Zenon
<1>6. {e.path : e \in {e \in entries : e.is_file}}
        = {<<"">> \o p : p \in {p \in Children(dir) : files[p] = "file"}}
  <2>1. \A p \in Children(dir) : files[p] = "file" => \E e \in entries : e.path = <<"">> \o p /\ e.is_file
    BY <1>3, <1>4, Zenon
  <2>2. \A e \in entries : e.is_file => \E p \in Children(dir) : e.path = <<"">> \o p /\ files[p] = "file"
    BY <1>3, <1>5, Zenon
  <2> QED
    BY <2>1, <2>2, Zenon
<1>7. {under[e.path] : e \in {e \in entries : e.is_dir}}
        = {under[<<"">> \o p] : p \in {p \in Children(dir) : files[p] = "directory"}}
  <2>1. \A p \in Children(dir) : files[p] = "directory" => \E e \in entries : e.path = <<"">> \o p /\ e.is_dir
    BY <1>3, <1>4, Zenon
  <2>2. \A e \in entries : e.is_dir => \E p \in Children(dir) : e.path = <<"">> \o p /\ files[p] = "directory"
    BY <1>3, <1>5, Zenon
  <2>3. ASSUME NEW x PROVE x \in {under[e.path] : e \in {e \in entries : e.is_dir}} =>
                             x \in {under[<<"">> \o p] : p \in {p \in Children(dir) : files[p] = "directory"}}
    BY <2>2, Zenon
  <2>4. ASSUME NEW x PROVE x \in {under[<<"">> \o p] : p \in {p \in Children(dir) : files[p] = "directory"}}
                             => x \in {under[e.path] : e \in {e \in entries : e.is_dir}}
    <3>1. ASSUME NEW p \in Children(dir), files[p] = "directory", x = under[<<"">> \o p]
          PROVE  x \in {under[e.path] : e \in {e \in entries : e.is_dir}}
      <4>1. PICK e \in entries : e.path = <<"">> \o p /\ e.is_dir
        BY <2>1, <3>1, Zenon
      <4>2. x = under[e.path]
        BY <3>1, <4>1, Zenon
      <4> QED
        BY <4>1, <4>2, Zenon
    <3> QED
      BY <3>1, Zenon
  <2> QED
    BY <2>3, <2>4, Zenon
<1> QED
  BY <1>1, <1>6, <1>7, Zenon

\* The entry that leads from a directory on to a path below it.
LEMMA NextOn ==
  ASSUME NEW dir \in Entries, NEW p \in Entries, Files!IsStrictPrefix(dir, p)
  PROVE  \E c \in Entries : Files!parentPath(c) = dir /\ (c = p \/ Files!IsStrictPrefix(c, p))
<1>1. p \in Seq(Spelled) /\ p \in Seq(Named) /\ dir \in Seq(Spelled)
  BY EntrySays, Zenon
<1>2. Len(p) \in Nat /\ Len(dir) \in Nat /\ Len(dir) >= 1 /\ Len(dir) < Len(p)
  BY EntrySays, AboveBegins, Zenon
<1>3. PICK l \in 1 .. Len(p) : l = Len(dir) + 1 /\ l # 1 /\ Len(dir) < l /\ l - 1 = Len(dir)
  <2>1. \A m, n \in Nat : m >= 1 /\ m < n => m + 1 \in 1 .. n /\ m + 1 # 1 /\ m < m + 1 /\ (m + 1) - 1 = m
    OBVIOUS
  <2> QED
    BY <1>2, <2>1, Zenon
<1>4. PICK c \in Files!Way(p) : c \in Seq(Spelled) /\ Len(c) = l /\ \A i \in 1 .. l : c[i] = p[i]
  BY <1>1, WayHas, Zenon
<1>5. c \in Entries /\ (c = p \/ Files!IsStrictPrefix(c, p))
  BY WayTo, Zenon
<1>6. \A i \in 1 .. Len(dir) : dir[i] = p[i]
  BY <1>1, PrefixSays, Zenon
<1>7. \A i \in 1 .. Len(dir) : i \in 1 .. l
  <2>1. \A m \in Nat : \A i \in 1 .. m : i \in 1 .. m + 1
    OBVIOUS
  <2> QED
    BY <1>2, <1>3, <2>1, Zenon
<1>8. Files!IsStrictPrefix(dir, c)
  <2>1. \A i \in 1 .. Len(dir) : dir[i] = c[i]
    BY <1>4, <1>6, <1>7, Zenon
  <2>2. Len(dir) < Len(c)
    BY <1>3, <1>4, Zenon
  <2> QED
    BY <1>1, <1>4, <2>1, <2>2, PrefixSays, Zenon
<1>9. Len(c) # 1
  BY <1>3, <1>4, Zenon
<1>10. Len(Files!parentPath(c)) = Len(dir) /\ Files!parentPath(c) \in Entries
  BY <1>3, <1>4, <1>5, <1>9, ParentOf, Zenon
<1>11. ~Files!IsStrictPrefix(dir, Files!parentPath(c))
  <2>1. \A n \in Nat : ~(n < n)
    OBVIOUS
  <2> QED
    BY <1>2, <1>10, <2>1, AboveBegins, Zenon
<1>12. Files!parentPath(c) = dir
  BY <1>5, <1>8, <1>9, <1>11, ParentOf, Zenon
<1> QED
  BY <1>5, <1>12, Zenon

\* The files below a directory are those in it and those below its directories.
LEMMA BelowStep ==
  ASSUME IsTree(files), NEW dir \in Inside
  PROVE  FilesBelow(dir) =
           {<<"">> \o p : p \in {p \in Children(dir) : files[p] = "file"}} \union
           UNION {FilesBelow(p) : p \in {p \in Children(dir) : files[p] = "directory"}}
<1>1. /\ \A p \in Children(dir) : p \in Inside /\ Files!IsStrictPrefix(dir, p)
      /\ \A p \in Inside : p \in Entries /\ p \in DOMAIN files
      /\ dir \in Entries
  BY ChildrenSay, InsideSays, Zenon
<1>2. \A p : p \in Files!Below(dir) <=> p \in DOMAIN files /\ Files!IsStrictPrefix(dir, p)
  BY Zenon DEF Files!Below
<1>3. ASSUME NEW x, x \in FilesBelow(dir)
      PROVE  \/ x \in {<<"">> \o p : p \in {p \in Children(dir) : files[p] = "file"}}
             \/ x \in UNION {FilesBelow(p) : p \in {p \in Children(dir) : files[p] = "directory"}}
  <2>1. PICK p \in DOMAIN files : /\ Files!IsStrictPrefix(dir, p) /\ files[p] = "file"
                                  /\ x = <<"">> \o p
    BY <1>2, <1>3, Zenon DEF FilesBelow
  <2>2. CASE p \in Children(dir)
    BY <2>1, <2>2, Zenon
  <2>3. CASE p \notin Children(dir)
    <3>1. p \in Entries
      BY TreeSays, Zenon
    <3>2. PICK c \in Children(dir) : Files!IsStrictPrefix(c, p)
      <4>1. PICK c \in Entries : Files!parentPath(c) = dir /\ (c = p \/ Files!IsStrictPrefix(c, p))
        BY <1>1, <2>1, <3>1, NextOn, Zenon
      <4>2. c # p /\ c \in DOMAIN files
        BY <2>1, <2>3, <4>1, TreeSays, Zenon DEF Children
      <4> QED
        BY <4>1, <4>2, Zenon DEF Children
    <3>3. files[c] = "directory"
      BY <1>1, <2>1, <3>2, TreeSays, Zenon
    <3>4. p \in Files!Below(c)
      BY <3>2, Zenon DEF Files!Below
    <3>5. x \in FilesBelow(c)
      BY <2>1, <3>4, Zenon DEF FilesBelow
    <3> QED
      BY <3>2, <3>3, <3>5, Zenon
  <2> QED
    BY <2>2, <2>3
<1>4. ASSUME NEW x, x \in {<<"">> \o p : p \in {p \in Children(dir) : files[p] = "file"}}
      PROVE  x \in FilesBelow(dir)
  BY <1>1, <1>2, <1>4, Zenon DEF FilesBelow
<1>5. ASSUME NEW x, x \in UNION {FilesBelow(p) : p \in {p \in Children(dir) : files[p] = "directory"}}
      PROVE  x \in FilesBelow(dir)
  <2>1. PICK c \in Children(dir) : x \in FilesBelow(c)
    BY <1>5, Zenon
  <2>2. PICK p \in DOMAIN files : /\ Files!IsStrictPrefix(c, p) /\ files[p] = "file"
                                  /\ x = <<"">> \o p
    BY <2>1, Zenon DEF FilesBelow, Files!Below
  <2>3. p \in Entries
    BY TreeSays, Zenon
  <2>4. Files!IsStrictPrefix(dir, p)
    BY <1>1, <2>2, <2>3, AboveIsTransitive, Zenon
  <2> QED
    BY <1>2, <2>2, <2>4, Zenon DEF FilesBelow
<1> QED
  BY <1>3, <1>4, <1>5, Zenon

LEMMA ListingExists ==
  ASSUME IsTree(files)
  PROVE  \E under : IsListing(under)
<1>1. PICK all : all = {<<"">> \o p : p \in {p \in DOMAIN files : Files!AtOrBelow(p, Files!Workspace)}}
  OBVIOUS
<1>2. all = {<<"">> \o p : p \in Inside}
  BY <1>1, Zenon DEF Inside
<1>3. PICK under : under = [path \in all |-> FilesBelow(Tail(path))]
  OBVIOUS
<1>4. ASSUME NEW dir \in Inside PROVE under[<<"">> \o dir] = FilesBelow(dir)
  <2>1. Tail(<<"">> \o dir) = dir
    BY InsideSays, EntrySays, AbsoluteOf, Zenon
  <2>2. <<"">> \o dir \in all
    BY <1>2, Zenon
  <2> QED
    BY <1>3, <2>1, <2>2, Zenon
<1>5. ASSUME NEW path \in all
      PROVE  FilesBelow(Tail(path)) =
               {e.path : e \in {e \in Files!readDir(path) : e.is_file}} \union
               UNION {under[e.path] : e \in {e \in Files!readDir(path) : e.is_dir}}
  <2>1. PICK dir \in Inside : path = <<"">> \o dir
    BY <1>2, Zenon
  <2>2. Tail(path) = dir
    BY <2>1, InsideSays, EntrySays, AbsoluteOf, Zenon
  <2>3. {under[<<"">> \o p] : p \in {p \in Children(dir) : files[p] = "directory"}}
          = {FilesBelow(p) : p \in {p \in Children(dir) : files[p] = "directory"}}
    <3>1. \A p \in Children(dir) : under[<<"">> \o p] = FilesBelow(p)
      BY <1>4, ChildrenSay, Zenon
    <3> QED
      BY <3>1, Zenon
  <2>4. FilesBelow(dir) =
          {<<"">> \o p : p \in {p \in Children(dir) : files[p] = "file"}} \union
          UNION {under[<<"">> \o p] : p \in {p \in Children(dir) : files[p] = "directory"}}
    BY <2>3, BelowStep, Zenon
  <2>5. {e.path : e \in {e \in Files!readDir(<<"">> \o dir) : e.is_file}} \union
        UNION {under[e.path] : e \in {e \in Files!readDir(<<"">> \o dir) : e.is_dir}}
          = {<<"">> \o p : p \in {p \in Children(dir) : files[p] = "file"}} \union
            UNION {under[<<"">> \o p] : p \in {p \in Children(dir) : files[p] = "directory"}}
    BY ListingStep, Zenon
  <2> QED
    BY <2>1, <2>2, <2>4, <2>5, Zenon
<1>6. under = [path \in all |->
                 {e.path : e \in {e \in Files!readDir(path) : e.is_file}} \union
                 UNION {under[e.path] : e \in {e \in Files!readDir(path) : e.is_dir}}]
  BY <1>3, <1>5, Zenon
<1>7. IsListing(under)
  BY <1>1, <1>6, Zenon DEF IsListing
<1> QED
  BY <1>7, Zenon

\* There is but one way for the recursion to end.
LEMMA ListingIs ==
  ASSUME IsTree(files), NEW under, IsListing(under)
  PROVE  \A dir \in Inside : under[<<"">> \o dir] = FilesBelow(dir)
<1>1. ASSUME NEW dir \in Inside
      PROVE  under[<<"">> \o dir] =
               {<<"">> \o p : p \in {p \in Children(dir) : files[p] = "file"}} \union
               UNION {under[<<"">> \o p] : p \in {p \in Children(dir) : files[p] = "directory"}}
  <2>1. <<"">> \o dir \in {<<"">> \o p : p \in {p \in DOMAIN files : Files!AtOrBelow(p, Files!Workspace)}}
    BY Zenon DEF Inside
  <2>2. under[<<"">> \o dir] =
          {e.path : e \in {e \in Files!readDir(<<"">> \o dir) : e.is_file}} \union
          UNION {under[e.path] : e \in {e \in Files!readDir(<<"">> \o dir) : e.is_dir}}
    BY <2>1, Zenon DEF IsListing
  <2>3. {e.path : e \in {e \in Files!readDir(<<"">> \o dir) : e.is_file}} \union
        UNION {under[e.path] : e \in {e \in Files!readDir(<<"">> \o dir) : e.is_dir}}
          = {<<"">> \o p : p \in {p \in Children(dir) : files[p] = "file"}} \union
            UNION {under[<<"">> \o p] : p \in {p \in Children(dir) : files[p] = "directory"}}
    BY ListingStep, Zenon
  <2> QED
    BY <2>2, <2>3, Zenon
<1>2. PICK n \in Nat : \A p \in DOMAIN files : Len(p) <= n
  BY TreeSays, Zenon
<1> DEFINE S == {m \in Nat : \A dir \in Inside : Len(dir) + m > n => under[<<"">> \o dir] = FilesBelow(dir)}
<1>3. \A dir \in Inside : Len(dir) \in Nat /\ Len(dir) <= n
  BY <1>2, InsideSays, EntrySays, Zenon
<1>4. 0 \in S
  <2>1. \A k \in Nat : k <= n => ~(k + 0 > n)
    OBVIOUS
  <2>2. \A dir \in Inside : ~(Len(dir) + 0 > n)
    BY <1>3, <2>1, Zenon
  <2> QED
    BY <2>2
<1>5. ASSUME NEW m \in 0 .. n + 1, m \in S, m # n + 1 PROVE m + 1 \in S
  <2>1. ASSUME NEW dir \in Inside, Len(dir) + (m + 1) > n PROVE under[<<"">> \o dir] = FilesBelow(dir)
    <3>1. ASSUME NEW p \in Children(dir) PROVE under[<<"">> \o p] = FilesBelow(p)
      <4>1. p \in Inside /\ Len(p) = Len(dir) + 1
        BY ChildrenSay, Zenon
      <4>2. \A k \in Nat : k + (m + 1) > n => (k + 1) + m > n
        OBVIOUS
      <4>3. Len(p) + m > n
        BY <1>3, <2>1, <4>1, <4>2, Zenon
      <4> QED
        BY <1>5, <4>1, <4>3
    <3>2. {under[<<"">> \o p] : p \in {p \in Children(dir) : files[p] = "directory"}}
            = {FilesBelow(p) : p \in {p \in Children(dir) : files[p] = "directory"}}
      BY <3>1, Zenon
    <3> QED
      BY <1>1, <3>2, BelowStep, Zenon
  <2>2. m + 1 \in Nat
    OBVIOUS
  <2> QED
    BY <2>1, <2>2, Zenon
<1>6. n + 1 \in S
  <2>1. n + 1 \in Nat /\ n + 1 \in 0 .. n + 1
    OBVIOUS
  <2> HIDE DEF S
  <2> QED
    BY <1>4, <1>5, <2>1, UpTo
<1>7. \A dir \in Inside : Len(dir) + (n + 1) > n
  <2>1. \A k \in Nat : k + (n + 1) > n
    OBVIOUS
  <2> QED
    BY <1>3, <2>1, Zenon
<1> QED
  BY <1>6, <1>7

LEMMA ListingsAlwaysAgree == IsTree(files) => Files!ListingsAgree
<1>1. SUFFICES ASSUME IsTree(files) PROVE Files!ListingsAgree
  OBVIOUS
<1>2. \A path \in {p \in DOMAIN files : Files!AtOrBelow(p, Files!Workspace)} :
        \A entry \in Files!readDir(Files!fromContainerPath(path)) :
          Files!metadata(entry.path) = IF entry.is_dir THEN "directory" ELSE "file"
  BY <1>1, EntriesToldRight, Zenon
<1>3. PICK top \in Entries : top = Files!Workspace /\ Files!Root = <<"">> \o top
  <2>1. PICK name \in Named : name = "workspace"
    BY SpelledSo, Zenon
  <2>2. PICK root \in Spelled : root = ""
    BY SpelledSo, Zenon
  <2>3. name \in Spelled
    BY <2>1, SpelledSo, Zenon
  <2>4. PICK one \in Seq(Spelled) : one = <<name>> /\ Len(one) = 1 /\ one[1] = name
    BY <2>3, OneName
  <2>5. one \in Entries
    <3>1. <<name>> \in Seq(Named)
      OBVIOUS
    <3>2. Len(one) >= 1
      BY <2>4
    <3> QED
      BY <2>4, <3>1, <3>2, Zenon DEF Entries
  <2>6. <<root>> \o <<name>> = <<root, name>>
    BY <2>3, TwoTogether
  <2> QED
    BY <2>1, <2>2, <2>4, <2>5, <2>6, Zenon DEF Files!Workspace, Files!Root
<1>4. Files!snapshotDirectory = FilesBelow(top)
  <2>1. CASE Files!Workspace \in DOMAIN files
    <3>1. PICK under : under = CHOOSE u : IsListing(u)
      OBVIOUS
    <3>2. IsListing(under)
      BY <1>1, <3>1, ListingExists, Zenon
    <3>3. Files!snapshotDirectory = under[Files!Root]
      BY <2>1, <3>1, Zenon DEF IsListing, Files!snapshotDirectory
    <3>4. top \in Inside
      <4>1. Files!AtOrBelow(top, top)
        <5>1. \A i \in 1 .. Len(top) : top[i] = top[i]
          OBVIOUS
        <5>2. Len(top) \in Nat /\ Len(top) <= Len(top) /\ top \in Seq(Spelled)
          <6>1. \A n \in Nat : n <= n
            OBVIOUS
          <6> QED
            BY <6>1, EntrySays, Zenon
        <5> QED
          BY <5>1, <5>2, PrefixSays, Zenon DEF Files!AtOrBelow
      <4> QED
        BY <1>3, <2>1, <4>1, Zenon DEF Inside
    <3> QED
      BY <1>1, <1>3, <3>2, <3>3, <3>4, ListingIs, Zenon
  <2>2. CASE Files!Workspace \notin DOMAIN files
    <3>1. Files!snapshotDirectory = {}
      BY <2>2, Zenon DEF Files!snapshotDirectory
    <3>2. \A p \in DOMAIN files : ~Files!IsStrictPrefix(top, p)
      BY <1>1, <1>3, <2>2, TreeSays, Zenon
    <3>3. FilesBelow(top) = {}
      BY <3>2, Zenon DEF FilesBelow, Files!Below
    <3> QED
      BY <3>1, <3>3
  <2> QED
    BY <2>1, <2>2
<1>5. FilesBelow(top) = {Files!fromContainerPath(p) : p \in {p \in Files!Below(Files!Workspace) : files[p] = "file"}}
  <2>1. ASSUME NEW p \in Files!Below(top) PROVE Files!fromContainerPath(p) = <<"">> \o p
    <3>1. p \in DOMAIN files /\ p \in Entries /\ Files!IsStrictPrefix(top, p)
      BY <1>1, TreeSays, Zenon DEF Files!Below
    <3>2. p[1] = "workspace"
      BY <3>1, AboveBegins, Zenon
    <3> QED
      BY <3>1, <3>2, EntryIsContainer, FromContainer, Zenon
  <2> QED
    BY <1>3, <2>1, Zenon DEF FilesBelow
<1>6. Files!snapshotDirectory = {Files!fromContainerPath(p) : p \in {p \in Files!Below(Files!Workspace) : files[p] = "file"}}
  BY <1>4, <1>5, Zenon
<1> QED
  BY <1>2, <1>6, Zenon DEF Files!ListingsAgree

LEMMA FilesBegin == Init => WorkspaceInv
<1>1. SUFFICES ASSUME Files!Init PROVE WorkspaceInv
  BY Zenon DEF Init
<1>2. files = Files!DefaultTree /\ latest = Files!NoSnapshot /\ ~restored
  BY <1>1, Zenon DEF Files!Init
<1>3. IsTree(files)
  BY <1>2, DefaultIsTree, Zenon
<1> QED
  BY <1>2, <1>3, Zenon DEF WorkspaceInv, SnapshotOfTree, Files!RestoreGivesBack

LEMMA FilesStep == WorkspaceInv /\ [Next]_vars => WorkspaceInv'
<1>1. SUFFICES ASSUME WorkspaceInv, [Next]_vars PROVE WorkspaceInv'
  OBVIOUS
<1>2. Files!Next \/ UNCHANGED workspaceFiles
  BY <1>1 DEF Next, vars, BootMoves, TerminalMoves, DialogMoves, ToolsMove, FilesMove
<1>3. CASE Files!FileCall \/ Files!ShellWritesOutside
  BY <1>1, <1>3, ChangeKeeps
<1>4. CASE Files!saveLatest
  BY <1>1, <1>4, SaveKeeps
<1>5. CASE Files!restoreWorkspaceSnapshot
  BY <1>1, <1>5, RestoreKeeps
<1>6. CASE UNCHANGED workspaceFiles
  <2>1. files' = files /\ latest' = latest /\ exported' = exported /\ restored' = restored
    BY <1>6 DEF workspaceFiles
  <2> QED
    BY <1>1, <2>1, Zenon DEF WorkspaceInv, SnapshotOfTree, IsTree, Files!RestoreGivesBack
<1> QED
  BY <1>2, <1>3, <1>4, <1>5, <1>6, Zenon DEF Files!Next

(***************************************************************************)
(* Whatever paths are asked for: what the path policy resolves is the same *)
(* file for the host exactly if it has no backslash, the policy's part of  *)
(* a name and the host's slash; by the paths it gives out, the host comes  *)
(* back to the entry; readDir and metadata agree on every entry, a trace   *)
(* has each file of the workspace, and a restored workspace has what was   *)
(* exported, but for what a build makes anew (path.rs:32-89,               *)
(* webcontainer-host.ts:34-113, 229-319).                                  *)
(***************************************************************************)
THEOREM OneFileByAnyName == FairSpec => []FilesRight
<1>1. WorkspaceInv => FilesRight
  <2>1. WorkspaceInv => Files!ListingsAgree /\ Files!RestoreGivesBack
    BY ListingsAlwaysAgree, Zenon DEF WorkspaceInv
  <2> QED
    BY <2>1, PathsAlwaysAgree, Zenon DEF FilesRight, Files!FilesRight
<1> QED
  BY <1>1, FilesBegin, FilesStep, PTL DEF FairSpec

-----------------------------------------------------------------------------

(***************************************************************************)
(* The file tree, which has a run of its own.                              *)
(***************************************************************************)
CONSTANTS MaxReloads, MaxChanges

VARIABLES
  workspace, paths, knownDirs, loadedDirs, loadingDirs, expanded, treeStatus,
  reload, changes, stale, failed

Tree == INSTANCE WorkspaceFileTree

\* What is in the directories that were read, as the files are now.
In(dirs) == UNION {Tree!Listed(treeDir) : treeDir \in dirs}

\* A reload has what it says it has read. With none under way the tree shows
\* what was read, but for what a failed read or a change of the files makes of
\* it: nothing is said before, since the last reload to end replaces it.
Shown ==
  /\ paths = In(loadedDirs) /\ knownDirs = {p \in paths : Tree!IsDirectory(p)}
  /\ expanded \subseteq loadedDirs \union loadingDirs

ReadsRight == \A r \in Tree!Reloads : reload[r].paths = In(reload[r].done)

TreeInv ==
  /\ reload = [r \in Tree!Reloads |-> reload[r]]
  /\ expanded \subseteq knownDirs
  /\ treeStatus = "error" => failed
  /\ ~stale => ReadsRight
  /\ Tree!Busy = {} /\ ~stale /\ ~failed => Shown

\* What is listed depends on the files alone.
LEMMA SameFilesSameList ==
  ASSUME UNCHANGED workspace
  PROVE  /\ ReadsRight' <=> \A r \in Tree!Reloads : reload'[r].paths = In(reload'[r].done)
         /\ In(loadedDirs)' = In(loadedDirs')
BY DEF ReadsRight, In, Tree!Listed, Tree!listWorkspaceDirectory

LEMMA InSays ==
  ASSUME NEW dirs, NEW treeDir
  PROVE  /\ In({}) = {}
         /\ In(dirs) \union Tree!Listed(treeDir) = In(dirs \union {treeDir})
BY DEF In

LEMMA NothingRead ==
  /\ Tree!NoReload.todo = {} /\ Tree!NoReload.done = {} /\ Tree!NoReload.paths = {}
  /\ \A reset \in BOOLEAN : /\ Tree!Reload(reset).todo # {}
                            /\ Tree!Reload(reset).done = {} /\ Tree!Reload(reset).paths = {}
BY DEF Tree!NoReload, Tree!Reload, Tree!DirsToRead

\* A reload that begins while there was none has no other beside it that had read.
LEMMA ReloadsBegin ==
  ASSUME TreeInv, NEW begun \in SUBSET Tree!Reloads, begun # {},
         NEW how \in [begun -> BOOLEAN],
         reload' = [r \in Tree!Reloads |-> IF r \in begun THEN Tree!Reload(how[r]) ELSE reload[r]],
         Tree!AtRest \/ ((stale => stale') /\ UNCHANGED workspace) \/ stale'
  PROVE  /\ reload' = [r \in Tree!Reloads |-> reload'[r]]
         /\ ~stale' => ReadsRight'
         /\ Tree!Busy' # {}
<1>1. reload' = [r \in Tree!Reloads |-> reload'[r]]
  OBVIOUS
<1>2. \A r \in begun : reload'[r] = Tree!Reload(how[r]) /\ how[r] \in BOOLEAN
  OBVIOUS
<1>3. \A r \in begun : reload'[r].todo # {} /\ reload'[r].done = {} /\ reload'[r].paths = {}
  BY <1>2, NothingRead
<1>4. Tree!Busy' # {}
  BY <1>3, NothingRead, Zenon DEF Tree!Busy
<1>5. ASSUME ~stale', Tree!AtRest PROVE ReadsRight'
  <2>1. ASSUME NEW r \in Tree!Reloads PROVE reload'[r].done = {} /\ reload'[r].paths = {}
    <3>1. CASE r \in begun
      BY <1>3, <3>1
    <3>2. CASE r \notin begun
      <4>1. reload'[r] = Tree!NoReload
        BY <1>5, <3>2 DEF Tree!AtRest, Tree!Busy
      <4> QED
        BY <4>1, NothingRead
    <3> QED
      BY <3>1, <3>2
  <2> QED
    BY <2>1 DEF ReadsRight, In
<1>6. ASSUME ~stale', ~Tree!AtRest PROVE ReadsRight'
  <2>1. ~stale /\ UNCHANGED workspace
    BY <1>6
  <2>2. ASSUME NEW r \in Tree!Reloads PROVE reload'[r].paths = In(reload'[r].done)
    <3>1. CASE r \in begun
      BY <1>3, <3>1, InSays
    <3>2. CASE r \notin begun
      <4>1. reload'[r] = reload[r]
        BY <3>2
      <4> QED
        BY <2>1, <4>1 DEF TreeInv, ReadsRight
    <3> QED
      BY <3>1, <3>2
  <2> QED
    BY <2>1, <2>2, SameFilesSameList
<1> QED
  BY <1>1, <1>4, <1>5, <1>6

LEMMA TreeStep == TreeInv /\ [Tree!Next]_(Tree!tree) => TreeInv'
<1> SUFFICES ASSUME TreeInv, [Tree!Next]_(Tree!tree) PROVE TreeInv'
  OBVIOUS
<1>1. CASE Tree!SelectSession
  <2>1. PICK q, r \in Tree!Reloads \ Tree!Busy :
          q < r /\ reload' = [reload EXCEPT ![q] = Tree!Reload(TRUE), ![r] = Tree!Reload(FALSE)]
    BY <1>1 DEF Tree!SelectSession
  <2>2. q # r
    BY <2>1 DEF Tree!Reloads
  <2> DEFINE how == [s \in {q, r} |-> s = q]
  <2>3. reload' = [s \in Tree!Reloads |-> IF s \in {q, r} THEN Tree!Reload(how[s]) ELSE reload[s]]
    BY <2>1, <2>2 DEF TreeInv
  <2>4. how \in [{q, r} -> BOOLEAN] /\ {q, r} \in SUBSET Tree!Reloads /\ {q, r} # {}
    BY <2>1
  <2>5. /\ Tree!AtRest \/ stale'
        /\ UNCHANGED <<paths, knownDirs, loadedDirs, loadingDirs, expanded>>
        /\ treeStatus' = "Loading"
    BY <1>1 DEF Tree!SelectSession
  <2> HIDE DEF how
  <2>6. /\ reload' = [s \in Tree!Reloads |-> reload'[s]]
        /\ ~stale' => ReadsRight'
        /\ Tree!Busy' # {}
    BY <2>3, <2>4, <2>5, ReloadsBegin
  <2> QED
    BY <2>5, <2>6 DEF TreeInv
<1>2. CASE Tree!Refresh
  <2>1. PICK r \in Tree!Reloads \ Tree!Busy : reload' = [reload EXCEPT ![r] = Tree!Reload(FALSE)]
    BY <1>2 DEF Tree!Refresh
  <2> DEFINE how == [s \in {r} |-> FALSE]
  <2>2. reload' = [s \in Tree!Reloads |-> IF s \in {r} THEN Tree!Reload(how[s]) ELSE reload[s]]
    BY <2>1 DEF TreeInv
  <2>3. how \in [{r} -> BOOLEAN] /\ {r} \in SUBSET Tree!Reloads /\ {r} # {}
    BY <2>1
  <2>4. /\ stale' = (stale /\ ~Tree!AtRest)
        /\ UNCHANGED <<workspace, paths, knownDirs, loadedDirs, loadingDirs, expanded>>
        /\ treeStatus' = "Loading"
    BY <1>2 DEF Tree!Refresh
  <2>5. Tree!AtRest \/ ((stale => stale') /\ UNCHANGED workspace) \/ stale'
    BY <2>4
  <2> HIDE DEF how
  <2>6. /\ reload' = [s \in Tree!Reloads |-> reload'[s]]
        /\ ~stale' => ReadsRight'
        /\ Tree!Busy' # {}
    BY <2>2, <2>3, <2>5, ReloadsBegin
  <2> QED
    BY <2>4, <2>6 DEF TreeInv
<1>3. CASE Tree!FilesChange
  BY <1>3 DEF Tree!FilesChange, TreeInv
<1>4. ASSUME NEW r \in Tree!Reloads, NEW treeDir, Tree!Replace(r, treeDir),
             UNCHANGED <<workspace, changes, stale, failed>>
      PROVE  TreeInv'
  <2>1. /\ paths' = reload[r].paths \union Tree!Listed(treeDir)
        /\ loadedDirs' = reload[r].done \union {treeDir}
        /\ knownDirs' = {p \in paths' : Tree!IsDirectory(p)}
        /\ reload' = [reload EXCEPT ![r] = Tree!NoReload]
        /\ expanded' = expanded \intersect knownDirs'
        /\ loadingDirs' = loadingDirs \union ((expanded' \intersect knownDirs') \ loadedDirs')
        /\ treeStatus' = "paths"
    BY <1>4 DEF Tree!Replace, Tree!applyPaths
  <2>2. /\ reload' = [s \in Tree!Reloads |-> reload'[s]]
        /\ \A s \in Tree!Reloads : reload'[s] = reload[s] \/ reload'[s] = Tree!NoReload
    BY <2>1 DEF TreeInv
  <2>3. ReadsRight' <=> \A s \in Tree!Reloads : reload'[s].paths = In(reload'[s].done)
    BY <1>4, SameFilesSameList
  <2>4. ~stale' => ReadsRight'
    BY <1>4, <2>2, <2>3, NothingRead, InSays DEF TreeInv, ReadsRight
  <2>5. ~stale => paths' = In(loadedDirs')
    BY <2>1, InSays DEF TreeInv, ReadsRight
  <2>6. In(loadedDirs)' = In(loadedDirs')
    BY <1>4 DEF In, Tree!Listed, Tree!listWorkspaceDirectory
  <2>7. expanded' \subseteq loadedDirs' \union loadingDirs' /\ expanded' \subseteq knownDirs'
    BY <2>1
  <2>8. ~stale' => Shown'
    BY <1>4, <2>1, <2>5, <2>6, <2>7 DEF Shown, Tree!IsDirectory
  <2> QED
    BY <2>1, <2>2, <2>4, <2>7, <2>8 DEF TreeInv
<1>5. ASSUME NEW r \in Tree!Reloads, NEW treeDir, treeDir \in reload[r].todo, Tree!ReadOn(r, treeDir),
             UNCHANGED <<workspace, changes, stale, failed>>
      PROVE  TreeInv'
  <2> DEFINE read == [todo |-> reload[r].todo \ {treeDir}, done |-> reload[r].done \union {treeDir},
                      paths |-> reload[r].paths \union Tree!Listed(treeDir)]
  <2>1. /\ reload' = [reload EXCEPT ![r] = read]
        /\ UNCHANGED <<paths, knownDirs, loadedDirs, loadingDirs, expanded, treeStatus>>
    BY <1>5 DEF Tree!ReadOn
  <2>2. /\ reload' = [s \in Tree!Reloads |-> reload'[s]]
        /\ reload'[r] = read
        /\ \A s \in Tree!Reloads : s # r => reload'[s] = reload[s]
    BY <2>1 DEF TreeInv
  <2>3. ReadsRight' <=> \A s \in Tree!Reloads : reload'[s].paths = In(reload'[s].done)
    BY <1>5, SameFilesSameList
  <2>4. ~stale => read.paths = In(read.done)
    BY InSays DEF TreeInv, ReadsRight
  <2>5. ~stale' => ReadsRight'
    BY <1>5, <2>2, <2>3, <2>4 DEF TreeInv, ReadsRight
  <2>6. Tree!Busy' # {}
    <3>1. reload'[r].done # Tree!NoReload.done
      BY <2>2, NothingRead
    <3> QED
      BY <3>1 DEF Tree!Busy
  <2> QED
    BY <1>5, <2>1, <2>2, <2>5, <2>6 DEF TreeInv
<1>6. ASSUME NEW r \in Tree!Reloads, Tree!ReloadFails(r) PROVE TreeInv'
  <2>1. /\ reload' = [reload EXCEPT ![r] = Tree!NoReload] /\ failed' = TRUE
        /\ UNCHANGED <<workspace, paths, knownDirs, loadedDirs, loadingDirs, expanded, stale>>
    BY <1>6 DEF Tree!ReloadFails
  <2>2. /\ reload' = [s \in Tree!Reloads |-> reload'[s]]
        /\ \A s \in Tree!Reloads : reload'[s] = reload[s] \/ reload'[s] = Tree!NoReload
    BY <2>1 DEF TreeInv
  <2>3. ReadsRight' <=> \A s \in Tree!Reloads : reload'[s].paths = In(reload'[s].done)
    BY <2>1, SameFilesSameList
  <2>4. ~stale' => ReadsRight'
    BY <2>1, <2>2, <2>3, NothingRead, InSays DEF TreeInv, ReadsRight
  <2> QED
    BY <2>1, <2>2, <2>4 DEF TreeInv
<1>7. ASSUME UNCHANGED <<workspace, reload, changes, stale>>,
             expanded' \subseteq knownDirs', treeStatus' = "error" => failed',
             ~stale /\ ~failed /\ Shown => failed' \/ Shown', failed => failed'
      PROVE  TreeInv'
  <2>1. ReadsRight' <=> \A s \in Tree!Reloads : reload'[s].paths = In(reload'[s].done)
    BY <1>7, SameFilesSameList
  <2>2. Tree!Busy' = Tree!Busy
    BY <1>7 DEF Tree!Busy
  <2>3. ~stale' => ReadsRight'
    BY <1>7, <2>1 DEF TreeInv, ReadsRight
  <2> QED
    BY <1>7, <2>2, <2>3 DEF TreeInv
<1>8. ASSUME NEW treeDir, Tree!Toggle(treeDir) PROVE TreeInv'
  <2>1. /\ treeDir \in knownDirs /\ expanded' \subseteq expanded \union {treeDir}
        /\ loadingDirs' = loadingDirs \union ((expanded' \intersect knownDirs') \ loadedDirs')
        /\ treeStatus' \in {treeStatus, "Loading"}
        /\ UNCHANGED <<workspace, paths, knownDirs, loadedDirs, reload, changes, stale, failed>>
    BY <1>8 DEF Tree!Toggle, Tree!Subscriber
  <2>2. expanded' \subseteq knownDirs' /\ expanded' \subseteq loadedDirs' \union loadingDirs'
    BY <2>1 DEF TreeInv
  <2>3. Shown => Shown'
    BY <2>1, <2>2, SameFilesSameList DEF Shown, Tree!IsDirectory
  <2> QED
    BY <1>7, <2>1, <2>2, <2>3 DEF TreeInv
<1>9. ASSUME NEW treeDir, Tree!DirectoryLoaded(treeDir) PROVE TreeInv'
  <2>1. /\ loadedDirs' = loadedDirs \union {treeDir} /\ paths' = paths \union Tree!Listed(treeDir)
        /\ knownDirs' = knownDirs \union {p \in Tree!Listed(treeDir) : Tree!IsDirectory(p)}
        /\ expanded' = expanded \intersect knownDirs'
        /\ loadingDirs' = (loadingDirs \union ((expanded' \intersect knownDirs') \ loadedDirs'))
                            \ {treeDir}
        /\ treeStatus' = "paths"
        /\ UNCHANGED <<workspace, reload, changes, stale, failed>>
    BY <1>9 DEF Tree!DirectoryLoaded, Tree!applyPaths
  <2>2. expanded' \subseteq knownDirs' /\ expanded' \subseteq loadedDirs' \union loadingDirs'
    BY <2>1
  <2>3. ASSUME Shown PROVE Shown'
    <3>1. paths' = In(loadedDirs')
      BY <2>1, <2>3, InSays DEF Shown
    <3>2. In(loadedDirs)' = In(loadedDirs')
      BY <2>1 DEF In, Tree!Listed, Tree!listWorkspaceDirectory
    <3>3. knownDirs' = {p \in paths' : Tree!IsDirectory(p)}
      BY <2>1, <2>3 DEF Shown
    <3> QED
      BY <2>2, <3>1, <3>2, <3>3 DEF Shown, Tree!IsDirectory
  <2> QED
    BY <1>7, <2>1, <2>2, <2>3
<1>10. ASSUME NEW treeDir, Tree!LoadFails(treeDir) PROVE TreeInv'
  <2>1. /\ failed' = TRUE
        /\ UNCHANGED <<workspace, paths, knownDirs, loadedDirs, expanded, reload, changes, stale>>
    BY <1>10 DEF Tree!LoadFails
  <2> QED
    BY <1>7, <2>1 DEF TreeInv
<1>11. CASE UNCHANGED Tree!tree
  <2>1. UNCHANGED <<workspace, paths, knownDirs, loadedDirs, loadingDirs, expanded, treeStatus,
                    reload, changes, stale, failed>>
    BY <1>11 DEF Tree!tree
  <2>2. Shown => Shown'
    BY <2>1, SameFilesSameList DEF Shown, Tree!IsDirectory
  <2> QED
    BY <1>7, <2>1, <2>2 DEF TreeInv
<1>12. ASSUME NEW r \in Tree!Reloads, Tree!ReloadAnswered(r) PROVE TreeInv'
  BY <1>4, <1>5, <1>6, <1>12 DEF Tree!ReloadAnswered, Tree!ReloadListed
<1> QED
  BY <1>1, <1>2, <1>3, <1>8, <1>9, <1>10, <1>11, <1>12
    DEF Tree!Next, Tree!Answer, Tree!LoadAnswered

(***************************************************************************)
(* Whatever reads of the workspace overlap each other, the opening of      *)
(* directories and the changes of session and files: once they are over,   *)
(* none of them failed and the files are as they were, the tree shows just *)
(* what is in the directories it has read, those open among them           *)
(* (routes/index.tsx:841-961): the safety half of TreeRight.               *)
(***************************************************************************)
THEOREM SettledTreeIsRight == Tree!FairSpec => [](Tree!Settled => Tree!TreeShowsWorkspace)
<1>1. Tree!Init => TreeInv
  BY DEF Tree!Init, TreeInv
<1>2. TreeInv => (Tree!Settled => Tree!TreeShowsWorkspace)
  BY DEF TreeInv, Shown, In, Tree!Settled, Tree!AtRest, Tree!TreeShowsWorkspace, Tree!Truth
<1> QED
  BY <1>1, <1>2, TreeStep, PTL DEF Tree!FairSpec, Tree!Spec
=============================================================================
