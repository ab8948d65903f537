------------------------------ MODULE RuntimeBoot ------------------------------
(***************************************************************************)
(* BrowserCodexRuntime.init (index.ts): the WebContainer, of which a page  *)
(* may boot one, and the WASM modules are shared by all runtimes of the    *)
(* page through promises kept in globalThis, and so survive a hot reload   *)
(* of the module; what a runtime has made of them it keeps, even when its  *)
(* init fails later. Whoever awaits a shared promise is answered with it.  *)
(***************************************************************************)
EXTENDS Naturals, Functions

CONSTANTS
  Runtimes, Callers,
  Keys,          \* URLs of the WASM module
  MaxFaults      \* bound on what may fail

VARIABLES
  container,     \* __browserCodexWebContainer: no promise, booting or an instance
  boots,         \* WebContainer.boot calls that have not failed
  modules,       \* __browserCodexWasmModules
  runtime,       \* per runtime: its URLs, initPromise, and what it has
  caller,        \* per caller of a runtime's init
  faults

boot == <<container, boots, modules, runtime, caller, faults>>

Parts == {"webcontainer", "wasm", "host", "store", "snapshotStore"}

\* createRuntime
Init ==
  /\ container = "none" /\ boots = 0 /\ modules = [k \in Keys |-> "none"]
  /\ runtime \in [Runtimes -> [key : Keys, at : {"none"}, has : {{}}]]
  /\ caller = [c \in Runtimes \X Callers |-> "none"]
  /\ faults = 0

Waiting(step) == {r \in Runtimes : runtime[r].at = step}

WaitingFor(k) == {r \in Waiting("wasm") : runtime[r].key = k}

\* The required getters throw while a part is undefined.
Required(r) == runtime[r].has = Parts

(***************************************************************************)
(* init and doInit. The import of the chunks is awaited first.             *)
(***************************************************************************)
CallInit(r, c) ==
  /\ caller[<<r, c>>] \in {"none", "rejected"}
  /\ caller' = [caller EXCEPT ![<<r, c>>] = IF runtime[r].at = "done" THEN "resolved" ELSE "waiting"]
  /\ runtime' = IF runtime[r].at = "none" THEN [runtime EXCEPT ![r].at = "imports"]
                                          ELSE runtime
  /\ UNCHANGED <<container, boots, modules, faults>>

\* Each runtime of rs has a WebContainer and goes on to its WASM module.
loadSharedWasmModule(rs) ==
  /\ runtime' = [r \in Runtimes |->
       IF r \notin rs THEN runtime[r]
       ELSE [runtime[r] EXCEPT !.has = @ \union {"webcontainer"},
                               !.at = IF "wasm" \in runtime[r].has THEN "store" ELSE "wasm"]]
  /\ modules' = [k \in Keys |->
       IF modules[k] = "none" /\ \E r \in rs : runtime[r].key = k /\ "wasm" \notin runtime[r].has
       THEN "loading" ELSE modules[k]]

bootSharedWebContainer(r) ==
  /\ runtime' = [runtime EXCEPT ![r].at = "boot"]
  /\ container' = "booting"
  /\ boots' = IF container = "none" THEN boots + 1 ELSE boots
  /\ UNCHANGED modules

Imported(r) ==
  /\ runtime[r].at = "imports"
  /\ IF container = "instance" \/ "webcontainer" \in runtime[r].has
     THEN loadSharedWasmModule({r}) /\ UNCHANGED <<container, boots>>
     ELSE bootSharedWebContainer(r)
  /\ UNCHANGED <<caller, faults>>

Booted ==
  /\ container = "booting"
  /\ container' = "instance"
  /\ loadSharedWasmModule(Waiting("boot"))
  /\ UNCHANGED <<boots, caller, faults>>

\* The host, the store and the snapshot store are made, and the store is opened.
WasmLoaded(k) ==
  /\ WaitingFor(k) # {}
  /\ modules' = [modules EXCEPT ![k] = "loaded"]
  /\ runtime' = [r \in Runtimes |->
       IF r \in WaitingFor(k) THEN [runtime[r] EXCEPT !.has = Parts, !.at = "store"]
                              ELSE runtime[r]]
  /\ UNCHANGED <<container, boots, caller, faults>>

StoreOpened(r) ==
  /\ runtime[r].at = "store"
  /\ runtime' = [runtime EXCEPT ![r].at = "done"]
  /\ caller' = [c \in DOMAIN caller |->
       IF c[1] = r /\ caller[c] = "waiting" THEN "resolved" ELSE caller[c]]
  /\ UNCHANGED <<container, boots, modules, faults>>

(***************************************************************************)
(* Failures: a promise that rejects is forgotten by whoever keeps it.      *)
(***************************************************************************)
\* Seeded bug: the rejected init is kept.
FailedRemembered(rs) ==
  /\ faults < MaxFaults /\ faults' = faults + 1
  /\ runtime' = [r \in Runtimes |->
       IF r \in rs THEN [runtime[r] EXCEPT !.at = "failed"] ELSE runtime[r]]
  /\ caller' = [c \in DOMAIN caller |->
       IF c[1] \in rs /\ caller[c] = "waiting" THEN "rejected" ELSE caller[c]]

Failed(rs) ==
  /\ faults < MaxFaults /\ faults' = faults + 1
  /\ runtime' = [r \in Runtimes |->
       IF r \in rs THEN [runtime[r] EXCEPT !.at = "none"] ELSE runtime[r]]
  /\ caller' = [c \in DOMAIN caller |->
       IF c[1] \in rs /\ caller[c] = "waiting" THEN "rejected" ELSE caller[c]]

ImportOrStoreFails(r) ==
  /\ runtime[r].at \in {"imports", "store"}
  /\ Failed({r})
  /\ UNCHANGED <<container, boots, modules>>

BootFails ==
  /\ container = "booting"
  /\ container' = "none" /\ boots' = boots - 1
  /\ Failed(Waiting("boot"))
  /\ UNCHANGED modules

WasmFails(k) ==
  /\ modules[k] = "loading"
  /\ modules' = [modules EXCEPT ![k] = "none"]
  /\ Failed(WaitingFor(k))
  /\ UNCHANGED <<container, boots>>

-----------------------------------------------------------------------------

Call == \E r \in Runtimes, c \in Callers : CallInit(r, c)

Answer ==
  \/ Booted \/ BootFails
  \/ \E k \in Keys : WasmLoaded(k) \/ WasmFails(k)
  \/ \E r \in Runtimes : Imported(r) \/ StoreOpened(r) \/ ImportOrStoreFails(r)

Next == Call \/ Answer

-----------------------------------------------------------------------------

\* No two WebContainers are booted, which a page may not, and who is told that
\* init is over can use every part of the runtime (index.ts:350-391, 426-446).
OneContainer == boots <= 1
ReadyIsReady == \A r \in Runtimes, c \in Callers : caller[<<r, c>>] = "resolved" => Required(r)

\* Whatever failed before, and whoever else waits, init succeeds once nothing
\* fails any more: no failed promise is kept (index.ts:90-95, 436-466).
BootRight ==
  /\ [](OneContainer /\ ReadyIsReady)
  /\ faults = MaxFaults /\ "waiting" \in Range(caller) ~> "waiting" \notin Range(caller)
=============================================================================
