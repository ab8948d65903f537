-------------------------------- MODULE MCWidgets --------------------------------
(***************************************************************************)
(* The parts of the page that share no state with each other: a behaviour  *)
(* is one of one of them, and the others stay as they began.               *)
(***************************************************************************)
EXTENDS Naturals, Sequences

CONSTANTS
  Runtimes, Callers, Keys, MaxFaults,
  MaxEffects,
  MaxDialogs,
  Execs, Patch, NoCall, Paths, MaxHunks,
  Backslashed, Asked, MaxFileCalls,
  exec1, exec2, patch, f, g

ASSUME CallsAssumption == Patch \notin Execs /\ NoCall \notin Execs \union {Patch}

ASSUME BoundsAssumption == MaxEffects \in Nat /\ MaxHunks \in Nat

\* A path has a name at least, the empty path the empty one.
ASSUME AskedAssumption ==
  \A asked \in Asked :
    Len(asked) \in Nat \ {0} /\ asked = [i \in 1 .. Len(asked) |-> asked[i]]

\* Backslashes separate names that have none, and the code's own names have none.
ASSUME BackslashedAssumption ==
  /\ DOMAIN Backslashed \intersect {"", "/", "workspace", "session.md", "notes"} = {}
  /\ \A name \in DOMAIN Backslashed :
       LET between == Backslashed[name]
       IN  /\ Len(between) \in Nat \ {0} /\ between = [i \in 1 .. Len(between) |-> between[i]]
           /\ \A i \in 1 .. Len(between) : between[i] \notin DOMAIN Backslashed

VARIABLES
  part,
  container, boots, modules, runtime, caller, faults,
  isReady, sessionId, effects, cancelled, shell, shellRef, writes, status,
  open, dialog, loading, confirming, confirmed, threw,
  config, call, pendingApproval, overwritten, approved, started,
  contents, before, hunks, applied, step,
  files, latest, exported, restored, fileCalls

BackslashedNames == [name \in {"d\\g"} |-> <<"d", "g">>]

\* What a model asks for: names, absolute paths, detours, one with a backslash,
\* and some refused.
AskedPaths ==
  {<<"d", "g">>, <<"", "workspace", "d">>, <<".", "d", "..", "npm.log">>, <<"dist", "", "o">>,
   <<"", "", "workspace">>, <<"workspace", "">>, <<"..", "x">>, <<"">>, <<"d\\g">>}

Boot == INSTANCE RuntimeBoot
Terminal == INSTANCE TerminalPanel
Dialog == INSTANCE ConfirmDialog
Tools == INSTANCE ToolCalls
Files == INSTANCE WorkspaceFiles

boot == <<container, boots, modules, runtime, caller, faults>>
terminal == <<isReady, sessionId, effects, cancelled, shell, shellRef, writes, status>>
confirmDialog == <<open, dialog, loading, confirming, confirmed, threw>>
tools == <<config, call, pendingApproval, overwritten, approved, started,
           contents, before, hunks, applied, step>>
workspaceFiles == <<files, latest, exported, restored, fileCalls>>
vars == <<part, boot, terminal, confirmDialog, tools, workspaceFiles>>

\* The parts that do not move begin in one state.
Rests(what) == part # what

Init ==
  /\ part \in {"boot", "terminal", "dialog", "tools", "files"}
  /\ Boot!Init /\ (Rests("boot") => \A r, q \in Runtimes : runtime[r] = runtime[q]
                                                           /\ runtime[r].key = CHOOSE k \in Keys : TRUE)
  /\ Terminal!Init
  /\ Dialog!Init
  /\ Tools!Init /\ (Rests("tools") => config.exec = "auto" /\ \A p \in Paths : contents[p] = "old")
  /\ Files!Init

BootMoves(action) ==
  /\ part = "boot" /\ action
  /\ UNCHANGED <<part, terminal, confirmDialog, tools, workspaceFiles>>

TerminalMoves(action) ==
  /\ part = "terminal" /\ action
  /\ UNCHANGED <<part, boot, confirmDialog, tools, workspaceFiles>>

DialogMoves(action) ==
  /\ part = "dialog" /\ action
  /\ UNCHANGED <<part, boot, terminal, tools, workspaceFiles>>

ToolsMove(action) ==
  /\ part = "tools" /\ action
  /\ UNCHANGED <<part, boot, terminal, confirmDialog, workspaceFiles>>

FilesMove(action) ==
  /\ part = "files" /\ action
  /\ UNCHANGED <<part, boot, terminal, confirmDialog, tools>>

Next ==
  \/ BootMoves(Boot!Next) \/ TerminalMoves(Terminal!Next)
  \/ DialogMoves(Dialog!Next) \/ ToolsMove(Tools!Next) \/ FilesMove(Files!Next)

(***************************************************************************)
(* What was awaited is answered, and an approval the page shows as well;   *)
(* apart from that the user has to do nothing.                             *)
(***************************************************************************)
FairSpec ==
  /\ Init /\ [][Next]_vars
  /\ WF_vars(BootMoves(Boot!Answer))
  /\ WF_vars(TerminalMoves(Terminal!Spawned))
  /\ WF_vars(DialogMoves(Dialog!Answer))
  /\ WF_vars(ToolsMove(Tools!Next))

BootRight == Boot!BootRight
TerminalRight == Terminal!TerminalRight
DialogRight == Dialog!DialogRight
ApprovalsRight == Tools!ApprovalsRight
PatchesInOrder == Tools!PatchesInOrder
FilesRight == Files!FilesRight
=============================================================================
