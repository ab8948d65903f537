------------------------------- MODULE ToolCalls -------------------------------
(***************************************************************************)
(* The tools of a turn that act on the workspace: exec_command (exec.rs),  *)
(* apply_patch (apply_patch.rs) and the approvals they ask the page for,   *)
(* which has one slot for the prompt it shows (routes/index.tsx). Commands *)
(* run in parallel, the patch runs alone (TurnLoop). A patch is a sequence *)
(* of hunks, each applied by one to three calls of the host, any of which  *)
(* may fail, and nothing is rolled back.                                   *)
(***************************************************************************)
EXTENDS Naturals, Sequences

CONSTANTS
  Execs, Patch,   \* call ids
  NoCall,
  Paths,
  MaxHunks        \* bound on the hunks of a patch

VARIABLES
  config,          \* what the core asks approval for
  call,            \* per call: how far it is, and how it was answered
  pendingApproval, \* the page's prompt
  overwritten,     \* a prompt was replaced before it was answered
  approved,        \* calls the user approved
  started,         \* calls that reached the host
  contents,        \* of each path, in the eyes of a patch
  before, hunks,   \* contents when the patch began, and its hunks
  applied, step    \* hunks applied, and the host call the next one is at

tools == <<config, call, pendingApproval, overwritten, approved, started,
           contents, before, hunks, applied, step>>

Calls == Execs \union {Patch}

\* An update finds its lines in the old text and makes it the new one.
Texts == {"absent", "old", "new"}

Hunk(kind, path, to) == [kind |-> kind, path |-> path, to |-> to]

Hunks == {Hunk(kind, p, p) : kind \in {"add", "delete", "update"}, p \in Paths}
           \union {Hunk("move", p, to) : p \in Paths, to \in Paths}

runtimePermissionConfig(permissionMode) ==
  CASE permissionMode = "default"     -> [exec |-> "ask", patch |-> TRUE]
    [] permissionMode = "auto-review" -> [exec |-> "ask", patch |-> FALSE]
    [] permissionMode = "full-access" -> [exec |-> "auto", patch |-> FALSE]

PageConfigs == {runtimePermissionConfig(mode) : mode \in {"default", "auto-review", "full-access"}}

\* A host other than the page may configure the core to deny.
Init ==
  /\ config \in PageConfigs \union {[exec |-> "deny", patch |-> TRUE]}
  /\ call = [c \in Calls |-> "called"]
  /\ pendingApproval = NoCall /\ overwritten = FALSE
  /\ approved = {} /\ started = {}
  /\ contents \in [Paths -> {"absent", "old"}]
  /\ before = contents /\ hunks = << >> /\ applied = 0 /\ step = "none"

MoveTo(c, at) == call' = [call EXCEPT ![c] = at]

Answered(c) == call[c] \in {"ok", "error", "denied", "refused"}

\* The model calls commands first, which share a batch, and then the patch.
MayBegin(c) ==
  /\ call[c] = "called"
  /\ c = Patch => \A d \in Execs : Answered(d)

(***************************************************************************)
(* approvalHost, and the page's handler: a new prompt takes the slot.      *)
(***************************************************************************)
Asks(c) == IF c = Patch THEN config.patch ELSE config.exec = "ask"

Prompt(c) ==
  /\ pendingApproval' = c
  /\ overwritten' = (overwritten \/ pendingApproval # NoCall)
  /\ MoveTo(c, "asked")

AskOrGo(c) ==
  IF Asks(c) THEN Prompt(c)
             ELSE MoveTo(c, "going") /\ UNCHANGED <<pendingApproval, overwritten>>

\* The Approve and Deny buttons.
\* Seeded bug: Deny closes the prompt and answers nobody.
resolveApprovalUnheard ==
  /\ pendingApproval # NoCall /\ pendingApproval' = NoCall
  /\ \/ MoveTo(pendingApproval, "going") /\ approved' = approved \union {pendingApproval}
     \/ UNCHANGED <<call, approved>>
  /\ UNCHANGED <<config, overwritten, started, contents, before, hunks, applied, step>>

resolveApproval ==
  /\ pendingApproval # NoCall /\ pendingApproval' = NoCall
  /\ \/ MoveTo(pendingApproval, "going") /\ approved' = approved \union {pendingApproval}
     \/ MoveTo(pendingApproval, "denied") /\ UNCHANGED approved
  /\ UNCHANGED <<config, overwritten, started, contents, before, hunks, applied, step>>

(***************************************************************************)
(* exec_command. What the command does to the files is not modelled, nor   *)
(* whether the host starts it or reports an error.                         *)
(***************************************************************************)
\* No command, an escalation it does not know, or a path outside.
Refuse(c) ==
  /\ MayBegin(c)
  /\ MoveTo(c, "refused")
  /\ UNCHANGED <<config, pendingApproval, overwritten, approved, started, contents, before,
                 hunks, applied, step>>

ExecCommand(c) ==
  /\ MayBegin(c)
  /\ IF config.exec = "deny" THEN MoveTo(c, "denied") /\ UNCHANGED <<pendingApproval, overwritten>>
                             ELSE AskOrGo(c)
  /\ UNCHANGED <<config, approved, started, contents, before, hunks, applied, step>>

StartExec(c) ==
  /\ call[c] = "going"
  /\ started' = started \union {c}
  /\ MoveTo(c, "ok")
  /\ UNCHANGED <<config, pendingApproval, overwritten, approved, contents, before, hunks,
                 applied, step>>

(***************************************************************************)
(* apply_patch. A patch that does not parse is refused.                    *)
(***************************************************************************)
FirstStep(hunk) ==
  CASE hunk.kind = "add" -> "write"
    [] hunk.kind = "delete" -> "remove"
    [] OTHER -> "read"

ApplyPatch ==
  /\ MayBegin(Patch)
  /\ \E n \in 0 .. MaxHunks : hunks' \in [1 .. n -> Hunks]
  /\ AskOrGo(Patch)
  /\ UNCHANGED <<config, approved, started, contents, before, applied, step>>

NextHunk == hunks[applied + 1]

\* apply_hunks: a patch without hunks is an error.
BeginHunk ==
  /\ call[Patch] = "going" /\ step = "none"
  /\ started' = started \union {Patch}
  /\ IF applied < Len(hunks)
     THEN step' = FirstStep(NextHunk) /\ UNCHANGED call
     ELSE MoveTo(Patch, IF hunks = << >> THEN "error" ELSE "ok") /\ UNCHANGED step
  /\ UNCHANGED <<config, pendingApproval, overwritten, approved, contents, before, hunks, applied>>

HunkDone(now) ==
  /\ contents' = now
  /\ step' = "none" /\ applied' = applied + 1

\* The lines of an update are looked for in what was read.
ReadFile ==
  /\ step = "read" /\ contents[NextHunk.path] = "old"
  /\ step' = "write"
  /\ UNCHANGED <<contents, applied>>

\* Seeded bug: a move removes the source before it writes the destination.
WriteFileLate ==
  /\ step = "write"
  /\ IF NextHunk.kind = "move" /\ contents[NextHunk.path] # "absent" /\ NextHunk.to # NextHunk.path
     THEN /\ contents' = [contents EXCEPT ![NextHunk.path] = "absent"]
          /\ UNCHANGED <<step, applied>>
     ELSE HunkDone([contents EXCEPT ![NextHunk.to] = "new"])

WriteFile ==
  /\ step = "write"
  /\ LET now == [contents EXCEPT ![NextHunk.to] = "new"]
     IN  IF NextHunk.kind = "move" THEN contents' = now /\ step' = "remove" /\ UNCHANGED applied
                                ELSE HunkDone(now)

RemoveFile ==
  /\ step = "remove" /\ contents[NextHunk.path] # "absent"
  /\ HunkDone([contents EXCEPT ![NextHunk.path] = "absent"])

HostAnswers ==
  /\ ReadFile \/ WriteFile \/ RemoveFile
  /\ UNCHANGED <<config, call, pendingApproval, overwritten, approved, started, before, hunks>>

\* The file is missing, its lines are not found, or the call fails.
HunkFails ==
  /\ step # "none" /\ step' = "none"
  /\ MoveTo(Patch, "error")
  /\ UNCHANGED <<config, pendingApproval, overwritten, approved, started, contents, before,
                 hunks, applied>>

-----------------------------------------------------------------------------

User == resolveApproval

Tool ==
  \/ \E c \in Calls : Refuse(c)
  \/ \E c \in Execs : ExecCommand(c) \/ StartExec(c)
  \/ ApplyPatch \/ BeginHunk \/ HostAnswers \/ HunkFails

Next == User \/ Tool

-----------------------------------------------------------------------------

\* Nothing reaches the host that the user had to approve and did not.
NothingUnapproved == \A c \in started : ~Asks(c) \/ c \in approved

\* A prompt that waits is shown, unless another one took its place.
PromptsShown == \A c \in Calls : call[c] = "asked" => pendingApproval = c \/ overwritten

\* What the user denies is not done, and a call is answered if its prompt is:
\* for a user who answers what he is shown, every call that asks ends, unless
\* a second prompt was made while one was open (index.tsx:160-164, 304-307,
\* exec.rs:92-124, apply_patch.rs:162-190).
ApprovalsRight ==
  /\ [](NothingUnapproved /\ PromptsShown)
  /\ \A c \in Calls : call[c] = "asked" ~> Answered(c) \/ overwritten

Touches(hunk, path) == path \in {hunk.path, hunk.to}

TextLeft(hunk, path) == IF hunk.kind # "delete" /\ path = hunk.to THEN "new" ELSE "absent"

\* What the first n hunks make of a path: what the last of them that touches
\* it leaves.
After(n, path, text) ==
  \/ text = before[path] /\ \A k \in 1 .. n : ~Touches(hunks[k], path)
  \/ \E k \in 1 .. n :
       /\ Touches(hunks[k], path) /\ text = TextLeft(hunks[k], path)
       /\ \A j \in k + 1 .. n : ~Touches(hunks[j], path)

MovesOntoItself == \E k \in DOMAIN hunks : hunks[k].kind = "move" /\ hunks[k].to = hunks[k].path

\* Between two calls of the host the files are those of a beginning of the
\* patch, or a file that is being moved is in both places and never in none; a
\* patch that is reported as applied is applied in full and in order, and one
\* that is not approved leaves everything as it was. A move onto itself, which
\* deletes the file, is left out (apply_patch.rs:487-539).
PatchesInOrder ==
  MovesOntoItself \/
    /\ \/ \A p \in Paths : After(applied, p, contents[p])
       \/ /\ applied < Len(hunks) /\ NextHunk.kind = "move"
          /\ \A p \in Paths \ {NextHunk.to} : After(applied, p, contents[p])
          /\ contents[NextHunk.to] = "new"
    /\ call[Patch] = "ok" => applied = Len(hunks)
    /\ Patch \notin started => contents = before
=============================================================================
