--------------------------- MODULE WorkspaceFileTree ---------------------------
(***************************************************************************)
(* The file tree of the page (routes/index.tsx) over the workspace that    *)
(* listWorkspaceDirectory reads: the directories read so far are read      *)
(* again after each turn, and a directory when it is first opened. Reads   *)
(* overlap each other and what changes the files.                          *)
(*                                                                         *)
(* A path is a sequence of names. In the tree a directory's ends with the  *)
(* empty name (its slash), in the workspace each begins with "workspace".  *)
(***************************************************************************)
EXTENDS Naturals, Sequences, SequencesExt

CONSTANTS
  MaxReloads,  \* bound on the reloads under way at a time
  MaxChanges   \* bound on the changes of the workspace and of its session

\* A directory with a file or without it, and another one beside it or not.
Workspaces ==
  {{}, {<<"d", "">>}, {<<"d", "">>, <<"d", "g">>}, {<<"d", "">>, <<"d", "g">>, <<"e", "">>}}

Directories == {<<"d", "">>, <<"e", "">>}

VARIABLES
  workspace,    \* the files and directories, as tree paths
  paths, knownDirs, loadedDirs, loadingDirs,   \* the refs of the component
  expanded,     \* directories open in the tree's model
  treeStatus,
  reload,       \* per reload under way: what it has read and has yet to
  changes,
  stale,        \* the files may differ from what was there for the reads
  failed        \* a read has failed since

tree == <<workspace, paths, knownDirs, loadedDirs, loadingDirs, expanded,
          treeStatus, reload, changes, stale, failed>>

Reloads == 1 .. MaxReloads

Root == << >>

IsDirectory(treePath) == treePath # Root /\ Last(treePath) = ""

workspaceEntryToTreePath(entry) ==
  Tail(entry.path) \o IF entry.kind = "directory" THEN <<"">> ELSE << >>

treeDirToWorkspacePath(treeDir) ==
  <<"workspace">> \o IF treeDir = Root THEN Root ELSE Front(treeDir)

\* What readDir finds at a path of the workspace.
Entry(treePath) ==
  [path |-> <<"workspace">> \o (IF IsDirectory(treePath) THEN Front(treePath) ELSE treePath),
   kind |-> IF IsDirectory(treePath) THEN "directory" ELSE "file"]

listWorkspaceDirectory(path) == {entry \in {Entry(p) : p \in workspace} : Front(entry.path) = path}

Listed(treeDir) ==
  {workspaceEntryToTreePath(entry) : entry \in listWorkspaceDirectory(treeDirToWorkspacePath(treeDir))}

Exists(treeDir) == treeDir = Root \/ treeDir \in workspace

NoReload == [todo |-> {}, done |-> {}, paths |-> {}]

Init ==
  /\ workspace \in Workspaces
  /\ paths = {} /\ knownDirs = {} /\ loadedDirs = {} /\ loadingDirs = {}
  /\ expanded = {} /\ treeStatus = "Waiting for workspace"
  /\ reload = [r \in Reloads |-> NoReload]
  /\ changes = 0 /\ stale = TRUE /\ failed = FALSE

Busy == {r \in Reloads : reload[r] # NoReload}

AtRest == Busy = {} /\ loadingDirs = {}

(***************************************************************************)
(* applyPaths resets the model, which keeps the open directories open and  *)
(* tells its subscriber; that reads every open directory not yet read.     *)
(***************************************************************************)
Subscriber == loadingDirs' = loadingDirs \union ((expanded' \intersect knownDirs') \ loadedDirs')

\* Seeded bug: the reset does not tell the subscriber.
applyPathsSilently(listedDir) ==
  /\ expanded' = expanded \intersect knownDirs'
  /\ loadingDirs' = loadingDirs \ listedDir

applyPaths(listedDir) ==
  /\ expanded' = expanded \intersect knownDirs'
  /\ loadingDirs' = (loadingDirs \union ((expanded' \intersect knownDirs') \ loadedDirs')) \ listedDir

(***************************************************************************)
(* reloadLoadedDirectories and its two effects.                            *)
(***************************************************************************)
DirsToRead(reset) == IF reset \/ loadedDirs = {} THEN {Root} ELSE loadedDirs

Reload(reset) == [NoReload EXCEPT !.todo = DirsToRead(reset)]

SelectSession ==
  /\ changes < MaxChanges /\ changes' = changes + 1
  /\ workspace' \in Workspaces
  /\ \E q, r \in Reloads \ Busy :
       /\ q < r
       /\ reload' = [reload EXCEPT ![q] = Reload(TRUE), ![r] = Reload(FALSE)]
  /\ treeStatus' = "Loading"
  /\ stale' = ~AtRest /\ failed' = (failed /\ ~AtRest)
  /\ UNCHANGED <<paths, knownDirs, loadedDirs, loadingDirs, expanded>>

\* refreshKey has changed.
Refresh ==
  /\ treeStatus # "Waiting for workspace"
  /\ \E r \in Reloads \ Busy :
       /\ \A q \in 1 .. r - 1 : q \in Busy
       /\ reload' = [reload EXCEPT ![r] = Reload(FALSE)]
  /\ treeStatus' = "Loading"
  /\ stale' = (stale /\ ~AtRest) /\ failed' = (failed /\ ~AtRest)
  /\ UNCHANGED <<workspace, paths, knownDirs, loadedDirs, loadingDirs, expanded, changes>>

Replace(r, treeDir) ==
  LET found == reload[r].paths \union Listed(treeDir)
  IN  /\ reload[r].todo = {treeDir}
      /\ paths' = found /\ loadedDirs' = reload[r].done \union {treeDir}
      /\ knownDirs' = {p \in found : IsDirectory(p)}
      /\ reload' = [reload EXCEPT ![r] = NoReload]
      /\ applyPaths({})
      /\ treeStatus' = "paths"

ReadOn(r, treeDir) ==
  /\ reload[r].todo # {treeDir}
  /\ reload' = [reload EXCEPT ![r] = [todo |-> @.todo \ {treeDir}, done |-> @.done \union {treeDir},
                                      paths |-> @.paths \union Listed(treeDir)]]
  /\ UNCHANGED <<paths, knownDirs, loadedDirs, loadingDirs, expanded, treeStatus>>

ReloadListed(r) ==
  /\ \E treeDir \in reload[r].todo :
       Exists(treeDir) /\ (Replace(r, treeDir) \/ ReadOn(r, treeDir))
  /\ UNCHANGED <<workspace, changes, stale, failed>>

ReloadFails(r) ==
  /\ \E treeDir \in reload[r].todo : ~Exists(treeDir)
  /\ reload' = [reload EXCEPT ![r] = NoReload]
  /\ treeStatus' = "error" /\ failed' = TRUE
  /\ UNCHANGED <<workspace, paths, knownDirs, loadedDirs, loadingDirs, expanded, changes, stale>>

(***************************************************************************)
(* loadDirectory.                                                          *)
(***************************************************************************)
Toggle(treeDir) ==
  /\ treeDir \in knownDirs
  /\ expanded' = IF treeDir \in expanded THEN expanded \ {treeDir} ELSE expanded \union {treeDir}
  /\ UNCHANGED <<workspace, paths, knownDirs, loadedDirs, reload, changes, stale, failed>>
  /\ Subscriber
  /\ treeStatus' = IF loadingDirs' = loadingDirs THEN treeStatus ELSE "Loading"

DirectoryLoaded(treeDir) ==
  /\ treeDir \in loadingDirs /\ Exists(treeDir)
  /\ loadedDirs' = loadedDirs \union {treeDir}
  /\ paths' = paths \union Listed(treeDir)
  /\ knownDirs' = knownDirs \union {p \in Listed(treeDir) : IsDirectory(p)}
  /\ applyPaths({treeDir})
  /\ treeStatus' = "paths"
  /\ UNCHANGED <<workspace, reload, changes, stale, failed>>

LoadFails(treeDir) ==
  /\ treeDir \in loadingDirs /\ ~Exists(treeDir)
  /\ loadingDirs' = loadingDirs \ {treeDir}
  /\ treeStatus' = "error" /\ failed' = TRUE
  /\ UNCHANGED <<workspace, paths, knownDirs, loadedDirs, expanded, reload, changes, stale>>

\* A turn or the terminal changes the files, before the page hears of it.
FilesChange ==
  /\ changes < MaxChanges /\ changes' = changes + 1
  /\ workspace' \in Workspaces \ {workspace}
  /\ stale' = TRUE
  /\ UNCHANGED <<paths, knownDirs, loadedDirs, loadingDirs, expanded, treeStatus, reload, failed>>

-----------------------------------------------------------------------------

ReloadAnswered(r) == ReloadListed(r) \/ ReloadFails(r)

LoadAnswered(treeDir) == DirectoryLoaded(treeDir) \/ LoadFails(treeDir)

Answer ==
  \/ \E r \in Reloads : ReloadAnswered(r)
  \/ \E treeDir \in Directories : LoadAnswered(treeDir)

Next ==
  \/ SelectSession \/ Refresh \/ FilesChange \/ Answer
  \/ \E treeDir \in knownDirs : Toggle(treeDir)

Spec == Init /\ [][Next]_tree

(***************************************************************************)
(* Every read is answered; the user and the runtime have to do nothing.    *)
(***************************************************************************)
FairSpec ==
  /\ Spec
  /\ \A r \in Reloads : WF_tree(ReloadAnswered(r))
  /\ \A treeDir \in Directories : WF_tree(LoadAnswered(treeDir))

-----------------------------------------------------------------------------

\* The entries of the directories that were read.
Truth == UNION {Listed(treeDir) : treeDir \in loadedDirs}

\* Reads are over, none of them failed, and the files are as they were.
Settled == AtRest /\ ~stale /\ ~failed

TreeShowsWorkspace ==
  /\ paths = Truth
  /\ knownDirs = {p \in paths : IsDirectory(p)}
  /\ expanded \subseteq loadedDirs
  /\ treeStatus # "error"

\* Whatever reads overlapped: once they are over, none of them failed and the
\* files have not changed since they began, the tree shows just what is in the
\* directories it has read, and has read every one that is open; and a
\* directory that the user opens comes to be read, although reloads forget the
\* reads they overlap (index.tsx:841-961).
TreeRight ==
  /\ [](Settled => TreeShowsWorkspace)
  /\ \A treeDir \in Directories :
       treeDir \in expanded ~> treeDir \in loadedDirs \/ treeDir \notin expanded \/ failed
=============================================================================
