---------------------------- MODULE WorkspaceFiles ----------------------------
(***************************************************************************)
(* The host's file system calls over WebContainer's (webcontainer-host.ts) *)
(* and the snapshot of the workspace in OPFS (workspace-snapshots.ts). The *)
(* contents of a file do not matter here, only whether there is one.       *)
(***************************************************************************)
EXTENDS WorkspacePaths, Functions

CONSTANTS
  Asked,        \* paths a model asks tools for
  MaxFileCalls  \* bound on the calls

VARIABLES
  files,     \* WebContainer's: "directory" or "file" by container path
  latest,    \* latest.wcsnap, NoSnapshot if there is none
  exported,  \* the files it was made of
  restored,  \* nothing has changed since a snapshot was restored
  fileCalls

workspaceFiles == <<files, latest, exported, restored, fileCalls>>

Workspace == <<"workspace">>

\* The entries of a tree, and the tree that has those of two, of the first where
\* both have one.
Only(kind, paths) == [path \in paths |-> kind]

Over(above, tree) ==
  [path \in DOMAIN above \union DOMAIN tree |->
     IF path \in DOMAIN above THEN above[path] ELSE tree[path]]

NoSnapshot == Only("none", {Invalid})

DefaultTree ==
  Over(Only("directory", {Workspace}), Only("file", {Workspace \o <<"session.md">>}))

Init ==
  /\ files = DefaultTree
  /\ latest = NoSnapshot /\ exported = NoSnapshot
  /\ restored = FALSE /\ fileCalls = 0

Is(path, kind) == path \in DOMAIN files /\ files[path] = kind

Below(path) == {p \in DOMAIN files : IsStrictPrefix(path, p)}

Way(path) == Prefixes(path) \ {<< >>}

\* fs.mkdir with recursive: every missing directory on the way.
CanMake(path) == \A p \in Way(path) : p \in DOMAIN files => files[p] = "directory"

Made(path) == Over(files, Only("directory", Way(path)))

(***************************************************************************)
(* WebContainerHostFileSystem. Every path a tool gives it was resolved by  *)
(* the core; a call that throws changes nothing.                           *)
(***************************************************************************)
readDir(path) ==
  LET dir == toContainerPath(path)
  IN  {[path |-> fromContainerPath(p), is_dir |-> Is(p, "directory"), is_file |-> Is(p, "file")] :
         p \in {p \in DOMAIN files : parentPath(p) = dir}}

metadata(path) ==
  LET containerPath == toContainerPath(path)
  IN  CASE Is(containerPath, "file") -> "file"
        [] Is(containerPath, "directory") -> "directory"
        [] OTHER -> "throws"

\* snapshotText: a directory that cannot be read counts as empty.
snapshotDirectory ==
  LET under[path \in {<<"">> \o p : p \in {p \in DOMAIN files : AtOrBelow(p, Workspace)}}] ==
        LET entries == readDir(path)
        IN  {e.path : e \in {e \in entries : e.is_file}} \union
            UNION {under[e.path] : e \in {e \in entries : e.is_dir}}
  IN  IF Workspace \in DOMAIN files THEN under[Root] ELSE {}

Changes(call) ==
  /\ fileCalls < MaxFileCalls /\ fileCalls' = fileCalls + 1
  /\ restored' = FALSE /\ UNCHANGED <<latest, exported>>
  /\ call

writeFile(path) ==
  LET containerPath == toContainerPath(path)
  IN  /\ CanMake(parentPath(containerPath)) /\ ~Is(containerPath, "directory")
      /\ files' = Over(Only("file", {containerPath}), Made(parentPath(containerPath)))

mkdir(path) ==
  /\ CanMake(toContainerPath(path))
  /\ files' = Made(toContainerPath(path))

remove(path, recursive) ==
  LET containerPath == toContainerPath(path)
  IN  /\ recursive \/ Is(containerPath, "file")
      /\ files' = Restrict(files, DOMAIN files \ ({containerPath} \union Below(containerPath)))

\* How WebContainer itself reads a detour, which only backslashes bring past the
\* path policy, is left out.
Straight(path) ==
  /\ path # Invalid
  /\ \A k \in DOMAIN path : path[k] \notin {"", ".", ".."}

FileCall ==
  \E asked \in Asked :
    LET absolute == resolve(asked)
    IN  /\ absolute # Invalid /\ Straight(toContainerPath(absolute))
        /\ Changes(\/ writeFile(absolute) \/ mkdir(absolute)
                   \/ \E recursive \in BOOLEAN : remove(absolute, recursive))

(***************************************************************************)
(* Snapshots. What a build makes anew is not in them, and as a snapshot is *)
(* a tree, nothing below a log either.                                     *)
(***************************************************************************)
ExcludedDirectories == {"dist", "node_modules"}

workspaceSnapshotExcludes(path) ==
  LET inside == IF path[1] = "workspace" THEN Tail(path) ELSE path
  IN  \/ Len(inside) > 1 /\ inside[1] \in ExcludedDirectories
      \/ inside # << >> /\ inside[1] = "npm.log"

Exported == Restrict(files, {p \in DOMAIN files : ~workspaceSnapshotExcludes(p)})

saveLatest ==
  /\ latest' = Exported /\ exported' = files
  /\ UNCHANGED <<files, restored, fileCalls>>

\* Only the workspace is removed before the mount.
Outside == Restrict(files, {p \in DOMAIN files : ~AtOrBelow(p, Workspace)})

Mounted == IF latest = NoSnapshot THEN DefaultTree ELSE latest

\* Seeded bug: the snapshot is mounted over what is there.
restoreWorkspaceSnapshotOver ==
  /\ files' = Over(Mounted, files)
  /\ restored' = (latest # NoSnapshot)
  /\ UNCHANGED <<latest, exported, fileCalls>>

\* Without a snapshot the default tree is mounted.
restoreWorkspaceSnapshot ==
  /\ files' = Over(Mounted, Outside)
  /\ restored' = (latest # NoSnapshot)
  /\ UNCHANGED <<latest, exported, fileCalls>>

\* A shell is not held to the workspace.
ShellWritesOutside == Changes(files' = Over(Only("file", {<<"notes">>}), files))

Next == FileCall \/ ShellWritesOutside \/ saveLatest \/ restoreWorkspaceSnapshot

-----------------------------------------------------------------------------

Plain(path) == \A k \in DOMAIN path : path[k] \notin DOMAIN Backslashed

\* What the path policy lets through, the host takes for the same file, as long
\* as there is no backslash in it; with one the two mean different files. A path
\* that the host gives out leads it back to the entry; and a terminal starts
\* where the host would look, if it starts at all.
PathsAgree ==
  \A asked \in Asked :
    LET absolute == resolve(asked)
        container == toContainerPath(asked)
    IN  /\ absolute # Invalid =>
             (<<"">> \o toContainerPath(absolute) = absolute <=> Plain(absolute))
        /\ container # Invalid => toContainerPath(fromContainerPath(container)) = container
        /\ terminalCwd(asked) \in {Invalid, container} \/ asked = <<"">>

\* What readDir says of an entry is what metadata says of its path, and the
\* files of a trace are those of the workspace.
ListingsAgree ==
  /\ \A path \in {p \in DOMAIN files : AtOrBelow(p, Workspace)} :
       \A entry \in readDir(fromContainerPath(path)) :
         metadata(entry.path) = IF entry.is_dir THEN "directory" ELSE "file"
  /\ snapshotDirectory = {fromContainerPath(p) : p \in {p \in Below(Workspace) : files[p] = "file"}}

\* A restored workspace has all that the exported one had, but for what a build
\* makes anew, and nothing else.
RestoreGivesBack ==
  restored =>
    \A p \in DOMAIN files \union DOMAIN exported :
      AtOrBelow(p, Workspace) /\ ~workspaceSnapshotExcludes(p) =>
        /\ p \in DOMAIN files /\ p \in DOMAIN exported
        /\ files[p] = exported[p]

\* The tools, the file tree and the snapshots work on the same files, by
\* whatever path without a backslash they are named (path.rs:32-56,
\* webcontainer-host.ts:34-113, 258-312).
FilesRight == PathsAgree /\ ListingsAgree /\ RestoreGivesBack
=============================================================================
