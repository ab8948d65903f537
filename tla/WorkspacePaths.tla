---------------------------- MODULE WorkspacePaths ----------------------------
(***************************************************************************)
(* The three ways a file of the workspace is named: by the model, in what  *)
(* it asks of a tool; by the core, whose path policy (path.rs) makes that  *)
(* an absolute path below /workspace; and by WebContainer, relative to its *)
(* working directory. A path is the sequence of the names between slashes: *)
(* an absolute one begins with the empty name, one with a slash at its end *)
(* ends with it. A backslash is part of a name for the core, and a slash   *)
(* for the host.                                                           *)
(***************************************************************************)
EXTENDS Naturals, Sequences, SequencesExt

CONSTANT Backslashed  \* names with backslashes, and the names between those

\* No name has a slash.
Invalid == <<"/">>

Root == <<"", "workspace">>

\* The empty path is the one empty name.
IsAbsolute(path) == path[1] = "" /\ Len(path) > 1

AtOrBelow(path, dir) == IsPrefix(dir, path)

(***************************************************************************)
(* WorkspacePathPolicy.                                                    *)
(***************************************************************************)
Pushed(parts, part) ==
  CASE parts = Invalid \/ part \in {"", "."} -> parts
    [] parts # Invalid /\ part = ".." -> IF parts = << >> THEN Invalid ELSE Front(parts)
    [] OTHER -> Append(parts, part)

normalizeAbsolute(path) ==
  LET pushed[k \in 0 .. Len(path)] ==
        IF k = 0 THEN << >> ELSE Pushed(pushed[k - 1], path[k])
      parts == pushed[Len(path)]
  IN  IF parts = Invalid THEN Invalid ELSE <<"">> \o parts

resolve(path) ==
  LET absolute == normalizeAbsolute(IF IsAbsolute(path) THEN path ELSE Root \o path)
  IN  IF path # <<"">> /\ AtOrBelow(absolute, Root) THEN absolute ELSE Invalid

(***************************************************************************)
(* The paths of the host. Backslashes become slashes, and repeated slashes *)
(* one.                                                                    *)
(***************************************************************************)
Between(name) == IF name \in DOMAIN Backslashed THEN Backslashed[name] ELSE <<name>>

Slashed(path) == FlattenSeq([k \in DOMAIN path |-> Between(path[k])])

Kept(names, name) == IF name = "" THEN names ELSE Append(names, name)

Names(path) ==
  LET kept[k \in 0 .. Len(path)] ==
        IF k = 0 THEN << >> ELSE Kept(kept[k - 1], path[k])
  IN  kept[Len(path)]

Slash(present) == IF present THEN <<"">> ELSE << >>

Normalized(path) ==
  LET slashed == Slashed(path)
  IN  Slash(IsAbsolute(slashed)) \o Names(slashed)
        \o Slash(Last(slashed) = "" /\ Names(slashed) # << >>)

toContainerPath(path) ==
  LET normalized == Normalized(path)
  IN  CASE AtOrBelow(normalized, Root) -> Tail(normalized)
        [] AtOrBelow(normalized, <<"workspace">>) -> normalized
        [] OTHER -> Invalid

\* Only slashes at the beginning are dropped.
fromContainerPath(path) ==
  LET slashed == Slashed(path)
      relative == IF slashed[1] = "" THEN Tail(slashed) ELSE slashed
  IN  IF AtOrBelow(relative, <<"workspace">>) THEN <<"">> \o relative ELSE Invalid

\* Where a terminal starts: unlike a tool's path, one that is /workspace only
\* after normalization is refused.
terminalCwd(cwd) ==
  LET normalized == Normalized(cwd)
  IN  CASE cwd \in {<<"">>, Root} -> <<"workspace">>
        [] normalized # Root /\ AtOrBelow(normalized, Root) -> Tail(normalized)
        [] AtOrBelow(normalized, <<"workspace">>) -> normalized
        [] OTHER -> Invalid

parentPath(path) == IF Len(path) > 1 THEN Front(path) ELSE << >>
=============================================================================
