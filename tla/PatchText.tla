------------------------------- MODULE PatchText -------------------------------
(***************************************************************************)
(* What apply_patch does to the text of a file (apply_patch.rs): the lines *)
(* of each chunk are looked for behind those of the chunk before, more and *)
(* more leniently, and all chunks are applied at once, from the last.      *)
(*                                                                         *)
(* A line is its words and how they are set: with spaces behind or before  *)
(* them, or with typographic characters. A text is the sequence of what is *)
(* between its line feeds; line numbers begin with zero.                   *)
(***************************************************************************)
EXTENDS Naturals, Sequences, FiniteSetsExt, SequencesExt

CONSTANTS
  Words,        \* words of a line in the file
  MaxLength,    \* bound on the lines of the file, its last feed included
  MaxChunks     \* bound on the chunks of an update

VARIABLES
  source,       \* the text of the file
  chunks        \* the update that is applied to it

patchText == <<source, chunks>>

Line(words, set) == [words |-> words, set |-> set]

Blank == Line("", "plain")

\* A line the patch brings, which is in no file.
Added == Line("added", "plain")

FileLines ==
  {Blank, Line("", "behind")}
    \union [words : Words, set : {"plain", "behind", "before", "typographic"}]

UpdateFileChunk(context, old, new, eof) ==
  [change_context |-> context, old_lines |-> old, new_lines |-> new, is_end_of_file |-> eof]

\* Context lines are in the old and in the new text, added and removed ones in
\* one of them.
UpdateFileChunks ==
  LET Plain == {Blank} \union {Line(words, "plain") : words \in Words}
      Old == {<< >>} \union {<<line>> : line \in Plain}
               \union {<<line, last>> : line \in Plain \ {Blank}, last \in Plain}
  IN  {UpdateFileChunk(context, old, new, eof) :
         context \in {<< >>} \union {<<line>> : line \in Plain \ {Blank}}, old \in Old,
         new \in {<<Added>>, <<Added, Blank>>}, eof \in BOOLEAN}

(***************************************************************************)
(* seek_sequence: the first place where the lines are the pattern, to the  *)
(* first leniency by which they are anywhere.                              *)
(***************************************************************************)
Leniencies == {0, 1, 2, 3}

\* trim_end, trim and normalize.
Reduced(line, leniency) ==
  LET dropped == CASE leniency = 0 -> {}
                   [] leniency = 1 -> {"behind"}
                   [] leniency = 2 -> {"behind", "before"}
                   [] leniency = 3 -> {"behind", "before", "typographic"}
  IN  IF line.set \in dropped THEN [line EXCEPT !.set = "plain"] ELSE line

MatchesAt(lines, pattern, i, leniency) ==
  \A k \in DOMAIN pattern : Reduced(lines[i + k], leniency) = Reduced(pattern[k], leniency)

\* The places to look at, none if the pattern is longer than what is left.
Places(lines, pattern, start, eof) ==
  IF Len(pattern) > Len(lines) THEN {}
  ELSE (IF eof THEN Len(lines) - Len(pattern) ELSE start) .. Len(lines) - Len(pattern)

\* The set of the line found, empty if there is none.
seek_sequence(lines, pattern, start, eof) ==
  LET found == [leniency \in Leniencies |->
                  {i \in Places(lines, pattern, start, eof) :
                     MatchesAt(lines, pattern, i, leniency)}]
      enough == {leniency \in Leniencies : found[leniency] # {}}
  IN  CASE pattern = << >> -> {start}
        [] pattern # << >> /\ enough = {} -> {}
        [] OTHER -> {Min(found[Min(enough)])}

(***************************************************************************)
(* compute_replacements, chunk by chunk. What may fail is a set of at most *)
(* one result.                                                             *)
(***************************************************************************)
Replacement(at, old, new) == [at |-> at, old |-> old, new |-> new]

EndsBlank(lines) == lines # << >> /\ Last(lines) = Blank

Unterminated(lines) == IF EndsBlank(lines) THEN Front(lines) ELSE lines

\* A chunk without old lines is added at the end, before a blank last line.
Insertion(lines, chunk) == Replacement(Len(Unterminated(lines)), 0, chunk.new_lines)

\* Where the old lines are found, with their blank last line or without it.
Matches(lines, chunk, start) ==
  LET Tried(old, new) ==
        {Replacement(at, Len(old), new) :
           at \in seek_sequence(lines, old, start, chunk.is_end_of_file)}
      whole == Tried(chunk.old_lines, chunk.new_lines)
  IN  IF whole = {} /\ EndsBlank(chunk.old_lines)
      THEN Tried(Front(chunk.old_lines), Unterminated(chunk.new_lines))
      ELSE whole

Replacements(lines, chunk, start) ==
  IF chunk.old_lines = << >> THEN {Insertion(lines, chunk)} ELSE Matches(lines, chunk, start)

\* The context is a line that is passed over.
Starts(lines, chunk, line_index) ==
  IF chunk.change_context = << >> THEN {line_index}
  ELSE {i + 1 : i \in seek_sequence(lines, chunk.change_context, line_index, FALSE)}

\* Seeded bug: the next chunk is looked for from the beginning of this one.
NextLineAgain(chunk, start, replacement) ==
  IF chunk.old_lines = << >> THEN start ELSE replacement.at

NextLine(chunk, start, replacement) ==
  IF chunk.old_lines = << >> THEN start ELSE replacement.at + replacement.old

\* A set of one once again, or empty as soon as a chunk was not found.
Placed(lines, placements, chunk) ==
  UNION {UNION {{[line_index |-> NextLine(chunk, start, replacement),
                  replacements |-> Append(placed.replacements, replacement)] :
                    replacement \in Replacements(lines, chunk, start)} :
                      start \in Starts(lines, chunk, placed.line_index)} :
                        placed \in placements}

\* In the order of the chunks: sort_by_key comes with apply_replacements.
compute_replacements(lines) ==
  LET placements[k \in 0 .. Len(chunks)] ==
        IF k = 0 THEN {[line_index |-> 0, replacements |-> << >>]}
                 ELSE Placed(lines, placements[k - 1], chunks[k])
  IN  {placed.replacements : placed \in placements[Len(chunks)]}

(***************************************************************************)
(* apply_replacements, from the last to the first.                         *)
(***************************************************************************)
\* A stable sort puts k behind j.
Behind(replacements, j, k) ==
  \/ replacements[j].at < replacements[k].at
  \/ replacements[j].at = replacements[k].at /\ j < k

Sorted(replacements) ==
  [n \in DOMAIN replacements |->
     replacements[CHOOSE k \in DOMAIN replacements :
       Cardinality({j \in DOMAIN replacements : Behind(replacements, j, k)}) = n - 1]]

Spliced(replacement, lines) ==
  SubSeq(lines, 1, replacement.at) \o replacement.new
    \o SubSeq(lines, replacement.at + replacement.old + 1, Len(lines))

apply_replacements(lines, replacements) ==
  LET applied[n \in 0 .. Len(replacements)] ==
        IF n = 0 THEN lines
                 ELSE Spliced(Sorted(replacements)[Len(replacements) + 1 - n], applied[n - 1])
  IN  applied[Len(replacements)]

split_lines(text) == IF text = <<Blank>> THEN << >> ELSE Unterminated(text)

join_lines(lines) == IF EndsBlank(lines) THEN lines ELSE Append(lines, Blank)

Original == split_lines(source)

apply_update_chunks ==
  {join_lines(apply_replacements(Original, replacements)) :
     replacements \in compute_replacements(Original)}

(***************************************************************************)
(* Any file and any update; chunks are parsed one after the other.         *)
(***************************************************************************)
Init ==
  /\ source \in UNION {[1 .. n -> FileLines] : n \in 1 .. MaxLength}
  /\ chunks = << >>

ParseChunk ==
  /\ Len(chunks) < MaxChunks
  /\ \E chunk \in UpdateFileChunks : chunks' = Append(chunks, chunk)
  /\ UNCHANGED source

Next == ParseChunk

-----------------------------------------------------------------------------

\* Two ways in which chunks get into each other: the old lines of a chunk that
\* says "end of file" are taken from there even if a chunk before it has them,
\* and what is added before a blank last line is in the middle of what another
\* chunk replaces.
EndOfFileAgain == \E k \in DOMAIN chunks : k > 1 /\ chunks[k].is_end_of_file

AddsAtBlankEnd ==
  /\ EndsBlank(Original)
  /\ \E k \in DOMAIN chunks : chunks[k].old_lines = << >>
  /\ \E k \in DOMAIN chunks : EndsBlank(chunks[k].old_lines)

Covered(i, replacements) ==
  \E k \in DOMAIN replacements :
    i \in replacements[k].at .. replacements[k].at + replacements[k].old - 1

\* The new lines that go before line i, and the line itself unless it is replaced.
NewAt(replacements, i) ==
  FlattenSeq([k \in DOMAIN replacements |->
                IF replacements[k].at = i THEN replacements[k].new ELSE << >>])

KeptAt(lines, replacements, i) ==
  IF i = Len(lines) \/ Covered(i, replacements) THEN << >> ELSE <<lines[i + 1]>>

\* Reads the file from the top and puts the new lines where they belong.
Woven(lines, replacements) ==
  FlattenSeq([k \in 1 .. Len(lines) + 1 |->
                NewAt(replacements, k - 1) \o KeptAt(lines, replacements, k - 1)])

\* What is replaced is, to spaces and typography, what the chunk asked for, and
\* it is behind what the chunks before it replaced.
FoundInOrder(replacements) ==
  \A k \in DOMAIN chunks : chunks[k].old_lines # << >> =>
    LET r == replacements[k]
    IN  /\ MatchesAt(Original, SubSeq(chunks[k].old_lines, 1, r.old), r.at, 3)
        /\ r.old = Len(chunks[k].old_lines) \/ EndsBlank(chunks[k].old_lines)
        /\ \A j \in 1 .. k - 1 :
             chunks[j].old_lines # << >> => replacements[j].at + replacements[j].old <= r.at

\* The chunks are in the file, letter by letter and one behind the other.
Applicable ==
  /\ \A k \in DOMAIN chunks : /\ chunks[k].old_lines # << >>
                              /\ chunks[k].change_context = << >>
                              /\ ~chunks[k].is_end_of_file
  /\ \A k \in DOMAIN Original : Original[k].set = "plain"
  /\ \E at \in [DOMAIN chunks -> 0 .. Len(Original)] :
       \A k \in DOMAIN chunks :
         /\ at[k] + Len(chunks[k].old_lines) <= Len(Original)
         /\ MatchesAt(Original, chunks[k].old_lines, at[k], 0)
         /\ \A j \in 1 .. k - 1 : at[j] + Len(chunks[j].old_lines) <= at[k]

\* A patch changes what it asks for and nothing else: the lines it replaces are
\* found in order, the text it makes has its new lines in their place and every
\* other line as it was, and it does not fail if its lines are there. Left out
\* are updates whose chunks get into each other, of which the code loses lines
\* (apply_patch.rs:541-717).
UpdatesInPlace ==
  /\ Applicable => apply_update_chunks # {}
  /\ ~EndOfFileAgain /\ ~AddsAtBlankEnd =>
       \A replacements \in compute_replacements(Original) :
         /\ FoundInOrder(replacements)
         /\ apply_update_chunks = {join_lines(Woven(Original, replacements))}
=============================================================================
