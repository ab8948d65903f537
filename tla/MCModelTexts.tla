------------------------------ MODULE MCModelTexts ------------------------------
(***************************************************************************)
(* The computations on what the model reads and writes: the history on two *)
(* call ids, which are interchangeable, the patch of a file and the        *)
(* truncation of an output. A behaviour is one of one of them.             *)
(***************************************************************************)
EXTENDS ConversationHistory, TLC

CONSTANTS
  c1, c2,
  Words, MaxLength, MaxChunks,
  CharLengths, MaxChars, MaxContents, MaxBudget

ASSUME LengthsAssumption ==
  /\ CharLengths \subseteq 1 .. 4
  /\ MaxLength \in Nat /\ MaxChars \in Nat /\ MaxBudget \in Nat

VARIABLES
  part,
  source, chunks,
  output, policy

Patch == INSTANCE PatchText
Truncation == INSTANCE OutputTruncation

IdSymmetry == Permutations({c1, c2})

patchText == <<source, chunks>>
outputTruncation == <<output, policy>>
vars == <<part, items, patchText, outputTruncation>>

\* The parts that do not move begin in one state.
TextsInit ==
  /\ part \in {"history", "patch", "truncation"}
  /\ Init
  /\ Patch!Init /\ (part = "patch" \/ source = <<Patch!Blank>>)
  /\ Truncation!Init /\ (part = "truncation" \/ policy = [unit |-> "bytes", amount |-> 0])

HistoryMoves ==
  /\ part = "history" /\ Next
  /\ UNCHANGED <<part, patchText, outputTruncation>>

PatchMoves ==
  /\ part = "patch" /\ Patch!Next
  /\ UNCHANGED <<part, items, outputTruncation>>

TruncationMoves ==
  /\ part = "truncation" /\ Truncation!Next
  /\ UNCHANGED <<part, items, patchText>>

TextsNext == HistoryMoves \/ PatchMoves \/ TruncationMoves

TextsSpec == TextsInit /\ [][TextsNext]_vars

UpdatesInPlace == part = "patch" => Patch!UpdatesInPlace
TruncationRight == part = "truncation" => Truncation!TruncationRight
=============================================================================
