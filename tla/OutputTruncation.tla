---------------------------- MODULE OutputTruncation ----------------------------
(***************************************************************************)
(* How a tool's output is shortened before it is sent to the provider      *)
(* (output_truncation.rs): its middle gives way to a marker that says how  *)
(* much is missing. Budgets are bytes or tokens of four bytes, a character *)
(* has one to four bytes and is never cut. A text is the sequence of the   *)
(* lengths of its characters.                                              *)
(***************************************************************************)
EXTENDS Integers, Sequences, FiniteSets

CONSTANTS
  CharLengths,   \* bytes of a character, between one and four
  MaxChars,      \* bound on the characters of the first text
  MaxContents,   \* bound on the items of an output
  MaxBudget      \* bound on the budgets

VARIABLES
  output,        \* its content items, the lengths of a text or an image
  policy         \* TruncationPolicy

outputTruncation == <<output, policy>>

InputText(chars) == [type |-> "text", chars |-> chars]

InputImage == [type |-> "image", chars |-> << >>]

Policies == [unit : {"bytes", "tokens"}, amount : 0 .. MaxBudget]

BytesPerToken == 4

\* Where each character ends, the first begins at zero.
Ends(chars) ==
  LET ends[k \in 0 .. Len(chars)] == IF k = 0 THEN 0 ELSE ends[k - 1] + chars[k]
  IN  ends

Bytes(chars) == Ends(chars)[Len(chars)]

approx_tokens(bytes) == (bytes + BytesPerToken - 1) \div BytesPerToken

byte_budget == IF policy.unit = "bytes" THEN policy.amount ELSE policy.amount * BytesPerToken

(***************************************************************************)
(* truncate_with_byte_estimate: what is left on either side of the marker, *)
(* and the count in it.                                                    *)
(***************************************************************************)
Truncated(left, right, marker) == [left |-> left, right |-> right, marker |-> marker]

NoMarker == -1

Whole(chars) == Truncated(chars, << >>, NoMarker)

removed_units(bytes, chars) == IF policy.unit = "tokens" THEN approx_tokens(bytes) ELSE chars

\* Seeded bug: a character that is cut on the right is kept.
split_string_cutting(chars, beginning_bytes, end_bytes) ==
  LET before == {k \in DOMAIN chars : Ends(chars)[k] <= beginning_bytes}
      after == {k \in DOMAIN chars \ before : Ends(chars)[k] > Bytes(chars) - end_bytes}
  IN  [removed |-> Len(chars) - Cardinality(before) - Cardinality(after),
       before |-> SubSeq(chars, 1, Cardinality(before)),
       after |-> SubSeq(chars, Len(chars) - Cardinality(after) + 1, Len(chars))]

split_string(chars, beginning_bytes, end_bytes) ==
  LET before == {k \in DOMAIN chars : Ends(chars)[k] <= beginning_bytes}
      after == {k \in DOMAIN chars \ before : Ends(chars)[k - 1] >= Bytes(chars) - end_bytes}
  IN  [removed |-> Len(chars) - Cardinality(before) - Cardinality(after),
       before |-> SubSeq(chars, 1, Cardinality(before)),
       after |-> SubSeq(chars, Len(chars) - Cardinality(after) + 1, Len(chars))]

truncate_with_byte_estimate(chars, max_bytes) ==
  LET left == max_bytes \div 2
      parts == split_string(chars, left, max_bytes - left)
  IN  CASE chars = << >> -> Whole(chars)
        [] chars # << >> /\ max_bytes = 0 ->
             Truncated(<< >>, << >>, removed_units(Bytes(chars), Len(chars)))
        [] max_bytes > 0 /\ Bytes(chars) <= max_bytes -> Whole(chars)
        [] OTHER -> Truncated(parts.before, parts.after,
                              removed_units(Bytes(chars) - max_bytes, parts.removed))

truncate_text(chars, amount) ==
  truncate_with_byte_estimate(chars,
    IF policy.unit = "bytes" THEN amount ELSE amount * BytesPerToken)

(***************************************************************************)
(* truncate_function_output_items_with_policy.                             *)
(***************************************************************************)
Cost(chars) == IF policy.unit = "bytes" THEN Bytes(chars) ELSE approx_tokens(Bytes(chars))

Kept(item, text) == [type |-> item.type, text |-> text]

\* One item after the other: what is kept, the budget left and the texts left out.
Take(taken, item) ==
  CASE item.type = "image" ->
         [taken EXCEPT !.out = Append(@, Kept(item, Whole(<< >>)))]
    [] item.type = "text" /\ taken.remaining = 0 ->
         [taken EXCEPT !.omitted = @ + 1]
    [] item.type = "text" /\ taken.remaining > 0 /\ Cost(item.chars) <= taken.remaining ->
         [taken EXCEPT !.out = Append(@, Kept(item, Whole(item.chars))),
                       !.remaining = @ - Cost(item.chars)]
    [] OTHER ->
         [taken EXCEPT !.out = Append(@, Kept(item, truncate_text(item.chars, taken.remaining))),
                       !.remaining = 0]

truncate_items ==
  LET taken[k \in 0 .. Len(output)] ==
        IF k = 0 THEN [out |-> << >>, remaining |-> policy.amount, omitted |-> 0]
                 ELSE Take(taken[k - 1], output[k])
  IN  taken[Len(output)]

(***************************************************************************)
(* Any output of a tool, item by item.                                     *)
(***************************************************************************)
Texts(n) == UNION {[1 .. k -> CharLengths] : k \in 0 .. n}

Init == output = << >> /\ policy \in Policies

\* Texts behind the first are short.
AddItem ==
  /\ Len(output) < MaxContents
  /\ \E item \in {InputImage} \union {InputText(chars) :
                    chars \in Texts(IF output = << >> THEN MaxChars ELSE 1)} :
       output' = Append(output, item)
  /\ UNCHANGED policy

Next == AddItem

-----------------------------------------------------------------------------

\* Nothing is cut and the marker is true: what is left is a beginning and an
\* end of the text and within the budget, not one more character would have
\* fitted on either side, and the marker says how many characters are missing;
\* in tokens it says what is over the budget, which may be less.
TruncatedRight(chars, text, max_bytes) ==
  LET left == Len(text.left)
      right == Len(text.right)
      missing == left + 1 .. Len(chars) - right
  IN  /\ left + right <= Len(chars)
      /\ text.left = SubSeq(chars, 1, left)
      /\ text.right = SubSeq(chars, Len(chars) - right + 1, Len(chars))
      /\ Bytes(text.left) + Bytes(text.right) <= max_bytes
      /\ Bytes(chars) <= max_bytes <=> text.marker = NoMarker
      /\ text.marker # NoMarker =>
           /\ missing # {}
           /\ text.marker = IF policy.unit = "bytes" THEN Cardinality(missing)
                                                     ELSE approx_tokens(Bytes(chars) - max_bytes)
           /\ Bytes(text.left) + chars[left + 1] > max_bytes \div 2
           /\ Bytes(text.right) + chars[Len(chars) - right] > max_bytes - max_bytes \div 2

TextsAmong(places) == {k \in places : output[k].type = "text"}

\* The bytes of what is left of the texts.
Sizes(out) == [k \in DOMAIN out |-> Bytes(out[k].text.left) + Bytes(out[k].text.right)]

\* What is sent for the items at the places: the images, the texts up to the
\* budget, whole but for the last, and how many texts are behind.
SentRight(taken, at, places) ==
  LET out == taken.out
      stay == {at[k] : k \in DOMAIN out}
      cut == {k \in DOMAIN out : out[k].text.marker # NoMarker}
  IN  /\ \A j, k \in DOMAIN out : j < k => at[j] < at[k]
      /\ places \ stay = TextsAmong(places \ stay)
      /\ \A gone \in places \ stay, j \in TextsAmong(stay) : j < gone
      /\ taken.omitted = Cardinality(places \ stay)
      /\ taken.omitted > 0 => taken.remaining = 0
      /\ \A k \in DOMAIN out :
           /\ out[k].type = output[at[k]].type
           /\ k \notin cut => out[k].text = Whole(output[at[k]].chars)
           /\ k \in cut => \A j \in TextsAmong(stay) : j <= at[k]
      /\ Bytes(Sizes(out)) <= byte_budget

\* An output within its budget is sent as it is. Of a longer one the images stay,
\* the texts stay up to the budget and in order, the one in which it ends is
\* truncated, and those behind it are counted (output_truncation.rs:54-297).
TruncationRight ==
  /\ \E at \in [DOMAIN truncate_items.out -> DOMAIN output] :
       SentRight(truncate_items, at, DOMAIN output)
  /\ \A k \in TextsAmong(DOMAIN output) :
       TruncatedRight(output[k].chars, truncate_text(output[k].chars, policy.amount), byte_budget)
=============================================================================
