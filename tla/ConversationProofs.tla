-------------------------- MODULE ConversationProofs --------------------------
(***************************************************************************)
(* Proofs about the request made of a history, whatever was pushed onto    *)
(* it, for every set of call ids and histories of every length.            *)
(* Below them, what is left of an output that is truncated, for outputs of *)
(* any length and any budget; and at the end, what a patch does to the     *)
(* text of a file, for files of any length and any number of chunks.       *)
(***************************************************************************)
EXTENDS MCModelTexts, PromptProofs, FiniteSetTheorems

(***************************************************************************)
(* What may be pushed: nothing is aborted or cut, no message is long, and  *)
(* only a tool search goes without an id.                                  *)
(***************************************************************************)
Pushed(item) ==
  /\ item \in AnyItem
  /\ item.body \notin {"aborted", "cut", "cut again"}
  /\ item.kind = "message" => item.body # "long"
  /\ item.kind = "output" /\ item.side = "input" => item.id # NoId
  /\ item.kind = "call" /\ item.family # "search" => item.id # NoId

LEMMA ItemPushed ==
  ASSUME NEW kind \in Kinds, NEW family \in FamilyNames, NEW id \in Ids, NEW side \in Sides,
         NEW exec \in Execs, NEW body \in Bodies, body \notin {"aborted", "cut", "cut again"},
         kind = "message" => body # "long",
         kind = "output" /\ side = "input" => id # NoId,
         kind = "call" /\ family # "search" => id # NoId
  PROVE  Pushed(Item(kind, family, id, side, exec, body))
<1>1. PICK x : x = Item(kind, family, id, side, exec, body)
  OBVIOUS
<1>2. /\ x \in AnyItem /\ x.kind = kind /\ x.family = family /\ x.id = id /\ x.side = side
      /\ x.body = body
  BY <1>1 DEF Item, AnyItem
<1>3. Pushed(x)
  BY <1>2 DEF Pushed
<1> QED
  BY <1>1, <1>3

LEMMA Names ==
  /\ "message" \in Kinds /\ "call" \in Kinds /\ "output" \in Kinds
  /\ "none" \in FamilyNames /\ "function" \in FamilyNames /\ "custom" \in FamilyNames
  /\ "search" \in FamilyNames
  /\ "input" \in Sides /\ "response" \in Sides
  /\ "client" \in Execs /\ "server" \in Execs
  /\ "text" \in Bodies /\ "image" \in Bodies /\ "long" \in Bodies
  /\ NoId \in Ids /\ CallIds \subseteq Ids
BY DEF Kinds, FamilyNames, Families, Sides, Execs, Bodies, Ids

LEMMA InputPushed == \A item \in InputItems : Pushed(item)
<1> SUFFICES ASSUME NEW item \in InputItems PROVE Pushed(item)
  OBVIOUS
<1>1. ASSUME NEW body \in {"text", "image"}, item = Message("input", body) PROVE Pushed(item)
  <2>1. body \in Bodies /\ body \notin {"aborted", "cut", "cut again"} /\ body # "long"
    BY Names
  <2>2. item = Item("message", "none", NoId, "input", "client", body)
    BY <1>1 DEF Message
  <2> QED
    BY <2>1, <2>2, Names, ItemPushed
<1>2. ASSUME NEW family \in {"function", "custom"}, NEW id \in CallIds,
             NEW body \in {"text", "image", "long"}, item = Output(family, id, body)
      PROVE  Pushed(item)
  <2>1. body \in Bodies /\ body \notin {"aborted", "cut", "cut again"} /\ family \in FamilyNames /\ id \in Ids /\ id # NoId
    BY Names, NoIdAssumption
  <2>2. item = Item("output", family, id, "input", "client", body)
    BY <1>2 DEF Output
  <2> QED
    BY <2>1, <2>2, Names, ItemPushed
<1>3. ASSUME NEW id \in CallIds, item = Output("search", id, "text") PROVE Pushed(item)
  <2>1. id \in Ids /\ id # NoId
    BY Names, NoIdAssumption
  <2>2. item = Item("output", "search", id, "input", "client", "text")
    BY <1>3 DEF Output
  <2> QED
    BY <2>1, <2>2, Names, ItemPushed
<1> QED
  BY <1>1, <1>2, <1>3 DEF InputItems

LEMMA ResponsePushed == \A item \in ResponseItems : Pushed(item)
<1> SUFFICES ASSUME NEW item \in ResponseItems PROVE Pushed(item)
  OBVIOUS
<1>1. CASE item = Message("response", "text")
  <2>1. item = Item("message", "none", NoId, "response", "client", "text")
    BY <1>1 DEF Message
  <2> QED
    BY <2>1, Names, ItemPushed
<1>2. ASSUME NEW family \in {"function", "custom"}, NEW id \in CallIds, item = Call(family, id)
      PROVE  Pushed(item)
  <2>1. family \in FamilyNames /\ id \in Ids /\ id # NoId
    BY Names, NoIdAssumption
  <2>2. item = Item("call", family, id, "response", "client", "text")
    BY <1>2 DEF Call
  <2> QED
    BY <2>1, <2>2, Names, ItemPushed
<1>3. ASSUME NEW id \in Ids, NEW exec \in {"client", "server"}, item = SearchCall(id, exec)
      PROVE  Pushed(item)
  <2>1. id \in Ids /\ exec \in Execs
    BY Names
  <2>2. item = Item("call", "search", id, "response", exec, "text")
    BY <1>3 DEF SearchCall
  <2> QED
    BY <2>1, <2>2, Names, ItemPushed
<1>4. ASSUME NEW family \in {"function", "custom"}, NEW id \in CallIds,
             item = Item("output", family, id, "response", "client", "long")
      PROVE  Pushed(item)
  <2>1. family \in FamilyNames /\ id \in Ids
    BY Names
  <2> QED
    BY <1>4, <2>1, Names, ItemPushed
<1>5. ASSUME NEW id \in Ids, NEW exec \in {"client", "server"},
             item = SearchResponse(id, exec)
      PROVE  Pushed(item)
  <2>1. id \in Ids /\ exec \in Execs
    BY Names
  <2>2. item = Item("output", "search", id, "response", exec, "text")
    BY <1>5 DEF SearchResponse
  <2> QED
    BY <2>1, <2>2, Names, ItemPushed
<1> QED
  BY <1>1, <1>2, <1>3, <1>4, <1>5 DEF ResponseItems

-----------------------------------------------------------------------------
(***************************************************************************)
(* The lists the pushes build.                                             *)
(***************************************************************************)
LEMMA HistoryInit == Init => TypeOK
BY MaxItemsAssumption DEF Init, TypeOK

LEMMA HistoryStep == TypeOK /\ [Next]_items => TypeOK'
<1> SUFFICES ASSUME TypeOK, [Next]_items PROVE TypeOK'
  OBVIOUS
<1>1. PICK Pushable : Pushable = InputItems \union ResponseItems
  OBVIOUS
<1>2. items \in Seq(Pushable) /\ Len(items) <= MaxItems /\ MaxItems \in Nat /\ Len(items) \in Nat
  BY <1>1, MaxItemsAssumption DEF TypeOK
<1>3. ASSUME NEW item \in Pushable, Len(items) < MaxItems, items' = Append(items, item)
      PROVE  items' \in Seq(Pushable) /\ Len(items') <= MaxItems
  BY <1>2, <1>3
<1>4. CASE \E item \in InputItems : PushInput(item)
  BY <1>1, <1>3, <1>4 DEF PushInput, TypeOK
<1>5. CASE \E item \in ResponseItems : PushResponse(item)
  BY <1>1, <1>3, <1>5 DEF PushResponse, TypeOK
<1>6. CASE UNCHANGED items
  BY <1>6 DEF TypeOK
<1> QED
  BY <1>4, <1>5, <1>6 DEF Next

LEMMA HistoryTypeCorrect == Spec => []TypeOK
<1> QED
  BY HistoryInit, HistoryStep, PTL DEF Spec

LEMMA HistoryPushed ==
  ASSUME TypeOK
  PROVE  /\ items \in Seq(AnyItem)
         /\ \A k \in DOMAIN items : Pushed(items[k])
<1>1. items \in Seq(InputItems \union ResponseItems)
  BY DEF TypeOK
<1>2. \A item \in InputItems \union ResponseItems : Pushed(item)
  BY InputPushed, ResponsePushed
<1>3. DOMAIN items = 1 .. Len(items) /\ Len(items) \in Nat
      /\ \A k \in 1 .. Len(items) : items[k] \in InputItems \union ResponseItems
  BY <1>1
<1>4. \A k \in 1 .. Len(items) : Pushed(items[k]) /\ items[k] \in AnyItem
  BY <1>2, <1>3 DEF Pushed
<1>5. items = [k \in 1 .. Len(items) |-> items[k]]
  BY <1>1, <1>3
<1>6. items \in Seq(AnyItem)
  BY <1>3, <1>4, <1>5, IsASeq
<1> QED
  BY <1>3, <1>4, <1>6

-----------------------------------------------------------------------------
(***************************************************************************)
(* The request.                                                            *)
(***************************************************************************)
LEMMA RequestPaired == TypeOK => PromptPaired
<1> SUFFICES ASSUME TypeOK PROVE PromptPaired
  OBVIOUS
<1>1. Prompt \in Seq(AnyItem) /\ \E own : Shows(own, items, Prompt)
  BY HistoryPushed, PromptShows DEF Prompt
<1>2. PICK own : Shows(own, items, Prompt)
  BY <1>1
<1> QED
  BY <1>1, <1>2, HistoryPushed, PromptIsPaired DEF PromptPaired, IsOutput

LEMMA RequestSaysAborted == TypeOK => AbortedOnlyWhenUnanswered
<1> SUFFICES ASSUME TypeOK PROVE AbortedOnlyWhenUnanswered
  OBVIOUS
<1>1. Prompt \in Seq(AnyItem) /\ \E own : Shows(own, items, Prompt)
  BY HistoryPushed, PromptShows DEF Prompt
<1>2. PICK own : Shows(own, items, Prompt)
  BY <1>1
<1>3. items \in Seq(AnyItem) /\ \A k \in DOMAIN items : items[k].body # "aborted"
  BY HistoryPushed DEF Pushed
<1> QED
  BY <1>1, <1>2, <1>3, AbortedRight DEF AbortedOnlyWhenUnanswered, IsOutput, IsCall

LEMMA RequestBounded == TypeOK => PromptTextOnlyAndBounded
<1> SUFFICES ASSUME TypeOK, NEW q \in DOMAIN Prompt, CarriesImages(Prompt[q])
             PROVE  Prompt[q].body \notin {"image", "long", "cut again"}
  BY DEF PromptTextOnlyAndBounded
<1>1. items \in Seq(AnyItem) /\ \A k \in DOMAIN items : Pushed(items[k])
  BY HistoryPushed
<1>2. PICK list : list = RemoveOrphanOutputs(EnsureCallOutputsPresent(items))
  OBVIOUS
<1>3. list \in Seq(AnyItem) /\ \E own : Renders(own, items, list)
  BY <1>1, <1>2, ListRenders
<1>4. PICK own : Renders(own, items, list)
  BY <1>3
<1>5. PICK prompt : prompt = Prompt
  OBVIOUS
<1>6. /\ Len(prompt) = Len(list) /\ DOMAIN prompt = 1 .. Len(prompt)
      /\ \A p \in 1 .. Len(list) : prompt[p] = Bounded(Stripped(list[p]), TRUE)
  BY ZenonT(30), <1>1, <1>2, <1>5, PromptMaps DEF Prompt
<1>7. q \in 1 .. Len(list) /\ CarriesImages(prompt[q]) /\ list[q] \in AnyItem
  BY <1>3, <1>5, <1>6
<1>8. PICK x, y, z : x = list[q] /\ y = Stripped(x) /\ z = prompt[q]
  OBVIOUS
<1>9. /\ y \in AnyItem /\ Same(y, x) /\ (CarriesImages(x) => y.body # "image")
      /\ y.body \in {x.body, "omitted"}
  BY <1>7, <1>8, StrippedSame
<1>10. z = Bounded(y, TRUE)
  BY <1>6, <1>7, <1>8
<1>11. /\ z \in AnyItem /\ Same(z, y) /\ (z.body = "image" <=> y.body = "image")
       /\ (y.kind = "output" /\ y.family # "search" /\ y.body \notin {"cut", "cut again"} =>
             z.body \notin {"long", "cut again"})
       /\ (y.kind # "output" => z = y)
  BY <1>9, <1>10, BoundedSame
<1>12. CarriesImages(x) /\ y.kind = x.kind /\ y.family = x.family /\ z.kind = x.kind
  BY <1>7, <1>8, <1>9, <1>11 DEF Same, CarriesImages
<1>13. z.body # "image"
  BY <1>9, <1>11, <1>12
<1>14. /\ x.body \notin {"cut", "cut again"}
       /\ x.kind = "message" => x.body # "long"
  <2>1. PICK k \in KeptAt(items) : q = own[k] \/ (k \in LackingAt(items) /\ q = own[k] + 1)
    BY <1>4, <1>7 DEF Renders
  <2>2. k \in DOMAIN items
    BY DEF KeptAt
  <2>3. CASE k \in LackingAt(items) /\ q = own[k] + 1
    <3>1. x = Aborted(items)[k]
      BY <1>4, <1>8, <2>3 DEF Renders
    <3>2. x.kind = "output" /\ x.body = "aborted"
      BY <1>1, <2>2, <3>1, AbortedTyped
    <3> QED
      BY <3>2
  <2>4. CASE q = own[k]
    <3>1. x = items[k]
      BY <1>4, <1>8, <2>4 DEF Renders
    <3> QED
      BY <1>1, <2>2, <3>1 DEF Pushed
  <2> QED
    BY <2>1, <2>3, <2>4
<1>15. y.body \notin {"cut", "cut again"} /\ (x.kind = "message" => y.body # "long")
  BY <1>9, <1>14
<1>16. CASE x.kind = "output" /\ x.family # "search"
  BY <1>5, <1>8, <1>11, <1>12, <1>13, <1>15, <1>16
<1>17. CASE x.kind = "message"
  <2>1. z = y
    BY <1>11, <1>12, <1>17
  <2> QED
    BY <1>5, <1>8, <1>13, <1>15, <1>17, <2>1
<1> QED
  BY <1>12, <1>16, <1>17 DEF CarriesImages

LEMMA SessionWellBuilt == TypeOK /\ SessionBuilt /\ NoServerSearch => WellBuilt(items)
<1> SUFFICES ASSUME TypeOK, SessionBuilt, NoServerSearch PROVE WellBuilt(items)
  OBVIOUS
<1>1. items \in Seq(AnyItem) /\ \A k \in DOMAIN items : Pushed(items[k])
  BY HistoryPushed
<1>2. DOMAIN items = 1 .. Len(items) /\ Len(items) \in Nat
  BY <1>1
<1>3. ASSUME NEW j \in DOMAIN items, NEW k \in DOMAIN items,
             items[j].kind = "call", items[k].kind = "call",
             items[j].id = items[k].id, items[j].id # NoId
      PROVE  j = k
  BY <1>3 DEF SessionBuilt, IsCall
<1>4. ASSUME NEW k \in DOMAIN items, items[k].kind = "output", items[k].side = "input"
      PROVE  /\ items[k].id # NoId
             /\ \E j \in DOMAIN items : /\ j < k /\ items[j].kind = "call"
                                        /\ items[j].family = items[k].family
                                        /\ items[j].id = items[k].id
             /\ \A j \in DOMAIN items :
                  j < k => ~(items[j].kind = "output" /\ items[j].id = items[k].id)
  <2>1. items[k].id # NoId
    BY <1>1, <1>4 DEF Pushed
  <2>2. \A j \in DOMAIN items : j < k => j \in 1 .. k-1
    BY <1>2
  <2>3. \A j \in 1 .. k-1 : j \in DOMAIN items /\ j < k
    BY <1>2
  <2>4. \E j \in 1 .. k-1 : /\ items[j].kind = "call" /\ items[j].family = items[k].family
                            /\ items[j].id = items[k].id
    BY <1>4 DEF SessionBuilt, IsOutput, IsCall
  <2>5. \A j \in 1 .. k-1 : ~(items[j].kind = "output" /\ items[j].id = items[k].id)
    BY <1>4 DEF SessionBuilt, IsOutput
  <2> QED
    BY <2>1, <2>2, <2>3, <2>4, <2>5
<1>5. ASSUME NEW k \in DOMAIN items, items[k].kind = "call"
      PROVE  items[k].exec = "client" /\ (items[k].family # "search" => items[k].id # NoId)
  BY <1>1, <1>5 DEF NoServerSearch, IsCall, Pushed
<1>6. ASSUME NEW j \in DOMAIN items, NEW k \in DOMAIN items,
             items[k].kind = "output", items[k].side = "response",
             items[j].kind = "call", items[j].id # NoId
      PROVE  items[j].id # items[k].id
  <2>1. items[j].exec = "client"
    BY <1>5, <1>6
  <2>2. \/ items[k].id \notin {items[i].id : i \in {h \in DOMAIN items :
                                  IsCall(items[h]) /\ items[h].exec = "client"}}
        \/ items[k].id = NoId
    BY <1>6 DEF SessionBuilt, IsOutput
  <2> QED
    BY <1>6, <2>1, <2>2 DEF IsCall
<1> QED
  BY <1>3, <1>4, <1>5, <1>6 DEF WellBuilt

LEMMA RequestRight == TypeOK => PromptValid
<1> SUFFICES ASSUME TypeOK PROVE PromptValid
  OBVIOUS
<1>1. ASSUME SessionBuilt, NoServerSearch PROVE RequestBodyValid(Prompt)
  <2>1. Prompt \in Seq(AnyItem) /\ \E own : Shows(own, items, Prompt)
    BY HistoryPushed, PromptShows DEF Prompt
  <2>2. PICK own : Shows(own, items, Prompt)
    BY <2>1
  <2> QED
    BY <1>1, <2>1, <2>2, HistoryPushed, SessionWellBuilt, BuiltIsValid
<1> QED
  BY <1>1, RequestPaired, RequestSaysAborted, RequestBounded DEF PromptValid

\* Whatever history is restored, of any length, the request made of it is
\* paired, "aborted" stands only behind a call without an output, nothing in it
\* is an image, an output over the byte budget was cut to it once, its marker
\* not counted, and a history a session built passes
\* validate_request_body_invariants (history.rs:65-248).
THEOREM RequestsAreValid == Spec => []PromptValid
<1> QED
  BY HistoryTypeCorrect, RequestRight, PTL

LEMMA RequestKeepsConversation == TypeOK => ConversationPreserved
<1> SUFFICES ASSUME TypeOK PROVE ConversationPreserved
  OBVIOUS
<1>1. items \in Seq(AnyItem)
  BY HistoryPushed
<1>2. \A limited \in BOOLEAN : ForPrompt(Prompt, limited) = TruncateFunctionOutputs(Prompt, limited)
  BY <1>1, PromptIsFixed DEF Prompt
<1>3. PICK prompt : prompt = Prompt
  OBVIOUS
<1>4. ItemsAt(prompt, PlainAt(prompt)) = StripImages(ItemsAt(items, PlainAt(items)))
  BY <1>1, <1>3, ConversationRendered DEF Prompt
<1>5. ConversationOf(prompt) = ItemsAt(prompt, PlainAt(prompt))
  BY DEF ConversationOf, PlainAt, IsOutput
<1>6. ConversationOf(items) = ItemsAt(items, PlainAt(items))
  BY DEF ConversationOf, PlainAt, IsOutput
<1> QED
  BY <1>2, <1>3, <1>4, <1>5, <1>6 DEF ConversationPreserved

\* Pairing calls and outputs never costs, moves or invents conversation, and
\* normalising a prompt once more does nothing but cut what was cut before, for
\* histories of every length (history.rs:65-248).
THEOREM ConversationIsPreserved == Spec => []ConversationPreserved
<1> QED
  BY HistoryTypeCorrect, RequestKeepsConversation, PTL

-----------------------------------------------------------------------------

(***************************************************************************)
(* Truncation: where the characters of a text end.                         *)
(***************************************************************************)
IsEnds(h, chars, n) == h = [k \in 0 .. n |-> IF k = 0 THEN 0 ELSE h[k - 1] + chars[k]]

LEMMA EndsExist ==
  ASSUME NEW chars
  PROVE  \A n \in Nat : \E h : IsEnds(h, chars, n)
<1> DEFINE S == {n \in Nat : \E h : IsEnds(h, chars, n)}
<1>1. 0 \in S
  <2>1. PICK h : h = [k \in 0 .. 0 |-> 0]
    OBVIOUS
  <2>2. h = [k \in 0 .. 0 |-> IF k = 0 THEN 0 ELSE h[k - 1] + chars[k]]
    BY <2>1
  <2>3. IsEnds(h, chars, 0)
    BY <2>2, Zenon DEF IsEnds
  <2> QED
    BY <2>3
<1>2. ASSUME NEW n \in Nat, n \in S PROVE n + 1 \in S
  <2>1. PICK h : IsEnds(h, chars, n)
    BY <1>2
  <2>2. PICK j : j = [k \in 0 .. n + 1 |-> IF k = 0 THEN 0 ELSE h[k - 1] + chars[k]]
    OBVIOUS
  <2>3. \A k \in 0 .. n : j[k] = h[k]
    <3>1. TAKE k \in 0 .. n
    <3>2. k \in 0 .. n + 1
      OBVIOUS
    <3>3. j[k] = IF k = 0 THEN 0 ELSE h[k - 1] + chars[k]
      BY <2>2, <3>2, Zenon
    <3>4. h[k] = IF k = 0 THEN 0 ELSE h[k - 1] + chars[k]
      BY <2>1, <3>1, Zenon DEF IsEnds
    <3> QED
      BY <3>3, <3>4
  <2>4. \A k \in 0 .. n + 1 : k # 0 => k - 1 \in 0 .. n
    OBVIOUS
  <2>5. j = [k \in 0 .. n + 1 |-> IF k = 0 THEN 0 ELSE j[k - 1] + chars[k]]
    BY <2>2, <2>3, <2>4
  <2>6. IsEnds(j, chars, n + 1)
    BY <2>5, Zenon DEF IsEnds
  <2> QED
    BY <2>6
<1>3. S = Nat
  <2>1. S \in SUBSET Nat
    OBVIOUS
  <2> HIDE DEF S
  <2> QED
    BY <1>1, <1>2, <2>1, SetInduction
<1> QED
  BY <1>3

\* The characters end one behind the other.
LEMMA EndsAre ==
  ASSUME NEW chars \in Seq(Nat)
  PROVE  /\ Truncation!Ends(chars)[0] = 0
         /\ \A k \in 1 .. Len(chars) :
              Truncation!Ends(chars)[k] = Truncation!Ends(chars)[k - 1] + chars[k]
         /\ \A k \in 0 .. Len(chars) : Truncation!Ends(chars)[k] \in Nat
         /\ Truncation!Bytes(chars) = Truncation!Ends(chars)[Len(chars)]
         /\ Truncation!Bytes(chars) \in Nat
<1> DEFINE ends == Truncation!Ends(chars)
           n == Len(chars)
<1>1. n \in Nat /\ \A k \in 1 .. n : chars[k] \in Nat
  OBVIOUS
<1>2. PICK h : h = CHOOSE j : IsEnds(j, chars, n)
  OBVIOUS
<1>3. IsEnds(h, chars, n)
  BY <1>1, <1>2, EndsExist
<1>4. ends = h
  BY <1>2, Zenon DEF IsEnds, Truncation!Ends
<1>5. \A k \in 0 .. n : ends[k] = IF k = 0 THEN 0 ELSE ends[k - 1] + chars[k]
  BY <1>3, <1>4, Zenon DEF IsEnds
<1> HIDE DEF ends, n
<1>6. ends[0] = 0 /\ \A k \in 1 .. n : ends[k] = ends[k - 1] + chars[k]
  BY <1>1, <1>5
<1> DEFINE S == {k \in 0 .. n : ends[k] \in Nat}
<1>7. 0 \in S
  BY <1>1, <1>6
<1>8. ASSUME NEW k \in 0 .. n, k < n, k \in S PROVE k + 1 \in S
  <2>1. k + 1 \in 1 .. n /\ (k + 1) - 1 = k
    BY <1>1, <1>8
  <2>2. ends[k + 1] = ends[k] + chars[k + 1]
    BY <1>6, <2>1
  <2> QED
    BY <1>1, <1>8, <2>1, <2>2
<1>9. 0 .. n \subseteq S
  <2> HIDE DEF S
  <2> QED
    BY <1>1, <1>7, <1>8, IntervalInduction
<1>10. Truncation!Bytes(chars) = ends[n]
  BY DEF Truncation!Bytes, ends, n
<1>11. n \in 0 .. n
  BY <1>1
<1> QED
  BY <1>6, <1>9, <1>10, <1>11 DEF ends, n

\* Of a text whose characters have bytes, a longer beginning has more of them.
LEMMA EndsGrow ==
  ASSUME NEW chars \in Seq(1 .. 4), NEW j \in 0 .. Len(chars), NEW k \in 0 .. Len(chars), j < k
  PROVE  Truncation!Ends(chars)[j] < Truncation!Ends(chars)[k]
<1> DEFINE ends == Truncation!Ends(chars)
           n == Len(chars)
<1>1. chars \in Seq(Nat) /\ n \in Nat /\ \A i \in 1 .. n : chars[i] \in 1 .. 4
  OBVIOUS
<1>2. /\ \A i \in 1 .. n : ends[i] = ends[i - 1] + chars[i]
      /\ \A i \in 0 .. n : ends[i] \in Nat
  BY <1>1, EndsAre
<1>3. j \in 0 .. n /\ k \in 0 .. n
  OBVIOUS
<1> HIDE DEF ends, n
<1> DEFINE S == {i \in 0 .. n : j < i => ends[j] < ends[i]}
<1>4. 0 \in S
  BY <1>1, <1>3
<1>5. ASSUME NEW i \in 0 .. n, i < n, i \in S PROVE i + 1 \in S
  <2>1. i + 1 \in 1 .. n /\ (i + 1) - 1 = i
    BY <1>1, <1>5
  <2>2. ends[i + 1] = ends[i] + chars[i + 1]
    BY <1>2, <2>1
  <2>5. chars[i + 1] \in Nat /\ chars[i + 1] >= 1
    BY SMTT(30), <1>1, <2>1
  <2>3. ends[i] \in Nat /\ ends[j] \in Nat /\ ends[i + 1] \in Nat
    BY <1>2, <1>3, <2>1
  <2>4. j < i + 1 => ends[j] < ends[i + 1]
    BY <1>3, <1>5, <2>2, <2>3, <2>5
  <2> QED
    BY <2>1, <2>4
<1>6. 0 .. n \subseteq S
  <2> HIDE DEF S
  <2> QED
    BY <1>1, <1>4, <1>5, IntervalInduction
<1> QED
  BY <1>3, <1>6 DEF ends

\* The bytes of a part of a text.
LEMMA PartBytes ==
  ASSUME NEW chars \in Seq(Nat), NEW l \in 0 .. Len(chars), NEW r \in l .. Len(chars)
  PROVE  /\ SubSeq(chars, l + 1, r) \in Seq(Nat) /\ Len(SubSeq(chars, l + 1, r)) = r - l
         /\ Truncation!Bytes(SubSeq(chars, l + 1, r))
              = Truncation!Ends(chars)[r] - Truncation!Ends(chars)[l]
<1> DEFINE ends == Truncation!Ends(chars)
           cut == SubSeq(chars, l + 1, r)
           own == Truncation!Ends(cut)
           n == Len(chars)
           m == r - l
<1>1. n \in Nat /\ l \in 0 .. n /\ r \in l .. n /\ m \in Nat
  OBVIOUS
<1>2. /\ cut \in Seq(Nat) /\ Len(cut) = m
      /\ \A i \in 1 .. m : cut[i] = chars[l + i]
  OBVIOUS
<1>3. /\ own[0] = 0 /\ \A i \in 1 .. m : own[i] = own[i - 1] + cut[i]
      /\ \A i \in 0 .. m : own[i] \in Nat
      /\ Truncation!Bytes(cut) = own[m]
  BY <1>2, EndsAre
<1>4. /\ \A i \in 1 .. n : ends[i] = ends[i - 1] + chars[i]
      /\ \A i \in 0 .. n : ends[i] \in Nat
  BY EndsAre
<1>5. \A i \in 1 .. n : chars[i] \in Nat
  OBVIOUS
<1> HIDE DEF ends, cut, own, n, m
<1> DEFINE S == {i \in 0 .. m : own[i] = ends[l + i] - ends[l]}
<1>6. 0 \in S
  BY <1>1, <1>3, <1>4
<1>7. ASSUME NEW i \in 0 .. m, i < m, i \in S PROVE i + 1 \in S
  <2>1. i + 1 \in 1 .. m /\ (i + 1) - 1 = i
    BY <1>1, <1>7
  <2>2. PICK p : p = l + i
    OBVIOUS
  <2>3. p + 1 \in 1 .. n /\ (p + 1) - 1 = p /\ p \in 0 .. n /\ l + (i + 1) = p + 1 /\ l \in 0 .. n
    BY <1>1, <2>1, <2>2 DEF m
  <2>4. ends[p + 1] = ends[p] + chars[p + 1]
    BY <1>4, <2>3
  <2>5. own[i + 1] = own[i] + chars[p + 1]
    BY SMTT(30), <1>2, <1>3, <2>1, <2>3
  <2>6. own[i] = ends[p] - ends[l]
    BY <1>7, <2>2
  <2>7. chars[p + 1] \in Nat /\ ends[p] \in Nat /\ ends[l] \in Nat
    BY <1>4, <1>5, <2>3
  <2>8. own[i + 1] = ends[p + 1] - ends[l]
    BY <2>4, <2>5, <2>6, <2>7
  <2>9. own[i + 1] = ends[l + (i + 1)] - ends[l]
    BY <2>3, <2>8, Zenon
  <2>10. i + 1 \in 0 .. m
    BY <1>1, <2>1
  <2> QED
    BY <2>9, <2>10, Zenon
<1>8. 0 .. m \subseteq S
  <2> HIDE DEF S
  <2> QED
    BY <1>1, <1>6, <1>7, IntervalInduction
<1>9. own[m] = ends[l + m] - ends[l] /\ l + m = r
  BY <1>1, <1>8 DEF m
<1>10. Truncation!Bytes(cut) = ends[r] - ends[l]
  BY <1>3, <1>9
<1> QED
  BY <1>2, <1>10 DEF ends, cut, m

\* One value more.
LEMMA BytesOfAppend ==
  ASSUME NEW s \in Seq(Nat), NEW x \in Nat
  PROVE  Truncation!Bytes(Append(s, x)) = Truncation!Bytes(s) + x
<1> DEFINE t == Append(s, x)
           n == Len(s)
<1>1. t \in Seq(Nat) /\ Len(t) = n + 1 /\ t[n + 1] = x /\ n \in Nat
  OBVIOUS
<1>2. SubSeq(t, 0 + 1, n) = s
  <2>1. SubSeq(t, 0 + 1, n) \in Seq(Nat) /\ Len(SubSeq(t, 0 + 1, n)) = Len(s)
    OBVIOUS
  <2>2. \A i \in 1 .. Len(s) : SubSeq(t, 0 + 1, n)[i] = s[i]
    OBVIOUS
  <2> QED
    BY <2>1, <2>2, SeqEqual
<1>3. /\ Truncation!Bytes(t) = Truncation!Ends(t)[n + 1]
      /\ Truncation!Ends(t)[n + 1] = Truncation!Ends(t)[(n + 1) - 1] + t[n + 1]
      /\ Truncation!Ends(t)[0] = 0 /\ Truncation!Ends(t)[n] \in Nat
  <2>1. n + 1 \in 1 .. Len(t) /\ n \in 0 .. Len(t)
    BY <1>1
  <2> HIDE DEF t, n
  <2> QED
    BY <1>1, <2>1, EndsAre
<1>4. Truncation!Bytes(SubSeq(t, 0 + 1, n)) = Truncation!Ends(t)[n] - Truncation!Ends(t)[0]
  <2>1. 0 \in 0 .. Len(t) /\ n \in 0 .. Len(t)
    BY <1>1
  <2> HIDE DEF t, n
  <2> QED
    BY <1>1, <2>1, PartBytes
<1> HIDE DEF t, n
<1>5. (n + 1) - 1 = n
  BY <1>1
<1>6. Truncation!Bytes(s) = Truncation!Ends(t)[n]
  <2>1. Truncation!Ends(t)[n] - Truncation!Ends(t)[0] = Truncation!Ends(t)[n]
    BY <1>3
  <2> QED
    BY <1>2, <1>4, <2>1, Zenon
<1>7. Truncation!Bytes(t) = Truncation!Ends(t)[n] + x
  BY <1>1, <1>3, <1>5
<1> QED
  BY <1>6, <1>7 DEF t

\* OutputTruncation counts with an instance of its own.
LEMMA SameCardinality == \A S : Truncation!Cardinality(S) = Cardinality(S)
BY Zenon DEF Truncation!Cardinality, Cardinality

\* Numbers among the first n that have all before each of them are a beginning.
LEMMA BeginningOf ==
  ASSUME NEW n \in Nat, NEW S \in SUBSET (1 .. n), \A k \in S : \A j \in 1 .. k : j \in S
  PROVE  \E m \in 0 .. n : S = 1 .. m
<1> DEFINE T == {k \in Nat : k >= 1 /\ k \notin S}
<1>1. n + 1 \in T
  OBVIOUS
<1>2. PICK x \in T : \A y \in T : ~(<<y, x>> \in OpToRel(<, Nat))
  <2>1. T \subseteq Nat /\ T # {}
    BY <1>1
  <2> HIDE DEF T
  <2> QED
    BY <2>1, WFMin, NatLessThanWellFounded
<1>3. x \in Nat /\ x >= 1 /\ x \notin S
  OBVIOUS
<1>4. \A y \in Nat : y >= 1 /\ y < x => y \in S
  <2> SUFFICES ASSUME NEW y \in Nat, y >= 1, y < x, y \notin S PROVE FALSE
    OBVIOUS
  <2>1. y \in T /\ <<y, x>> \in OpToRel(<, Nat)
    BY <1>3 DEF OpToRel
  <2> QED
    BY <1>2, <2>1
<1>5. \A y \in S : y < x
  <2> SUFFICES ASSUME NEW y \in S, ~(y < x) PROVE FALSE
    OBVIOUS
  <2>1. x \in 1 .. y
    BY <1>3
  <2> QED
    BY <1>3, <2>1
<1>6. x - 1 \in 0 .. n
  <2>1. ~(n + 1 < x)
    <3> SUFFICES ASSUME n + 1 < x PROVE FALSE
      OBVIOUS
    <3>1. n + 1 \in S
      BY <1>4
    <3> QED
      BY <3>1
  <2> QED
    BY <1>3, <2>1
<1>7. S = 1 .. x - 1
  <2>1. \A y \in S : y \in 1 .. x - 1
    BY <1>3, <1>5
  <2>2. \A y \in 1 .. x - 1 : y \in S
    BY <1>3, <1>4
  <2> HIDE DEF T
  <2> QED
    BY <2>1, <2>2, Zenon
<1> QED
  BY <1>6, <1>7

\* Where a text is cut: what is left of it ends and begins with whole characters,
\* and not one more would have fitted.
LEMMA SplitIs ==
  ASSUME NEW chars \in Seq(1 .. 4), NEW b \in Nat, NEW e \in Nat,
         b + e < Truncation!Bytes(chars)
  PROVE  \E l, r \in 0 .. Len(chars) :
           /\ l < r
           /\ Truncation!split_string(chars, b, e).before = SubSeq(chars, 1, l)
           /\ Truncation!split_string(chars, b, e).after = SubSeq(chars, r + 1, Len(chars))
           /\ Truncation!split_string(chars, b, e).removed = r - l
           /\ Truncation!Ends(chars)[l] <= b
           /\ Truncation!Ends(chars)[l + 1] > b
           /\ Truncation!Bytes(chars) - Truncation!Ends(chars)[r] <= e
           /\ Truncation!Bytes(chars) - Truncation!Ends(chars)[r - 1] > e
<1> DEFINE ends == Truncation!Ends(chars)
           total == Truncation!Bytes(chars)
           n == Len(chars)
           before == {k \in DOMAIN chars : ends[k] <= b}
           after == {k \in DOMAIN chars \ before : ends[k - 1] >= total - e}
<1>1. chars \in Seq(Nat) /\ n \in Nat /\ DOMAIN chars = 1 .. n
  OBVIOUS
<1>2. /\ ends[0] = 0
      /\ \A k \in 0 .. n : ends[k] \in Nat
      /\ total = ends[n] /\ total \in Nat
  BY <1>1, EndsAre
<1>3. \A j, k \in 0 .. n : j < k => ends[j] < ends[k]
  BY EndsGrow
<1>4. Truncation!split_string(chars, b, e) =
        [removed |-> n - Cardinality(before) - Cardinality(after),
         before |-> SubSeq(chars, 1, Cardinality(before)),
         after |-> SubSeq(chars, n - Cardinality(after) + 1, n)]
  BY SameCardinality, Zenon DEF Truncation!split_string
<1> HIDE DEF ends, total, n
<1>17. \A k : k \in before <=> k \in 1 .. n /\ ends[k] <= b
  BY <1>1, Zenon
<1>18. \A k : k \in after <=> k \in 1 .. n /\ k \notin before /\ ends[k - 1] >= total - e
  BY <1>1, Zenon
<1> HIDE DEF before, after
<1>5. PICK l \in 0 .. n : before = 1 .. l
  <2>1. before \in SUBSET (1 .. n)
    BY <1>17
  <2>2. \A k \in before : \A j \in 1 .. k : j \in before
    <3> TAKE k \in before
    <3> TAKE j \in 1 .. k
    <3>1. k \in 1 .. n /\ j \in 1 .. n /\ j \in 0 .. n /\ k \in 0 .. n /\ (j < k \/ j = k)
      BY <1>1, <1>17
    <3>2. ends[j] \in Nat /\ ends[k] \in Nat /\ ends[k] <= b
      BY <1>2, <1>17, <3>1
    <3>3. j < k => ends[j] < ends[k]
      BY <1>3, <3>1
    <3>4. ends[j] <= b
      BY <3>1, <3>2, <3>3
    <3> QED
      BY <1>17, <3>1, <3>4
  <2> QED
    BY ZenonT(30), <1>1, <2>1, <2>2, BeginningOf
<1>6. PICK r \in 0 .. n : (1 .. n) \ after = 1 .. r
  <2>1. (1 .. n) \ after \in SUBSET (1 .. n)
    OBVIOUS
  <2>2. \A k \in (1 .. n) \ after : \A j \in 1 .. k : j \in (1 .. n) \ after
    <3> TAKE k \in (1 .. n) \ after
    <3> TAKE j \in 1 .. k
    <3>1. k \in 1 .. n /\ k \notin after /\ j \in 1 .. n /\ j - 1 \in 0 .. n /\ k - 1 \in 0 .. n
          /\ (j = k \/ j < k)
      BY <1>1
    <3>2. ASSUME j \in after PROVE FALSE
      <4>1. j < k
        BY <3>1, <3>2
      <4>2. j \notin before /\ ends[j - 1] >= total - e
        BY <1>18, <3>2, Zenon
      <4>3. k \notin before
        BY <1>1, <1>5, <3>1, <4>2
      <4>4. ends[j - 1] \in Nat /\ ends[k - 1] \in Nat /\ ends[j - 1] < ends[k - 1]
        BY <1>2, <1>3, <3>1, <4>1
      <4>5. ends[k - 1] >= total - e
        BY SMTT(30), <1>2, <4>2, <4>4
      <4> QED
        BY <1>18, <3>1, <4>3, <4>5, Zenon
    <3> QED
      BY <3>1, <3>2
  <2> QED
    BY ZenonT(30), <1>1, <2>1, <2>2, BeginningOf
<1>7. after = r + 1 .. n
  <2>1. \A k \in after : k \in 1 .. n /\ k \notin 1 .. r
    BY <1>6, <1>18
  <2>2. \A k \in 1 .. n : k \notin 1 .. r => k \in after
    BY <1>6
  <2>3. \A k : k \in 1 .. n /\ k \notin 1 .. r <=> k \in r + 1 .. n
    BY <1>1
  <2> QED
    BY <2>1, <2>2, <2>3
<1>8. Cardinality(before) = l /\ Cardinality(after) = n - r
  <2>1. l \in Int /\ r \in Int /\ n \in Int /\ 1 \in Int /\ r + 1 \in Int
    BY <1>1
  <2>2. Cardinality(1 .. l) = IF 1 > l THEN 0 ELSE l - 1 + 1
    BY <2>1, FS_Interval
  <2>3. Cardinality(r + 1 .. n) = IF r + 1 > n THEN 0 ELSE n - (r + 1) + 1
    BY <2>1, FS_Interval
  <2>4. (IF 1 > l THEN 0 ELSE l - 1 + 1) = l /\ (IF r + 1 > n THEN 0 ELSE n - (r + 1) + 1) = n - r
    BY <1>1
  <2> QED
    BY <1>5, <1>7, <2>2, <2>3, <2>4, Zenon
<1>9. ends[l] <= b
  <2>1. CASE l = 0
    BY <1>2, <2>1
  <2>2. CASE l # 0
    <3>1. l \in before
      BY <1>5, <2>2
    <3> QED
      BY <1>17, <3>1
  <2> QED
    BY <2>1, <2>2
<1>10. ends[r] >= total - e
  <2>1. CASE r = n
    BY <1>2, <2>1
  <2>2. CASE r # n
    <3>1. r + 1 \in after /\ (r + 1) - 1 = r
      <4>1. r + 1 \in r + 1 .. n /\ (r + 1) - 1 = r
        BY <1>1, <2>2
      <4> QED
        BY <1>7, <4>1, Zenon
    <3>2. ends[(r + 1) - 1] >= total - e
      BY <1>18, <3>1, Zenon
    <3> QED
      BY <3>1, <3>2, Zenon
  <2> QED
    BY <2>1, <2>2
<1>11. l < r
  <2>1. ends[l] \in Nat /\ ends[r] \in Nat /\ ends[l] < ends[r]
    BY <1>2, <1>9, <1>10 DEF total
  <2>2. ~(r < l)
    <3> SUFFICES ASSUME r < l PROVE FALSE
      OBVIOUS
    <3>1. ends[r] < ends[l]
      BY <1>3
    <3> QED
      BY <2>1, <3>1
  <2>3. r # l
    BY <2>1
  <2> QED
    BY <1>1, <2>2, <2>3
<1>12. ends[l + 1] > b
  <2>1. l + 1 \in 1 .. n /\ l + 1 \in 0 .. n /\ l + 1 \notin 1 .. l
    BY <1>1, <1>11
  <2>2. ~(ends[l + 1] <= b)
    BY <1>5, <1>17, <2>1
  <2>3. ends[l + 1] \in Nat
    BY <1>2, <2>1
  <2> QED
    BY <2>2, <2>3
<1>13. ends[r - 1] < total - e
  <2>1. r \in 1 .. n /\ r - 1 \in 0 .. n /\ r \notin r + 1 .. n /\ r \notin 1 .. l
    BY <1>1, <1>11
  <2>2. ~(ends[r - 1] >= total - e)
    BY <1>5, <1>7, <1>18, <2>1
  <2>3. ends[r - 1] \in Nat
    BY <1>2, <2>1
  <2> QED
    BY <1>2, <2>2, <2>3
<1>14. /\ n - Cardinality(before) - Cardinality(after) = r - l
       /\ n - Cardinality(after) + 1 = r + 1
  BY <1>1, <1>8
<1>15. /\ Truncation!split_string(chars, b, e).before = SubSeq(chars, 1, l)
       /\ Truncation!split_string(chars, b, e).after = SubSeq(chars, r + 1, n)
       /\ Truncation!split_string(chars, b, e).removed = r - l
  <2>1. Truncation!split_string(chars, b, e) =
          [removed |-> r - l, before |-> SubSeq(chars, 1, l), after |-> SubSeq(chars, r + 1, n)]
    BY <1>4, <1>8, <1>14, Zenon
  <2>2. PICK p, x, y, z :
          /\ p = Truncation!split_string(chars, b, e)
          /\ x = r - l /\ y = SubSeq(chars, 1, l) /\ z = SubSeq(chars, r + 1, n)
    BY Zenon
  <2>3. p = [removed |-> x, before |-> y, after |-> z]
    BY <2>1, <2>2, Zenon
  <2>4. p.removed = x /\ p.before = y /\ p.after = z
    BY <2>3
  <2> QED
    BY <2>2, <2>4, Zenon
<1>16. total - ends[r] <= e /\ total - ends[r - 1] > e
  <2>1. r - 1 \in 0 .. n
    BY <1>1, <1>11
  <2>2. ends[r] \in Nat /\ ends[r - 1] \in Nat
    BY <1>2, <2>1
  <2> QED
    BY SMTT(30), <1>2, <1>10, <1>13, <2>2
<1> QED
  BY <1>9, <1>11, <1>12, <1>15, <1>16, Zenon DEF ends, total, n

\* A truncated text is what TruncatedRight says of it.
LEMMA TextTruncated ==
  ASSUME NEW chars \in Seq(1 .. 4), NEW max_bytes \in Nat, policy \in Truncation!Policies
  PROVE  Truncation!TruncatedRight(chars,
           Truncation!truncate_with_byte_estimate(chars, max_bytes), max_bytes)
<1> DEFINE text == Truncation!truncate_with_byte_estimate(chars, max_bytes)
           total == Truncation!Bytes(chars)
           ends == Truncation!Ends(chars)
           n == Len(chars)
<1>1. chars \in Seq(Nat) /\ n \in Nat /\ chars = SubSeq(chars, 1, n) /\ Truncation!NoMarker = -1
  BY DEF Truncation!NoMarker
<1>2. /\ ends[0] = 0
      /\ \A k \in 1 .. n : ends[k] = ends[k - 1] + chars[k]
      /\ \A k \in 0 .. n : ends[k] \in Nat
      /\ total = ends[n] /\ total \in Nat
  BY <1>1, EndsAre
<1>3. Truncation!Bytes(<< >>) = 0
  <2>1. << >> \in Seq(Nat) /\ Len(<< >>) = 0
    OBVIOUS
  <2> QED
    BY <2>1, EndsAre
<1>4. \A k \in Nat : Truncation!approx_tokens(k) \in Nat
  BY DEF Truncation!approx_tokens, Truncation!BytesPerToken
<1>5. max_bytes \div 2 \in Nat /\ max_bytes - max_bytes \div 2 \in Nat
      /\ max_bytes \div 2 + (max_bytes - max_bytes \div 2) = max_bytes
  OBVIOUS
<1>6. CASE chars = << >> \/ total <= max_bytes
  <2>1. chars = << >> => n = 0
    BY DEF n
  <2>2. n # 0 => total > 0
    <3>1. SUFFICES ASSUME n # 0 PROVE total > 0
      OBVIOUS
    <3>2. 0 \in 0 .. n /\ n \in 0 .. n /\ 0 < n
      BY <1>1, <3>1
    <3>3. ends[0] < ends[n]
      BY <3>2, EndsGrow
    <3> QED
      BY <1>2, <3>3
  <2>3. total <= max_bytes
    BY <1>2, <1>6, <2>1
  <2>4. text = Truncation!Whole(chars)
    <3>1. chars # << >> => n # 0
      OBVIOUS
    <3>2. chars # << >> => max_bytes > 0
      BY <1>2, <2>2, <2>3, <3>1
    <3> QED
      BY <2>3, <3>2 DEF Truncation!truncate_with_byte_estimate
  <2>5. text.left = chars /\ text.right = << >> /\ text.marker = Truncation!NoMarker
    BY <2>4 DEF Truncation!Whole, Truncation!Truncated
  <2>6. Len(<< >>) = 0 /\ << >> = SubSeq(chars, n - 0 + 1, n)
    BY <1>1
  <2> HIDE DEF text, total, ends, n
  <2>7. Truncation!TruncatedRight(chars, text, max_bytes)
    <3>1. Len(text.left) = n /\ Len(text.right) = 0
      BY <2>5, <2>6 DEF n
    <3>2. n + 0 <= n /\ total + 0 <= max_bytes
      BY <1>1, <1>2, <2>3
    <3> QED
      BY <1>1, <1>3, <2>3, <2>5, <2>6, <3>1, <3>2, Zenon DEF Truncation!TruncatedRight, n, total
  <2> QED
    BY <2>7 DEF text
<1>7. CASE chars # << >> /\ ~(total <= max_bytes)
  <2>1. PICK l, r \in 0 .. n :
          /\ l < r
          /\ text.left = SubSeq(chars, 1, l) /\ text.right = SubSeq(chars, r + 1, n)
          /\ text.marker = Truncation!removed_units(total - max_bytes, r - l)
          /\ ends[l] <= max_bytes \div 2 /\ ends[l + 1] > max_bytes \div 2
          /\ total - ends[r] <= max_bytes - max_bytes \div 2
          /\ total - ends[r - 1] > max_bytes - max_bytes \div 2
    <3>1. CASE max_bytes = 0
      <4>1. n # 0
        BY <1>7
      <4>2. text = Truncation!Truncated(<< >>, << >>, Truncation!removed_units(total, n))
        BY <1>7, <3>1 DEF Truncation!truncate_with_byte_estimate
      <4>3. /\ text.left = << >> /\ text.right = << >>
            /\ text.marker = Truncation!removed_units(total, n)
        BY <4>2 DEF Truncation!Truncated
      <4>4. 0 \in 0 .. n /\ n \in 0 .. n /\ 0 < n /\ 1 \in 0 .. n /\ n - 1 \in 0 .. n
            /\ 0 + 1 = 1 /\ n - 1 < n
        BY <1>1, <4>1
      <4>5. ends[0] < ends[1] /\ ends[n - 1] < ends[n]
        BY <4>4, EndsGrow
      <4>6. SubSeq(chars, 1, 0) = << >> /\ SubSeq(chars, n + 1, n) = << >>
        BY <1>1
      <4>7. 0 \div 2 = 0 /\ 0 - 0 = 0 /\ total - 0 = total /\ n - 0 = n
        BY <1>1, <1>2
      <4> HIDE DEF text, total, ends, n
      <4>8. total - ends[n] <= 0 /\ total - ends[n - 1] > 0 /\ ends[0] <= 0 /\ ends[1] > 0
        BY <1>2, <4>4, <4>5
      <4> QED
        BY <3>1, <4>3, <4>4, <4>6, <4>7, <4>8, Zenon
    <3>2. CASE max_bytes # 0
      <4> DEFINE b == max_bytes \div 2
                 e == max_bytes - b
                 parts == Truncation!split_string(chars, b, e)
      <4>1. b \in Nat /\ e \in Nat /\ b + e < total
        BY <1>2, <1>5, <1>7
      <4>2. text = Truncation!Truncated(parts.before, parts.after,
                     Truncation!removed_units(total - max_bytes, parts.removed))
        BY <1>7, <3>2 DEF Truncation!truncate_with_byte_estimate
      <4>3. /\ text.left = parts.before /\ text.right = parts.after
            /\ text.marker = Truncation!removed_units(total - max_bytes, parts.removed)
        BY <4>2 DEF Truncation!Truncated
      <4> HIDE DEF b, e, text
      <4>4. \E l, r \in 0 .. Len(chars) :
           /\ l < r
           /\ Truncation!split_string(chars, b, e).before = SubSeq(chars, 1, l)
           /\ Truncation!split_string(chars, b, e).after = SubSeq(chars, r + 1, Len(chars))
           /\ Truncation!split_string(chars, b, e).removed = r - l
           /\ Truncation!Ends(chars)[l] <= b
           /\ Truncation!Ends(chars)[l + 1] > b
           /\ Truncation!Bytes(chars) - Truncation!Ends(chars)[r] <= e
           /\ Truncation!Bytes(chars) - Truncation!Ends(chars)[r - 1] > e
        BY <4>1, SplitIs DEF total
      <4> QED
        BY <4>3, <4>4, Zenon DEF b, e
    <3> QED
      BY <3>1, <3>2, Zenon
  <2>2. l \in 0 .. n /\ r \in l .. n /\ 0 \in 0 .. n /\ n \in r .. n /\ 0 + 1 = 1
    BY <1>1, <2>1
  <2>3. /\ Len(text.left) = l /\ Truncation!Bytes(text.left) = ends[l]
    <3>1. l \in 0 .. Len(chars) /\ l \in 0 .. l
      BY <2>2 DEF n
    <3>2. /\ Len(SubSeq(chars, 0 + 1, l)) = l - 0
          /\ Truncation!Bytes(SubSeq(chars, 0 + 1, l)) = ends[l] - ends[0]
      BY <1>1, <2>2, <3>1, PartBytes
    <3>3. l - 0 = l /\ ends[l] - ends[0] = ends[l]
      BY <1>2, <2>2
    <3> QED
      BY <2>1, <2>2, <3>2, <3>3, Zenon
  <2>4. /\ Len(text.right) = n - r /\ Truncation!Bytes(text.right) = total - ends[r]
    <3>1. r \in 0 .. Len(chars) /\ n \in r .. Len(chars)
      BY SMTT(30), <2>2 DEF n
    <3>2. /\ Len(SubSeq(chars, r + 1, n)) = n - r
          /\ Truncation!Bytes(SubSeq(chars, r + 1, n)) = ends[n] - ends[r]
      BY <1>1, <3>1, PartBytes
    <3> QED
      BY <1>2, <2>1, <3>2, Zenon
  <2> HIDE DEF text, total, ends, n
  <2>5. n - (n - r) = r /\ l + (n - r) <= n /\ l + 1 .. r # {} /\ r - l \in Nat
    <3>1. l \in Nat /\ r \in Nat /\ n \in Nat /\ l < r /\ r <= n
      BY <1>1, <2>1
    <3>2. l + 1 \in l + 1 .. r
      BY <3>1
    <3>3. n - (n - r) = r /\ l + (n - r) <= n /\ r - l \in Nat
      BY <3>1
    <3>4. l + 1 .. r # {}
      BY <3>2
    <3> QED
      BY <3>3, <3>4, Zenon
  <2>6. ends[l + 1] = ends[l] + chars[l + 1] /\ ends[r] = ends[r - 1] + chars[r]
    <3>1. l + 1 \in 1 .. n /\ (l + 1) - 1 = l /\ r \in 1 .. n
      BY <1>1, <2>1, <2>2
    <3> QED
      BY <1>2, <3>1
  <2>7. ends[l] + chars[l + 1] > max_bytes \div 2
    BY <2>1, <2>6, Zenon
  <2>8. (total - ends[r]) + chars[r] > max_bytes - max_bytes \div 2
    <3>1. r - 1 \in 0 .. n /\ r \in 1 .. n
      BY <1>1, <2>1, <2>2
    <3>2. chars[r] \in Nat
      BY <3>1 DEF n
    <3>3. ends[r - 1] \in Nat /\ ends[r] \in Nat
      BY <1>2, <3>1, <2>2
    <3>4. (total - ends[r]) + chars[r] = total - ends[r - 1]
      BY SMTT(30), <1>2, <2>6, <3>2, <3>3
    <3> QED
      BY <2>1, <3>4, Zenon
  <2>9. ends[l] + (total - ends[r]) <= max_bytes
    <3>1. ends[l] \in Nat /\ ends[r] \in Nat
      BY <1>2
    <3>2. \A a, c, b, e \in Int : a <= b /\ c <= e => a + c <= b + e
      OBVIOUS
    <3>3. ends[l] + (total - ends[r]) <= max_bytes \div 2 + (max_bytes - max_bytes \div 2)
      <4>1. total - ends[r] \in Int /\ ends[l] \in Int
        BY <1>2, <3>1
      <4>2. max_bytes \div 2 \in Int /\ max_bytes - max_bytes \div 2 \in Int
        BY <1>5
      <4> QED
        BY <2>1, <3>2, <4>1, <4>2, Zenon
    <3> QED
      BY <1>5, <3>3, Zenon
  <2>10. total - max_bytes \in Nat
    BY <1>2, <1>7
  <2>11. Cardinality(l + 1 .. r) = r - l
    <3>1. l + 1 \in Int /\ r \in Int
      BY <2>2
    <3>2. Cardinality(l + 1 .. r) = IF l + 1 > r THEN 0 ELSE r - (l + 1) + 1
      BY <3>1, FS_Interval
    <3>3. (IF l + 1 > r THEN 0 ELSE r - (l + 1) + 1) = r - l
      BY <2>1, <2>2, <1>1
    <3> QED
      BY <3>2, <3>3
  <2>12. text.marker = IF policy.unit = "bytes" THEN Cardinality(l + 1 .. r)
                                                ELSE Truncation!approx_tokens(total - max_bytes)
    <3>1. policy.unit = "tokens" <=> policy.unit # "bytes"
      BY DEF Truncation!Policies
    <3>2. text.marker = IF policy.unit = "tokens" THEN Truncation!approx_tokens(total - max_bytes) ELSE r - l
      BY <2>1, Zenon DEF Truncation!removed_units
    <3> QED
      BY <2>11, <3>1, <3>2, Zenon
  <2>13. text.marker # Truncation!NoMarker
    <3>1. Truncation!approx_tokens(total - max_bytes) \in Nat
      BY <1>4, <2>10
    <3>2. text.marker \in Nat
      BY <2>5, <2>11, <2>12, <3>1, Zenon
    <3> QED
      BY <1>1, <3>2
  <2>14. Truncation!TruncatedRight(chars, text, max_bytes)
    BY <1>7, <2>1, <2>3, <2>4, <2>5, <2>7, <2>8, <2>9, <2>12, <2>13, SameCardinality, Zenon
      DEF Truncation!TruncatedRight, total, n
  <2> QED
    BY <2>14 DEF text
<1> QED
  BY <1>6, <1>7

(***************************************************************************)
(* The items of an output, one after the other.                            *)
(***************************************************************************)
OutputItems ==
  {item \in [type : {"text", "image"}, chars : Seq(1 .. 4)] : item.type = "text" \/ item.chars = << >>}

TextParts == [left : Seq(Nat), right : Seq(Nat), marker : Int]

SentItems == [type : {"text", "image"}, text : TextParts]

TakenStates == [out : Seq(SentItems), remaining : Nat, omitted : Nat]

\* The bytes of a budget that is counted in units of the policy.
Budget(amount) == IF policy.unit = "bytes" THEN amount ELSE amount * 4

IsText(k) == output[k].type = "text"

Stay(t, at) == {at[j] : j \in DOMAIN t.out}

IsCut(t, j) == t.out[j].text.marker # Truncation!NoMarker

LEMMA SentUnfolds ==
  ASSUME NEW t, NEW at, NEW places
  PROVE  Truncation!SentRight(t, at, places) <=>
           /\ \A i, j \in DOMAIN t.out : i < j => at[i] < at[j]
           /\ \A gone \in places \ Stay(t, at) : IsText(gone)
           /\ \A gone \in places \ Stay(t, at) : \A j \in Stay(t, at) : IsText(j) => j < gone
           /\ t.omitted = Cardinality(places \ Stay(t, at))
           /\ t.omitted > 0 => t.remaining = 0
           /\ \A j \in DOMAIN t.out : t.out[j].type = output[at[j]].type
           /\ \A j \in DOMAIN t.out : ~IsCut(t, j) => t.out[j].text = Truncation!Whole(output[at[j]].chars)
           /\ \A j \in DOMAIN t.out : IsCut(t, j) => \A i \in Stay(t, at) : IsText(i) => i <= at[j]
           /\ Truncation!Bytes(Truncation!Sizes(t.out)) <= Truncation!byte_budget
<1> DEFINE stay == {at[j] : j \in DOMAIN t.out}
           cut == {j \in DOMAIN t.out : t.out[j].text.marker # Truncation!NoMarker}
<1>1. \A S, j : j \in Truncation!TextsAmong(S) <=> j \in S /\ IsText(j)
  BY Zenon DEF Truncation!TextsAmong, IsText
<1>2. \A j \in DOMAIN t.out : j \in cut <=> IsCut(t, j)
  BY Zenon DEF IsCut
<1>3. Truncation!SentRight(t, at, places) <=>
        /\ \A j, k \in DOMAIN t.out : j < k => at[j] < at[k]
        /\ places \ stay = Truncation!TextsAmong(places \ stay)
        /\ \A gone \in places \ stay, j \in Truncation!TextsAmong(stay) : j < gone
        /\ t.omitted = Truncation!Cardinality(places \ stay)
        /\ t.omitted > 0 => t.remaining = 0
        /\ \A k \in DOMAIN t.out :
             /\ t.out[k].type = output[at[k]].type
             /\ k \notin cut => t.out[k].text = Truncation!Whole(output[at[k]].chars)
             /\ k \in cut => \A j \in Truncation!TextsAmong(stay) : j <= at[k]
        /\ Truncation!Bytes(Truncation!Sizes(t.out)) <= Truncation!byte_budget
  BY Zenon DEF Truncation!SentRight
<1>4. places \ stay = Truncation!TextsAmong(places \ stay) <=> \A gone \in places \ stay : IsText(gone)
  <2> HIDE DEF stay
  <2> QED
    BY <1>1
<1>5. stay = Stay(t, at)
  BY Zenon DEF Stay
<1> HIDE DEF stay, cut
<1> QED
  BY <1>1, <1>2, <1>3, <1>4, <1>5, SameCardinality, Zenon

\* What was taken of the first k items.
Sent(t, at, k) ==
  /\ t \in TakenStates /\ at \in [1 .. Len(t.out) -> 1 .. k]
  /\ Truncation!SentRight(t, at, 1 .. k)
  /\ t.remaining > 0 => 1 .. k \subseteq Stay(t, at) /\ \A j \in DOMAIN t.out : ~IsCut(t, j)
  /\ Truncation!Bytes(Truncation!Sizes(t.out)) + Budget(t.remaining) <= Truncation!byte_budget

LEMMA SizesOfAppend ==
  ASSUME NEW out \in Seq(SentItems), NEW e \in SentItems
  PROVE  /\ Truncation!Sizes(out) \in Seq(Nat)
         /\ Truncation!Bytes(e.text.left) + Truncation!Bytes(e.text.right) \in Nat
         /\ Truncation!Bytes(Truncation!Sizes(Append(out, e)))
              = Truncation!Bytes(Truncation!Sizes(out))
                  + (Truncation!Bytes(e.text.left) + Truncation!Bytes(e.text.right))
<1> DEFINE Size(x) == Truncation!Bytes(x.text.left) + Truncation!Bytes(x.text.right)
           n == Len(out)
           more == Append(out, e)
<1>1. \A x \in SentItems : Size(x) \in Nat
  <2> TAKE x \in SentItems
  <2>1. x.text.left \in Seq(Nat) /\ x.text.right \in Seq(Nat)
    BY DEF SentItems, TextParts
  <2>2. Truncation!Bytes(x.text.left) \in Nat /\ Truncation!Bytes(x.text.right) \in Nat
    BY <2>1, EndsAre
  <2> QED
    BY <2>2
<1>2. \A s : Truncation!Sizes(s) = [k \in DOMAIN s |-> Size(s[k])]
  BY Zenon DEF Truncation!Sizes
<1> HIDE DEF Size
<1>3. n \in Nat /\ DOMAIN out = 1 .. n /\ \A k \in 1 .. n : out[k] \in SentItems
  OBVIOUS
<1>4. /\ DOMAIN more = 1 .. n + 1 /\ more[n + 1] = e
      /\ \A k \in 1 .. n : more[k] = out[k]
  OBVIOUS
<1>5. Truncation!Sizes(out) \in Seq(Nat) /\ Len(Truncation!Sizes(out)) = n
  <2>1. Truncation!Sizes(out) = [k \in 1 .. n |-> Size(out[k])]
    BY <1>2, <1>3
  <2>2. Truncation!Sizes(out) \in [1 .. n -> Nat]
    BY <1>1, <1>3, <2>1
  <2> QED
    BY <1>3, <2>2, SeqDef, LenProperties
<1>6. Size(e) \in Nat
  BY <1>1
<1>7. Truncation!Sizes(more) = Append(Truncation!Sizes(out), Size(e))
  <2>1. PICK sizes \in Seq(Nat) : sizes = Truncation!Sizes(out) /\ Len(sizes) = n
    BY <1>5
  <2>2. PICK x \in Nat : x = Size(e)
    BY <1>6
  <2>3. PICK both \in Seq(Nat) : both = Append(sizes, x)
    BY AppendProperties
  <2>4. Len(both) = n + 1 /\ both[n + 1] = x /\ \A k \in 1 .. n : both[k] = sizes[k]
    BY <2>1, <2>2, <2>3
  <2>5. Truncation!Sizes(more) = [k \in 1 .. n + 1 |-> Size(more[k])]
    BY <1>2, <1>4
  <2>6. \A k \in 1 .. n : sizes[k] = Size(out[k])
    BY <1>2, <1>3, <2>1
  <2>7. \A k \in 1 .. n + 1 : k = n + 1 \/ k \in 1 .. n
    BY <1>3
  <2>8. \A k \in 1 .. n + 1 : Size(more[k]) = both[k]
    BY <1>4, <2>2, <2>4, <2>6, <2>7, Zenon
  <2>9. both = [k \in 1 .. n + 1 |-> both[k]]
    BY <2>4
  <2> HIDE DEF more, n
  <2> QED
    BY <2>1, <2>2, <2>3, <2>5, <2>8, <2>9
<1>8. Truncation!Bytes(Truncation!Sizes(more)) = Truncation!Bytes(Truncation!Sizes(out)) + Size(e)
  BY <1>5, <1>6, <1>7, BytesOfAppend
<1> QED
  BY <1>5, <1>6, <1>8 DEF Size

\* One more item that stays.
LEMMA SentMore ==
  ASSUME NEW k \in Nat, NEW t, NEW at, NEW t2 \in TakenStates, NEW e \in SentItems,
         Sent(t, at, k), policy \in Truncation!Policies,
         t2.out = Append(t.out, e), t2.omitted = t.omitted,
         e.type = output[k + 1].type,
         IsText(k + 1) => t.remaining > 0,
         t2.remaining > 0 => t.remaining > 0 /\ e.text.marker = Truncation!NoMarker,
         t.remaining = 0 => t2.remaining = 0,
         e.text.marker = Truncation!NoMarker => e.text = Truncation!Whole(output[k + 1].chars),
         e.text.marker # Truncation!NoMarker => IsText(k + 1),
         Truncation!Bytes(e.text.left) + Truncation!Bytes(e.text.right) + Budget(t2.remaining)
           <= Budget(t.remaining)
  PROVE  \E at2 : Sent(t2, at2, k + 1)
<1> DEFINE n == Len(t.out)
<1>1. /\ t.out \in Seq(SentItems) /\ n \in Nat /\ DOMAIN t.out = 1 .. n
      /\ t.remaining \in Nat /\ t.omitted \in Nat /\ t2.remaining \in Nat
      /\ at \in [1 .. n -> 1 .. k]
  <2>1. t \in TakenStates /\ at \in [1 .. n -> 1 .. k]
    BY Zenon DEF Sent
  <2> QED
    BY <2>1 DEF TakenStates
<1>2. PICK at2 : at2 = [j \in 1 .. n + 1 |-> IF j = n + 1 THEN k + 1 ELSE at[j]]
  OBVIOUS
<1>3. DOMAIN t2.out = 1 .. n + 1 /\ Len(t2.out) = n + 1
      /\ t2.out[n + 1] = e /\ \A j \in 1 .. n : t2.out[j] = t.out[j]
  BY <1>1
<1> HIDE DEF n
<1>4. /\ at2[n + 1] = k + 1 /\ \A j \in 1 .. n : at2[j] = at[j] /\ at[j] \in 1 .. k
      /\ at2 \in [1 .. n + 1 -> 1 .. k + 1]
  BY <1>1, <1>2
<1>5. n + 1 \in 1 .. n + 1 /\ (\A j \in 1 .. n + 1 : j = n + 1 \/ j \in 1 .. n) /\ 1 .. n \subseteq 1 .. n + 1
  BY <1>1
<1>6. Stay(t2, at2) = Stay(t, at) \union {k + 1} /\ Stay(t, at) \subseteq 1 .. k
  <2>1. Stay(t2, at2) = {at2[j] : j \in 1 .. n + 1} /\ Stay(t, at) = {at[j] : j \in 1 .. n}
    BY <1>1, <1>3, Zenon DEF Stay
  <2>2. \A x \in Stay(t2, at2) : x \in Stay(t, at) \union {k + 1}
    BY <1>4, <1>5, <2>1
  <2>3. \A x \in Stay(t, at) : x \in Stay(t2, at2) /\ x \in 1 .. k
    BY <1>4, <1>5, <2>1
  <2>4. k + 1 \in Stay(t2, at2)
    BY <1>4, <1>5, <2>1
  <2> QED
    BY <2>2, <2>3, <2>4
<1>7. (1 .. k + 1) \ Stay(t2, at2) = (1 .. k) \ Stay(t, at)
  <2>1. 1 .. k + 1 = (1 .. k) \union {k + 1} /\ k + 1 \notin 1 .. k
    OBVIOUS
  <2> QED
    BY <1>6, <2>1
<1>8. /\ \A j \in 1 .. n : IsCut(t2, j) <=> IsCut(t, j)
      /\ IsCut(t2, n + 1) <=> e.text.marker # Truncation!NoMarker
  BY <1>3, Zenon DEF IsCut
<1>9. /\ \A i, j \in 1 .. n : i < j => at[i] < at[j]
      /\ \A gone \in (1 .. k) \ Stay(t, at) : IsText(gone)
      /\ \A gone \in (1 .. k) \ Stay(t, at) : \A j \in Stay(t, at) : IsText(j) => j < gone
      /\ t.omitted = Cardinality((1 .. k) \ Stay(t, at))
      /\ t.omitted > 0 => t.remaining = 0
      /\ \A j \in 1 .. n : t.out[j].type = output[at[j]].type
      /\ \A j \in 1 .. n : ~IsCut(t, j) => t.out[j].text = Truncation!Whole(output[at[j]].chars)
      /\ \A j \in 1 .. n : IsCut(t, j) => \A i \in Stay(t, at) : IsText(i) => i <= at[j]
  BY <1>1, SentUnfolds, Zenon DEF Sent
<1>10. t.remaining > 0 => 1 .. k \subseteq Stay(t, at) /\ \A j \in 1 .. n : ~IsCut(t, j)
  BY <1>1, Zenon DEF Sent
<1>11. \A i, j \in 1 .. n + 1 : i < j => at2[i] < at2[j]
  <2> TAKE i, j \in 1 .. n + 1
  <2>1. CASE j \in 1 .. n /\ i \in 1 .. n
    BY <1>4, <1>9, <2>1
  <2>2. CASE j = n + 1 /\ i \in 1 .. n
    <3>1. at2[i] \in 1 .. k /\ at2[j] = k + 1
      BY <1>4, <2>2
    <3> QED
      BY <3>1
  <2>3. CASE i = n + 1
    BY <1>1, <2>3
  <2> QED
    BY <1>5, <2>1, <2>2, <2>3
<1>12. \A gone \in (1 .. k + 1) \ Stay(t2, at2) : \A j \in Stay(t2, at2) : IsText(j) => j < gone
  <2> SUFFICES ASSUME NEW gone \in (1 .. k) \ Stay(t, at), NEW j \in Stay(t, at) \union {k + 1}, IsText(j)
               PROVE  j < gone
    BY <1>6, <1>7, Zenon
  <2>1. ~(t.remaining > 0)
    BY <1>10
  <2>2. j # k + 1
    BY <2>1, Zenon
  <2> QED
    BY <1>9, <2>2, Zenon
<1>13. t2.omitted > 0 => t2.remaining = 0
  BY <1>1, <1>9
<1>14. \A j \in 1 .. n + 1 : t2.out[j].type = output[at2[j]].type
  BY <1>3, <1>4, <1>5, <1>9, Zenon
<1>15. \A j \in 1 .. n + 1 : ~IsCut(t2, j) => t2.out[j].text = Truncation!Whole(output[at2[j]].chars)
  BY <1>3, <1>4, <1>5, <1>8, <1>9, Zenon
<1>16. \A j \in 1 .. n + 1 : IsCut(t2, j) => \A i \in Stay(t2, at2) : IsText(i) => i <= at2[j]
  <2> SUFFICES ASSUME NEW j \in 1 .. n + 1, IsCut(t2, j),
                      NEW i \in Stay(t, at) \union {k + 1}, IsText(i)
               PROVE  i <= at2[j]
    BY <1>6, Zenon
  <2>1. CASE j = n + 1
    <3>1. at2[j] = k + 1 /\ (i \in 1 .. k \/ i = k + 1)
      BY <1>4, <1>6, <2>1
    <3> QED
      BY <3>1
  <2>2. CASE j \in 1 .. n
    <3>1. IsCut(t, j)
      BY <1>8, <2>2, Zenon
    <3>2. ~(t.remaining > 0)
      BY <1>10, <2>2, <3>1, Zenon
    <3>3. i # k + 1
      BY <3>2, Zenon
    <3>4. i <= at[j]
      BY <1>9, <2>2, <3>1, <3>3, Zenon
    <3> QED
      BY <1>4, <2>2, <3>4
  <2> QED
    BY <1>5, <2>1, <2>2
<1>17. /\ Truncation!Bytes(Truncation!Sizes(t2.out)) + Budget(t2.remaining) <= Truncation!byte_budget
       /\ Truncation!Bytes(Truncation!Sizes(t2.out)) <= Truncation!byte_budget
  <2> DEFINE a == Truncation!Bytes(Truncation!Sizes(t.out))
             s == Truncation!Bytes(e.text.left) + Truncation!Bytes(e.text.right)
             a2 == Truncation!Bytes(Truncation!Sizes(t2.out))
  <2>1. Truncation!Sizes(t.out) \in Seq(Nat) /\ s \in Nat /\ a2 = a + s
    BY <1>1, SizesOfAppend
  <2>2. a \in Nat
    BY <2>1, EndsAre
  <2>3. Budget(t.remaining) \in Nat /\ Budget(t2.remaining) \in Nat
    BY SMTT(30), <1>1 DEF Budget
  <2>4. Truncation!byte_budget \in Int
    BY LengthsAssumption DEF Truncation!byte_budget, Truncation!Policies, Truncation!BytesPerToken
  <2>5. a + Budget(t.remaining) <= Truncation!byte_budget
    BY Zenon DEF Sent
  <2>6. s + Budget(t2.remaining) <= Budget(t.remaining)
    BY Zenon
  <2> HIDE DEF a, s, a2
  <2>7. a2 + Budget(t2.remaining) <= Truncation!byte_budget /\ a2 <= Truncation!byte_budget
    BY <2>1, <2>2, <2>3, <2>4, <2>5, <2>6
  <2> QED
    BY <2>7 DEF a2
<1>18. Truncation!SentRight(t2, at2, 1 .. k + 1)
  <2>1. \A gone \in (1 .. k + 1) \ Stay(t2, at2) : IsText(gone)
    BY <1>7, <1>9, Zenon
  <2>2. t2.omitted = Cardinality((1 .. k + 1) \ Stay(t2, at2))
    BY <1>7, <1>9, Zenon
  <2> QED
    BY <1>3, <1>11, <1>12, <1>13, <1>14, <1>15, <1>16, <1>17, <2>1, <2>2, SentUnfolds, Zenon
<1>19. t2.remaining > 0 => 1 .. k + 1 \subseteq Stay(t2, at2) /\ \A j \in 1 .. n + 1 : ~IsCut(t2, j)
  <2> SUFFICES ASSUME t2.remaining > 0
               PROVE  1 .. k + 1 \subseteq Stay(t2, at2) /\ \A j \in 1 .. n + 1 : ~IsCut(t2, j)
    OBVIOUS
  <2>1. 1 .. k \subseteq Stay(t, at) /\ \A j \in 1 .. n : ~IsCut(t, j)
    BY <1>10, Zenon
  <2>2. (1 .. k + 1) \ Stay(t2, at2) = {}
    BY <1>7, <2>1
  <2>3. \A j \in 1 .. n + 1 : ~IsCut(t2, j)
    BY <1>5, <1>8, <2>1, Zenon
  <2> QED
    BY <2>2, <2>3
<1>20. Sent(t2, at2, k + 1)
  BY <1>3, <1>4, <1>17, <1>18, <1>19, Zenon DEF Sent
<1> QED
  BY <1>20

\* One more text that is left out.
LEMMA SentLess ==
  ASSUME NEW k \in Nat, NEW t, NEW at, NEW t2 \in TakenStates,
         Sent(t, at, k), IsText(k + 1), t.remaining = 0,
         t2.out = t.out, t2.omitted = t.omitted + 1, t2.remaining = 0
  PROVE  Sent(t2, at, k + 1)
<1> DEFINE n == Len(t.out)
<1>1. /\ t.out \in Seq(SentItems) /\ n \in Nat /\ DOMAIN t.out = 1 .. n
      /\ at \in [1 .. n -> 1 .. k] /\ t.omitted \in Nat
  <2>1. t \in TakenStates /\ at \in [1 .. n -> 1 .. k]
    BY Zenon DEF Sent
  <2> QED
    BY <2>1 DEF TakenStates
<1> HIDE DEF n
<1>2. Stay(t2, at) = Stay(t, at) /\ \A j : IsCut(t2, j) <=> IsCut(t, j)
  BY Zenon DEF Stay, IsCut
<1>3. Stay(t, at) \subseteq 1 .. k
  BY <1>1 DEF Stay
<1>4. /\ 1 .. k + 1 = (1 .. k) \union {k + 1} /\ k + 1 \notin 1 .. k
      /\ \A j \in 1 .. k : j < k + 1
  OBVIOUS
<1>5. (1 .. k + 1) \ Stay(t, at) = ((1 .. k) \ Stay(t, at)) \union {k + 1}
  BY <1>3, <1>4
<1>6. /\ \A i, j \in 1 .. n : i < j => at[i] < at[j]
      /\ \A gone \in (1 .. k) \ Stay(t, at) : IsText(gone)
      /\ \A gone \in (1 .. k) \ Stay(t, at) : \A j \in Stay(t, at) : IsText(j) => j < gone
      /\ t.omitted = Cardinality((1 .. k) \ Stay(t, at))
      /\ \A j \in 1 .. n : t.out[j].type = output[at[j]].type
      /\ \A j \in 1 .. n : ~IsCut(t, j) => t.out[j].text = Truncation!Whole(output[at[j]].chars)
      /\ \A j \in 1 .. n : IsCut(t, j) => \A i \in Stay(t, at) : IsText(i) => i <= at[j]
      /\ Truncation!Bytes(Truncation!Sizes(t.out)) <= Truncation!byte_budget
  BY <1>1, SentUnfolds, Zenon DEF Sent
<1>7. Cardinality((1 .. k + 1) \ Stay(t, at)) = t.omitted + 1
  <2>1. IsFiniteSet((1 .. k) \ Stay(t, at))
    <3>1. IsFiniteSet(1 .. k)
      <4>1. 1 \in Int /\ k \in Int
        OBVIOUS
      <4> QED
        BY <4>1, FS_Interval, SMTT(30)
    <3> QED
      BY <3>1, FS_Subset
  <2>2. k + 1 \notin (1 .. k) \ Stay(t, at)
    BY <1>4
  <2>3. Cardinality(((1 .. k) \ Stay(t, at)) \union {k + 1}) = Cardinality((1 .. k) \ Stay(t, at)) + 1
    BY <2>1, <2>2, FS_AddElement
  <2> QED
    BY <1>5, <1>6, <2>3, Zenon
<1>8. \A gone \in (1 .. k + 1) \ Stay(t, at) :
        IsText(gone) /\ \A j \in Stay(t, at) : IsText(j) => j < gone
  <2> SUFFICES ASSUME NEW gone \in ((1 .. k) \ Stay(t, at)) \union {k + 1}
               PROVE  IsText(gone) /\ \A j \in Stay(t, at) : IsText(j) => j < gone
    BY <1>5, Zenon
  <2>1. CASE gone = k + 1
    BY <1>3, <1>4, <2>1
  <2>2. CASE gone \in (1 .. k) \ Stay(t, at)
    BY <1>6, <2>2, Zenon
  <2> QED
    BY <2>1, <2>2
<1>9. Truncation!SentRight(t2, at, 1 .. k + 1)
  BY <1>1, <1>2, <1>6, <1>7, <1>8, SentUnfolds, Zenon
<1>10. at \in [1 .. n -> 1 .. k + 1]
  BY <1>1, <1>4
<1>11. ~(t2.remaining > 0)
  OBVIOUS
<1>12. Truncation!Bytes(Truncation!Sizes(t2.out)) + Budget(t2.remaining) <= Truncation!byte_budget
  BY Zenon DEF Sent
<1> QED
  BY <1>9, <1>10, <1>11, <1>12, Zenon DEF Sent, n

\* What a text costs, in bytes and in the units of the policy.
LEMMA CostIs ==
  ASSUME NEW chars \in Seq(1 .. 4), NEW amount \in Nat, policy \in Truncation!Policies
  PROVE  /\ Truncation!Cost(chars) \in Nat
         /\ Truncation!Cost(chars) <= amount =>
              Truncation!Bytes(chars) + Budget(amount - Truncation!Cost(chars)) <= Budget(amount)
         /\ ~(Truncation!Cost(chars) <= amount) => ~(Truncation!Bytes(chars) <= Budget(amount))
<1>1. PICK bytes \in Nat : bytes = Truncation!Bytes(chars)
  <2>1. chars \in Seq(Nat)
    OBVIOUS
  <2> QED
    BY <2>1, EndsAre
<1>2. CASE policy.unit = "bytes"
  <2>1. Truncation!Cost(chars) = bytes /\ \A x : Budget(x) = x
    BY <1>1, <1>2, Zenon DEF Truncation!Cost, Budget
  <2>2. PICK cost : cost = Truncation!Cost(chars)
    OBVIOUS
  <2>3. cost = bytes /\ Budget(amount) = amount /\ Budget(amount - cost) = amount - cost
    BY <2>1, <2>2, Zenon
  <2>4. /\ cost \in Nat
        /\ cost <= amount => bytes + Budget(amount - cost) <= Budget(amount)
        /\ ~(cost <= amount) => ~(bytes <= Budget(amount))
    BY <2>3
  <2> QED
    BY <1>1, <2>2, <2>4, Zenon
<1>3. CASE policy.unit # "bytes"
  <2>1. PICK cost : cost = (bytes + 4 - 1) \div 4
    OBVIOUS
  <2>2. Truncation!Cost(chars) = cost /\ \A x : Budget(x) = x * 4
    BY <1>1, <1>3, <2>1, Zenon
      DEF Truncation!Cost, Truncation!approx_tokens, Truncation!BytesPerToken, Budget
  <2>3. cost \in Nat /\ bytes <= cost * 4 /\ cost * 4 < bytes + 4
    BY <2>1
  <2>4. cost <= amount => bytes + (amount - cost) * 4 <= amount * 4
    BY <2>3
  <2>5. ~(cost <= amount) => ~(bytes <= amount * 4)
    BY <2>3
  <2> QED
    BY <1>1, <2>2, <2>3, <2>4, <2>5, Zenon
<1> QED
  BY <1>2, <1>3

LEMMA TextTyped ==
  ASSUME NEW chars \in Seq(1 .. 4), NEW max_bytes \in Nat, policy \in Truncation!Policies
  PROVE  Truncation!truncate_with_byte_estimate(chars, max_bytes) \in TextParts
<1> DEFINE text == Truncation!truncate_with_byte_estimate(chars, max_bytes)
           total == Truncation!Bytes(chars)
           b == max_bytes \div 2
           e == max_bytes - b
           parts == Truncation!split_string(chars, b, e)
<1>1. chars \in Seq(Nat) /\ << >> \in Seq(Nat) /\ Len(chars) \in Nat /\ total \in Nat
  <2>1. chars \in Seq(Nat)
    OBVIOUS
  <2> QED
    BY <2>1, EndsAre
<1>2. \A l, r \in Seq(Nat), m \in Int : Truncation!Truncated(l, r, m) \in TextParts
  BY DEF Truncation!Truncated, TextParts
<1>3. \A x \in Nat, y \in Int : Truncation!removed_units(x, y) \in Int
  BY DEF Truncation!removed_units, Truncation!approx_tokens, Truncation!BytesPerToken
<1>4. CASE text = Truncation!Whole(chars)
  <2>1. text = Truncation!Truncated(chars, << >>, Truncation!NoMarker)
    BY <1>4, Zenon DEF Truncation!Whole
  <2>2. Truncation!NoMarker \in Int
    BY DEF Truncation!NoMarker
  <2> QED
    BY <1>1, <1>2, <2>1, <2>2, Zenon
<1>5. CASE text = Truncation!Truncated(<< >>, << >>, Truncation!removed_units(total, Len(chars)))
  <2>1. Truncation!removed_units(total, Len(chars)) \in Int
    BY <1>1, <1>3
  <2> QED
    BY <1>1, <1>2, <1>5, <2>1, Zenon
<1>6. CASE /\ ~(total <= max_bytes)
           /\ text = Truncation!Truncated(parts.before, parts.after,
                                          Truncation!removed_units(total - max_bytes, parts.removed))
  <2>1. b \in Nat /\ e \in Nat /\ b + e < total /\ total - max_bytes \in Nat
    BY <1>1, <1>6
  <2> HIDE DEF b, e, total
  <2>2. PICK l, r \in 0 .. Len(chars) :
          /\ l < r
          /\ parts.before = SubSeq(chars, 1, l) /\ parts.after = SubSeq(chars, r + 1, Len(chars))
          /\ parts.removed = r - l
    <3>1. \E l, r \in 0 .. Len(chars) :
           /\ l < r
           /\ Truncation!split_string(chars, b, e).before = SubSeq(chars, 1, l)
           /\ Truncation!split_string(chars, b, e).after = SubSeq(chars, r + 1, Len(chars))
           /\ Truncation!split_string(chars, b, e).removed = r - l
           /\ Truncation!Ends(chars)[l] <= b
           /\ Truncation!Ends(chars)[l + 1] > b
           /\ Truncation!Bytes(chars) - Truncation!Ends(chars)[r] <= e
           /\ Truncation!Bytes(chars) - Truncation!Ends(chars)[r - 1] > e
      BY <2>1, SplitIs DEF total
    <3> QED
      BY <3>1, Zenon
  <2> HIDE DEF parts
  <2>3. SubSeq(chars, 1, l) \in Seq(Nat) /\ SubSeq(chars, r + 1, Len(chars)) \in Seq(Nat)
        /\ r - l \in Int
    BY SMTT(30), <1>1, <2>2
  <2>4. Truncation!removed_units(total - max_bytes, r - l) \in Int
    BY <1>3, <2>1, <2>3
  <2> QED
    BY <1>2, <1>6, <2>2, <2>3, <2>4, Zenon
<1>7. \/ text = Truncation!Whole(chars)
      \/ text = Truncation!Truncated(<< >>, << >>, Truncation!removed_units(total, Len(chars)))
      \/ /\ ~(total <= max_bytes)
         /\ text = Truncation!Truncated(parts.before, parts.after,
                                        Truncation!removed_units(total - max_bytes, parts.removed))
  <2>1. ~(max_bytes > 0) => max_bytes = 0
    OBVIOUS
  <2>2. chars = << >> => text = Truncation!Whole(chars)
    BY Zenon DEF Truncation!truncate_with_byte_estimate
  <2>3. chars # << >> /\ max_bytes = 0 =>
          text = Truncation!Truncated(<< >>, << >>, Truncation!removed_units(total, Len(chars)))
    BY DEF Truncation!truncate_with_byte_estimate
  <2>4. chars # << >> /\ max_bytes > 0 /\ total <= max_bytes => text = Truncation!Whole(chars)
    BY DEF Truncation!truncate_with_byte_estimate
  <2>5. chars # << >> /\ max_bytes # 0 /\ ~(total <= max_bytes) =>
          text = Truncation!Truncated(parts.before, parts.after,
                                      Truncation!removed_units(total - max_bytes, parts.removed))
    BY DEF Truncation!truncate_with_byte_estimate
  <2> HIDE DEF text, total, parts, b, e
  <2> QED
    BY <2>1, <2>2, <2>3, <2>4, <2>5
<1> HIDE DEF text, total, parts, b, e
<1> QED
  BY <1>4, <1>5, <1>6, <1>7 DEF text

LEMMA TruncateTextIs ==
  ASSUME NEW chars \in Seq(1 .. 4), NEW amount \in Nat, policy \in Truncation!Policies
  PROVE  /\ Truncation!TruncatedRight(chars, Truncation!truncate_text(chars, amount), Budget(amount))
         /\ Truncation!truncate_text(chars, amount) \in TextParts
<1>1. Budget(amount) \in Nat
  BY DEF Budget
<1>2. Truncation!truncate_text(chars, amount) =
        Truncation!truncate_with_byte_estimate(chars, Budget(amount))
  BY Zenon DEF Truncation!truncate_text, Budget, Truncation!BytesPerToken
<1>3. Truncation!TruncatedRight(chars,
        Truncation!truncate_with_byte_estimate(chars, Budget(amount)), Budget(amount))
  BY <1>1, TextTruncated
<1>4. Truncation!truncate_with_byte_estimate(chars, Budget(amount)) \in TextParts
  BY <1>1, TextTyped
<1> QED
  BY <1>2, <1>3, <1>4, Zenon

LEMMA WholeIs ==
  ASSUME NEW chars \in Seq(1 .. 4)
  PROVE  /\ Truncation!Whole(chars) \in TextParts
         /\ Truncation!Whole(chars).marker = Truncation!NoMarker
         /\ Truncation!Bytes(Truncation!Whole(chars).left) + Truncation!Bytes(Truncation!Whole(chars).right)
              = Truncation!Bytes(chars)
<1>1. chars \in Seq(Nat) /\ << >> \in Seq(Nat) /\ Len(<< >>) = 0
  OBVIOUS
<1>2. Truncation!NoMarker \in Int
  BY DEF Truncation!NoMarker
<1>3. PICK text : text = Truncation!Whole(chars)
  OBVIOUS
<1>4. text = [left |-> chars, right |-> << >>, marker |-> Truncation!NoMarker]
  BY <1>3, Zenon DEF Truncation!Whole, Truncation!Truncated
<1>5. text \in TextParts /\ text.left = chars /\ text.right = << >>
      /\ text.marker = Truncation!NoMarker
  BY <1>1, <1>2, <1>4 DEF TextParts
<1>6. Truncation!Bytes(chars) \in Nat /\ Truncation!Bytes(<< >>) = 0
  BY <1>1, EndsAre
<1>7. Truncation!Bytes(text.left) + Truncation!Bytes(text.right) = Truncation!Bytes(chars)
  BY <1>5, <1>6
<1> QED
  BY <1>3, <1>5, <1>7, Zenon

\* An item is sent with this much of its text, and so much of the budget is left.
Keeps(item, t, t2, k, text, remaining) ==
  /\ t2 = [t EXCEPT !.out = Append(@, Truncation!Kept(item, text)), !.remaining = remaining]
  /\ IsText(k + 1) => t.remaining > 0
  /\ remaining > 0 => t.remaining > 0 /\ text.marker = Truncation!NoMarker
  /\ t.remaining = 0 => remaining = 0
  /\ text.marker = Truncation!NoMarker => text = Truncation!Whole(item.chars)
  /\ text.marker # Truncation!NoMarker => IsText(k + 1)
  /\ Truncation!Bytes(text.left) + Truncation!Bytes(text.right) + Budget(remaining)
       <= Budget(t.remaining)

\* The next item.
LEMMA TakeGoesOn ==
  ASSUME NEW k \in Nat, NEW t, NEW at, Sent(t, at, k),
         output[k + 1] \in OutputItems, policy \in Truncation!Policies
  PROVE  /\ Truncation!Take(t, output[k + 1]) \in TakenStates
         /\ \E at2 : Sent(Truncation!Take(t, output[k + 1]), at2, k + 1)
<1>1. PICK item \in OutputItems : item = output[k + 1]
  OBVIOUS
<1>2. PICK t2 : t2 = Truncation!Take(t, item)
  OBVIOUS
<1> SUFFICES t2 \in TakenStates /\ \E at2 : Sent(t2, at2, k + 1)
  BY <1>1, <1>2, Zenon
<1>3. /\ item.type \in {"text", "image"} /\ item.chars \in Seq(1 .. 4)
      /\ item.type = "text" \/ item.chars = << >>
      /\ IsText(k + 1) <=> item.type = "text"
  BY <1>1 DEF OutputItems, IsText
<1>4. t \in TakenStates /\ t.remaining \in Nat /\ t.omitted \in Nat /\ t.out \in Seq(SentItems)
  <2>1. t \in TakenStates
    BY Zenon DEF Sent
  <2> QED
    BY <2>1 DEF TakenStates
<1>5. \A text \in TextParts :
        /\ Truncation!Kept(item, text) \in SentItems
        /\ Truncation!Kept(item, text).type = item.type /\ Truncation!Kept(item, text).text = text
        /\ Append(t.out, Truncation!Kept(item, text)) \in Seq(SentItems)
  <2> TAKE text \in TextParts
  <2>1. PICK e : e = Truncation!Kept(item, text)
    OBVIOUS
  <2>2. e \in SentItems /\ e.type = item.type /\ e.text = text
    BY <1>3, <2>1 DEF Truncation!Kept, SentItems
  <2>3. Append(t.out, e) \in Seq(SentItems)
    BY <1>4, <2>2, AppendProperties
  <2> QED
    BY <2>1, <2>2, <2>3, Zenon
<1>6. Budget(t.remaining) \in Nat /\ Budget(0) = 0
  BY <1>4 DEF Budget
<1>7. ASSUME NEW text \in TextParts, NEW remaining \in Nat, Keeps(item, t, t2, k, text, remaining)
      PROVE  t2 \in TakenStates /\ \E at2 : Sent(t2, at2, k + 1)
  <2>1. PICK e \in SentItems : e = Truncation!Kept(item, text)
    BY <1>5
  <2>2. e.type = item.type /\ e.text = text /\ Append(t.out, e) \in Seq(SentItems)
    BY <1>5, <2>1, Zenon
  <2>3. t2 = [t EXCEPT !.out = Append(t.out, e), !.remaining = remaining]
    BY <1>7, <2>1, Zenon DEF Keeps
  <2>4. /\ t2 \in TakenStates /\ t2.out = Append(t.out, e) /\ t2.omitted = t.omitted
        /\ t2.remaining = remaining
    <3>1. PICK more \in Seq(SentItems) : more = Append(t.out, e)
      BY <2>2
    <3>2. t2 = [t EXCEPT !.out = more, !.remaining = remaining]
      BY <2>3, <3>1, Zenon
    <3>3. t2 \in TakenStates /\ t2.out = more /\ t2.omitted = t.omitted /\ t2.remaining = remaining
      BY <1>4, <3>2 DEF TakenStates
    <3> QED
      BY <3>1, <3>3, Zenon
  <2>5. \E at2 : Sent(t2, at2, k + 1)
    <3>1. /\ e.type = output[k + 1].type
          /\ e.text.marker = Truncation!NoMarker => e.text = Truncation!Whole(output[k + 1].chars)
          /\ e.text.marker # Truncation!NoMarker => IsText(k + 1)
          /\ t2.remaining > 0 => t.remaining > 0 /\ e.text.marker = Truncation!NoMarker
          /\ t.remaining = 0 => t2.remaining = 0
          /\ IsText(k + 1) => t.remaining > 0
          /\ Truncation!Bytes(e.text.left) + Truncation!Bytes(e.text.right) + Budget(t2.remaining)
               <= Budget(t.remaining)
      BY <1>1, <1>7, <2>2, <2>4, Zenon DEF Keeps
    <3> QED
      BY <2>4, <3>1, SentMore
  <2> QED
    BY <2>4, <2>5
<1>8. CASE item.type = "image"
  <2>1. t2 = [t EXCEPT !.out = Append(@, Truncation!Kept(item, Truncation!Whole(<< >>)))]
    BY <1>2, <1>8, Zenon DEF Truncation!Take
  <2>2. item.type # "text" /\ item.chars = << >> /\ << >> \in Seq(1 .. 4) /\ << >> \in Seq(Nat)
        /\ Len(<< >>) = 0
    BY <1>3, <1>8
  <2>3. PICK text \in TextParts : text = Truncation!Whole(<< >>)
    BY <2>2, WholeIs, Zenon
  <2>4. t2 = [t EXCEPT !.out = Append(@, Truncation!Kept(item, text)), !.remaining = t.remaining]
    <3>1. t2 = [t EXCEPT !.out = Append(t.out, Truncation!Kept(item, text))]
      BY <2>1, <2>3, Zenon
    <3>2. PICK more : more = Append(t.out, Truncation!Kept(item, text))
      OBVIOUS
    <3>3. [t EXCEPT !.out = more] = [t EXCEPT !.out = more, !.remaining = t.remaining]
      BY <1>4 DEF TakenStates
    <3> QED
      BY <3>1, <3>2, <3>3, Zenon
  <2>5. /\ text.marker = Truncation!NoMarker
        /\ Truncation!Bytes(text.left) + Truncation!Bytes(text.right) = 0
    <3>1. Truncation!Bytes(<< >>) = 0
      BY <2>2, EndsAre
    <3>2. /\ Truncation!Whole(<< >>).marker = Truncation!NoMarker
          /\ Truncation!Bytes(Truncation!Whole(<< >>).left) + Truncation!Bytes(Truncation!Whole(<< >>).right)
               = Truncation!Bytes(<< >>)
      BY <2>2, WholeIs
    <3> QED
      BY <2>3, <3>1, <3>2, Zenon
  <2>6. 0 + Budget(t.remaining) <= Budget(t.remaining)
    BY <1>6
  <2>7. Truncation!Bytes(text.left) + Truncation!Bytes(text.right) + Budget(t.remaining)
          <= Budget(t.remaining)
    BY <2>5, <2>6, Zenon
  <2>8. Keeps(item, t, t2, k, text, t.remaining)
    <3>1. item.chars = << >> /\ ~IsText(k + 1)
      BY <1>3, <2>2, Zenon
    <3>2. t.remaining > 0 => t.remaining > 0
      OBVIOUS
    <3> QED
      BY <2>3, <2>4, <2>5, <2>7, <3>1, <3>2, Zenon DEF Keeps
  <2> QED
    BY <1>4, <1>7, <2>8
<1>9. CASE item.type = "text" /\ t.remaining = 0
  <2>1. t2 = [t EXCEPT !.omitted = @ + 1]
    BY <1>2, <1>9 DEF Truncation!Take
  <2>2. /\ t2 \in TakenStates /\ t2.out = t.out /\ t2.omitted = t.omitted + 1
        /\ t2.remaining = 0
    <3>1. t.remaining = 0
      BY <1>9, Zenon
    <3> QED
      BY <1>4, <2>1, <3>1 DEF TakenStates
  <2>3. Sent(t2, at, k + 1)
    BY <1>3, <1>9, <2>2, SentLess
  <2> QED
    BY <2>2, <2>3
<1>10. CASE item.type = "text" /\ t.remaining > 0 /\ Truncation!Cost(item.chars) <= t.remaining
  <2>1. PICK left : left = t.remaining - Truncation!Cost(item.chars)
    OBVIOUS
  <2>2. left \in Nat
    BY <1>3, <1>4, <1>10, <2>1, CostIs
  <2>3. PICK text \in TextParts : text = Truncation!Whole(item.chars)
    BY <1>3, WholeIs, Zenon
  <2>4. t2 = [t EXCEPT !.out = Append(@, Truncation!Kept(item, text)), !.remaining = left]
    <3>1. t2 = [t EXCEPT !.out = Append(@, Truncation!Kept(item, Truncation!Whole(item.chars))),
                         !.remaining = @ - Truncation!Cost(item.chars)]
      <4>1. item.type # "image" /\ t.remaining # 0
        BY <1>4, <1>10
      <4> QED
        BY <1>2, <1>10, <4>1, Zenon DEF Truncation!Take
    <3> QED
      BY <2>1, <2>3, <3>1, Zenon
  <2>5. text.marker = Truncation!NoMarker
        /\ Truncation!Bytes(text.left) + Truncation!Bytes(text.right) = Truncation!Bytes(item.chars)
    BY <1>3, <2>3, WholeIs, Zenon
  <2>6. Truncation!Bytes(item.chars) + Budget(left) <= Budget(t.remaining)
    BY <1>3, <1>4, <1>10, <2>1, CostIs, Zenon
  <2>7. Truncation!Bytes(text.left) + Truncation!Bytes(text.right) + Budget(left) <= Budget(t.remaining)
    BY <2>5, <2>6, Zenon
  <2>8. t.remaining # 0
    BY <1>4, <1>10
  <2>9. Keeps(item, t, t2, k, text, left)
    BY <1>10, <2>3, <2>4, <2>5, <2>7, <2>8, Zenon DEF Keeps
  <2> QED
    BY <1>7, <2>2, <2>9
<1>11. CASE item.type = "text" /\ t.remaining > 0 /\ ~(Truncation!Cost(item.chars) <= t.remaining)
  <2>1. PICK text \in TextParts : text = Truncation!truncate_text(item.chars, t.remaining)
    BY <1>3, <1>4, TruncateTextIs, Zenon
  <2>2. Truncation!TruncatedRight(item.chars, text, Budget(t.remaining))
    BY <1>3, <1>4, <2>1, TruncateTextIs, Zenon
  <2>3. t.remaining # 0 /\ item.type # "image" /\ 0 \in Nat /\ ~(0 > 0)
    BY <1>4, <1>11
  <2>4. t2 = [t EXCEPT !.out = Append(@, Truncation!Kept(item, text)), !.remaining = 0]
    BY <1>2, <1>11, <2>1, <2>3, Zenon DEF Truncation!Take
  <2>5. text.marker # Truncation!NoMarker
    <3>1. ~(Truncation!Bytes(item.chars) <= Budget(t.remaining))
      BY <1>3, <1>4, <1>11, CostIs, Zenon
    <3> QED
      BY <2>2, <3>1, Zenon DEF Truncation!TruncatedRight
  <2>6. Truncation!Bytes(text.left) + Truncation!Bytes(text.right) <= Budget(t.remaining)
    BY <2>2, Zenon DEF Truncation!TruncatedRight
  <2>7. Truncation!Bytes(text.left) + Truncation!Bytes(text.right) + Budget(0) <= Budget(t.remaining)
    <3>1. Truncation!Bytes(text.left) \in Nat /\ Truncation!Bytes(text.right) \in Nat
      <4>1. text.left \in Seq(Nat) /\ text.right \in Seq(Nat)
        BY DEF TextParts
      <4> QED
        BY <4>1, EndsAre
    <3> QED
      BY <1>6, <2>6, <3>1
  <2>8. Keeps(item, t, t2, k, text, 0)
    <3>1. IsText(k + 1)
      BY <1>3, <1>11, Zenon
    <3> QED
      BY <1>11, <2>3, <2>4, <2>5, <2>7, <3>1, Zenon DEF Keeps
  <2> QED
    BY <1>7, <2>3, <2>8
<1>12. \/ item.type = "image"
       \/ item.type = "text" /\ t.remaining = 0
       \/ item.type = "text" /\ t.remaining > 0 /\ Truncation!Cost(item.chars) <= t.remaining
       \/ item.type = "text" /\ t.remaining > 0 /\ ~(Truncation!Cost(item.chars) <= t.remaining)
  <2>1. t.remaining = 0 \/ t.remaining > 0
    BY <1>4
  <2>2. item.type = "image" \/ item.type = "text"
    BY <1>3
  <2> QED
    BY <2>1, <2>2, Zenon
<1> QED
  BY <1>8, <1>9, <1>10, <1>11, <1>12, Zenon

First == [out |-> << >>, remaining |-> policy.amount, omitted |-> 0]

IsTaken(h, n) ==
  h = [k \in 0 .. n |-> IF k = 0 THEN First ELSE Truncation!Take(h[k - 1], output[k])]

LEMMA TakenExists == \A n \in Nat : \E h : IsTaken(h, n)
<1> DEFINE S == {n \in Nat : \E h : IsTaken(h, n)}
<1>1. 0 \in S
  <2>1. PICK h : h = [k \in 0 .. 0 |-> First]
    OBVIOUS
  <2>2. h = [k \in 0 .. 0 |-> IF k = 0 THEN First ELSE Truncation!Take(h[k - 1], output[k])]
    BY <2>1
  <2>3. IsTaken(h, 0)
    BY <2>2, Zenon DEF IsTaken
  <2> QED
    BY <2>3
<1>2. ASSUME NEW n \in Nat, n \in S PROVE n + 1 \in S
  <2>1. PICK h : IsTaken(h, n)
    BY <1>2
  <2>2. PICK j : j = [k \in 0 .. n + 1 |-> IF k = 0 THEN First ELSE Truncation!Take(h[k - 1], output[k])]
    OBVIOUS
  <2>3. \A k \in 0 .. n : j[k] = h[k]
    <3>1. TAKE k \in 0 .. n
    <3>2. k \in 0 .. n + 1
      OBVIOUS
    <3>3. j[k] = IF k = 0 THEN First ELSE Truncation!Take(h[k - 1], output[k])
      BY <2>2, <3>2, Zenon
    <3>4. h[k] = IF k = 0 THEN First ELSE Truncation!Take(h[k - 1], output[k])
      BY <2>1, <3>1, Zenon DEF IsTaken
    <3> QED
      BY <3>3, <3>4
  <2>4. \A k \in 0 .. n + 1 : k # 0 => k - 1 \in 0 .. n
    OBVIOUS
  <2>5. j = [k \in 0 .. n + 1 |-> IF k = 0 THEN First ELSE Truncation!Take(j[k - 1], output[k])]
    BY <2>2, <2>3, <2>4
  <2>6. IsTaken(j, n + 1)
    BY <2>5, Zenon DEF IsTaken
  <2> QED
    BY <2>6
<1>3. S = Nat
  <2>1. S \in SUBSET Nat
    OBVIOUS
  <2> HIDE DEF S
  <2> QED
    BY <1>1, <1>2, <2>1, SetInduction
<1> QED
  BY <1>3

LEMMA TakenRight ==
  ASSUME output \in Seq(OutputItems), policy \in Truncation!Policies
  PROVE  \E at : Sent(Truncation!truncate_items, at, Len(output))
<1> DEFINE n == Len(output)
<1>1. n \in Nat /\ \A k \in 1 .. n : output[k] \in OutputItems
  OBVIOUS
<1>2. PICK h : h = CHOOSE j : IsTaken(j, n)
  OBVIOUS
<1>3. IsTaken(h, n)
  BY <1>1, <1>2, TakenExists
<1>4. Truncation!truncate_items = h[n]
  BY <1>2, Zenon DEF Truncation!truncate_items, IsTaken, First
<1>5. \A k \in 0 .. n : h[k] = IF k = 0 THEN First ELSE Truncation!Take(h[k - 1], output[k])
  BY <1>3, Zenon DEF IsTaken
<1> HIDE DEF n
<1>6. h[0] = First
  BY <1>1, <1>5
<1> DEFINE S == {k \in 0 .. n : \E at : Sent(h[k], at, k)}
<1>7. 0 \in S
  <2>1. PICK at : at = [j \in 1 .. 0 |-> 0]
    OBVIOUS
  <2>2. /\ First \in TakenStates /\ First.out = << >> /\ First.omitted = 0
        /\ First.remaining = policy.amount /\ policy.amount \in Nat
        /\ DOMAIN First.out = {} /\ Len(First.out) = 0
    <3>1. policy.amount \in Nat
      BY LengthsAssumption DEF Truncation!Policies
    <3>2. << >> \in Seq(SentItems) /\ DOMAIN << >> = {} /\ Len(<< >>) = 0
      OBVIOUS
    <3>3. First \in TakenStates /\ First.out = << >> /\ First.omitted = 0
          /\ First.remaining = policy.amount
      BY <3>1, <3>2 DEF First, TakenStates
    <3> QED
      BY <3>1, <3>2, <3>3, Zenon
  <2>3. at \in [1 .. 0 -> 1 .. 0] /\ 1 .. 0 = {}
    BY <2>1
  <2>4. Truncation!Bytes(Truncation!Sizes(First.out)) = 0
    <3>1. Truncation!Sizes(<< >>) = << >>
      <4>1. Truncation!Sizes(<< >>) = [k \in {} |-> 0]
        BY DEF Truncation!Sizes
      <4> QED
        BY <4>1
    <3>2. << >> \in Seq(Nat) /\ Len(<< >>) = 0
      OBVIOUS
    <3>3. Truncation!Bytes(<< >>) = 0
      BY <3>2, EndsAre
    <3> QED
      BY <2>2, <3>1, <3>3, Zenon
  <2>5. Budget(policy.amount) = Truncation!byte_budget /\ Budget(policy.amount) \in Nat
    BY <2>2 DEF Budget, Truncation!byte_budget, Truncation!BytesPerToken
  <2>6. 0 + Budget(First.remaining) <= Truncation!byte_budget /\ 0 <= Truncation!byte_budget
        /\ ~(First.omitted > 0)
    BY <2>2, <2>5
  <2>7. Stay(First, at) = {}
    BY <2>2 DEF Stay
  <2>8. Cardinality({}) = 0 /\ (1 .. 0) \ Stay(First, at) = {}
    BY <2>3, <2>7, FS_EmptySet
  <2>9. Truncation!SentRight(First, at, 1 .. 0)
    BY <2>2, <2>4, <2>6, <2>7, <2>8, SentUnfolds, Zenon
  <2>10. Sent(First, at, 0)
    BY <2>2, <2>3, <2>4, <2>6, <2>9, Zenon DEF Sent
  <2>11. 0 \in 0 .. n
    BY <1>1
  <2> QED
    BY <1>6, <2>10, <2>11, Zenon
<1>8. ASSUME NEW k \in 0 .. n, k < n, k \in S PROVE k + 1 \in S
  <2>1. k + 1 \in 1 .. n /\ k + 1 \in 0 .. n /\ (k + 1) - 1 = k /\ k \in Nat /\ k + 1 # 0
    BY <1>1, <1>8
  <2>2. PICK at : Sent(h[k], at, k)
    BY <1>8
  <2>3. h[k + 1] = Truncation!Take(h[k], output[k + 1])
    BY <1>5, <2>1, Zenon
  <2>4. output[k + 1] \in OutputItems
    BY <1>1, <2>1
  <2>5. \E at2 : Sent(Truncation!Take(h[k], output[k + 1]), at2, k + 1)
    BY <2>1, <2>2, <2>4, TakeGoesOn
  <2> QED
    BY <2>1, <2>3, <2>5, Zenon
<1>9. 0 .. n \subseteq S
  <2> HIDE DEF S
  <2> QED
    BY <1>1, <1>7, <1>8, IntervalInduction
<1>10. n \in S
  <2>1. n \in 0 .. n
    BY <1>1
  <2> HIDE DEF S
  <2> QED
    BY <1>9, <2>1
<1> QED
  BY <1>4, <1>10, Zenon DEF n

TruncationInv == output \in Seq(OutputItems) /\ policy \in Truncation!Policies

LEMMA TruncationFollows == TruncationInv => Truncation!TruncationRight
<1>1. SUFFICES ASSUME TruncationInv PROVE Truncation!TruncationRight
  OBVIOUS
<1>2. output \in Seq(OutputItems) /\ policy \in Truncation!Policies /\ Len(output) \in Nat
      /\ DOMAIN output = 1 .. Len(output)
  <2>1. output \in Seq(OutputItems) /\ policy \in Truncation!Policies
    BY <1>1 DEF TruncationInv
  <2> QED
    BY <2>1
<1>3. PICK at : Sent(Truncation!truncate_items, at, Len(output))
  BY <1>2, TakenRight
<1>4. at \in [DOMAIN Truncation!truncate_items.out -> DOMAIN output]
      /\ Truncation!SentRight(Truncation!truncate_items, at, DOMAIN output)
  <2>1. PICK t : t = Truncation!truncate_items
    OBVIOUS
  <2>2. /\ t \in TakenStates /\ at \in [1 .. Len(t.out) -> 1 .. Len(output)]
        /\ Truncation!SentRight(t, at, 1 .. Len(output))
    BY <1>3, <2>1, Zenon DEF Sent
  <2>3. DOMAIN t.out = 1 .. Len(t.out)
    BY <2>2 DEF TakenStates
  <2> QED
    BY <1>2, <2>1, <2>2, <2>3, Zenon
<1>5. ASSUME NEW k \in Truncation!TextsAmong(DOMAIN output)
      PROVE  Truncation!TruncatedRight(output[k].chars,
               Truncation!truncate_text(output[k].chars, policy.amount), Truncation!byte_budget)
  <2>1. k \in 1 .. Len(output)
    BY <1>2, Zenon DEF Truncation!TextsAmong
  <2>2. output[k] \in OutputItems
    BY <1>2, <2>1
  <2>3. output[k].chars \in Seq(1 .. 4) /\ policy.amount \in Nat
    BY <1>2, <2>2, LengthsAssumption DEF OutputItems, Truncation!Policies
  <2>4. Budget(policy.amount) = Truncation!byte_budget
    BY Zenon DEF Budget, Truncation!byte_budget, Truncation!BytesPerToken
  <2> QED
    BY <1>2, <2>3, <2>4, TruncateTextIs, Zenon
<1> QED
  BY <1>4, <1>5, Zenon DEF Truncation!TruncationRight

LEMMA TruncationStep == TruncationInv /\ [TextsNext]_vars => TruncationInv'
<1>1. SUFFICES ASSUME TruncationInv, [TextsNext]_vars PROVE TruncationInv'
  OBVIOUS
<1>2. Truncation!AddItem \/ UNCHANGED <<output, policy>>
  BY <1>1 DEF TextsNext, vars, HistoryMoves, PatchMoves, TruncationMoves, Truncation!Next,
              outputTruncation
<1>3. CASE Truncation!AddItem
  <2>1. PICK item \in {Truncation!InputImage} \union
                     {Truncation!InputText(chars) : chars \in UNION {Truncation!Texts(MaxChars), Truncation!Texts(1)}} :
          output' = Append(output, item)
    BY <1>3 DEF Truncation!AddItem
  <2>2. item \in OutputItems
    <3>1. CASE item = Truncation!InputImage
      BY <3>1 DEF Truncation!InputImage, OutputItems
    <3>2. ASSUME NEW n \in {1, MaxChars}, NEW chars \in Truncation!Texts(n),
                 item = Truncation!InputText(chars)
          PROVE  item \in OutputItems
      <4>1. PICK j \in 0 .. n : chars \in [1 .. j -> CharLengths]
        BY DEF Truncation!Texts
      <4>2. j \in Nat
        BY LengthsAssumption
      <4>3. chars \in [1 .. j -> 1 .. 4]
        BY <4>1, LengthsAssumption
      <4>4. chars \in Seq(1 .. 4)
        BY <4>2, <4>3, SeqDef
      <4> QED
        BY <3>2, <4>4 DEF Truncation!InputText, OutputItems
    <3> QED
      BY <2>1, <3>1, <3>2
  <2>3. output \in Seq(OutputItems) /\ policy \in Truncation!Policies /\ policy' = policy
    BY <1>1, <1>3 DEF TruncationInv, Truncation!AddItem
  <2>4. output' \in Seq(OutputItems)
    BY <2>1, <2>2, <2>3, AppendProperties
  <2> QED
    BY <2>3, <2>4 DEF TruncationInv, Truncation!Policies
<1>4. CASE UNCHANGED <<output, policy>>
  BY <1>1, <1>4 DEF TruncationInv, Truncation!Policies
<1> QED
  BY <1>2, <1>3, <1>4

(***************************************************************************)
(* Whatever items an output has and however long its texts are, in bytes   *)
(* or in tokens: the images are sent, the texts up to the budget, in order *)
(* and whole but for the last, whose middle alone is missing and not one   *)
(* character more than it has to be (output_truncation.rs:54-297).         *)
(***************************************************************************)
THEOREM OutputsAreTruncatedRight == TextsSpec => []TruncationRight
<1>1. TextsInit => TruncationInv
  BY DEF TextsInit, Truncation!Init, TruncationInv
<1>2. TruncationInv => TruncationRight
  BY TruncationFollows DEF TruncationRight
<1> QED
  BY <1>1, <1>2, TruncationStep, PTL DEF TextsSpec

-----------------------------------------------------------------------------

(***************************************************************************)
(* The text of a patch. What is applied from the last replacement to the   *)
(* first is what reading the file from the top would give: the text is     *)
(* woven of pieces, one for each line, and each replacement changes the    *)
(* pieces of its own lines only.                                           *)
(***************************************************************************)
LEMMA SameFlattening == \A seqs : Patch!FlattenSeq(seqs) = FlattenSeq(seqs)
BY Zenon DEF Patch!FlattenSeq, FlattenSeq

\* Sequences one behind the other, by what there is after each of them.
Joins(f, seqs, n, L) ==
  /\ f \in [0 .. n -> Seq(L)]
  /\ f[0] = << >> /\ f[n] = FlattenSeq(seqs)
  /\ \A k \in 1 .. n : f[k] = f[k - 1] \o seqs[k]

\* FlattenSeq, step by step.
LEMMA JoinedUp ==
  ASSUME NEW L, NEW n \in Nat, NEW seqs \in [1 .. n -> Seq(L)]
  PROVE  \E f : Joins(f, seqs, n, L)
<1> USE DEF Joins
<1>1. CASE n = 0
  <2>1. PICK f : f = [k \in 0 .. n |-> << >>]
    OBVIOUS
  <2>2. f \in [0 .. n -> Seq(L)] /\ f[0] = << >> /\ f[n] = << >>
    BY <1>1, <2>1
  <2>3. seqs = << >> /\ Len(seqs) = 0
    BY <1>1
  <2>4. FlattenSeq(seqs) = << >>
    BY <2>3, Zenon DEF FlattenSeq
  <2>5. \A k : k \notin 1 .. n
    BY <1>1
  <2> QED
    BY <2>2, <2>4, <2>5, Zenon
<1>2. CASE n > 0
  <2>1. seqs \in Seq(Seq(L)) /\ Len(seqs) = n /\ DOMAIN seqs = 1 .. n
    OBVIOUS
  <2>2. PICK h : IsFlattening(h, seqs, Len(seqs)) /\ FlattenSeq(seqs) = h[Len(seqs)]
    BY <1>2, <2>1, FlattenUnfolds
  <2>3. \A i \in 1 .. n : h[i] = IF i = 1 THEN seqs[i] ELSE h[i-1] \o seqs[i]
    BY <2>1, <2>2, Zenon DEF IsFlattening
  <2> DEFINE f == [k \in 0 .. n |-> IF k = 0 THEN << >> ELSE h[k]]
             S == {k \in 0 .. n : f[k] \in Seq(L)}
  <2>4. \A k \in 1 .. n : f[k] = f[k - 1] \o seqs[k]
    <3>1. TAKE k \in 1 .. n
    <3>2. seqs[k] \in Seq(L)
      OBVIOUS
    <3>3. << >> \o seqs[k] = seqs[k]
      BY <3>2
    <3>4. CASE k = 1
      <4>1. f[0] = << >> /\ f[1] = h[1] /\ k - 1 = 0
        BY <1>2, <3>4
      <4>2. h[1] = seqs[1]
        BY <1>2, <2>3
      <4> QED
        BY <3>3, <3>4, <4>1, <4>2, Zenon
    <3>5. CASE k # 1
      <4>1. f[k - 1] = h[k - 1] /\ f[k] = h[k]
        BY <3>5
      <4> QED
        BY <2>3, <3>5, <4>1, Zenon
    <3> QED
      BY <3>4, <3>5
  <2>5. f[0] = << >> /\ f[n] = h[n]
    BY <1>2
  <2>6. 0 \in S
    BY <2>5
  <2>7. ASSUME NEW k \in 0 .. n, k < n, k \in S PROVE k + 1 \in S
    <3>1. k + 1 \in 1 .. n /\ k + 1 \in 0 .. n /\ (k + 1) - 1 = k
      BY <2>7
    <3>2. f[k + 1] = f[k] \o seqs[k + 1] /\ seqs[k + 1] \in Seq(L) /\ f[k] \in Seq(L)
      BY <2>4, <2>7, <3>1
    <3>3. f[k + 1] \in Seq(L)
      <4> HIDE DEF f
      <4> QED
        BY <3>2, ConcatProperties
    <3> QED
      BY <3>1, <3>3
  <2>8. 0 .. n \subseteq S
    <3> HIDE DEF S
    <3> QED
      BY <2>6, <2>7, IntervalInduction
  <2>9. f \in [0 .. n -> Seq(L)]
    BY <2>8
  <2> HIDE DEF f
  <2> QED
    BY <2>1, <2>2, <2>4, <2>5, <2>9
<1>3. n = 0 \/ n > 0
  OBVIOUS
<1> HIDE DEF Joins
<1> QED
  BY <1>1, <1>2, <1>3, Zenon

LEMMA JoinAgain ==
  ASSUME NEW L, NEW x \in Seq(L), NEW y \in Seq(L), NEW z \in Seq(L)
  PROVE  /\ (x \o y) \o z = x \o (y \o z) /\ x \o y \in Seq(L)
         /\ << >> \o x = x /\ x \o << >> = x /\ << >> \in Seq(L)
<1>0. PICK xy \in Seq(L), yz \in Seq(L) : xy = x \o y /\ yz = y \o z
  BY ConcatProperties
<1>1. PICK l \in Seq(L), r \in Seq(L) : l = xy \o z /\ r = x \o yz
  BY ConcatProperties
<1>2. /\ Len(x) \in Nat /\ Len(y) \in Nat /\ Len(z) \in Nat
      /\ Len(xy) = Len(x) + Len(y) /\ Len(yz) = Len(y) + Len(z)
      /\ Len(l) = Len(x) + Len(y) + Len(z) /\ Len(r) = Len(l)
  BY <1>0, <1>1
<1>3. \A k \in 1 .. Len(l) : l[k] = r[k]
  <2>1. TAKE k \in 1 .. Len(l)
  <2>4. /\ Len(xy) = Len(x) + Len(y) /\ Len(yz) = Len(y) + Len(z)
        /\ \A i \in 1 .. Len(x) + Len(y) : xy[i] = IF i <= Len(x) THEN x[i] ELSE y[i - Len(x)]
        /\ \A i \in 1 .. Len(y) + Len(z) : yz[i] = IF i <= Len(y) THEN y[i] ELSE z[i - Len(y)]
    BY <1>0, ConcatProperties
  <2>5. /\ l[k] = IF k <= Len(xy) THEN xy[k] ELSE z[k - Len(xy)]
        /\ r[k] = IF k <= Len(x) THEN x[k] ELSE yz[k - Len(x)]
    BY <1>1, <1>2, ConcatProperties
  <2>6. CASE k <= Len(x)
    BY <1>2, <2>4, <2>5, <2>6
  <2>7. CASE k > Len(x) /\ k <= Len(x) + Len(y)
    <3>1. ~(k <= Len(x)) /\ k <= Len(xy) /\ k \in 1 .. Len(x) + Len(y)
          /\ k - Len(x) \in 1 .. Len(y) + Len(z) /\ k - Len(x) <= Len(y)
      BY <1>2, <2>7
    <3> QED
      BY <2>4, <2>5, <3>1
  <2>8. CASE k > Len(x) + Len(y)
    <3>1. k - Len(xy) = (k - Len(x)) - Len(y) /\ k - Len(x) \in 1 .. Len(y) + Len(z)
          /\ ~(k - Len(x) <= Len(y)) /\ ~(k <= Len(xy)) /\ ~(k <= Len(x))
      BY <1>2, <2>4, <2>8
    <3> QED
      BY <2>4, <2>5, <3>1
  <2> QED
    BY <1>2, <2>6, <2>7, <2>8
<1>4. l = r
  BY <1>2, <1>3, SeqEqual
<1> QED
  BY <1>0, <1>1, <1>4

Associates(x, y, z) == (x \o y) \o z = x \o (y \o z)

LEMMA AllAssociate ==
  ASSUME NEW L, NEW x \in Seq(L), NEW y \in Seq(L), NEW z \in Seq(L)
  PROVE  Associates(x, y, z)
BY JoinAgain DEF Associates

\* One more sequence in the place of an empty one comes first if those before
\* it are empty.
Adds(seqs, more, n, k, x, L) ==
  /\ seqs \in [1 .. n -> Seq(L)] /\ more \in [1 .. n -> Seq(L)]
  /\ k \in 1 .. n /\ x \in Seq(L) /\ more[k] = x
  /\ \A j \in 1 .. n : j # k => more[j] = seqs[j]
  /\ \A j \in 1 .. k : seqs[j] = << >>

ComesFirst(x, seqs, more) == FlattenSeq(more) = x \o FlattenSeq(seqs)

\* FlattenSeq of sequences of which one is new.
LEMMA FlattenAdds ==
  ASSUME NEW L, NEW n \in Nat, NEW seqs, NEW more, NEW k, NEW x, Adds(seqs, more, n, k, x, L)
  PROVE  ComesFirst(x, seqs, more)
<1>0. /\ seqs \in [1 .. n -> Seq(L)] /\ more \in [1 .. n -> Seq(L)]
      /\ k \in 1 .. n /\ x \in Seq(L) /\ more[k] = x
      /\ \A j \in 1 .. n : j # k => more[j] = seqs[j]
      /\ \A j \in 1 .. k : seqs[j] = << >>
  BY Zenon DEF Adds
<1>1. PICK f : Joins(f, seqs, n, L)
  BY <1>0, JoinedUp
<1>2. PICK g : Joins(g, more, n, L)
  BY <1>0, JoinedUp
<1>9. /\ f \in [0 .. n -> Seq(L)] /\ f[0] = << >> /\ f[n] = FlattenSeq(seqs)
      /\ \A j \in 1 .. n : f[j] = f[j - 1] \o seqs[j]
      /\ g \in [0 .. n -> Seq(L)] /\ g[0] = << >> /\ g[n] = FlattenSeq(more)
      /\ \A j \in 1 .. n : g[j] = g[j - 1] \o more[j]
  BY <1>1, <1>2, Zenon DEF Joins
<1> DEFINE S == {j \in 0 .. n : /\ j <= k => f[j] = << >>
                                /\ j < k => g[j] = << >>
                                /\ j >= k => g[j] = x \o f[j]}
<1>3. 0 \in S
  BY <1>0, <1>9
<1>4. ASSUME NEW j \in 0 .. n, j < n, j \in S PROVE j + 1 \in S
  <2>1. PICK i \in 1 .. n : i = j + 1
    BY <1>4
  <2>2. j = i - 1 /\ j \in 0 .. n /\ i \in 0 .. n /\ f[j] \in Seq(L) /\ g[j] \in Seq(L)
        /\ seqs[i] \in Seq(L)
    <3>1. j = i - 1 /\ j \in 0 .. n /\ i \in 0 .. n
      BY <1>0, <2>1
    <3> QED
      BY <1>0, <1>9, <3>1
  <2>3. f[i] = f[j] \o seqs[i] /\ g[i] = g[j] \o more[i]
    BY <1>0, <1>9, <2>2
  <2>4. /\ j <= k => f[j] = << >>
        /\ j < k => g[j] = << >>
        /\ j >= k => g[j] = x \o f[j]
    BY <1>4
  <2>5. CASE i < k
    <3>1. i \in 1 .. k /\ i # k /\ j <= k /\ j < k /\ i <= k /\ ~(i >= k)
      BY <1>0, <2>2, <2>5
    <3>2. seqs[i] = << >> /\ more[i] = << >>
      BY <1>0, <3>1
    <3>3. f[i] = << >> /\ g[i] = << >>
      BY <2>2, <2>3, <2>4, <3>1, <3>2, JoinAgain
    <3> QED
      BY <2>1, <2>2, <3>1, <3>3
  <2>6. CASE i = k
    <3>1. i \in 1 .. k /\ j <= k /\ j < k /\ ~(i < k)
      BY <1>0, <2>2, <2>6
    <3>2. seqs[i] = << >> /\ more[i] = x /\ f[j] = << >> /\ g[j] = << >>
      BY <1>0, <2>4, <2>6, <3>1
    <3>3. f[i] = << >> \o << >> /\ g[i] = << >> \o x
      BY <2>3, <3>2, Zenon
    <3>4. << >> \o << >> = << >> /\ << >> \o x = x /\ x \o << >> = x
      BY <1>0, JoinAgain
    <3>5. f[i] = << >> /\ g[i] = x \o f[i]
      BY <3>3, <3>4, Zenon
    <3> QED
      BY <2>1, <2>2, <3>1, <3>5
  <2>7. CASE i > k
    <3>1. i # k /\ j >= k /\ ~(i <= k) /\ ~(i < k)
      BY <1>0, <2>2, <2>7
    <3>2. g[i] = (x \o f[j]) \o seqs[i]
      <4>1. g[j] = x \o f[j] /\ more[i] = seqs[i]
        BY <1>0, <2>4, <3>1
      <4> QED
        BY <2>3, <4>1, Zenon
    <3>3. (x \o f[j]) \o seqs[i] = x \o (f[j] \o seqs[i])
      <4>1. PICK y \in Seq(L), z \in Seq(L) : y = f[j] /\ z = seqs[i]
        BY <1>0, <2>2
      <4>2. (x \o y) \o z = x \o (y \o z)
        <5>1. Associates(x, y, z)
          BY <1>0, <4>1, AllAssociate
        <5> QED
          BY <5>1, Zenon DEF Associates
      <4> QED
        BY <4>1, <4>2, Zenon
    <3>4. g[i] = x \o f[i]
      BY <2>3, <3>2, <3>3, Zenon
    <3> QED
      BY <2>1, <2>2, <3>1, <3>4
  <2>8. i < k \/ i = k \/ i > k
    BY <1>0
  <2> QED
    BY <2>5, <2>6, <2>7, <2>8, Zenon
<1>5. 0 .. n \subseteq S
  <2> HIDE DEF S
  <2> QED
    BY <1>3, <1>4, IntervalInduction
<1>6. n \in 0 .. n /\ n >= k
  BY <1>0
<1>7. g[n] = x \o f[n]
  BY <1>5, <1>6
<1> QED
  BY <1>0, <1>9, <1>7, Zenon DEF ComesFirst

LEMMA FlattenNone ==
  ASSUME NEW n \in Nat, NEW seqs \in [1 .. n -> {<< >>}]
  PROVE  FlattenSeq(seqs) = << >>
<1>0. seqs \in [1 .. n -> Seq({})]
  <2>1. << >> \in Seq({})
    OBVIOUS
  <2> QED
    BY <2>1, Zenon
<1>1. PICK f : Joins(f, seqs, n, {})
  BY <1>0, JoinedUp
<1>2. \A s \in Seq({}) : s = << >>
  OBVIOUS
<1>3. n \in 0 .. n
  OBVIOUS
<1> QED
  BY <1>1, <1>2, <1>3 DEF Joins

\* A text as it is woven if only some of the replacements are made.
Replacings(L) == [at : Nat, old : Nat, new : Seq(L)]

NewOnes(rs, S, i) == [k \in DOMAIN rs |-> IF k \in S /\ rs[k].at = i THEN rs[k].new ELSE << >>]

NewIn(rs, S, i) == FlattenSeq(NewOnes(rs, S, i))

Replaces(rs, k, i) == i \in rs[k].at .. rs[k].at + rs[k].old - 1

KeptIn(lines, rs, S, i) ==
  IF i = Len(lines) \/ \E k \in S : Replaces(rs, k, i) THEN << >> ELSE <<lines[i + 1]>>

Pieces(lines, rs, S) ==
  [k \in 1 .. Len(lines) + 1 |-> NewIn(rs, S, k - 1) \o KeptIn(lines, rs, S, k - 1)]

WovenIn(lines, rs, S) == FlattenSeq(Pieces(lines, rs, S))

\* None replaces what another one does, nor is before what that is.
Apart(lines, rs) ==
  \A k \in DOMAIN rs :
    /\ rs[k].at + rs[k].old <= Len(lines)
    /\ \A j \in DOMAIN rs : Patch!Behind(rs, k, j) => rs[k].at + rs[k].old <= rs[j].at

LEMMA NewOnesTyped ==
  ASSUME NEW L, NEW rs \in Seq(Replacings(L)), NEW S, NEW i
  PROVE  /\ NewOnes(rs, S, i) \in [1 .. Len(rs) -> Seq(L)] /\ Len(rs) \in Nat
         /\ DOMAIN rs = 1 .. Len(rs)
         /\ NewIn(rs, S, i) \in Seq(L)
         /\ \A k \in 1 .. Len(rs) : rs[k].at \in Nat /\ rs[k].old \in Nat /\ rs[k].new \in Seq(L)
<1>1. /\ Len(rs) \in Nat /\ DOMAIN rs = 1 .. Len(rs)
      /\ \A k \in 1 .. Len(rs) : rs[k] \in Replacings(L)
  OBVIOUS
<1>2. \A k \in 1 .. Len(rs) : rs[k].at \in Nat /\ rs[k].old \in Nat /\ rs[k].new \in Seq(L)
  BY <1>1 DEF Replacings
<1>3. << >> \in Seq(L)
  OBVIOUS
<1>4. NewOnes(rs, S, i) \in [1 .. Len(rs) -> Seq(L)]
  BY <1>1, <1>2, <1>3, Zenon DEF NewOnes
<1>5. PICK f : Joins(f, NewOnes(rs, S, i), Len(rs), L)
  BY <1>1, <1>4, JoinedUp
<1>6. NewIn(rs, S, i) \in Seq(L)
  <2>1. Len(rs) \in 0 .. Len(rs)
    BY <1>1
  <2> QED
    BY <1>5, <2>1, Zenon DEF Joins, NewIn
<1> QED
  BY <1>1, <1>2, <1>4, <1>6

LEMMA NewElsewhere ==
  ASSUME NEW L, NEW rs \in Seq(Replacings(L)), NEW S, NEW k, NEW i, rs[k].at # i
  PROVE  NewIn(rs, S \union {k}, i) = NewIn(rs, S, i)
<1>1. NewOnes(rs, S \union {k}, i) = NewOnes(rs, S, i)
  BY Zenon DEF NewOnes
<1> QED
  BY <1>1, Zenon DEF NewIn

LEMMA NewNowhere ==
  ASSUME NEW L, NEW rs \in Seq(Replacings(L)), NEW S, NEW i, \A k \in S : rs[k].at # i
  PROVE  NewIn(rs, S, i) = << >>
<1>1. NewOnes(rs, S, i) \in [1 .. Len(rs) -> {<< >>}]
  <2>1. DOMAIN rs = 1 .. Len(rs)
    BY NewOnesTyped
  <2> QED
    BY <2>1, Zenon DEF NewOnes
<1>2. Len(rs) \in Nat
  BY NewOnesTyped
<1> QED
  BY <1>1, <1>2, FlattenNone, Zenon DEF NewIn

\* What is brought to a line already changed comes before what is there.
LEMMA NewHere ==
  ASSUME NEW L, NEW rs \in Seq(Replacings(L)), NEW S, NEW k \in DOMAIN rs, k \notin S,
         \A j \in S : rs[j].at = rs[k].at => j > k
  PROVE  NewIn(rs, S \union {k}, rs[k].at) = rs[k].new \o NewIn(rs, S, rs[k].at)
<1>0. /\ Len(rs) \in Nat /\ DOMAIN rs = 1 .. Len(rs) /\ rs[k].new \in Seq(L)
      /\ NewOnes(rs, S, rs[k].at) \in [1 .. Len(rs) -> Seq(L)]
      /\ NewOnes(rs, S \union {k}, rs[k].at) \in [1 .. Len(rs) -> Seq(L)]
  BY NewOnesTyped
<1>1. PICK seqs \in [1 .. Len(rs) -> Seq(L)] : seqs = NewOnes(rs, S, rs[k].at)
  BY <1>0
<1>2. PICK more \in [1 .. Len(rs) -> Seq(L)] : more = NewOnes(rs, S \union {k}, rs[k].at)
  BY <1>0
<1>3. more[k] = rs[k].new
  BY <1>2, Zenon DEF NewOnes
<1>4. \A j \in 1 .. Len(rs) : j # k => more[j] = seqs[j]
  BY <1>0, <1>1, <1>2, Zenon DEF NewOnes
<1>5. \A j \in 1 .. k : seqs[j] = << >>
  <2>1. TAKE j \in 1 .. k
  <2>2. j \in 1 .. Len(rs) /\ ~(j > k)
    BY <1>0
  <2>3. ~(j \in S /\ rs[j].at = rs[k].at)
    BY <2>2, Zenon
  <2> QED
    BY <1>0, <1>1, <2>2, <2>3, Zenon DEF NewOnes
<1>6. k \in 1 .. Len(rs)
  BY <1>0
<1>7. FlattenSeq(more) = rs[k].new \o FlattenSeq(seqs)
  <2>1. PICK n \in Nat : n = Len(rs)
    BY <1>0
  <2>2. PICK x \in Seq(L) : x = rs[k].new
    BY <1>0
  <2>3. /\ seqs \in [1 .. n -> Seq(L)] /\ more \in [1 .. n -> Seq(L)] /\ k \in 1 .. n /\ more[k] = x
        /\ \A j \in 1 .. n : j # k => more[j] = seqs[j]
    BY <1>3, <1>4, <1>6, <2>1, <2>2, Zenon
  <2>4. Adds(seqs, more, n, k, x, L)
    BY <1>5, <2>3, Zenon DEF Adds
  <2>5. FlattenSeq(more) = x \o FlattenSeq(seqs)
    <3>1. ComesFirst(x, seqs, more)
      BY <2>4, FlattenAdds
    <3> QED
      BY <3>1, Zenon DEF ComesFirst
  <2> QED
    BY <2>2, <2>5, ZenonT(30)
<1> QED
  BY <1>1, <1>2, <1>7, Zenon DEF NewIn

IsPiece(lines, rs, S, i) ==
  Pieces(lines, rs, S)[i + 1] = NewIn(rs, S, i) \o KeptIn(lines, rs, S, i)

LEMMA PiecesTyped ==
  ASSUME NEW L, NEW lines \in Seq(L), NEW rs \in Seq(Replacings(L)), NEW S
  PROVE  /\ Len(lines) \in Nat /\ Len(lines) + 1 \in Nat
         /\ Pieces(lines, rs, S) \in [1 .. Len(lines) + 1 -> Seq(L)]
         /\ \A i \in 0 .. Len(lines) :
              /\ NewIn(rs, S, i) \in Seq(L) /\ KeptIn(lines, rs, S, i) \in Seq(L)
              /\ IsPiece(lines, rs, S, i)
<1>1. Len(lines) \in Nat /\ Len(lines) + 1 \in Nat
  OBVIOUS
<1>2. \A i \in 0 .. Len(lines) : KeptIn(lines, rs, S, i) \in Seq(L)
  <2>1. TAKE i \in 0 .. Len(lines)
  <2>2. << >> \in Seq(L) /\ (i # Len(lines) => <<lines[i + 1]>> \in Seq(L))
    OBVIOUS
  <2> QED
    BY <2>2, Zenon DEF KeptIn
<1>3. \A i : NewIn(rs, S, i) \in Seq(L)
  BY NewOnesTyped
<1>4. \A i \in 0 .. Len(lines) : NewIn(rs, S, i) \o KeptIn(lines, rs, S, i) \in Seq(L)
  BY <1>2, <1>3, ConcatProperties
<1>5. \A k \in 1 .. Len(lines) + 1 : k - 1 \in 0 .. Len(lines)
  BY <1>1
<1>6. Pieces(lines, rs, S) \in [1 .. Len(lines) + 1 -> Seq(L)]
  BY <1>4, <1>5, Zenon DEF Pieces
<1>7. \A i \in 0 .. Len(lines) : IsPiece(lines, rs, S, i)
  <2>1. TAKE i \in 0 .. Len(lines)
  <2>2. PICK k : k = i + 1
    OBVIOUS
  <2>3. k \in 1 .. Len(lines) + 1 /\ k - 1 = i
    BY <1>1, <2>2
  <2>4. Pieces(lines, rs, S)[k] = NewIn(rs, S, k - 1) \o KeptIn(lines, rs, S, k - 1)
    BY <2>3, Zenon DEF Pieces
  <2> QED
    BY <2>2, <2>3, <2>4, Zenon DEF IsPiece
<1> QED
  BY <1>1, <1>2, <1>3, <1>6, <1>7

Untouched(f, lines, b) == \A i \in 0 .. b : f[i] = SubSeq(lines, 1, i)

\* Nothing happens before the first replacement.
LEMMA WovenBefore ==
  ASSUME NEW L, NEW lines \in Seq(L), NEW rs \in Seq(Replacings(L)), NEW S \in SUBSET DOMAIN rs,
         NEW b \in 0 .. Len(lines), \A k \in S : rs[k].at >= b,
         NEW f, Joins(f, Pieces(lines, rs, S), Len(lines) + 1, L)
  PROVE  Untouched(f, lines, b)
<1>1. /\ f[0] = << >>
      /\ \A i \in 1 .. Len(lines) + 1 : f[i] = f[i - 1] \o Pieces(lines, rs, S)[i]
  BY Zenon DEF Joins
<1>2. Len(lines) \in Nat /\ b \in Nat /\ b <= Len(lines)
  OBVIOUS
<1>6. \A k \in S : rs[k].at \in Nat /\ rs[k].old \in Nat
  BY NewOnesTyped
<1> DEFINE T == {i \in 0 .. b : f[i] = SubSeq(lines, 1, i)}
<1>3. 0 \in T
  <2>1. SubSeq(lines, 1, 0) = << >>
    OBVIOUS
  <2>2. 0 \in 0 .. b
    BY <1>2
  <2> QED
    BY <1>1, <2>1, <2>2, Zenon
<1>4. ASSUME NEW i \in 0 .. b, i < b, i \in T PROVE i + 1 \in T
  <2>1. i \in 0 .. Len(lines) /\ i # Len(lines) /\ i + 1 \in 1 .. Len(lines) + 1 /\ (i + 1) - 1 = i
        /\ i + 1 \in 0 .. b /\ i + 1 \in 1 .. Len(lines) /\ i \in Nat
    BY <1>2, <1>4
  <2>2. NewIn(rs, S, i) = << >>
    <3>1. \A k \in S : rs[k].at # i
      BY <1>6, <1>2, <1>4, <2>1
    <3> QED
      BY <3>1, NewNowhere
  <2>3. KeptIn(lines, rs, S, i) = <<lines[i + 1]>>
    <3>1. \A k \in S : ~Replaces(rs, k, i)
      BY <1>6, <1>2, <1>4, <2>1 DEF Replaces
    <3> QED
      BY <2>1, <3>1, Zenon DEF KeptIn
  <2>4. Pieces(lines, rs, S)[i + 1] = << >> \o <<lines[i + 1]>>
    <3>1. IsPiece(lines, rs, S, i)
      BY <2>1, PiecesTyped
    <3> QED
      BY <2>2, <2>3, <3>1, Zenon DEF IsPiece
  <2>5. f[i + 1] = SubSeq(lines, 1, i) \o (<< >> \o <<lines[i + 1]>>)
    <3>1. f[i] = SubSeq(lines, 1, i)
      BY <1>4
    <3> QED
      BY <1>1, <2>1, <2>4, <3>1, Zenon
  <2>6. SubSeq(lines, 1, i) \o (<< >> \o <<lines[i + 1]>>) = SubSeq(lines, 1, i + 1)
    <3>1. << >> \o <<lines[i + 1]>> = <<lines[i + 1]>>
      BY <2>1
    <3>2. SubSeq(lines, 1, i) \o <<lines[i + 1]>> = SubSeq(lines, 1, i + 1)
      BY <2>1
    <3> QED
      BY <3>1, <3>2, Zenon
  <2> QED
    BY <2>1, <2>5, <2>6
<1>5. 0 .. b \subseteq T
  <2> HIDE DEF T
  <2> QED
    BY <1>2, <1>3, <1>4, IntervalInduction
<1> QED
  BY <1>5, Zenon DEF Untouched

\* From some line on the two texts go on alike.
Alike(f, g, p, q, i, L) == \E t \in Seq(L) : f[i] = p \o t /\ g[i] = q \o t

LEMMA AlikeOn ==
  ASSUME NEW L, NEW f, NEW g, NEW p \in Seq(L), NEW q \in Seq(L), NEW piece \in Seq(L),
         NEW other, NEW l,
         Alike(f, g, p, q, l, L), f[other] = f[l] \o piece, g[other] = g[l] \o piece
  PROVE  Alike(f, g, p, q, other, L)
<1>1. PICK t \in Seq(L) : f[l] = p \o t /\ g[l] = q \o t
  BY Zenon DEF Alike
<1>2. Associates(p, t, piece) /\ Associates(q, t, piece)
  BY AllAssociate
<1>3. f[other] = p \o (t \o piece) /\ g[other] = q \o (t \o piece)
  BY <1>1, <1>2, Zenon DEF Associates
<1>4. t \o piece \in Seq(L)
  BY ConcatProperties
<1> QED
  BY <1>3, <1>4, Zenon DEF Alike

IsNewOnly(lines, rs, S, k, i) == Pieces(lines, rs, S \union {k})[i + 1] = NewIn(rs, S, i)

LEMMA PiecesElsewhere ==
  ASSUME NEW L, NEW lines \in Seq(L), NEW rs \in Seq(Replacings(L)), NEW S, NEW k \in DOMAIN rs,
         NEW i \in 0 .. Len(lines), i # rs[k].at
  PROVE  /\ ~Replaces(rs, k, i) =>
              Pieces(lines, rs, S \union {k})[i + 1] = Pieces(lines, rs, S)[i + 1]
         /\ Replaces(rs, k, i) /\ i # Len(lines) => IsNewOnly(lines, rs, S, k, i)
<1>1. NewIn(rs, S \union {k}, i) = NewIn(rs, S, i)
  BY NewElsewhere
<1>2. /\ Pieces(lines, rs, S)[i + 1] = NewIn(rs, S, i) \o KeptIn(lines, rs, S, i)
      /\ Pieces(lines, rs, S \union {k})[i + 1]
           = NewIn(rs, S \union {k}, i) \o KeptIn(lines, rs, S \union {k}, i)
  <2>1. IsPiece(lines, rs, S, i)
    BY PiecesTyped
  <2>2. PICK more : more = S \union {k}
    OBVIOUS
  <2>3. IsPiece(lines, rs, more, i)
    BY PiecesTyped
  <2> QED
    BY <2>1, <2>2, <2>3, Zenon DEF IsPiece
<1>3. ~Replaces(rs, k, i) => KeptIn(lines, rs, S \union {k}, i) = KeptIn(lines, rs, S, i)
  <2>1. ~Replaces(rs, k, i) =>
          ((\E j \in S \union {k} : Replaces(rs, j, i)) <=> \E j \in S : Replaces(rs, j, i))
    BY Zenon
  <2> QED
    BY <2>1, Zenon DEF KeptIn
<1>4. Replaces(rs, k, i) => KeptIn(lines, rs, S \union {k}, i) = << >>
  BY Zenon DEF KeptIn
<1>5. NewIn(rs, S, i) \o << >> = NewIn(rs, S, i)
  BY NewOnesTyped, JoinAgain
<1> QED
  BY <1>1, <1>2, <1>3, <1>4, <1>5, Zenon DEF IsNewOnly

\* The two texts from the end of what is replaced to the end of the file.
LEMMA WovenAlike ==
  ASSUME NEW L, NEW lines \in Seq(L), NEW rs \in Seq(Replacings(L)), NEW S, NEW k \in DOMAIN rs,
         NEW f, Joins(f, Pieces(lines, rs, S), Len(lines) + 1, L),
         NEW g, Joins(g, Pieces(lines, rs, S \union {k}), Len(lines) + 1, L),
         NEW p \in Seq(L), NEW q \in Seq(L), NEW b \in 1 .. Len(lines) + 1,
         b > rs[k].at, b >= rs[k].at + rs[k].old, Alike(f, g, p, q, b, L)
  PROVE  Alike(f, g, p, q, Len(lines) + 1, L)
<1>0. Len(lines) \in Nat
  BY LenProperties, Zenon
<1>1. PICK n \in Nat : n = Len(lines) + 1
  <2>1. Len(lines) + 1 \in Nat
    BY <1>0
  <2> QED
    BY <2>1, Zenon
<1>2. b \in Nat /\ b <= n /\ b >= 1 /\ rs[k].at \in Nat /\ rs[k].old \in Nat
  <2>1. k \in 1 .. Len(rs)
    BY NewOnesTyped
  <2>2. rs[k].at \in Nat /\ rs[k].old \in Nat
    BY <2>1, NewOnesTyped
  <2> QED
    BY <1>1, <2>2
<1> DEFINE T == {d \in 0 .. n - b : Alike(f, g, p, q, b + d, L)}
<1>3. 0 \in T
  <2>1. b + 0 = b /\ 0 \in 0 .. n - b
    BY <1>2
  <2> QED
    BY <2>1, Zenon
<1>4. ASSUME NEW d \in 0 .. n - b, d < n - b, d \in T PROVE d + 1 \in T
  <2>1. PICK i \in 0 .. Len(lines) : i = b + d
    BY SMTT(30), <1>1, <1>2, <1>4
  <2>2. /\ i # rs[k].at /\ i + 1 = b + (d + 1) /\ (i + 1) - 1 = i /\ i + 1 \in 1 .. Len(lines) + 1
        /\ d + 1 \in 0 .. n - b /\ ~Replaces(rs, k, i)
    <3>1. PICK len \in Nat : len = Len(lines)
      BY <1>0, Zenon
    <3>4. PICK at \in Nat : at = rs[k].at
      BY <1>2, Zenon
    <3>5. PICK old \in Nat : old = rs[k].old
      BY <1>2, Zenon
    <3>2. n = len + 1
      BY <1>1, <3>1, Zenon
    <3>3. b > at /\ b >= at + old
      BY <3>4, <3>5, Zenon
    <3>6. d < n - b /\ i \in 0 .. len
      BY <1>4, <3>1, Zenon
    <3>7. i + 1 = b + (d + 1) /\ (i + 1) - 1 = i
      BY <1>2, <2>1
    <3>8. i + 1 \in 1 .. len + 1 /\ d + 1 \in 0 .. n - b
      BY <1>2, <3>2, <3>6
    <3>9. i >= b
      BY <1>2, <2>1
    <3>10. i # at /\ i \notin at .. at + old - 1
      BY <1>2, <3>3, <3>9
    <3> QED
      BY <3>1, <3>4, <3>5, <3>7, <3>8, <3>10, Zenon DEF Replaces
  <2>3. PICK piece \in Seq(L) : piece = Pieces(lines, rs, S)[i + 1]
    <3>1. Pieces(lines, rs, S) \in [1 .. Len(lines) + 1 -> Seq(L)]
      BY PiecesTyped
    <3> QED
      BY <2>2, <3>1, Zenon
  <2>4. Pieces(lines, rs, S \union {k})[i + 1] = piece
    <3>1. Pieces(lines, rs, S \union {k})[i + 1] = Pieces(lines, rs, S)[i + 1]
      BY SMTT(30), <2>2, PiecesElsewhere
    <3> QED
      BY <2>3, <3>1, Zenon
  <2>5. f[i + 1] = f[i] \o piece /\ g[i + 1] = g[i] \o piece
    BY <2>2, <2>3, <2>4, Zenon DEF Joins
  <2>6. Alike(f, g, p, q, i, L)
    BY <1>4, <2>1
  <2>7. Alike(f, g, p, q, i + 1, L)
    BY <2>5, <2>6, AlikeOn
  <2> QED
    BY <2>2, <2>7
<1>5. 0 .. n - b \subseteq T
  <2>1. n - b \in Nat
    BY <1>2
  <2> HIDE DEF T
  <2> QED
    BY <2>1, <1>3, <1>4, IntervalInduction
<1>6. n - b \in 0 .. n - b /\ b + (n - b) = n
  BY <1>2
<1> QED
  BY <1>1, <1>5, <1>6

IsCutOut(u, s, m, n, len, L) ==
  /\ u = SubSeq(s, m, n) /\ u \in Seq(L) /\ Len(u) = len
  /\ \A k \in 1 .. len : u[k] = s[m + k - 1]

LEMMA CutOut ==
  ASSUME NEW L, NEW s, NEW m \in Nat, NEW n \in Nat, NEW len \in Nat, n + 1 = m + len,
         \A k \in m .. n : s[k] \in L
  PROVE  IsCutOut(SubSeq(s, m, n), s, m, n, len, L)
<1>1. PICK u : u = SubSeq(s, m, n)
  OBVIOUS
<1>2. /\ u \in Seq(L)
      /\ Len(u) = IF m <= n THEN n - m + 1 ELSE 0
      /\ \A k \in 1 .. n - m + 1 : u[k] = s[m + k - 1]
  BY <1>1, SubSeqProperties
<1>3. n - m + 1 = len /\ (IF m <= n THEN n - m + 1 ELSE 0) = len
  OBVIOUS
<1>4. Len(u) = len /\ \A k \in 1 .. len : u[k] = s[m + k - 1]
  BY <1>2, <1>3, Zenon
<1> QED
  BY <1>1, <1>2, <1>4, Zenon DEF IsCutOut

\* What is before some line, and what is behind another, of a text that begins as another.
LEMMA CutOf ==
  ASSUME NEW L, NEW lines \in Seq(L), NEW a \in Nat, NEW b \in Nat, a <= b, b <= Len(lines),
         NEW t \in Seq(L), NEW p \in Seq(L), p = SubSeq(lines, 1, b),
         NEW whole \in Seq(L), whole = p \o t
  PROVE  SubSeq(whole, 1, a) = SubSeq(lines, 1, a) /\ SubSeq(whole, b + 1, Len(whole)) = t
<1>1. /\ Len(p) = b /\ \A k \in 1 .. b : p[k] = lines[k]
      /\ Len(lines) \in Nat /\ Len(t) \in Nat
  OBVIOUS
<1>2. /\ Len(whole) = b + Len(t)
      /\ \A k \in 1 .. b + Len(t) : whole[k] = IF k <= b THEN p[k] ELSE t[k - b]
  BY <1>1, ConcatProperties
<1>0. /\ \A k \in 1 .. a : whole[k] \in L /\ lines[k] \in L
      /\ \A k \in b + 1 .. Len(whole) : whole[k] \in L
  BY <1>1, <1>2
<1>3. PICK u : u = SubSeq(whole, 1, a) /\ IsCutOut(u, whole, 1, a, a, L)
  <2>1. a + 1 = 1 + a /\ 1 \in Nat
    OBVIOUS
  <2> QED
    BY <1>0, <2>1, CutOut
<1>4. PICK v : v = SubSeq(lines, 1, a) /\ IsCutOut(v, lines, 1, a, a, L)
  <2>1. a + 1 = 1 + a /\ 1 \in Nat
    OBVIOUS
  <2> QED
    BY <1>0, <2>1, CutOut
<1>5. /\ u \in Seq(L) /\ v \in Seq(L) /\ Len(u) = a /\ Len(v) = a
      /\ \A k \in 1 .. a : u[k] = whole[1 + k - 1] /\ v[k] = lines[1 + k - 1]
  BY <1>3, <1>4, Zenon DEF IsCutOut
<1>6. u = v
  <2>1. \A k \in 1 .. a : whole[k] = lines[k] /\ 1 + k - 1 = k
    BY <1>1, <1>2
  <2>2. \A k \in 1 .. a : u[k] = v[k]
    BY <1>5, <2>1
  <2> QED
    BY <1>5, <2>2, SeqEqual
<1>7. PICK c \in Nat, n \in Nat, len \in Nat : c = b + 1 /\ n = Len(whole) /\ len = Len(t)
  BY <1>1, <1>2
<1>8. /\ SubSeq(whole, c, n) \in Seq(L) /\ Len(SubSeq(whole, c, n)) = len
      /\ \A k \in 1 .. len : SubSeq(whole, c, n)[k] = whole[c + k - 1]
  <2>1. (\A k \in c .. n : whole[k] \in L) /\ n + 1 = c + len
    <3>1. \A k \in c .. n : whole[k] \in L
      BY <1>0, <1>7, Zenon
    <3>2. n = b + len /\ c = b + 1
      BY <1>2, <1>7, Zenon
    <3>3. n + 1 = c + len
      BY <3>2
    <3> QED
      BY <3>1, <3>3
  <2>2. IsCutOut(SubSeq(whole, c, n), whole, c, n, len, L)
    BY <2>1, CutOut
  <2> QED
    BY <2>2, Zenon DEF IsCutOut
<1>11. PICK w \in Seq(L) : w = SubSeq(whole, c, n)
  BY <1>8
<1>9. \A k \in 1 .. Len(t) : w[k] = t[k]
  <2>1. TAKE k \in 1 .. Len(t)
  <2>2. /\ k + b \in 1 .. b + Len(t) /\ ~(k + b <= b) /\ (k + b) - b = k
        /\ c + k - 1 = k + b /\ k \in 1 .. len
    BY <1>1, <1>7
  <2>3. w[k] = whole[k + b]
    BY <1>8, <1>11, <2>2, Zenon
  <2> QED
    BY <1>2, <2>2, <2>3
<1>10. w = t
  <2>1. Len(w) = Len(t)
    BY <1>7, <1>8, <1>11, Zenon
  <2> QED
    BY <1>9, <2>1, SeqEqual
<1> QED
  BY <1>3, <1>4, <1>6, <1>7, <1>10, <1>11, Zenon

\* A replacement that is before the others is made after them.
Follows(lines, rs, S, k) ==
  WovenIn(lines, rs, S \union {k}) = Patch!Spliced(rs[k], WovenIn(lines, rs, S))

\* The induction step: one more replacement, before the ones that are made.
LEMMA WeaveStep ==
  ASSUME NEW L, NEW lines \in Seq(L), NEW rs \in Seq(Replacings(L)), NEW S \in SUBSET DOMAIN rs,
         NEW k \in DOMAIN rs, k \notin S, rs[k].at + rs[k].old <= Len(lines),
         \A j \in S : /\ rs[j].at >= rs[k].at + rs[k].old
                      /\ rs[j].at = rs[k].at => j > k
  PROVE  Follows(lines, rs, S, k)
<1> DEFINE N == Len(lines) + 1
<1>1. PICK more : more = S \union {k}
  OBVIOUS
<1>2. PICK f : Joins(f, Pieces(lines, rs, S), N, L)
  <2>1. Pieces(lines, rs, S) \in [1 .. N -> Seq(L)] /\ N \in Nat
    BY PiecesTyped
  <2> QED
    BY <2>1, JoinedUp
<1>3. PICK g : Joins(g, Pieces(lines, rs, more), N, L)
  <2>1. Pieces(lines, rs, more) \in [1 .. N -> Seq(L)] /\ N \in Nat
    BY PiecesTyped
  <2> QED
    BY <2>1, JoinedUp
<1>4. PICK a \in Nat, o \in Nat, new \in Seq(L) : a = rs[k].at /\ o = rs[k].old /\ new = rs[k].new
  <2>1. k \in 1 .. Len(rs)
    BY NewOnesTyped
  <2>2. rs[k].at \in Nat /\ rs[k].old \in Nat /\ rs[k].new \in Seq(L)
    BY <2>1, NewOnesTyped
  <2> QED
    BY <2>2
<1>5. Len(lines) \in Nat /\ a + o <= Len(lines) /\ N \in Nat
  BY <1>4
<1>6. PICK p \in Seq(L), h \in Seq(L) : p = SubSeq(lines, 1, a + o) /\ h = SubSeq(lines, 1, a)
  <2>1. /\ 1 \in Int /\ a \in Int /\ a + o \in Int
        /\ \A i \in 1 .. a : lines[i] \in L
        /\ \A i \in 1 .. a + o : lines[i] \in L
    BY <1>5
  <2>2. SubSeq(lines, 1, a + o) \in Seq(L) /\ SubSeq(lines, 1, a) \in Seq(L)
    BY <2>1, SubSeqProperties
  <2> QED
    BY <2>2, Zenon
<1>7. PICK q \in Seq(L) : q = h \o new
  BY ConcatProperties
<1>8. \A i \in 0 .. a + o : f[i] = SubSeq(lines, 1, i)
  <2>1. PICK b \in 0 .. Len(lines) : b = a + o
    BY <1>5
  <2>2. \A j \in S : rs[j].at >= b
    BY <1>4, <2>1
  <2>3. Untouched(f, lines, b)
    BY <1>2, <2>2, WovenBefore
  <2> QED
    BY <2>1, <2>3, Zenon DEF Untouched
<1>9. \A i \in 0 .. a : g[i] = SubSeq(lines, 1, i)
  <2>1. a \in 0 .. Len(lines)
    BY <1>5
  <2>2. more \in SUBSET DOMAIN rs
    BY <1>1
  <2>3. \A j \in more : rs[j].at >= a
    <3>1. TAKE j \in more
    <3>2. CASE j = k
      BY <1>4, <3>2
    <3>3. CASE j \in S
      <4>1. j \in 1 .. Len(rs)
        BY <3>3, NewOnesTyped
      <4>2. rs[j].at \in Nat
        BY <4>1, NewOnesTyped
      <4> QED
        <5>1. rs[j].at >= a + o
          BY <1>4, <3>3
        <5> QED
          BY SMTT(30), <4>2, <5>1
    <3> QED
      BY <1>1, <3>2, <3>3
  <2> QED
    <3>1. Untouched(g, lines, a)
      BY <1>3, <2>1, <2>2, <2>3, WovenBefore
    <3> QED
      BY <3>1, Zenon DEF Untouched
<1>10. g[a + 1] = q \o (NewIn(rs, S, a) \o KeptIn(lines, rs, more, a))
  <2>1. a \in 0 .. Len(lines) /\ a + 1 \in 1 .. N /\ (a + 1) - 1 = a /\ a \in 0 .. a
    BY <1>5
  <2>2. NewIn(rs, more, a) = new \o NewIn(rs, S, a)
    <3>1. NewIn(rs, S \union {k}, rs[k].at) = rs[k].new \o NewIn(rs, S, rs[k].at)
      BY NewHere
    <3> QED
      BY <1>1, <1>4, <3>1, Zenon
  <2>3. PICK x \in Seq(L), y \in Seq(L) : x = NewIn(rs, S, a) /\ y = KeptIn(lines, rs, more, a)
    BY <2>1, PiecesTyped
  <2>4. Pieces(lines, rs, more)[a + 1] = NewIn(rs, more, a) \o y
    <3>1. IsPiece(lines, rs, more, a)
      BY <2>1, PiecesTyped
    <3> QED
      BY <2>3, <3>1, Zenon DEF IsPiece
  <2>5. g[a + 1] = h \o ((new \o x) \o y)
    <3>1. g[a] = h
      BY <1>6, <1>9, <2>1
    <3>2. g[a + 1] = g[a] \o Pieces(lines, rs, more)[a + 1]
      BY <1>3, <2>1, Zenon DEF Joins
    <3> QED
      BY <2>2, <2>3, <2>4, <3>1, <3>2, Zenon
  <2>6. Associates(new, x, y) /\ Associates(h, new, x \o y)
    <3>1. PICK xy \in Seq(L) : xy = x \o y
      BY ConcatProperties
    <3> QED
      BY <3>1, AllAssociate
  <2> QED
    BY <1>7, <2>3, <2>5, <2>6, Zenon DEF Associates
<1>11. \E b \in 1 .. N : b > a /\ b >= a + o /\ Alike(f, g, p, q, b, L)
  <2>0. a \in 0 .. Len(lines) /\ a + 1 \in 1 .. N /\ (a + 1) - 1 = a /\ a \in 0 .. a + o
    BY <1>5
  <2>1. CASE o = 0
    <3>1. KeptIn(lines, rs, more, a) = KeptIn(lines, rs, S, a)
      <4>1. ~Replaces(rs, k, a)
        BY <1>4, <2>1 DEF Replaces
      <4>2. (\E j \in more : Replaces(rs, j, a)) <=> \E j \in S : Replaces(rs, j, a)
        BY <1>1, <4>1, Zenon
      <4> QED
        BY <4>2, Zenon DEF KeptIn
    <3>2. PICK t \in Seq(L) : t = NewIn(rs, S, a) \o KeptIn(lines, rs, S, a)
      <4>1. NewIn(rs, S, a) \in Seq(L) /\ KeptIn(lines, rs, S, a) \in Seq(L)
        BY <2>0, PiecesTyped
      <4> QED
        BY <4>1, ConcatProperties
    <3>3. f[a + 1] = p \o t
      <4>1. f[a] = p
        <5>1. a + o = a
          BY <2>1
        <5> QED
          BY <1>6, <1>8, <2>0, <5>1, Zenon
      <4>2. f[a + 1] = f[a] \o Pieces(lines, rs, S)[a + 1]
        BY <1>2, <2>0, Zenon DEF Joins
      <4>3. IsPiece(lines, rs, S, a)
        BY <2>0, PiecesTyped
      <4> QED
        BY <3>2, <4>1, <4>2, <4>3, Zenon DEF IsPiece
    <3>4. g[a + 1] = q \o t
      BY <1>10, <3>1, <3>2, Zenon
    <3>5. Alike(f, g, p, q, a + 1, L)
      BY <3>3, <3>4, Zenon DEF Alike
    <3> QED
      BY <2>0, <2>1, <3>5
  <2>2. CASE o > 0
    <3>1. \A i \in a .. a + o - 1 : /\ NewIn(rs, S, i) = << >> /\ Replaces(rs, k, i)
                                   /\ i \in 0 .. Len(lines) /\ i # Len(lines)
      <4>1. TAKE i \in a .. a + o - 1
      <4>2. i < a + o /\ i >= a /\ i \in Nat /\ i \in 0 .. Len(lines) /\ i # Len(lines)
        BY <1>5
      <4>3. Replaces(rs, k, i)
        BY <1>4, <4>2 DEF Replaces
      <4>4. \A j \in S : rs[j].at # i
        <5>1. TAKE j \in S
        <5>2. rs[j].at >= a + o
          BY <1>4
        <5> QED
          BY <4>2, <5>2
      <4>5. NewIn(rs, S, i) = << >>
        BY <4>4, NewNowhere
      <4> QED
        BY <4>2, <4>3, <4>5
    <3>2. q \o << >> = q /\ p \o << >> = p /\ << >> \in Seq(L)
      BY JoinAgain
    <3>3. << >> \o << >> = << >>
      OBVIOUS
    <3>4. g[a + 1] = q
      <4>1. a \in a .. a + o - 1
        BY <2>2
      <4>2. NewIn(rs, S, a) = << >> /\ KeptIn(lines, rs, more, a) = << >>
        BY <1>1, <3>1, <4>1, Zenon DEF KeptIn
      <4> QED
        BY <1>10, <3>2, <3>3, <4>2, Zenon
    <3> DEFINE T == {d \in 0 .. o - 1 : g[a + 1 + d] = q}
    <3>5. 0 \in T
      <4>1. 0 \in 0 .. o - 1 /\ a + 1 + 0 = a + 1
        BY <2>2
      <4> QED
        BY <3>4, <4>1, Zenon
    <3>6. ASSUME NEW d \in 0 .. o - 1, d < o - 1, d \in T PROVE d + 1 \in T
      <4>1. PICK i \in a .. a + o - 1 : i = a + 1 + d
        BY <2>2, <3>6
      <4>2. i # a /\ i + 1 = a + 1 + (d + 1) /\ d + 1 \in 0 .. o - 1 /\ (i + 1) - 1 = i
            /\ i + 1 \in 1 .. N
        BY <1>5, <2>2, <3>6, <4>1
      <4>3. NewIn(rs, S, i) = << >> /\ Replaces(rs, k, i) /\ i \in 0 .. Len(lines) /\ i # Len(lines)
        BY <3>1
      <4>4. Pieces(lines, rs, S \union {k})[i + 1] = NewIn(rs, S, i)
        <5>1. i # rs[k].at
          BY <1>4, <4>2
        <5>2. PICK l \in 0 .. Len(lines) : l = i
          BY <4>3
        <5>3. l # rs[k].at /\ Replaces(rs, k, l) /\ l # Len(lines)
          BY <4>3, <5>1, <5>2, Zenon
        <5>4. IsNewOnly(lines, rs, S, k, l)
          BY <5>3, PiecesElsewhere
        <5> QED
          BY <5>2, <5>4, Zenon DEF IsNewOnly
      <4>5. g[i + 1] = g[i] \o Pieces(lines, rs, more)[i + 1]
        BY <1>3, <4>2, Zenon DEF Joins
      <4>6. g[i] = q
        BY <3>6, <4>1
      <4>7. g[i + 1] = q
        BY <1>1, <3>2, <3>3, <4>3, <4>4, <4>5, <4>6, Zenon
      <4> QED
        BY <4>2, <4>7
    <3>7. 0 .. o - 1 \subseteq T
      <4>1. o - 1 \in Nat
        BY <2>2
      <4> HIDE DEF T
      <4> QED
        BY <3>5, <3>6, <4>1, IntervalInduction
    <3>8. g[a + o] = q
      <4>1. o - 1 \in 0 .. o - 1 /\ a + 1 + (o - 1) = a + o
        BY <2>2
      <4>2. o - 1 \in T
        BY <3>7, <4>1
      <4>3. g[a + 1 + (o - 1)] = q
        BY <4>2
      <4> QED
        BY <4>1, <4>3
    <3>9. f[a + o] = p
      <4>1. a + o \in 0 .. a + o
        OBVIOUS
      <4> QED
        BY <1>6, <1>8, <4>1, Zenon
    <3>10. Alike(f, g, p, q, a + o, L)
      BY <3>2, <3>8, <3>9, Zenon DEF Alike
    <3>11. a + o \in 1 .. N /\ a + o > a /\ a + o >= a + o
      BY <1>5, <2>2
    <3> QED
      BY <3>10, <3>11, Zenon
  <2> QED
    BY <2>1, <2>2
<1>12. Alike(f, g, p, q, N, L)
  <2>1. PICK b \in 1 .. N : b > a /\ b >= a + o /\ Alike(f, g, p, q, b, L)
    BY <1>11
  <2> QED
    BY <1>1, <1>2, <1>3, <1>4, <2>1, WovenAlike
<1>13. PICK t \in Seq(L) : f[N] = p \o t /\ g[N] = q \o t
  BY <1>12, Zenon DEF Alike
<1>14. PICK whole \in Seq(L) : whole = p \o t
  BY ConcatProperties
<1>15. SubSeq(whole, 1, a) = h /\ SubSeq(whole, a + o + 1, Len(whole)) = t
  <2>1. PICK b \in Nat : b = a + o
    BY <1>4
  <2>2. a <= b /\ b <= Len(lines)
    BY SMTT(30), <1>4, <1>5, <2>1
  <2> QED
    BY <1>6, <1>14, <2>1, <2>2, CutOf
<1>16. Patch!Spliced(rs[k], whole) = (h \o new) \o t
  BY <1>4, <1>15, Zenon DEF Patch!Spliced
<1>17. WovenIn(lines, rs, S) = whole /\ WovenIn(lines, rs, more) = q \o t
  BY <1>2, <1>3, <1>13, <1>14, Zenon DEF Joins, WovenIn
<1> QED
  BY <1>1, <1>7, <1>16, <1>17, Zenon DEF Follows

\* Nothing replaced, everything replaced.
LEMMA WovenNone ==
  ASSUME NEW L, NEW lines \in Seq(L), NEW rs \in Seq(Replacings(L))
  PROVE  WovenIn(lines, rs, {}) = lines
<1>1. PICK N \in Nat : N = Len(lines)
  OBVIOUS
<1>2. PICK f : Joins(f, Pieces(lines, rs, {}), Len(lines) + 1, L)
  <2>1. Pieces(lines, rs, {}) \in [1 .. Len(lines) + 1 -> Seq(L)] /\ Len(lines) + 1 \in Nat
    BY PiecesTyped
  <2> QED
    BY <2>1, JoinedUp
<1>3. f[N] = lines
  <2>1. N \in 0 .. Len(lines) /\ N \in 0 .. N /\ {} \in SUBSET DOMAIN rs
    BY <1>1
  <2>2. Untouched(f, lines, N)
    BY <1>2, <2>1, WovenBefore
  <2>3. SubSeq(lines, 1, N) = lines
    BY <1>1
  <2> QED
    BY <2>1, <2>2, <2>3, Zenon DEF Untouched
<1>4. f[N + 1] = lines \o (<< >> \o << >>)
  <2>1. N \in 0 .. Len(lines) /\ N + 1 \in 1 .. Len(lines) + 1 /\ (N + 1) - 1 = N
    BY <1>1
  <2>2. NewIn(rs, {}, N) = << >>
    BY NewNowhere
  <2>3. KeptIn(lines, rs, {}, N) = << >>
    BY <1>1, Zenon DEF KeptIn
  <2>4. IsPiece(lines, rs, {}, N)
    BY <2>1, PiecesTyped
  <2> QED
    BY <1>2, <1>3, <2>1, <2>2, <2>3, <2>4, Zenon DEF IsPiece, Joins
<1>5. lines \o (<< >> \o << >>) = lines
  <2>1. << >> \o << >> = << >> /\ lines \o << >> = lines
    OBVIOUS
  <2> QED
    BY <2>1, Zenon
<1> QED
  BY <1>1, <1>2, <1>4, <1>5, Zenon DEF Joins, WovenIn

LEMMA WovenAll ==
  ASSUME NEW lines, NEW rs
  PROVE  Patch!Woven(lines, rs) = WovenIn(lines, rs, DOMAIN rs)
<1>1. \A i : Patch!NewAt(rs, i) = NewIn(rs, DOMAIN rs, i)
  <2>1. TAKE i
  <2>2. [k \in DOMAIN rs |-> IF rs[k].at = i THEN rs[k].new ELSE << >>] = NewOnes(rs, DOMAIN rs, i)
    BY Zenon DEF NewOnes
  <2> QED
    BY <2>2, SameFlattening, Zenon DEF Patch!NewAt, NewIn
<1>2. \A i : Patch!KeptAt(lines, rs, i) = KeptIn(lines, rs, DOMAIN rs, i)
  BY Zenon DEF Patch!KeptAt, Patch!Covered, KeptIn, Replaces
<1>3. [k \in 1 .. Len(lines) + 1 |-> Patch!NewAt(rs, k - 1) \o Patch!KeptAt(lines, rs, k - 1)]
        = Pieces(lines, rs, DOMAIN rs)
  BY <1>1, <1>2, Zenon DEF Pieces
<1> QED
  BY <1>3, SameFlattening, Zenon DEF Patch!Woven, WovenIn

(***************************************************************************)
(* The order in which they are made.                                       *)
(***************************************************************************)
Ahead(rs, k) == {j \in DOMAIN rs : Patch!Behind(rs, j, k)}

Place(rs, k) == Cardinality(Ahead(rs, k))

LEMMA BehindOrders ==
  ASSUME NEW L, NEW rs \in Seq(Replacings(L)), NEW i \in DOMAIN rs, NEW j \in DOMAIN rs,
         NEW k \in DOMAIN rs
  PROVE  /\ Patch!Behind(rs, j, k) \/ Patch!Behind(rs, k, j) \/ j = k
         /\ Patch!Behind(rs, i, j) /\ Patch!Behind(rs, j, k) => Patch!Behind(rs, i, k)
         /\ ~(Patch!Behind(rs, j, k) /\ Patch!Behind(rs, k, j)) /\ ~Patch!Behind(rs, k, k)
<1>1. DOMAIN rs = 1 .. Len(rs) /\ Len(rs) \in Nat
  BY NewOnesTyped
<1>2. rs[i].at \in Nat /\ rs[j].at \in Nat /\ rs[k].at \in Nat
  BY <1>1, NewOnesTyped
<1>3. PICK a \in Nat, b \in Nat, c \in Nat : a = rs[i].at /\ b = rs[j].at /\ c = rs[k].at
  BY <1>2
<1>4. i \in Nat /\ j \in Nat /\ k \in Nat
  BY <1>1
<1> QED
  BY <1>3, <1>4 DEF Patch!Behind

LEMMA AheadFinite ==
  ASSUME NEW L, NEW rs \in Seq(Replacings(L)), NEW k \in DOMAIN rs
  PROVE  /\ IsFiniteSet(Ahead(rs, k)) /\ Place(rs, k) \in Nat /\ Place(rs, k) < Len(rs)
         /\ IsFiniteSet(DOMAIN rs) /\ Cardinality(DOMAIN rs) = Len(rs)
<1>1. DOMAIN rs = 1 .. Len(rs) /\ Len(rs) \in Nat
  BY NewOnesTyped
<1>2. IsFiniteSet(DOMAIN rs) /\ Cardinality(DOMAIN rs) = Len(rs)
  <2>1. PICK n \in Nat : n = Len(rs)
    BY <1>1
  <2>2. 1 \in Int /\ n \in Int
    OBVIOUS
  <2>3. IsFiniteSet(1 .. n) /\ Cardinality(1 .. n) = IF 1 > n THEN 0 ELSE n - 1 + 1
    BY <2>2, FS_Interval
  <2>4. (IF 1 > n THEN 0 ELSE n - 1 + 1) = n
    OBVIOUS
  <2> QED
    BY <1>1, <2>1, <2>3, <2>4, ZenonT(30)
<1>3. Ahead(rs, k) \in SUBSET DOMAIN rs /\ k \notin Ahead(rs, k)
  BY BehindOrders DEF Ahead
<1>4. /\ IsFiniteSet(Ahead(rs, k)) /\ Cardinality(Ahead(rs, k)) <= Cardinality(DOMAIN rs)
      /\ Cardinality(DOMAIN rs) = Cardinality(Ahead(rs, k)) => DOMAIN rs = Ahead(rs, k)
  BY <1>2, <1>3, FS_Subset
<1>5. Cardinality(Ahead(rs, k)) \in Nat
  BY <1>4, FS_CardinalityType
<1>6. Cardinality(DOMAIN rs) # Cardinality(Ahead(rs, k))
  BY <1>3, <1>4, Zenon
<1> QED
  BY <1>1, <1>2, <1>4, <1>5, <1>6 DEF Place

LEMMA PlacesGrow ==
  ASSUME NEW L, NEW rs \in Seq(Replacings(L)), NEW j \in DOMAIN rs, NEW k \in DOMAIN rs,
         Patch!Behind(rs, j, k)
  PROVE  Place(rs, j) < Place(rs, k)
<1>1. Ahead(rs, j) \in SUBSET Ahead(rs, k) /\ j \in Ahead(rs, k) /\ j \notin Ahead(rs, j)
  BY BehindOrders DEF Ahead
<1>2. IsFiniteSet(Ahead(rs, k)) /\ Place(rs, j) \in Nat /\ Place(rs, k) \in Nat
  BY AheadFinite
<1>3. /\ Cardinality(Ahead(rs, j)) <= Cardinality(Ahead(rs, k))
      /\ Cardinality(Ahead(rs, k)) = Cardinality(Ahead(rs, j)) => Ahead(rs, k) = Ahead(rs, j)
  BY <1>1, <1>2, FS_Subset
<1>4. Cardinality(Ahead(rs, k)) # Cardinality(Ahead(rs, j))
  BY <1>1, <1>3, Zenon
<1> QED
  BY <1>2, <1>3, <1>4 DEF Place

\* A stable sort has someone at every place.
LEMMA PlacesTaken ==
  ASSUME NEW L, NEW rs \in Seq(Replacings(L)), NEW r \in Nat, r < Len(rs)
  PROVE  \E k \in DOMAIN rs : Place(rs, k) = r
<1>1. PICK n \in Nat : n = Len(rs) /\ DOMAIN rs = 1 .. n
  BY NewOnesTyped
<1>2. n > 0
  BY <1>1
<1>3. PICK T : T = 0 .. n - 1
  OBVIOUS
<1>4. IsFiniteSet(T) /\ Cardinality(T) = n
  <2>1. 0 \in Int /\ n - 1 \in Int
    OBVIOUS
  <2>2. /\ IsFiniteSet(0 .. n - 1)
        /\ Cardinality(0 .. n - 1) = IF 0 > n - 1 THEN 0 ELSE (n - 1) - 0 + 1
    BY <2>1, FS_Interval
  <2>3. (IF 0 > n - 1 THEN 0 ELSE (n - 1) - 0 + 1) = n
    BY <1>2
  <2> QED
    BY <1>3, <2>2, <2>3, Zenon
<1>5. PICK f : f = [k \in DOMAIN rs |-> Place(rs, k)]
  OBVIOUS
<1>6. \A k \in DOMAIN rs : Place(rs, k) \in T
  <2>1. TAKE k \in DOMAIN rs
  <2>2. Place(rs, k) \in Nat /\ Place(rs, k) < Len(rs)
    BY AheadFinite
  <2> QED
    BY <1>1, <1>3, <2>2
<1>7. \A j, k \in DOMAIN rs : Place(rs, j) = Place(rs, k) => j = k
  <2>1. TAKE j, k \in DOMAIN rs
  <2>2. Patch!Behind(rs, j, k) \/ Patch!Behind(rs, k, j) \/ j = k
    BY BehindOrders
  <2>3. Place(rs, j) \in Nat /\ Place(rs, k) \in Nat
    BY AheadFinite
  <2>4. Patch!Behind(rs, j, k) => Place(rs, j) < Place(rs, k)
    BY PlacesGrow
  <2>5. Patch!Behind(rs, k, j) => Place(rs, k) < Place(rs, j)
    BY PlacesGrow
  <2> QED
    BY <2>2, <2>3, <2>4, <2>5
<1>8. f \in Injection(DOMAIN rs, T)
  BY <1>5, <1>6, <1>7, Zenon DEF Injection, IsInjective
<1>9. Cardinality(DOMAIN rs) = n
  <2>1. 1 \in DOMAIN rs
    BY <1>1, <1>2
  <2> QED
    BY <1>1, <2>1, AheadFinite
<1>10. f \in Surjection(DOMAIN rs, T)
  BY <1>4, <1>8, <1>9, FS_Injection
<1>11. r \in T
  BY <1>1, <1>3
<1>12. PICK k \in DOMAIN rs : f[k] = r
  BY <1>10, <1>11, Zenon DEF Surjection
<1> QED
  BY <1>5, <1>12, Zenon

LEMMA SamePatchCardinality == \A S : Patch!Cardinality(S) = Cardinality(S)
BY Zenon DEF Patch!Cardinality, Cardinality

\* The replacement that is at a place of the sorted ones.
AtPlace(rs, n) == CHOOSE k \in DOMAIN rs : Place(rs, k) = n - 1

LEMMA SortedByPlace ==
  ASSUME NEW rs
  PROVE  Patch!Sorted(rs) = [n \in DOMAIN rs |-> rs[AtPlace(rs, n)]]
<1> DEFINE C(n) == CHOOSE k \in DOMAIN rs :
                     Patch!Cardinality({j \in DOMAIN rs : Patch!Behind(rs, j, k)}) = n - 1
<1>1. \A n, k : Patch!Cardinality({j \in DOMAIN rs : Patch!Behind(rs, j, k)}) = n - 1
                 <=> Place(rs, k) = n - 1
  BY SamePatchCardinality, Zenon DEF Place, Ahead
<1>2. \A n : C(n) = AtPlace(rs, n)
  BY <1>1, Zenon DEF AtPlace
<1>3. Patch!Sorted(rs) = [n \in DOMAIN rs |-> rs[C(n)]]
  BY Zenon DEF Patch!Sorted
<1> HIDE DEF C
<1> QED
  BY <1>2, <1>3, Zenon

LEMMA AtPlaceIs ==
  ASSUME NEW L, NEW rs \in Seq(Replacings(L)), NEW n \in 1 .. Len(rs)
  PROVE  /\ AtPlace(rs, n) \in DOMAIN rs /\ Place(rs, AtPlace(rs, n)) = n - 1
         /\ Patch!Sorted(rs)[n] = rs[AtPlace(rs, n)]
<1>1. DOMAIN rs = 1 .. Len(rs) /\ Len(rs) \in Nat
  BY NewOnesTyped
<1>2. PICK r \in Nat : r = n - 1 /\ r < Len(rs)
  BY <1>1
<1>3. \E k \in DOMAIN rs : Place(rs, k) = r
  BY <1>2, PlacesTaken
<1>4. AtPlace(rs, n) \in DOMAIN rs /\ Place(rs, AtPlace(rs, n)) = n - 1
  BY <1>2, <1>3, Zenon DEF AtPlace
<1>5. n \in DOMAIN rs
  BY <1>1
<1>6. Patch!Sorted(rs)[n] = rs[AtPlace(rs, n)]
  BY <1>5, SortedByPlace, Zenon
<1> QED
  BY <1>4, <1>6

(***************************************************************************)
(* From the last to the first.                                             *)
(***************************************************************************)
\* The recursive function of apply_replacements up to n.
IsSpliced(h, lines, rs, n) ==
  h = [m \in 0 .. n |-> IF m = 0 THEN lines
                        ELSE Patch!Spliced(Patch!Sorted(rs)[Len(rs) + 1 - m], h[m - 1])]

LEMMA SplicedExists ==
  ASSUME NEW lines, NEW rs
  PROVE  \A n \in Nat : \E h : IsSpliced(h, lines, rs, n)
<1> DEFINE S == {n \in Nat : \E h : IsSpliced(h, lines, rs, n)}
           Step(m, last) == Patch!Spliced(Patch!Sorted(rs)[Len(rs) + 1 - m], last)
<1>1. 0 \in S
  <2>1. PICK h : h = [k \in 0 .. 0 |-> lines]
    OBVIOUS
  <2> HIDE DEF Step
  <2>2. h = [k \in 0 .. 0 |-> IF k = 0 THEN lines ELSE Step(k, h[k - 1])]
    BY <2>1
  <2>3. IsSpliced(h, lines, rs, 0)
    BY <2>2, Zenon DEF IsSpliced, Step
  <2> QED
    BY <2>3
<1>2. ASSUME NEW n \in Nat, n \in S PROVE n + 1 \in S
  <2>1. PICK h : IsSpliced(h, lines, rs, n)
    BY <1>2
  <2>0. h = [k \in 0 .. n |-> IF k = 0 THEN lines ELSE Step(k, h[k - 1])]
    BY <2>1, Zenon DEF IsSpliced
  <2> HIDE DEF Step
  <2>2. PICK j : j = [k \in 0 .. n + 1 |-> IF k = 0 THEN lines ELSE Step(k, h[k - 1])]
    OBVIOUS
  <2>3. \A k \in 0 .. n : j[k] = h[k]
    <3>1. TAKE k \in 0 .. n
    <3>2. k \in 0 .. n + 1
      OBVIOUS
    <3>3. j[k] = IF k = 0 THEN lines ELSE Step(k, h[k - 1])
      BY <2>2, <3>2, Zenon
    <3>4. h[k] = IF k = 0 THEN lines ELSE Step(k, h[k - 1])
      BY <2>0, <3>1, Zenon
    <3> QED
      BY <3>3, <3>4
  <2>4. \A k \in 0 .. n + 1 : k # 0 => k - 1 \in 0 .. n
    OBVIOUS
  <2>5. j = [k \in 0 .. n + 1 |-> IF k = 0 THEN lines ELSE Step(k, j[k - 1])]
    BY <2>2, <2>3, <2>4
  <2>6. IsSpliced(j, lines, rs, n + 1)
    BY <2>5, Zenon DEF IsSpliced, Step
  <2> QED
    BY <2>6
<1>3. S = Nat
  <2>1. S \in SUBSET Nat
    OBVIOUS
  <2> HIDE DEF S
  <2> QED
    BY <1>1, <1>2, <2>1, SetInduction
<1> QED
  BY <1>3

\* The last m of the replacements.
Late(rs, m) == {k \in DOMAIN rs : Place(rs, k) >= Len(rs) - m}

LEMMA LateGrows ==
  ASSUME NEW L, NEW rs \in Seq(Replacings(L)), NEW m \in Nat, m < Len(rs)
  PROVE  LET k == AtPlace(rs, Len(rs) - m)
         IN  /\ Late(rs, m + 1) = Late(rs, m) \union {k} /\ k \in DOMAIN rs /\ k \notin Late(rs, m)
             /\ \A j \in Late(rs, m) : j \in DOMAIN rs /\ Patch!Behind(rs, k, j)
             /\ Patch!Sorted(rs)[Len(rs) - m] = rs[k]
<1>1. PICK n \in Nat : n = Len(rs) /\ DOMAIN rs = 1 .. n
  BY NewOnesTyped
<1>2. PICK i : i = Len(rs) - m /\ i \in 1 .. Len(rs)
  BY <1>1
<1>3. PICK k : k = AtPlace(rs, i)
  OBVIOUS
<1>4. k \in DOMAIN rs /\ Place(rs, k) = i - 1 /\ Patch!Sorted(rs)[i] = rs[k]
  BY <1>2, <1>3, AtPlaceIs
<1>5. \A j \in DOMAIN rs : /\ Place(rs, j) \in Nat
                           /\ Patch!Behind(rs, j, k) \/ Patch!Behind(rs, k, j) \/ j = k
                           /\ Patch!Behind(rs, j, k) => Place(rs, j) < Place(rs, k)
                           /\ Patch!Behind(rs, k, j) => Place(rs, k) < Place(rs, j)
  <2>1. TAKE j \in DOMAIN rs
  <2>2. Patch!Behind(rs, j, k) \/ Patch!Behind(rs, k, j) \/ j = k
    BY <1>4, BehindOrders
  <2>3. Patch!Behind(rs, j, k) => Place(rs, j) < Place(rs, k)
    BY <1>4, PlacesGrow
  <2>4. Patch!Behind(rs, k, j) => Place(rs, k) < Place(rs, j)
    BY <1>4, PlacesGrow
  <2>5. Place(rs, j) \in Nat
    BY AheadFinite
  <2> QED
    BY <2>2, <2>3, <2>4, <2>5
<1>6. \A j : j \in Late(rs, m) => j \in DOMAIN rs /\ Patch!Behind(rs, k, j)
  <2>1. TAKE j
  <2>2. SUFFICES ASSUME j \in Late(rs, m) PROVE j \in DOMAIN rs /\ Patch!Behind(rs, k, j)
    OBVIOUS
  <2>3. j \in DOMAIN rs /\ Place(rs, j) >= Len(rs) - m
    BY <2>2 DEF Late
  <2> QED
    BY <1>1, <1>2, <1>4, <1>5, <2>3
<1>7. k \notin Late(rs, m)
  BY <1>1, <1>2, <1>4 DEF Late
<1>8. \A j : j \in Late(rs, m + 1) <=> j \in Late(rs, m) \/ j = k
  <2>1. TAKE j
  <2>2. CASE j \in DOMAIN rs
    <3>1. Place(rs, j) \in Nat /\ (Place(rs, j) = Place(rs, k) => j = k)
      BY <1>4, <1>5, <2>2
    <3>2. Place(rs, j) >= n - (m + 1) <=> Place(rs, j) >= n - m \/ j = k
      BY <1>1, <1>2, <1>4, <3>1
    <3> QED
      BY <1>1, <2>2, <3>2, Zenon DEF Late
  <2>3. CASE j \notin DOMAIN rs
    BY <1>4, <2>3, Zenon DEF Late
  <2> QED
    BY <2>2, <2>3
<1>9. Late(rs, m + 1) = Late(rs, m) \union {k}
  BY <1>8, Zenon
<1> QED
  BY <1>2, <1>3, <1>4, <1>6, <1>7, <1>9, Zenon

\* What is applied from the last to the first is what a text is woven of.
LEMMA AppliesWoven ==
  ASSUME NEW L, NEW lines \in Seq(L), NEW rs \in Seq(Replacings(L)), Apart(lines, rs)
  PROVE  Patch!apply_replacements(lines, rs) = Patch!Woven(lines, rs)
<1>1. PICK n \in Nat : n = Len(rs) /\ DOMAIN rs = 1 .. n
  BY NewOnesTyped
<1>2. PICK h : h = CHOOSE j : IsSpliced(j, lines, rs, n)
  OBVIOUS
<1>3. IsSpliced(h, lines, rs, n)
  BY <1>2, SplicedExists
<1>4. Patch!apply_replacements(lines, rs) = h[n]
  BY <1>1, <1>2, Zenon DEF Patch!apply_replacements, IsSpliced
<1>5. \A m \in 0 .. n : h[m] = IF m = 0 THEN lines
                               ELSE Patch!Spliced(Patch!Sorted(rs)[Len(rs) + 1 - m], h[m - 1])
  BY <1>3, Zenon DEF IsSpliced
<1> DEFINE S == {m \in 0 .. n : h[m] = WovenIn(lines, rs, Late(rs, m))}
<1>6. 0 \in S
  <2>1. Late(rs, 0) = {}
    <3>1. \A k \in DOMAIN rs : Place(rs, k) \in Nat /\ Place(rs, k) < Len(rs)
      BY AheadFinite
    <3> QED
      BY <1>1, <3>1 DEF Late
  <2>2. 0 \in 0 .. n
    OBVIOUS
  <2>3. h[0] = lines
    BY <1>5, <2>2, Zenon
  <2> QED
    BY <2>1, <2>2, <2>3, WovenNone, Zenon
<1>7. ASSUME NEW m \in 0 .. n, m < n, m \in S PROVE m + 1 \in S
  <2>1. m \in Nat /\ m < Len(rs) /\ m + 1 \in 0 .. n /\ m + 1 # 0 /\ (m + 1) - 1 = m
        /\ Len(rs) + 1 - (m + 1) = Len(rs) - m
    <3>1. m \in Nat /\ m < n /\ m + 1 \in 0 .. n /\ m + 1 # 0 /\ (m + 1) - 1 = m
          /\ n + 1 - (m + 1) = n - m
      BY <1>7
    <3> QED
      BY <1>1, <3>1, Zenon
  <2>2. PICK k : k = AtPlace(rs, Len(rs) - m)
    OBVIOUS
  <2>3. /\ Late(rs, m + 1) = Late(rs, m) \union {k} /\ k \in DOMAIN rs /\ k \notin Late(rs, m)
        /\ \A j \in Late(rs, m) : j \in DOMAIN rs /\ Patch!Behind(rs, k, j)
        /\ Patch!Sorted(rs)[Len(rs) - m] = rs[k]
    BY <2>1, <2>2, LateGrows
  <2>4. h[m + 1] = Patch!Spliced(rs[k], h[m])
    BY <1>5, <2>1, <2>3, Zenon
  <2>5. \A j \in Late(rs, m) : rs[j].at >= rs[k].at + rs[k].old /\ (rs[j].at = rs[k].at => j > k)
    <3>1. TAKE j \in Late(rs, m)
    <3>2. j \in DOMAIN rs /\ Patch!Behind(rs, k, j)
      BY <2>3
    <3>3. rs[k].at + rs[k].old <= rs[j].at
      BY <2>3, <3>2, Zenon DEF Apart
    <3>4. /\ rs[k].at \in Nat /\ rs[j].at \in Nat /\ rs[k].old \in Nat /\ k \in Nat /\ j \in Nat
      <4>1. k \in Nat /\ j \in Nat /\ k \in 1 .. Len(rs) /\ j \in 1 .. Len(rs)
        BY <1>1, <2>3, <3>2
      <4> QED
        BY <4>1, NewOnesTyped
    <3>5. PICK a \in Nat, b \in Nat, c \in Nat : a = rs[k].at /\ b = rs[j].at /\ c = rs[k].old
      BY <3>4
    <3> QED
      BY <3>2, <3>3, <3>4, <3>5 DEF Patch!Behind
  <2>6. rs[k].at + rs[k].old <= Len(lines)
    BY <2>3, Zenon DEF Apart
  <2>7. Late(rs, m) \in SUBSET DOMAIN rs
    BY <2>3
  <2>8. Follows(lines, rs, Late(rs, m), k)
    BY <2>3, <2>5, <2>6, <2>7, WeaveStep
  <2> QED
    BY <2>1, <1>7, <2>3, <2>4, <2>8, Zenon DEF Follows
<1> HIDE DEF S
<1>8. n \in S
  <2>1. 0 .. n \subseteq S
    BY <1>1, <1>6, <1>7, IntervalInduction
  <2> QED
    BY <1>1, <2>1
<1>9. Late(rs, n) = DOMAIN rs
  <2>1. \A k \in DOMAIN rs : Place(rs, k) \in Nat
    BY AheadFinite
  <2> QED
    BY <1>1, <2>1 DEF Late
<1> QED
  BY <1>4, <1>8, <1>9, WovenAll, Zenon DEF S

\* PatchText takes the least with an instance of its own.
LEMMA LeastOf ==
  ASSUME NEW S \in SUBSET Nat, S # {}
  PROVE  Patch!Min(S) \in S /\ Patch!Min(S) \in Nat /\ \A y \in S : Patch!Min(S) <= y
<1>1. PICK x \in S : \A y \in S : ~(<<y, x>> \in OpToRel(<, Nat))
  BY WFMin, NatLessThanWellFounded
<1>2. \A y \in S : x <= y
  <2>1. TAKE y \in S
  <2>2. ~(y < x)
    BY <1>1 DEF OpToRel
  <2> QED
    BY <2>2
<1>3. \E z \in S : \A y \in S : z <= y
  BY <1>2
<1>4. Patch!Min(S) \in S /\ \A y \in S : Patch!Min(S) <= y
  BY <1>3, Zenon DEF Patch!Min
<1> QED
  BY <1>4

(***************************************************************************)
(* Lines that are alike stay so for those who look less closely.           *)
(***************************************************************************)
Settings == {"plain", "behind", "before", "typographic"}

AnyLines == [words : Words \union {"", "added"}, set : Settings]

Alikes(l, x, y) == Patch!Reduced(x, l) = Patch!Reduced(y, l)

LEMMA ReducedWords ==
  ASSUME NEW line \in AnyLines, NEW l \in {0, 1, 2, 3}
  PROVE  Patch!Reduced(line, l).words = line.words
<1>1. line.words = [line EXCEPT !.set = "plain"].words
  BY DEF AnyLines
<1>2. Patch!Reduced(line, l) = line \/ Patch!Reduced(line, l) = [line EXCEPT !.set = "plain"]
  BY Zenon DEF Patch!Reduced
<1> QED
  BY <1>1, <1>2, Zenon

LEMMA ReducedToWords ==
  ASSUME NEW line \in AnyLines
  PROVE  Patch!Reduced(line, 3) = Patch!Line(line.words, "plain")
<1>1. /\ [line EXCEPT !.set = "plain"] = [words |-> line.words, set |-> "plain"]
      /\ line.set = "plain" => line = [words |-> line.words, set |-> "plain"]
      /\ line.set \in {"plain", "behind", "before", "typographic"}
  <2>1. PICK w, s : line = [words |-> w, set |-> s] /\ s \in Settings
    BY DEF AnyLines
  <2>2. line.words = w /\ line.set = s
    BY <2>1
  <2>3. [line EXCEPT !.set = "plain"] = [words |-> w, set |-> "plain"]
    BY <2>1
  <2> QED
    BY <2>1, <2>2, <2>3, Zenon DEF Settings
<1>2. Patch!Reduced(line, 3)
        = IF line.set \in {"behind", "before", "typographic"}
          THEN [line EXCEPT !.set = "plain"] ELSE line
  BY DEF Patch!Reduced
<1> QED
  BY <1>1, <1>2, Zenon DEF Patch!Line

\* Alike to one leniency, alike to the most lenient.
LEMMA AlikeToWords ==
  ASSUME NEW x \in AnyLines, NEW y \in AnyLines, NEW l \in {0, 1, 2, 3}, Alikes(l, x, y)
  PROVE  Alikes(3, x, y)
<1>1. x.words = y.words
  <2>1. Patch!Reduced(x, l).words = x.words
    BY ReducedWords, Zenon
  <2>2. Patch!Reduced(y, l).words = y.words
    BY ReducedWords, Zenon
  <2>3. Patch!Reduced(x, l) = Patch!Reduced(y, l)
    BY Zenon DEF Alikes
  <2> QED
    BY <2>1, <2>2, <2>3, Zenon
<1>2. Patch!Reduced(x, 3) = Patch!Line(x.words, "plain")
  BY ReducedToWords, Zenon
<1>3. Patch!Reduced(y, 3) = Patch!Line(y.words, "plain")
  BY ReducedToWords, Zenon
<1> QED
  BY <1>1, <1>2, <1>3, Zenon DEF Alikes

(***************************************************************************)
(* seek_sequence: what it finds is there, and it finds what is there letter *)
(* by letter, or something before it.                                      *)
(***************************************************************************)
FoundAt(lines, pattern, start, eof, at) ==
  IF pattern = << >> THEN at = start
  ELSE /\ at \in Nat /\ at + Len(pattern) <= Len(lines) /\ (~eof => at >= start)
       /\ Patch!MatchesAt(lines, pattern, at, 3)

LEMMA PlacesAre ==
  ASSUME NEW lines \in Seq(AnyLines), NEW pattern \in Seq(AnyLines), NEW start \in Nat,
         NEW eof \in BOOLEAN, NEW i
  PROVE  i \in Patch!Places(lines, pattern, start, eof) <=>
           /\ i \in Nat /\ i + Len(pattern) <= Len(lines)
           /\ eof => i = Len(lines) - Len(pattern)
           /\ ~eof => i >= start
<1>1. Len(lines) \in Nat /\ Len(pattern) \in Nat
  OBVIOUS
<1>2. PICK n \in Nat, m \in Nat : n = Len(lines) /\ m = Len(pattern)
  BY <1>1
<1>3. (i \in IF m > n THEN {} ELSE (IF eof THEN n - m ELSE start) .. n - m) <=>
           /\ i \in Nat /\ i + m <= n
           /\ eof => i = n - m
           /\ ~eof => i >= start
  BY <1>2
<1>4. Patch!Places(lines, pattern, start, eof)
        = IF m > n THEN {} ELSE (IF eof THEN n - m ELSE start) .. n - m
  BY <1>2, Zenon DEF Patch!Places
<1> QED
  BY <1>2, <1>3, <1>4, Zenon

AtMostOne(S) == \A x, y \in S : x = y

LEMMA SeekFinds ==
  ASSUME NEW lines \in Seq(AnyLines), NEW pattern \in Seq(AnyLines), NEW start \in Nat,
         NEW eof \in BOOLEAN
  PROVE  LET sought == Patch!seek_sequence(lines, pattern, start, eof)
         IN  /\ AtMostOne(sought)
             /\ \A at \in sought : FoundAt(lines, pattern, start, eof, at)
             /\ \A i \in Nat : /\ pattern # << >> /\ ~eof /\ i >= start
                               /\ i + Len(pattern) <= Len(lines)
                               /\ Patch!MatchesAt(lines, pattern, i, 0)
                               => \E at \in sought : at \in Nat /\ at <= i
<1>1. PICK sought : sought = Patch!seek_sequence(lines, pattern, start, eof)
  OBVIOUS
<1> DEFINE found == [leniency \in Patch!Leniencies |->
                       {i \in Patch!Places(lines, pattern, start, eof) :
                          Patch!MatchesAt(lines, pattern, i, leniency)}]
           enough == {leniency \in Patch!Leniencies : found[leniency] # {}}
<1>2. sought = CASE pattern = << >> -> {start}
                 [] pattern # << >> /\ enough = {} -> {}
                 [] OTHER -> {Patch!Min(found[Patch!Min(enough)])}
  BY <1>1, Zenon DEF Patch!seek_sequence
<1>3. CASE pattern = << >>
  <2>1. sought = {start}
    BY <1>2, <1>3, Zenon
  <2>2. AtMostOne(sought)
    BY <2>1, Zenon DEF AtMostOne
  <2>3. \A at \in sought : FoundAt(lines, pattern, start, eof, at)
    BY <1>3, <2>1, Zenon DEF FoundAt
  <2> QED
    BY <1>1, <1>3, <2>2, <2>3, Zenon
<1>4. CASE pattern # << >>
  <2>1. \A l \in {0, 1, 2, 3} : \A i : i \in found[l] <=>
          /\ i \in Nat /\ i + Len(pattern) <= Len(lines)
          /\ eof => i = Len(lines) - Len(pattern)
          /\ ~eof => i >= start
          /\ Patch!MatchesAt(lines, pattern, i, l)
    BY PlacesAre DEF Patch!Leniencies
  <2>2. enough \in SUBSET Nat /\ enough \subseteq {0, 1, 2, 3}
    BY DEF Patch!Leniencies
  <2>3. \A l \in {0, 1, 2, 3} : l \in enough <=> found[l] # {}
    BY DEF Patch!Leniencies
  <2> HIDE DEF found, enough
  <2>4. CASE enough = {}
    <3>1. sought = {}
      BY <1>2, <1>4, <2>4, Zenon
    <3>2. 0 \in {0, 1, 2, 3} /\ found[0] = {}
      BY <2>3, <2>4
    <3>3. \A i \in Nat : ~(/\ pattern # << >> /\ ~eof /\ i >= start
                           /\ i + Len(pattern) <= Len(lines)
                           /\ Patch!MatchesAt(lines, pattern, i, 0))
      BY <2>1, <3>2, Zenon
    <3> QED
      BY <1>1, <3>1, <3>3, Zenon DEF AtMostOne
  <2>5. CASE enough # {}
    <3>1. PICK l : l = Patch!Min(enough)
      OBVIOUS
    <3>2. l \in enough /\ l \in {0, 1, 2, 3} /\ \A k \in enough : l <= k
      BY <2>2, <2>5, <3>1, LeastOf
    <3>3. found[l] \in SUBSET Nat /\ found[l] # {}
      BY <2>1, <2>3, <3>2, Zenon
    <3>4. PICK at : at = Patch!Min(found[l])
      OBVIOUS
    <3>5. at \in found[l] /\ at \in Nat /\ \A i \in found[l] : at <= i
      BY <3>3, <3>4, LeastOf, Zenon
    <3>6. sought = {at}
      BY <1>2, <1>4, <2>5, <3>1, <3>4, Zenon
    <3>7. at + Len(pattern) <= Len(lines) /\ (~eof => at >= start)
          /\ Patch!MatchesAt(lines, pattern, at, l)
      BY <2>1, <3>2, <3>5, Zenon
    <3>8. Patch!MatchesAt(lines, pattern, at, 3)
      <4>1. SUFFICES ASSUME NEW k \in DOMAIN pattern
                     PROVE  Alikes(3, lines[at + k], pattern[k])
        BY Zenon DEF Patch!MatchesAt, Alikes
      <4>2. Alikes(l, lines[at + k], pattern[k])
        BY <3>7, Zenon DEF Patch!MatchesAt, Alikes
      <4>3. pattern[k] \in AnyLines /\ lines[at + k] \in AnyLines
        <5>1. PICK n \in Nat, m \in Nat : n = Len(lines) /\ m = Len(pattern)
          OBVIOUS
        <5>2. at + k \in 1 .. n
          BY <3>5, <3>7, <5>1
        <5> QED
          BY <5>1, <5>2
      <4> QED
        BY <3>2, <4>2, <4>3, AlikeToWords
    <3>9. FoundAt(lines, pattern, start, eof, at)
      BY <1>4, <3>5, <3>7, <3>8, Zenon DEF FoundAt
    <3>10. ASSUME NEW i \in Nat, ~eof, i >= start, i + Len(pattern) <= Len(lines),
                  Patch!MatchesAt(lines, pattern, i, 0)
           PROVE  at <= i
      <4>1. i \in found[0]
        BY <2>1, <3>10
      <4>2. 0 \in enough
        BY <2>3, <4>1, Zenon
      <4>3. l = 0
        BY <3>2, <4>2
      <4> QED
        BY <3>5, <4>1, <4>3, Zenon
    <3>11. AtMostOne(sought)
      BY <3>6, Zenon DEF AtMostOne
    <3>12. \A x \in sought : FoundAt(lines, pattern, start, eof, x)
      BY <3>6, <3>9, Zenon
    <3>13. \A i \in Nat : /\ pattern # << >> /\ ~eof /\ i >= start
                          /\ i + Len(pattern) <= Len(lines)
                          /\ Patch!MatchesAt(lines, pattern, i, 0)
                          => \E x \in sought : x \in Nat /\ x <= i
      BY <3>5, <3>6, <3>10
    <3> QED
      BY <1>1, <3>11, <3>12, <3>13, Zenon
  <2> QED
    BY <2>4, <2>5
<1> QED
  BY <1>3, <1>4

(***************************************************************************)
(* compute_replacements, one chunk: what it replaces.                      *)
(***************************************************************************)
PlainLines == {line \in AnyLines : line.set = "plain"}

ChunkTyped(c) ==
  /\ c.change_context \in Seq(AnyLines) /\ Len(c.change_context) \in {0, 1}
  /\ c.old_lines \in Seq(AnyLines) /\ c.old_lines \in Seq(PlainLines)
  /\ c.new_lines \in Seq(AnyLines) /\ c.is_end_of_file \in BOOLEAN

LEMMA SomeLines ==
  /\ Patch!Blank \in PlainLines /\ Patch!Added \in AnyLines /\ PlainLines \subseteq AnyLines
  /\ \A words \in Words : Patch!Line(words, "plain") \in PlainLines
  /\ Patch!FileLines \subseteq AnyLines
<1>1. \A words \in Words \union {"", "added"} : \A set \in Settings :
        Patch!Line(words, set) \in AnyLines /\ Patch!Line(words, set).set = set
  BY DEF Patch!Line, AnyLines
<1>2. "plain" \in Settings /\ "behind" \in Settings /\ "before" \in Settings
      /\ "typographic" \in Settings /\ "" \in Words \union {"", "added"}
      /\ "added" \in Words \union {"", "added"} /\ Words \subseteq Words \union {"", "added"}
  BY DEF Settings
<1>3. \A words \in Words \union {"", "added"} : Patch!Line(words, "plain") \in PlainLines
  BY <1>1, <1>2, Zenon DEF PlainLines
<1>4. Patch!Blank \in PlainLines /\ Patch!Added \in PlainLines
  BY <1>2, <1>3, Zenon DEF Patch!Blank, Patch!Added
<1>5. PlainLines \subseteq AnyLines
  BY DEF PlainLines
<1>6. \A words \in Words : Patch!Line(words, "plain") \in PlainLines
  BY <1>2, <1>3, Zenon
<1>7. ASSUME NEW line \in Patch!FileLines PROVE line \in AnyLines
  <2>1. CASE line = Patch!Blank
    BY <1>4, <1>5, <2>1
  <2>2. CASE line = Patch!Line("", "behind")
    BY <1>1, <1>2, <2>2, Zenon
  <2>3. CASE line \in [words : Words, set : Settings]
    <3>1. Words \subseteq Words \union {"", "added"}
      OBVIOUS
    <3> QED
      BY <2>3, <3>1 DEF AnyLines
  <2>4. line = Patch!Blank \/ line = Patch!Line("", "behind")
        \/ line \in [words : Words, set : Settings]
    BY <1>7, Zenon DEF Patch!FileLines, Settings
  <2> QED
    BY <2>1, <2>2, <2>3, <2>4
<1> QED
  BY <1>4, <1>5, <1>6, <1>7

IsShort(old, P) ==
  old = << >> \/ (\E x \in P : old = <<x>>) \/ \E x, y \in P : old = <<x, y>>

LEMMA ShortOnes ==
  ASSUME NEW S, NEW P, P \subseteq S, NEW old, IsShort(old, P)
  PROVE  old \in Seq(S)
<1>1. CASE old = << >>
  BY <1>1
<1>2. CASE \E x \in P : old = <<x>>
  <2> PICK x \in P : old = <<x>>
    BY <1>2
  <2> QED
    OBVIOUS
<1>3. CASE \E x, y \in P : old = <<x, y>>
  <2> PICK x \in P, y \in P : old = <<x, y>>
    BY <1>3
  <2> QED
    OBVIOUS
<1> QED
  BY <1>1, <1>2, <1>3 DEF IsShort

\* What a chunk may be.
LEMMA ChunksTyped == \A c \in Patch!UpdateFileChunks : ChunkTyped(c)
<1> DEFINE P == {Patch!Blank} \union {Patch!Line(words, "plain") : words \in Words}
           Old == {<< >>} \union {<<line>> : line \in P}
                    \union {<<line, last>> : line \in P \ {Patch!Blank}, last \in P}
           Contexts == {<< >>} \union {<<line>> : line \in P \ {Patch!Blank}}
           New == {<<Patch!Added>>, <<Patch!Added, Patch!Blank>>}
<1>1. TAKE c \in Patch!UpdateFileChunks
<1>2. PICK context \in Contexts, old \in Old, new \in New, eof \in BOOLEAN :
        c = Patch!UpdateFileChunk(context, old, new, eof)
  BY <1>1 DEF Patch!UpdateFileChunks
<1>3. P \subseteq PlainLines /\ P \subseteq AnyLines
  BY SomeLines
<1> HIDE DEF P
<1>4. IsShort(old, P)
  BY DEF IsShort
<1>5. context = << >> \/ (\E x \in P : context = <<x>>)
  OBVIOUS
<1>6. new = <<Patch!Added>> \/ new = <<Patch!Added, Patch!Blank>>
  OBVIOUS
<1> HIDE DEF Old, Contexts, New
<1>7. old \in Seq(PlainLines) /\ old \in Seq(AnyLines)
  <2>1. old \in Seq(PlainLines)
    BY <1>3, <1>4, ShortOnes, Zenon
  <2>2. old \in Seq(AnyLines)
    BY <1>3, <1>4, ShortOnes, Zenon
  <2> QED
    BY <2>1, <2>2
<1>9. context \in Seq(AnyLines) /\ Len(context) \in {0, 1}
  <2>1. context \in Seq(AnyLines)
    <3>1. IsShort(context, P)
      BY <1>5, Zenon DEF IsShort
    <3> QED
      BY <1>3, <3>1, ShortOnes, Zenon
  <2>2. Len(<< >>) = 0 /\ \A x : Len(<<x>>) = 1
    OBVIOUS
  <2> QED
    BY <1>5, <2>1, <2>2
<1>10. new \in Seq(AnyLines)
  <2>1. Patch!Added \in AnyLines /\ Patch!Blank \in AnyLines
    BY SomeLines
  <2>2. IsShort(new, AnyLines)
    BY <1>6, <2>1, Zenon DEF IsShort
  <2> QED
    BY <2>2, ShortOnes, Zenon
<1>8. c.change_context = context /\ c.old_lines = old /\ c.new_lines = new
      /\ c.is_end_of_file = eof
  BY <1>2 DEF Patch!UpdateFileChunk
<1> QED
  BY <1>7, <1>8, <1>9, <1>10, Zenon DEF ChunkTyped

TriedIn(lines, old, new, start, eof) ==
  {Patch!Replacement(at, Len(old), new) : at \in Patch!seek_sequence(lines, old, start, eof)}

\* In the file, and there to spaces and typography.
IsThere(lines, old, r, start, eof) ==
  /\ r \in Replacings(AnyLines) /\ r.old = Len(old) /\ r.at + r.old <= Len(lines)
  /\ ~eof => r.at >= start
  /\ Patch!MatchesAt(lines, old, r.at, 3)

LEMMA TriedAreThere ==
  ASSUME NEW lines \in Seq(AnyLines), NEW old \in Seq(AnyLines), NEW new \in Seq(AnyLines),
         NEW start \in Nat, start <= Len(lines), NEW eof \in BOOLEAN
  PROVE  /\ AtMostOne(TriedIn(lines, old, new, start, eof))
         /\ \A r \in TriedIn(lines, old, new, start, eof) : IsThere(lines, old, r, start, eof)
<1>1. PICK sought : sought = Patch!seek_sequence(lines, old, start, eof)
  OBVIOUS
<1>2. AtMostOne(sought)
  BY <1>1, SeekFinds, Zenon
<1>3. \A at \in sought : FoundAt(lines, old, start, eof, at)
  BY <1>1, SeekFinds, Zenon
<1>4. TriedIn(lines, old, new, start, eof) = {Patch!Replacement(at, Len(old), new) : at \in sought}
  BY <1>1, Zenon DEF TriedIn
<1>5. AtMostOne(TriedIn(lines, old, new, start, eof))
  BY <1>2, <1>4, Zenon DEF AtMostOne
<1>6. ASSUME NEW r \in TriedIn(lines, old, new, start, eof) PROVE IsThere(lines, old, r, start, eof)
  <2>1. PICK at \in sought : r = Patch!Replacement(at, Len(old), new)
    BY <1>4, <1>6
  <2>2. FoundAt(lines, old, start, eof, at)
    BY <1>3, <2>1
  <2>3. at \in Nat /\ at + Len(old) <= Len(lines) /\ (~eof => at >= start)
        /\ Patch!MatchesAt(lines, old, at, 3)
    <3>1. CASE old = << >>
      <4>1. at = start
        BY <2>2, <3>1, Zenon DEF FoundAt
      <4>2. DOMAIN old = {} /\ Len(old) = 0 /\ start + Len(old) <= Len(lines) /\ start >= start
        BY <3>1
      <4>3. Patch!MatchesAt(lines, old, at, 3)
        BY <4>2, Zenon DEF Patch!MatchesAt
      <4> QED
        BY <4>1, <4>2, <4>3, Zenon
    <3>2. CASE old # << >>
      BY <2>2, <3>2, Zenon DEF FoundAt
    <3> QED
      BY <3>1, <3>2
  <2>4. r.at = at /\ r.old = Len(old) /\ r \in Replacings(AnyLines)
    BY <2>1, <2>3 DEF Patch!Replacement, Replacings
  <2> QED
    BY <2>3, <2>4, Zenon DEF IsThere
<1> QED
  BY <1>5, <1>6

\* Where a chunk may go.
Sits(lines, c, r) ==
  IF c.old_lines = << >> THEN r = Patch!Insertion(lines, c)
  ELSE /\ r.at + r.old <= Len(lines)
       /\ r.old = Len(c.old_lines) \/ Patch!EndsBlank(c.old_lines)
       /\ Patch!MatchesAt(lines, SubSeq(c.old_lines, 1, r.old), r.at, 3)

\* The old lines as they are, or without their blank last line.
LEMMA MatchesSit ==
  ASSUME NEW lines \in Seq(AnyLines), NEW c, ChunkTyped(c), c.old_lines # << >>,
         NEW start \in Nat, start <= Len(lines)
  PROVE  /\ AtMostOne(Patch!Matches(lines, c, start))
         /\ \A r \in Patch!Matches(lines, c, start) :
              /\ r \in Replacings(AnyLines) /\ Sits(lines, c, r)
              /\ ~c.is_end_of_file => r.at >= start
<1>1. PICK old \in Seq(AnyLines), new \in Seq(AnyLines), eof \in BOOLEAN :
        old = c.old_lines /\ new = c.new_lines /\ eof = c.is_end_of_file
  BY Zenon DEF ChunkTyped
<1>2. PICK front, less : front = Patch!Front(old) /\ less = Patch!Unterminated(new)
  OBVIOUS
<1>3. Len(old) \in Nat /\ Len(old) >= 1
  BY <1>1
<1>4. front = SubSeq(old, 1, Len(old) - 1)
  BY <1>2, Zenon DEF Patch!Front
<1>5. front \in Seq(AnyLines) /\ Len(front) = Len(old) - 1
  <2>1. PICK n \in Nat : n = Len(old) /\ n >= 1
    BY <1>3
  <2>2. SubSeq(old, 1, n - 1) \in Seq(AnyLines) /\ Len(SubSeq(old, 1, n - 1)) = n - 1
    BY <2>1
  <2> QED
    BY <1>4, <2>1, <2>2, Zenon
<1>6. less \in Seq(AnyLines)
  <2>1. Patch!Front(new) = SubSeq(new, 1, Len(new) - 1)
    BY Zenon DEF Patch!Front
  <2>2. new # << >> => Len(new) >= 1
    OBVIOUS
  <2>3. new # << >> => SubSeq(new, 1, Len(new) - 1) \in Seq(AnyLines)
    BY <2>2
  <2>4. less = IF Patch!EndsBlank(new) THEN Patch!Front(new) ELSE new
    BY <1>2, Zenon DEF Patch!Unterminated
  <2>5. Patch!EndsBlank(new) => new # << >>
    BY Zenon DEF Patch!EndsBlank
  <2> QED
    BY <2>1, <2>3, <2>4, <2>5
<1>7. Patch!Matches(lines, c, start)
        = IF TriedIn(lines, old, new, start, eof) = {} /\ Patch!EndsBlank(old)
          THEN TriedIn(lines, front, less, start, eof)
          ELSE TriedIn(lines, old, new, start, eof)
  <2>1. Patch!Matches(lines, c, start)
          = IF /\ TriedIn(lines, c.old_lines, c.new_lines, start, c.is_end_of_file) = {}
               /\ Patch!EndsBlank(c.old_lines)
            THEN TriedIn(lines, Patch!Front(c.old_lines), Patch!Unterminated(c.new_lines), start,
                         c.is_end_of_file)
            ELSE TriedIn(lines, c.old_lines, c.new_lines, start, c.is_end_of_file)
    BY Zenon DEF Patch!Matches, TriedIn
  <2> QED
    BY <1>1, <1>2, <2>1, Zenon
<1>8. CASE TriedIn(lines, old, new, start, eof) = {} /\ Patch!EndsBlank(old)
  <2>1. Patch!Matches(lines, c, start) = TriedIn(lines, front, less, start, eof)
    BY <1>7, <1>8, Zenon
  <2>2. AtMostOne(TriedIn(lines, front, less, start, eof))
    BY <1>5, <1>6, TriedAreThere
  <2>3. \A r \in TriedIn(lines, front, less, start, eof) : IsThere(lines, front, r, start, eof)
    BY <1>5, <1>6, TriedAreThere
  <2>4. ASSUME NEW r, IsThere(lines, front, r, start, eof)
        PROVE  /\ r \in Replacings(AnyLines) /\ Sits(lines, c, r)
               /\ ~c.is_end_of_file => r.at >= start
    <3>1. r.old = Len(old) - 1
      BY <1>5, <2>4, Zenon DEF IsThere
    <3>2. Patch!MatchesAt(lines, SubSeq(old, 1, r.old), r.at, 3)
      BY <1>4, <2>4, <3>1, Zenon DEF IsThere
    <3> QED
      BY <1>1, <1>8, <2>4, <3>2, Zenon DEF IsThere, Sits
  <2> QED
    BY <2>1, <2>2, <2>3, <2>4, Zenon
<1>9. CASE ~(TriedIn(lines, old, new, start, eof) = {} /\ Patch!EndsBlank(old))
  <2>1. Patch!Matches(lines, c, start) = TriedIn(lines, old, new, start, eof)
    BY <1>7, <1>9, Zenon
  <2>2. AtMostOne(TriedIn(lines, old, new, start, eof))
    BY TriedAreThere
  <2>3. \A r \in TriedIn(lines, old, new, start, eof) : IsThere(lines, old, r, start, eof)
    BY TriedAreThere
  <2>4. ASSUME NEW r, IsThere(lines, old, r, start, eof)
        PROVE  /\ r \in Replacings(AnyLines) /\ Sits(lines, c, r)
               /\ ~c.is_end_of_file => r.at >= start
    <3>1. SubSeq(old, 1, Len(old)) = old
      OBVIOUS
    <3>2. Patch!MatchesAt(lines, SubSeq(old, 1, r.old), r.at, 3)
      BY <2>4, <3>1, Zenon DEF IsThere
    <3> QED
      BY <1>1, <2>4, <3>2, Zenon DEF IsThere, Sits
  <2> QED
    BY <2>1, <2>2, <2>3, <2>4, Zenon
<1> QED
  BY <1>8, <1>9

LEMMA StartsWell ==
  ASSUME NEW lines \in Seq(AnyLines), NEW c, ChunkTyped(c), NEW line_index \in Nat,
         line_index <= Len(lines)
  PROVE  /\ AtMostOne(Patch!Starts(lines, c, line_index))
         /\ \A start \in Patch!Starts(lines, c, line_index) :
              start \in Nat /\ start >= line_index /\ start <= Len(lines)
<1>1. PICK context \in Seq(AnyLines) : context = c.change_context /\ Len(context) \in {0, 1}
  BY Zenon DEF ChunkTyped
<1>2. CASE context = << >>
  <2>1. Patch!Starts(lines, c, line_index) = {line_index}
    BY <1>1, <1>2, Zenon DEF Patch!Starts
  <2> QED
    BY <2>1 DEF AtMostOne
<1>3. CASE context # << >>
  <2>1. PICK sought : sought = Patch!seek_sequence(lines, context, line_index, FALSE)
    OBVIOUS
  <2>2. Patch!Starts(lines, c, line_index) = {i + 1 : i \in sought}
    BY <1>1, <1>3, <2>1, Zenon DEF Patch!Starts
  <2>3. AtMostOne(sought)
    BY <2>1, SeekFinds, Zenon
  <2>4. \A i \in sought : FoundAt(lines, context, line_index, FALSE, i)
    BY <2>1, SeekFinds, Zenon
  <2>5. \A i \in sought : i \in Nat /\ i + Len(context) <= Len(lines) /\ i >= line_index
    BY <1>3, <2>4, Zenon DEF FoundAt
  <2>6. Len(context) = 1
    BY <1>1, <1>3
  <2>7. ASSUME NEW start \in Patch!Starts(lines, c, line_index)
        PROVE  start \in Nat /\ start >= line_index /\ start <= Len(lines)
    <3>1. PICK i \in sought : start = i + 1
      BY <2>2
    <3> QED
      BY <2>5, <2>6, <3>1
  <2>8. AtMostOne(Patch!Starts(lines, c, line_index))
    BY <2>2, <2>3 DEF AtMostOne
  <2> QED
    BY <2>7, <2>8
<1> QED
  BY <1>2, <1>3

LEMMA ReplacementsSit ==
  ASSUME NEW lines \in Seq(AnyLines), NEW c, ChunkTyped(c), NEW start \in Nat,
         start <= Len(lines)
  PROVE  /\ AtMostOne(Patch!Replacements(lines, c, start))
         /\ \A r \in Patch!Replacements(lines, c, start) :
              /\ r \in Replacings(AnyLines) /\ Sits(lines, c, r)
              /\ c.old_lines # << >> /\ ~c.is_end_of_file => r.at >= start
<1>1. CASE c.old_lines = << >>
  <2>1. Patch!Replacements(lines, c, start) = {Patch!Insertion(lines, c)}
    BY <1>1, Zenon DEF Patch!Replacements
  <2>2. AtMostOne(Patch!Replacements(lines, c, start))
    BY <2>1, Zenon DEF AtMostOne
  <2>3. Sits(lines, c, Patch!Insertion(lines, c))
    BY <1>1, Zenon DEF Sits
  <2>4. Len(Patch!Unterminated(lines)) \in Nat
    <3>1. Len(lines) \in Nat /\ (lines # << >> => Len(lines) >= 1)
      OBVIOUS
    <3>2. lines # << >> => Len(SubSeq(lines, 1, Len(lines) - 1)) \in Nat
      BY <3>1
    <3>3. Patch!EndsBlank(lines) => lines # << >>
      BY Zenon DEF Patch!EndsBlank
    <3> QED
      BY <3>1, <3>2, <3>3, Zenon DEF Patch!Unterminated, Patch!Front
  <2>5. c.new_lines \in Seq(AnyLines) /\ 0 \in Nat
    BY Zenon DEF ChunkTyped
  <2>6. Patch!Insertion(lines, c) \in Replacings(AnyLines)
    <3>1. PICK at \in Nat, new \in Seq(AnyLines) :
            at = Len(Patch!Unterminated(lines)) /\ new = c.new_lines
      BY <2>4, <2>5
    <3>2. Patch!Replacement(at, 0, new) \in Replacings(AnyLines)
      BY DEF Patch!Replacement, Replacings
    <3> QED
      BY <3>1, <3>2, Zenon DEF Patch!Insertion
  <2> QED
    BY <1>1, <2>1, <2>2, <2>3, <2>6, Zenon
<1>2. CASE c.old_lines # << >>
  <2>1. Patch!Replacements(lines, c, start) = Patch!Matches(lines, c, start)
    BY <1>2, Zenon DEF Patch!Replacements
  <2>2. /\ AtMostOne(Patch!Matches(lines, c, start))
        /\ \A r \in Patch!Matches(lines, c, start) :
              /\ r \in Replacings(AnyLines) /\ Sits(lines, c, r)
              /\ ~c.is_end_of_file => r.at >= start
    BY <1>2, MatchesSit
  <2> QED
    BY <1>2, <2>1, <2>2, Zenon
<1> QED
  BY <1>1, <1>2

(***************************************************************************)
(* compute_replacements, chunk after chunk.                                *)
(***************************************************************************)
Removes(k) == chunks[k].old_lines # << >>

EndOf(r) == r.at + r.old

\* Behind one another, and line_index behind all of them.
InOrder(rs, line_index, k) ==
  \A j \in 1 .. k : Removes(j) =>
    /\ EndOf(rs[j]) <= line_index
    /\ \A i \in 1 .. j - 1 : Removes(i) => EndOf(rs[i]) <= rs[j].at

PlacedUpTo(lines, rs, line_index, k) ==
  /\ rs \in Seq(Replacings(AnyLines)) /\ Len(rs) = k
  /\ line_index \in Nat /\ line_index <= Len(lines)
  /\ \A j \in 1 .. k : Sits(lines, chunks[j], rs[j])
  /\ ~Patch!EndOfFileAgain => InOrder(rs, line_index, k)

LEMMA EndTyped == \A r \in Replacings(AnyLines) : EndOf(r) \in Nat
<1> SUFFICES ASSUME NEW r \in Replacings(AnyLines) PROVE EndOf(r) \in Nat
  OBVIOUS
<1>1. r.at \in Nat /\ r.old \in Nat
  BY DEF Replacings
<1> QED
  BY <1>1 DEF EndOf

\* A chunk is looked for behind those before it, unless it is at the end of the file.
LEMMA OrderKept ==
  ASSUME NEW k \in Nat, k + 1 \in DOMAIN chunks, ~Patch!EndOfFileAgain,
         NEW rs \in Seq(Replacings(AnyLines)), Len(rs) = k,
         NEW r \in Replacings(AnyLines), NEW more, more = Append(rs, r),
         NEW line_index \in Nat, NEW start \in Nat, start >= line_index,
         InOrder(rs, line_index, k),
         Removes(k + 1) /\ ~chunks[k + 1].is_end_of_file => r.at >= start
  PROVE  InOrder(more, Patch!NextLine(chunks[k + 1], start, r), k + 1)
<1>1. /\ \A j \in 1 .. k : more[j] = rs[j] /\ rs[j] \in Replacings(AnyLines)
      /\ more[k + 1] = r
  OBVIOUS
<1>2. PICK next : next = Patch!NextLine(chunks[k + 1], start, r)
  OBVIOUS
<1>3. (Removes(k + 1) => next = EndOf(r)) /\ (~Removes(k + 1) => next = start)
  BY <1>2, Zenon DEF Patch!NextLine, Removes, EndOf
<1>4. r.at \in Nat /\ EndOf(r) \in Nat /\ EndOf(r) >= r.at
  BY DEF Replacings, EndOf
<1>5. \A j \in 1 .. k : EndOf(rs[j]) \in Nat
  BY <1>1, EndTyped, Zenon
<1>6. k > 0 => ~chunks[k + 1].is_end_of_file
  <2>1. k > 0 => k + 1 > 1
    OBVIOUS
  <2> QED
    BY <2>1, Zenon DEF Patch!EndOfFileAgain
<1>7. \A j \in 1 .. k : Removes(j) => EndOf(rs[j]) <= line_index
  BY Zenon DEF InOrder
<1>8. Removes(k + 1) /\ k > 0 => r.at >= start
  BY <1>6
<1>9. next \in Nat /\ (k > 0 => next >= line_index)
  BY <1>3, <1>4, <1>8
<1>10. ASSUME NEW j \in 1 .. k + 1, Removes(j)
       PROVE  /\ EndOf(more[j]) <= next
              /\ \A i \in 1 .. j - 1 : Removes(i) => EndOf(more[i]) <= more[j].at
  <2>1. CASE j \in 1 .. k
    <3>1. EndOf(rs[j]) <= line_index /\ \A i \in 1 .. j - 1 : Removes(i) => EndOf(rs[i]) <= rs[j].at
      BY <1>10, <2>1, Zenon DEF InOrder
    <3>2. k > 0 /\ \A i \in 1 .. j - 1 : i \in 1 .. k
      BY <2>1
    <3>3. EndOf(rs[j]) <= next
      BY <1>5, <1>9, <2>1, <3>1, <3>2
    <3> QED
      BY <1>1, <2>1, <3>1, <3>2, <3>3, Zenon
  <2>2. CASE j = k + 1
    <3>1. \A i \in 1 .. j - 1 : i \in 1 .. k /\ k > 0
      BY <2>2
    <3>2. \A i \in 1 .. j - 1 : Removes(i) => EndOf(rs[i]) <= r.at
      BY <1>4, <1>5, <1>7, <1>8, <1>10, <2>2, <3>1
    <3>3. EndOf(r) <= next
      BY <1>3, <1>4, <1>10, <2>2
    <3> QED
      BY <1>1, <2>2, <3>1, <3>2, <3>3, Zenon
  <2> QED
    BY <2>1, <2>2
<1> QED
  BY <1>2, <1>10, Zenon DEF InOrder

LEMMA PlacedFurther ==
  ASSUME NEW lines \in Seq(AnyLines), NEW k \in Nat, k + 1 \in DOMAIN chunks,
         ChunkTyped(chunks[k + 1]),
         NEW rs, NEW line_index, PlacedUpTo(lines, rs, line_index, k),
         NEW start \in Patch!Starts(lines, chunks[k + 1], line_index),
         NEW r \in Patch!Replacements(lines, chunks[k + 1], start)
  PROVE  PlacedUpTo(lines, Append(rs, r), Patch!NextLine(chunks[k + 1], start, r), k + 1)
<1>1. PICK c : c = chunks[k + 1] /\ ChunkTyped(c)
  OBVIOUS
<1>2. /\ rs \in Seq(Replacings(AnyLines)) /\ Len(rs) = k
      /\ line_index \in Nat /\ line_index <= Len(lines)
      /\ \A j \in 1 .. k : Sits(lines, chunks[j], rs[j])
  BY Zenon DEF PlacedUpTo
<1>3. start \in Nat /\ start >= line_index /\ start <= Len(lines)
  BY <1>1, <1>2, StartsWell
<1>4. /\ r \in Replacings(AnyLines) /\ Sits(lines, c, r)
      /\ c.old_lines # << >> /\ ~c.is_end_of_file => r.at >= start
  BY <1>1, <1>3, ReplacementsSit
<1>5. PICK more : more = Append(rs, r)
  OBVIOUS
<1>6. more \in Seq(Replacings(AnyLines)) /\ Len(more) = k + 1
      /\ (\A j \in 1 .. k : more[j] = rs[j]) /\ more[k + 1] = r
  BY SMTT(30), <1>2, <1>4, <1>5
<1>7. \A j \in 1 .. k + 1 : Sits(lines, chunks[j], more[j])
  <2>1. TAKE j \in 1 .. k + 1
  <2>2. j \in 1 .. k \/ j = k + 1
    OBVIOUS
  <2> QED
    BY <1>1, <1>2, <1>4, <1>6, <2>2, Zenon
<1>8. PICK next : next = Patch!NextLine(c, start, r)
  OBVIOUS
<1>9. next \in Nat /\ next <= Len(lines)
  <2>1. CASE c.old_lines = << >>
    BY <1>3, <1>8, <2>1, Zenon DEF Patch!NextLine
  <2>2. CASE c.old_lines # << >>
    <3>1. next = r.at + r.old /\ r.at + r.old <= Len(lines)
      BY <1>4, <1>8, <2>2, Zenon DEF Patch!NextLine, Sits
    <3>2. r.at + r.old \in Nat
      BY <1>4 DEF Replacings
    <3> QED
      BY <3>1, <3>2, Zenon
  <2> QED
    BY <2>1, <2>2
<1>10. ~Patch!EndOfFileAgain => InOrder(more, next, k + 1)
  <2>1. SUFFICES ASSUME ~Patch!EndOfFileAgain PROVE InOrder(more, next, k + 1)
    OBVIOUS
  <2>2. InOrder(rs, line_index, k)
    BY <2>1, Zenon DEF PlacedUpTo
  <2>3. Removes(k + 1) /\ ~chunks[k + 1].is_end_of_file => r.at >= start
    BY <1>1, <1>4, Zenon DEF Removes
  <2> QED
    BY <1>1, <1>2, <1>3, <1>4, <1>5, <1>8, <2>1, <2>2, <2>3, OrderKept
<1> QED
  BY <1>1, <1>5, <1>6, <1>7, <1>8, <1>9, <1>10, Zenon DEF PlacedUpTo

Placing(index, rs) == [line_index |-> index, replacements |-> rs]

MadeFrom(lines, c, placed, start, r, z) ==
  /\ start \in Patch!Starts(lines, c, placed.line_index)
  /\ r \in Patch!Replacements(lines, c, start)
  /\ z = Placing(Patch!NextLine(c, start, r), Append(placed.replacements, r))

LEMMA PlacedFrom ==
  ASSUME NEW lines, NEW placements, NEW c, NEW z
  PROVE  z \in Patch!Placed(lines, placements, c) <=>
           \E placed \in placements : \E start, r : MadeFrom(lines, c, placed, start, r, z)
<1> DEFINE Made(placed, start) ==
             {[line_index |-> Patch!NextLine(c, start, r),
               replacements |-> Append(placed.replacements, r)] :
                r \in Patch!Replacements(lines, c, start)}
           Begun(placed) ==
             UNION {Made(placed, start) : start \in Patch!Starts(lines, c, placed.line_index)}
<1>1. Patch!Placed(lines, placements, c) = UNION {Begun(placed) : placed \in placements}
  BY Zenon DEF Patch!Placed
<1>2. \A placed, start : z \in Made(placed, start) <=>
        \E r \in Patch!Replacements(lines, c, start) :
          z = Placing(Patch!NextLine(c, start, r), Append(placed.replacements, r))
  BY Zenon DEF Placing
<1> HIDE DEF Made
<1>3. \A placed : z \in Begun(placed) <=>
        \E start \in Patch!Starts(lines, c, placed.line_index) : z \in Made(placed, start)
  BY Zenon
<1> HIDE DEF Begun
<1>4. z \in UNION {Begun(placed) : placed \in placements}
        <=> \E placed \in placements : z \in Begun(placed)
  BY Zenon
<1>5. \A placed : z \in Begun(placed) <=> \E start, r : MadeFrom(lines, c, placed, start, r, z)
  BY <1>2, <1>3, Zenon DEF MadeFrom
<1> QED
  BY <1>1, <1>4, <1>5, Zenon

\* The recursive function of compute_replacements up to n.
IsPlacing(h, lines, n) ==
  h = [k \in 0 .. n |-> IF k = 0 THEN {[line_index |-> 0, replacements |-> << >>]}
                        ELSE Patch!Placed(lines, h[k - 1], chunks[k])]

LEMMA PlacingExists ==
  ASSUME NEW lines
  PROVE  \A n \in Nat : \E h : IsPlacing(h, lines, n)
<1> DEFINE S == {n \in Nat : \E h : IsPlacing(h, lines, n)}
           Step(k, last) == Patch!Placed(lines, last, chunks[k])
           Begin == {[line_index |-> 0, replacements |-> << >>]}
<1>1. 0 \in S
  <2>1. PICK h : h = [k \in 0 .. 0 |-> Begin]
    OBVIOUS
  <2> HIDE DEF Step, Begin
  <2>2. h = [k \in 0 .. 0 |-> IF k = 0 THEN Begin ELSE Step(k, h[k - 1])]
    BY <2>1
  <2>3. IsPlacing(h, lines, 0)
    BY <2>2, Zenon DEF IsPlacing, Step, Begin
  <2> QED
    BY <2>3
<1>2. ASSUME NEW n \in Nat, n \in S PROVE n + 1 \in S
  <2>1. PICK h : IsPlacing(h, lines, n)
    BY <1>2
  <2>2. h = [k \in 0 .. n |-> IF k = 0 THEN Begin ELSE Step(k, h[k - 1])]
    BY <2>1, Zenon DEF IsPlacing
  <2> HIDE DEF Step, Begin
  <2>3. PICK j : j = [k \in 0 .. n + 1 |-> IF k = 0 THEN Begin ELSE Step(k, h[k - 1])]
    OBVIOUS
  <2>4. \A k \in 0 .. n : j[k] = h[k]
    <3>1. TAKE k \in 0 .. n
    <3>2. k \in 0 .. n + 1
      OBVIOUS
    <3>3. j[k] = IF k = 0 THEN Begin ELSE Step(k, h[k - 1])
      BY <2>3, <3>2, Zenon
    <3>4. h[k] = IF k = 0 THEN Begin ELSE Step(k, h[k - 1])
      BY <2>2, <3>1, Zenon
    <3> QED
      BY <3>3, <3>4
  <2>5. \A k \in 0 .. n + 1 : k # 0 => k - 1 \in 0 .. n
    OBVIOUS
  <2>6. j = [k \in 0 .. n + 1 |-> IF k = 0 THEN Begin ELSE Step(k, j[k - 1])]
    BY <2>3, <2>4, <2>5
  <2>7. IsPlacing(j, lines, n + 1)
    BY <2>6, Zenon DEF IsPlacing, Step, Begin
  <2> QED
    BY <2>7
<1>3. S = Nat
  <2>1. S \in SUBSET Nat
    OBVIOUS
  <2> HIDE DEF S
  <2> QED
    BY <1>1, <1>2, <2>1, SetInduction
<1> QED
  BY <1>3

\* Where the chunks are in the file, letter by letter and one behind the other.
TheyFit(lines, at) ==
  \A k \in DOMAIN chunks :
    /\ Removes(k) /\ chunks[k].change_context = << >> /\ ~chunks[k].is_end_of_file
    /\ at[k] \in Nat /\ at[k] + Len(chunks[k].old_lines) <= Len(lines)
    /\ Patch!MatchesAt(lines, chunks[k].old_lines, at[k], 0)
    /\ \A j \in 1 .. k - 1 : at[j] + Len(chunks[j].old_lines) <= at[k]

\* A chunk is found before the place where it is, and leaves that of those behind it.
LEMMA FitFound ==
  ASSUME NEW lines \in Seq(AnyLines), NEW at, TheyFit(lines, at), NEW k \in DOMAIN chunks,
         ChunkTyped(chunks[k]), NEW index \in Nat, index <= at[k]
  PROVE  /\ index \in Patch!Starts(lines, chunks[k], index)
         /\ \E r \in Patch!Replacements(lines, chunks[k], index) :
              /\ Patch!NextLine(chunks[k], index, r) \in Nat
              /\ Patch!NextLine(chunks[k], index, r) <= at[k] + Len(chunks[k].old_lines)
<1>0. PICK c : c = chunks[k]
  OBVIOUS
<1>1. PICK i \in Nat, old \in Seq(AnyLines) :
        c = chunks[k] /\ i = at[k] /\ old = c.old_lines /\ ChunkTyped(c)
  <2>1. chunks[k].old_lines \in Seq(AnyLines) /\ at[k] \in Nat
    BY Zenon DEF TheyFit, ChunkTyped
  <2>2. ChunkTyped(c)
    BY <1>0, Zenon
  <2> QED
    BY <1>0, <2>1, <2>2
<1>2. old # << >> /\ c.change_context = << >> /\ c.is_end_of_file = FALSE
      /\ i + Len(old) <= Len(lines) /\ Patch!MatchesAt(lines, old, i, 0) /\ index <= i
  <2>1. c.is_end_of_file \in BOOLEAN /\ ~c.is_end_of_file
    BY <1>1, Zenon DEF TheyFit, ChunkTyped
  <2>2. c.is_end_of_file = FALSE
    BY <2>1
  <2> QED
    BY <1>1, <2>2, Zenon DEF TheyFit, Removes
<1>3. index \in Patch!Starts(lines, c, index)
  BY <1>2, Zenon DEF Patch!Starts
<1>4. PICK sought : sought = Patch!seek_sequence(lines, old, index, FALSE)
  OBVIOUS
<1>5. \E x \in sought : x \in Nat /\ x <= i
  <2>1. i >= index /\ FALSE \in BOOLEAN /\ ~FALSE
    BY <1>2
  <2> QED
    BY <1>2, <1>4, <2>1, SeekFinds, Zenon
<1>6. PICK x \in sought : x \in Nat /\ x <= i
  BY <1>5
<1>7. PICK r : r = Patch!Replacement(x, Len(old), c.new_lines)
  OBVIOUS
<1>8. r \in TriedIn(lines, old, c.new_lines, index, FALSE)
  BY <1>4, <1>7, Zenon DEF TriedIn
<1>9. r \in Patch!Replacements(lines, c, index)
  <2>1. Patch!Matches(lines, c, index)
          = IF /\ TriedIn(lines, c.old_lines, c.new_lines, index, c.is_end_of_file) = {}
               /\ Patch!EndsBlank(c.old_lines)
            THEN TriedIn(lines, Patch!Front(c.old_lines), Patch!Unterminated(c.new_lines), index,
                         c.is_end_of_file)
            ELSE TriedIn(lines, c.old_lines, c.new_lines, index, c.is_end_of_file)
    BY Zenon DEF Patch!Matches, TriedIn
  <2>2. TriedIn(lines, c.old_lines, c.new_lines, index, c.is_end_of_file)
          = TriedIn(lines, old, c.new_lines, index, FALSE)
    BY <1>1, <1>2, Zenon
  <2>3. r \in Patch!Matches(lines, c, index)
    BY <1>8, <2>1, <2>2, Zenon
  <2> QED
    BY <1>1, <1>2, <2>3, Zenon DEF Patch!Replacements
<1>10. r.at = x /\ r.old = Len(old)
  BY <1>7 DEF Patch!Replacement
<1>11. Patch!NextLine(c, index, r) = x + Len(old)
  BY <1>1, <1>2, <1>10, Zenon DEF Patch!NextLine
<1>12. x + Len(old) \in Nat /\ x + Len(old) <= i + Len(old)
  BY <1>6
<1> QED
  BY <1>1, <1>3, <1>9, <1>11, <1>12, Zenon

\* The result of compute_replacements, and that there is one if the chunks are there.
LEMMA PlacedRight ==
  ASSUME NEW lines \in Seq(AnyLines), chunks \in Seq(Patch!UpdateFileChunks)
  PROVE  /\ AtMostOne(Patch!compute_replacements(lines))
         /\ \A rs \in Patch!compute_replacements(lines) :
              \E index : PlacedUpTo(lines, rs, index, Len(chunks))
         /\ (\E at : TheyFit(lines, at)) => Patch!compute_replacements(lines) # {}
<1>1. PICK n \in Nat : n = Len(chunks) /\ DOMAIN chunks = 1 .. n
  OBVIOUS
<1>2. \A k \in 1 .. n : ChunkTyped(chunks[k])
  <2>1. \A k \in 1 .. n : chunks[k] \in Patch!UpdateFileChunks
    BY <1>1
  <2> QED
    BY <2>1, ChunksTyped
<1>3. PICK h : h = CHOOSE j : IsPlacing(j, lines, n)
  OBVIOUS
<1>4. IsPlacing(h, lines, n)
  BY <1>3, PlacingExists
<1>5. Patch!compute_replacements(lines) = {placed.replacements : placed \in h[n]}
  BY <1>1, <1>3, Zenon DEF Patch!compute_replacements, IsPlacing
<1>6. \A k \in 0 .. n : h[k] = IF k = 0 THEN {[line_index |-> 0, replacements |-> << >>]}
                               ELSE Patch!Placed(lines, h[k - 1], chunks[k])
  BY <1>4, Zenon DEF IsPlacing
<1> DEFINE Well(k) == /\ AtMostOne(h[k])
                      /\ \A z \in h[k] : PlacedUpTo(lines, z.replacements, z.line_index, k)
                      /\ \A at : TheyFit(lines, at) =>
                           \E z \in h[k] : /\ z.line_index \in Nat
                                           /\ \A m \in k + 1 .. n : z.line_index <= at[m]
           S == {k \in 0 .. n : Well(k)}
<1>7. 0 \in S
  <2>1. PICK z : z = [line_index |-> 0, replacements |-> << >>]
    OBVIOUS
  <2>2. h[0] = {z}
    <3>1. 0 \in 0 .. n
      OBVIOUS
    <3> QED
      BY <1>6, <2>1, <3>1, Zenon
  <2>3. z.line_index = 0 /\ z.replacements = << >>
    BY <2>1
  <2>4. << >> \in Seq(Replacings(AnyLines)) /\ Len(<< >>) = 0 /\ 0 \in Nat /\ 0 <= Len(lines)
        /\ \A j : j \notin 1 .. 0
    OBVIOUS
  <2>5. PlacedUpTo(lines, << >>, 0, 0)
    BY <2>4, Zenon DEF PlacedUpTo, InOrder
  <2>6. AtMostOne(h[0])
    BY <2>2, Zenon DEF AtMostOne
  <2>7. ASSUME NEW at, TheyFit(lines, at), NEW m \in 0 + 1 .. n PROVE z.line_index <= at[m]
    <3>1. m \in DOMAIN chunks
      BY <1>1
    <3>2. at[m] \in Nat
      BY <2>7, <3>1, Zenon DEF TheyFit
    <3> QED
      BY <2>3, <3>2
  <2>8. 0 \in 0 .. n
    OBVIOUS
  <2> QED
    BY <2>2, <2>3, <2>4, <2>5, <2>6, <2>7, <2>8, Zenon
<1>8. ASSUME NEW k \in 0 .. n, k < n, k \in S PROVE k + 1 \in S
  <2>0. Well(k)
    BY <1>8
  <2> HIDE DEF S
  <2>1. k \in Nat /\ k + 1 \in 0 .. n /\ k + 1 # 0 /\ (k + 1) - 1 = k /\ k + 1 \in DOMAIN chunks
        /\ k + 1 \in 1 .. n
    BY <1>1, <1>8
  <2>2. PICK c : c = chunks[k + 1] /\ ChunkTyped(c)
    BY <1>2, <2>1
  <2>3. h[k + 1] = Patch!Placed(lines, h[k], c)
    BY <1>6, <2>1, <2>2, Zenon
  <2>4. \A z : z \in h[k + 1] <=>
           \E placed \in h[k] : \E start, r : MadeFrom(lines, c, placed, start, r, z)
    <3>1. \A placements, z : z \in Patch!Placed(lines, placements, c) <=>
             \E placed \in placements : \E start, r : MadeFrom(lines, c, placed, start, r, z)
      BY PlacedFrom
    <3>2. TAKE z
    <3>3. z \in Patch!Placed(lines, h[k], c) <=>
             \E placed \in h[k] : \E start, r : MadeFrom(lines, c, placed, start, r, z)
      BY <3>1
    <3> QED
      BY <2>3, <3>3
  <2>5. \A placed \in h[k] : PlacedUpTo(lines, placed.replacements, placed.line_index, k)
    BY <2>0
  <2>6. \A placed \in h[k] : placed.line_index \in Nat /\ placed.line_index <= Len(lines)
    BY <2>5, Zenon DEF PlacedUpTo
  <2>7. AtMostOne(h[k + 1])
    <3>1. SUFFICES ASSUME NEW x \in h[k + 1], NEW y \in h[k + 1] PROVE x = y
      BY Zenon DEF AtMostOne
    <3>10. PICK p \in h[k] : \E s, r : MadeFrom(lines, c, p, s, r, x)
      BY <2>4, Zenon
    <3>2. PICK s, r : MadeFrom(lines, c, p, s, r, x)
      BY <3>10
    <3>11. PICK q \in h[k] : \E t, u : MadeFrom(lines, c, q, t, u, y)
      BY <2>4, Zenon
    <3>3. PICK t, u : MadeFrom(lines, c, q, t, u, y)
      BY <3>11
    <3>4. p = q
      BY <2>0, Zenon DEF AtMostOne
    <3>5. AtMostOne(Patch!Starts(lines, c, p.line_index)) /\ s \in Nat /\ s <= Len(lines)
      <4>1. s \in Patch!Starts(lines, c, p.line_index)
        BY <3>2, Zenon DEF MadeFrom
      <4>2. PICK index \in Nat : index = p.line_index /\ index <= Len(lines)
        BY <2>6, <3>2
      <4> QED
        BY <2>2, <4>1, <4>2, StartsWell
    <3>6. s = t
      BY <3>2, <3>3, <3>4, <3>5, Zenon DEF AtMostOne, MadeFrom
    <3>7. AtMostOne(Patch!Replacements(lines, c, s))
      BY <2>2, <3>5, ReplacementsSit
    <3>8. r = u
      BY <3>2, <3>3, <3>6, <3>7, Zenon DEF AtMostOne, MadeFrom
    <3> QED
      BY <3>2, <3>3, <3>4, <3>6, <3>8, Zenon DEF MadeFrom
  <2>8. ASSUME NEW z \in h[k + 1]
        PROVE  PlacedUpTo(lines, z.replacements, z.line_index, k + 1)
    <3>0. PICK p \in h[k] : \E s, r : MadeFrom(lines, c, p, s, r, z)
      BY <2>4, Zenon
    <3>1. PICK s, r : MadeFrom(lines, c, p, s, r, z)
      BY <3>0
    <3>2. PlacedUpTo(lines, Append(p.replacements, r), Patch!NextLine(c, s, r), k + 1)
      <4>1. /\ s \in Patch!Starts(lines, c, p.line_index)
            /\ r \in Patch!Replacements(lines, c, s)
        BY <3>1, Zenon DEF MadeFrom
      <4>2. PICK rs, index : /\ rs = p.replacements /\ index = p.line_index
                             /\ PlacedUpTo(lines, rs, index, k)
        BY <2>5, <3>1
      <4>3. PlacedUpTo(lines, Append(rs, r), Patch!NextLine(c, s, r), k + 1)
        BY <2>1, <2>2, <4>1, <4>2, PlacedFurther
      <4> QED
        BY <4>2, <4>3, Zenon
    <3>3. z.line_index = Patch!NextLine(c, s, r) /\ z.replacements = Append(p.replacements, r)
      BY <3>1 DEF Placing, MadeFrom
    <3> QED
      BY <3>2, <3>3, Zenon
  <2>9. ASSUME NEW at, TheyFit(lines, at)
        PROVE  \E z \in h[k + 1] : /\ z.line_index \in Nat
                                   /\ \A m \in (k + 1) + 1 .. n : z.line_index <= at[m]
    <3>1. PICK p \in h[k] : p.line_index \in Nat /\ \A m \in k + 1 .. n : p.line_index <= at[m]
      BY <2>0, <2>9
    <3>2. PICK index \in Nat : index = p.line_index /\ index <= at[k + 1]
      BY <2>1, <3>1
    <3>3. /\ index \in Patch!Starts(lines, c, index)
          /\ \E r \in Patch!Replacements(lines, c, index) :
               /\ Patch!NextLine(c, index, r) \in Nat
               /\ Patch!NextLine(c, index, r) <= at[k + 1] + Len(c.old_lines)
      BY <2>1, <2>2, <2>9, <3>2, FitFound
    <3>4. PICK r \in Patch!Replacements(lines, c, index) :
               /\ Patch!NextLine(c, index, r) \in Nat
               /\ Patch!NextLine(c, index, r) <= at[k + 1] + Len(c.old_lines)
      BY <3>3
    <3>5. PICK z : z = Placing(Patch!NextLine(c, index, r), Append(p.replacements, r))
      OBVIOUS
    <3>6. z \in h[k + 1]
      BY <2>4, <3>2, <3>3, <3>4, <3>5, Zenon DEF MadeFrom
    <3>7. z.line_index = Patch!NextLine(c, index, r)
      BY <3>5 DEF Placing
    <3>8. ASSUME NEW m \in (k + 1) + 1 .. n PROVE z.line_index <= at[m]
      <4>1. m \in DOMAIN chunks /\ k + 1 \in 1 .. m - 1
        BY <1>1, <2>1
      <4>2. at[m] \in Nat /\ at[k + 1] \in Nat /\ at[k + 1] + Len(c.old_lines) <= at[m]
        BY <2>1, <2>2, <2>9, <4>1, Zenon DEF TheyFit
      <4>3. Len(c.old_lines) \in Nat
        <5>1. PICK old \in Seq(AnyLines) : old = c.old_lines
          BY <2>2, Zenon DEF ChunkTyped
        <5> QED
          BY <5>1
      <4> QED
        BY <3>4, <3>7, <4>2, <4>3
    <3> QED
      BY <3>4, <3>6, <3>7, <3>8, Zenon
  <2>10. Well(k + 1)
    BY <2>7, <2>8, <2>9, Zenon
  <2> QED
    BY <2>1, <2>10 DEF S
<1> HIDE DEF S
<1>9. n \in S
  <2>1. 0 .. n \subseteq S
    BY <1>7, <1>8, IntervalInduction
  <2> QED
    BY <2>1
<1>10. Well(n)
  BY <1>9 DEF S
<1>11. AtMostOne(Patch!compute_replacements(lines))
  BY <1>5, <1>10, Zenon DEF AtMostOne
<1>12. ASSUME NEW rs \in Patch!compute_replacements(lines)
       PROVE  \E index : PlacedUpTo(lines, rs, index, n)
  BY <1>5, <1>10, <1>12, Zenon
<1>13. ASSUME NEW at, TheyFit(lines, at) PROVE Patch!compute_replacements(lines) # {}
  BY <1>5, <1>10, <1>13, Zenon
<1> QED
  BY <1>1, <1>11, <1>12, <1>13, Zenon

(***************************************************************************)
(* What compute_replacements makes is apart unless the update is one of    *)
(* those whose chunks get into each other.                                 *)
(***************************************************************************)
AddsIn(lines) ==
  /\ Patch!EndsBlank(lines)
  /\ \E k \in DOMAIN chunks : chunks[k].old_lines = << >>
  /\ \E k \in DOMAIN chunks : Patch!EndsBlank(chunks[k].old_lines)

LEMMA BlankAtTheEnd ==
  ASSUME NEW lines \in Seq(AnyLines), Patch!EndsBlank(lines), NEW old \in Seq(PlainLines),
         old # << >>, NEW at \in Nat, at + Len(old) = Len(lines),
         Patch!MatchesAt(lines, old, at, 3)
  PROVE  Patch!EndsBlank(old)
<1>1. PICK m \in Nat : m = Len(old) /\ m \in DOMAIN old
  OBVIOUS
<1>2. PICK last \in PlainLines : last = old[m]
  BY <1>1
<1>3. lines[at + m] = Patch!Blank
  BY <1>1, Zenon DEF Patch!EndsBlank, Patch!Last
<1>4. Patch!Reduced(Patch!Blank, 3) = Patch!Reduced(last, 3)
  BY <1>1, <1>2, <1>3, Zenon DEF Patch!MatchesAt
<1>5. Patch!Blank \in PlainLines /\ Patch!Blank \in AnyLines /\ last \in AnyLines
  BY SomeLines
<1>6. \A x \in PlainLines : Patch!Line(x.words, "plain") = x
  <2>1. TAKE x \in PlainLines
  <2>2. PICK w, set : x = [words |-> w, set |-> set] /\ x.set = "plain"
    BY DEF PlainLines, AnyLines
  <2>3. x.words = w /\ set = "plain"
    BY <2>2
  <2> QED
    BY <2>2, <2>3, Zenon DEF Patch!Line
<1>7. Patch!Reduced(Patch!Blank, 3) = Patch!Blank /\ Patch!Reduced(last, 3) = last
  BY <1>5, <1>6, ReducedToWords, Zenon
<1> QED
  BY <1>1, <1>2, <1>4, <1>7, Zenon DEF Patch!EndsBlank, Patch!Last

\* What is added goes behind everything that is replaced.
LEMMA PlacedApart ==
  ASSUME NEW lines \in Seq(AnyLines), chunks \in Seq(Patch!UpdateFileChunks),
         ~Patch!EndOfFileAgain, ~AddsIn(lines),
         NEW rs, NEW index, PlacedUpTo(lines, rs, index, Len(chunks))
  PROVE  Apart(lines, rs)
<1>1. PICK n \in Nat : n = Len(chunks) /\ DOMAIN chunks = 1 .. n
  OBVIOUS
<1>2. /\ rs \in Seq(Replacings(AnyLines)) /\ Len(rs) = n /\ DOMAIN rs = 1 .. n
      /\ \A j \in 1 .. n : Sits(lines, chunks[j], rs[j])
      /\ InOrder(rs, index, n)
  <2>1. /\ rs \in Seq(Replacings(AnyLines)) /\ Len(rs) = n
        /\ \A j \in 1 .. n : Sits(lines, chunks[j], rs[j])
        /\ InOrder(rs, index, n)
    BY <1>1, Zenon DEF PlacedUpTo
  <2>2. DOMAIN rs = 1 .. n
    BY <2>1
  <2> QED
    BY <2>1, <2>2
<1>3. \A k \in 1 .. n : ChunkTyped(chunks[k])
  <2>1. \A k \in 1 .. n : chunks[k] \in Patch!UpdateFileChunks
    BY <1>1
  <2> QED
    BY <2>1, ChunksTyped
<1>4. \A k \in 1 .. n : rs[k].at \in Nat /\ rs[k].old \in Nat
  BY <1>2, NewOnesTyped
<1>5. PICK E : E = Len(Patch!Unterminated(lines))
  OBVIOUS
<1>6. /\ E \in Nat /\ E <= Len(lines) /\ Len(lines) \in Nat
      /\ ~Patch!EndsBlank(lines) => E = Len(lines)
      /\ Patch!EndsBlank(lines) => E = Len(lines) - 1
  <2>1. Len(lines) \in Nat /\ (lines # << >> => Len(lines) >= 1)
    OBVIOUS
  <2>2. lines # << >> => Len(SubSeq(lines, 1, Len(lines) - 1)) = Len(lines) - 1
    <3>1. PICK m \in Nat : m = Len(lines)
      BY <2>1
    <3>2. m >= 1 => Len(SubSeq(lines, 1, m - 1)) = m - 1
      BY <3>1
    <3> QED
      BY <2>1, <3>1, <3>2, Zenon
  <2>3. Patch!EndsBlank(lines) => lines # << >>
    BY Zenon DEF Patch!EndsBlank
  <2>4. CASE Patch!EndsBlank(lines)
    <3>1. E = Len(lines) - 1
      BY <1>5, <2>2, <2>3, <2>4, Zenon DEF Patch!Unterminated, Patch!Front
    <3>2. Len(lines) >= 1
      BY <2>1, <2>3, <2>4
    <3> QED
      BY <2>1, <2>4, <3>1, <3>2
  <2>5. CASE ~Patch!EndsBlank(lines)
    <3>1. E = Len(lines)
      BY <1>5, <2>5, Zenon DEF Patch!Unterminated
    <3> QED
      BY <2>1, <2>5, <3>1
  <2> QED
    BY <2>4, <2>5
<1>7. \A k \in 1 .. n : ~Removes(k) => rs[k].at = E /\ rs[k].old = 0
  <2>1. TAKE k \in 1 .. n
  <2>2. SUFFICES ASSUME ~Removes(k) PROVE rs[k].at = E /\ rs[k].old = 0
    OBVIOUS
  <2>3. rs[k] = Patch!Replacement(E, 0, chunks[k].new_lines)
    BY <1>2, <1>5, <2>2, Zenon DEF Sits, Removes, Patch!Insertion
  <2> QED
    BY <2>3 DEF Patch!Replacement
<1>8. \A k \in 1 .. n : Removes(k) => rs[k].at + rs[k].old <= Len(lines)
  BY <1>2, Zenon DEF Sits, Removes
<1>9. \A k, j \in 1 .. n : Removes(k) /\ ~Removes(j) => rs[k].at + rs[k].old <= E
  <2>1. TAKE k, j \in 1 .. n
  <2>2. SUFFICES ASSUME Removes(k), ~Removes(j) PROVE rs[k].at + rs[k].old <= E
    OBVIOUS
  <2>3. CASE ~Patch!EndsBlank(lines)
    BY <1>6, <1>8, <2>2, <2>3
  <2>4. CASE Patch!EndsBlank(lines)
    <3>1. PICK old \in Seq(PlainLines) : old = chunks[k].old_lines
      BY <1>3, Zenon DEF ChunkTyped
    <3>2. ~Patch!EndsBlank(old) /\ old # << >>
      <4>1. chunks[j].old_lines = << >> /\ chunks[k].old_lines # << >>
        BY <2>2, Zenon DEF Removes
      <4>2. ~Patch!EndsBlank(chunks[k].old_lines)
        BY <1>1, <2>4, <4>1, Zenon DEF AddsIn
      <4> QED
        BY <3>1, <4>1, <4>2, Zenon
    <3>3. rs[k].old = Len(old) /\ Patch!MatchesAt(lines, SubSeq(old, 1, rs[k].old), rs[k].at, 3)
      BY <1>2, <2>2, <3>1, <3>2, Zenon DEF Sits, Removes
    <3>4. SubSeq(old, 1, Len(old)) = old
      OBVIOUS
    <3>5. Patch!MatchesAt(lines, old, rs[k].at, 3)
      BY <3>3, <3>4, Zenon
    <3>6. PICK at \in Nat, len \in Nat : at = rs[k].at /\ len = rs[k].old
      BY <1>4
    <3>7. at + Len(old) # Len(lines)
      BY <2>4, <3>2, <3>5, <3>6, BlankAtTheEnd
    <3>8. at + len # Len(lines) /\ at + len <= Len(lines)
      BY <1>8, <2>2, <3>3, <3>6, <3>7, Zenon
    <3>9. at + len <= E
      BY <1>6, <2>4, <3>8
    <3> QED
      BY <3>6, <3>9, Zenon
  <2> QED
    BY <2>3, <2>4
<1>10. \A k \in 1 .. n : rs[k].at + rs[k].old <= Len(lines)
  BY <1>4, <1>6, <1>7, <1>8
<1>11. ASSUME NEW k \in 1 .. n, NEW j \in 1 .. n, Patch!Behind(rs, k, j)
       PROVE  rs[k].at + rs[k].old <= rs[j].at
  <2>1. PICK a \in Nat, b \in Nat, x \in Nat, y \in Nat :
          a = rs[k].at /\ b = rs[j].at /\ x = rs[k].old /\ y = rs[j].old
    BY <1>4
  <2>2. a < b \/ (a = b /\ k < j)
    BY <1>11, <2>1 DEF Patch!Behind
  <2>3. CASE ~Removes(k)
    BY SMTT(30), <1>7, <2>1, <2>2, <2>3
  <2>4. CASE Removes(k) /\ ~Removes(j)
    BY <1>7, <1>9, <2>1, <2>4
  <2>5. CASE Removes(k) /\ Removes(j)
    <3>1. CASE k < j
      <4>1. k \in 1 .. j - 1
        BY <3>1
      <4>2. EndOf(rs[k]) <= rs[j].at
        BY <1>2, <2>5, <4>1, Zenon DEF InOrder
      <4> QED
        BY <4>2, Zenon DEF EndOf
    <3>2. CASE ~(k < j)
      <4>1. a < b /\ k # j
        BY <2>1, <2>2, <3>2
      <4>2. j \in 1 .. k - 1
        BY <3>2, <4>1
      <4>3. EndOf(rs[j]) <= rs[k].at
        BY <1>2, <2>5, <4>2, Zenon DEF InOrder
      <4>4. b + y <= a
        BY <2>1, <4>3, Zenon DEF EndOf
      <4> QED
        BY <4>1, <4>4
    <3> QED
      BY <3>1, <3>2
  <2> QED
    BY <2>3, <2>4, <2>5
<1> QED
  BY <1>2, <1>10, <1>11, Zenon DEF Apart

\* The file and the update that is parsed, as far as it is.
PatchInv ==
  /\ source \in Seq(AnyLines) /\ source # << >>
  /\ chunks \in Seq(Patch!UpdateFileChunks)

LEMMA OriginalTyped == PatchInv => Patch!Original \in Seq(AnyLines)
<1>1. SUFFICES ASSUME PatchInv PROVE Patch!Original \in Seq(AnyLines)
  OBVIOUS
<1>2. source \in Seq(AnyLines) /\ source # << >>
  BY <1>1 DEF PatchInv
<1>3. SubSeq(source, 1, Len(source) - 1) \in Seq(AnyLines) /\ << >> \in Seq(AnyLines)
  <2>1. PICK n \in Nat : n = Len(source) /\ n >= 1
    BY <1>2
  <2>2. SubSeq(source, 1, n - 1) \in Seq(AnyLines)
    BY <1>2, <2>1
  <2> QED
    BY <2>1, <2>2
<1> QED
  BY <1>2, <1>3, Zenon DEF Patch!Original, Patch!split_lines, Patch!Unterminated, Patch!Front

LEMMA PatchRight == PatchInv => Patch!UpdatesInPlace
<1>1. SUFFICES ASSUME PatchInv PROVE Patch!UpdatesInPlace
  OBVIOUS
<1>2. PICK lines \in Seq(AnyLines) : lines = Patch!Original
  BY <1>1, OriginalTyped
<1>3. chunks \in Seq(Patch!UpdateFileChunks)
  BY <1>1 DEF PatchInv
<1>4. PICK found : found = Patch!compute_replacements(lines)
  OBVIOUS
<1>5. /\ AtMostOne(found)
      /\ \A rs \in found : \E index : PlacedUpTo(lines, rs, index, Len(chunks))
      /\ (\E at : TheyFit(lines, at)) => found # {}
  BY <1>3, <1>4, PlacedRight
<1>6. Patch!apply_update_chunks
        = {Patch!join_lines(Patch!apply_replacements(lines, rs)) : rs \in found}
  BY <1>2, <1>4, Zenon DEF Patch!apply_update_chunks
<1>7. ASSUME Patch!Applicable PROVE Patch!apply_update_chunks # {}
  <2>1. PICK at \in [DOMAIN chunks -> 0 .. Len(lines)] :
          \A k \in DOMAIN chunks :
            /\ at[k] + Len(chunks[k].old_lines) <= Len(lines)
            /\ Patch!MatchesAt(lines, chunks[k].old_lines, at[k], 0)
            /\ \A j \in 1 .. k - 1 : at[j] + Len(chunks[j].old_lines) <= at[k]
    BY <1>2, <1>7, Zenon DEF Patch!Applicable
  <2>2. \A k \in DOMAIN chunks : at[k] \in Nat
    OBVIOUS
  <2>3. \A k \in DOMAIN chunks : /\ chunks[k].old_lines # << >>
                                 /\ chunks[k].change_context = << >>
                                 /\ ~chunks[k].is_end_of_file
    BY <1>7, Zenon DEF Patch!Applicable
  <2>4. TheyFit(lines, at)
    BY <2>1, <2>2, <2>3, Zenon DEF TheyFit, Removes
  <2> QED
    BY <1>5, <1>6, <2>4, Zenon
<1>8. ASSUME ~Patch!EndOfFileAgain, ~Patch!AddsAtBlankEnd, NEW rs \in found
      PROVE  /\ Patch!FoundInOrder(rs)
             /\ Patch!apply_update_chunks = {Patch!join_lines(Patch!Woven(lines, rs))}
  <2>1. PICK index : PlacedUpTo(lines, rs, index, Len(chunks))
    BY <1>5, <1>8
  <2>2. /\ rs \in Seq(Replacings(AnyLines))
        /\ \A j \in 1 .. Len(chunks) : Sits(lines, chunks[j], rs[j])
        /\ InOrder(rs, index, Len(chunks))
    BY <1>8, <2>1, Zenon DEF PlacedUpTo
  <2>3. Apart(lines, rs)
    <3>1. ~AddsIn(lines)
      BY <1>2, <1>8, Zenon DEF AddsIn, Patch!AddsAtBlankEnd
    <3> QED
      BY <1>3, <1>8, <2>1, <3>1, PlacedApart
  <2>4. Patch!apply_replacements(lines, rs) = Patch!Woven(lines, rs)
    BY <2>2, <2>3, AppliesWoven
  <2>5. \A x \in found : x = rs
    BY <1>5, Zenon DEF AtMostOne
  <2>6. Patch!apply_update_chunks = {Patch!join_lines(Patch!Woven(lines, rs))}
    BY <1>6, <2>4, <2>5, Zenon
  <2>7. Patch!FoundInOrder(rs)
    <3>1. SUFFICES ASSUME NEW k \in DOMAIN chunks, chunks[k].old_lines # << >>
          PROVE  /\ Patch!MatchesAt(Patch!Original, SubSeq(chunks[k].old_lines, 1, rs[k].old),
                                    rs[k].at, 3)
                 /\ rs[k].old = Len(chunks[k].old_lines) \/ Patch!EndsBlank(chunks[k].old_lines)
                 /\ \A j \in 1 .. k - 1 :
                      chunks[j].old_lines # << >> => rs[j].at + rs[j].old <= rs[k].at
      BY Zenon DEF Patch!FoundInOrder
    <3>2. k \in 1 .. Len(chunks)
      BY <1>3
    <3>3. Sits(lines, chunks[k], rs[k])
      BY <2>2, <3>2
    <3>4. \A j \in 1 .. k - 1 : chunks[j].old_lines # << >> => rs[j].at + rs[j].old <= rs[k].at
      BY <2>2, <3>1, <3>2, Zenon DEF InOrder, Removes, EndOf
    <3> QED
      BY <1>2, <3>1, <3>3, <3>4, Zenon DEF Sits
  <2> QED
    BY <2>6, <2>7
<1> QED
  BY <1>2, <1>4, <1>7, <1>8, Zenon DEF Patch!UpdatesInPlace

LEMMA PatchStep == PatchInv /\ [TextsNext]_vars => PatchInv'
<1>1. SUFFICES ASSUME PatchInv, [TextsNext]_vars PROVE PatchInv'
  OBVIOUS
<1>2. Patch!ParseChunk \/ UNCHANGED <<source, chunks>>
  BY <1>1 DEF TextsNext, vars, HistoryMoves, PatchMoves, TruncationMoves, Patch!Next, patchText
<1>3. CASE Patch!ParseChunk
  <2>1. PICK chunk \in Patch!UpdateFileChunks : chunks' = Append(chunks, chunk)
    BY <1>3 DEF Patch!ParseChunk
  <2>2. chunks \in Seq(Patch!UpdateFileChunks) /\ source' = source
    BY <1>1, <1>3 DEF PatchInv, Patch!ParseChunk
  <2>3. chunks' \in Seq(Patch!UpdateFileChunks)
    BY <2>1, <2>2, AppendProperties
  <2> QED
    BY <1>1, <2>2, <2>3, Zenon DEF PatchInv
<1>4. CASE UNCHANGED <<source, chunks>>
  BY <1>1, <1>4, Zenon DEF PatchInv
<1> QED
  BY <1>2, <1>3, <1>4

LEMMA PatchInit == TextsInit => PatchInv
<1>1. SUFFICES ASSUME TextsInit PROVE PatchInv
  OBVIOUS
<1>2. source \in UNION {[1 .. n -> Patch!FileLines] : n \in 1 .. MaxLength} /\ chunks = << >>
  BY <1>1, Zenon DEF TextsInit, Patch!Init
<1>3. PICK n \in 1 .. MaxLength : source \in [1 .. n -> Patch!FileLines]
  BY <1>2
<1>4. n \in Nat /\ n >= 1
  BY LengthsAssumption
<1>5. source \in [1 .. n -> AnyLines]
  BY <1>3, SomeLines
<1>6. source \in Seq(AnyLines) /\ Len(source) = n
  BY <1>4, <1>5
<1>7. source # << >>
  BY <1>4, <1>6
<1>8. << >> \in Seq(Patch!UpdateFileChunks)
  OBVIOUS
<1> QED
  BY <1>2, <1>6, <1>7, <1>8, Zenon DEF PatchInv

(***************************************************************************)
(* Whatever the file, however long, and whatever chunks, however many, the *)
(* update has: the lines that are replaced are those the chunks ask for, in*)
(* their order, the new text has the new lines in their place and no other *)
(* line changed, and the patch does not fail if its lines are there, letter*)
(* by letter (apply_patch.rs:541-717).                                     *)
(***************************************************************************)
THEOREM UpdatesAreMadeInPlace == TextsSpec => []UpdatesInPlace
<1>1. PatchInv => UpdatesInPlace
  BY PatchRight DEF UpdatesInPlace
<1> QED
  BY <1>1, PatchInit, PatchStep, PTL DEF TextsSpec
=============================================================================
