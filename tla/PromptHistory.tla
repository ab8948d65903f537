---------------------------- MODULE PromptHistory ----------------------------
(***************************************************************************)
(* The model-visible history of a session (history.rs): an append-only     *)
(* list of items, and the normalisation that turns it into the input of a  *)
(* Responses request. Text is abstracted to the few kinds of body that     *)
(* normalisation tells apart.                                              *)
(***************************************************************************)
EXTENDS Naturals, Sequences, SequencesExt

CONSTANTS
  CallIds,     \* call_id values the provider may use
  NoId         \* an absent call_id (Option::None)

ASSUME NoIdAssumption == NoId \notin CallIds

(***************************************************************************)
(* Items. "family" pairs a call with the outputs that can answer it;       *)
(* "side" is "input" for ResponseInputItem (built by the core) and         *)
(* "response" for ResponseItem (sent by the provider); "exec" is the       *)
(* execution field of tool search items ("client" elsewhere).              *)
(***************************************************************************)
Families == {"function", "custom", "search"}

Bodies == {"text", "image", "omitted", "long", "cut", "cut again", "aborted"}

Kinds == {"message", "call", "output"}

FamilyNames == Families \union {"none"}

Ids == CallIds \union {NoId}

Sides == {"input", "response"}

Execs == {"client", "server"}

AnyItem == [kind : Kinds, family : FamilyNames, id : Ids, side : Sides, exec : Execs, body : Bodies]

Item(kind, family, id, side, exec, body) ==
  [kind |-> kind, family |-> family, id |-> id,
   side |-> side, exec |-> exec, body |-> body]

Message(side, body) == Item("message", "none", NoId, side, "client", body)

Call(family, id) == Item("call", family, id, "response", "client", "text")

SearchCall(id, exec) == Item("call", "search", id, "response", exec, "text")

Output(family, id, body) == Item("output", family, id, "input", "client", body)

SearchResponse(id, exec) ==
  Item("output", "search", id, "response", exec, "text")

(***************************************************************************)
(* ensure_call_outputs_present: a call with an id and no output of its     *)
(* family anywhere in the list gets a synthetic one right behind it.       *)
(* Insertion from the back, at idx + 1, makes this a flat map.             *)
(***************************************************************************)
HasOutput(items, family, id) ==
  \E k \in DOMAIN items : /\ items[k].kind = "output"
                          /\ items[k].family = family
                          /\ items[k].id = id

\* Seeded bug: custom tool calls are forgotten.
LacksOutputUnlessCustom(items, call) ==
  /\ call.kind = "call"
  /\ call.family # "custom"
  /\ call.id # NoId
  /\ ~HasOutput(items, call.family, call.id)

LacksOutput(items, call) ==
  /\ call.kind = "call"
  /\ call.id # NoId
  /\ ~HasOutput(items, call.family, call.id)

\* Seeded bug: the synthetic outputs go to the end of the list.
EnsureCallOutputsAtEnd(items) ==
  LET Lacking(item) == LacksOutput(items, item)
      lacking == SelectSeq(items, Lacking)
  IN  items \o [k \in DOMAIN lacking |->
                   Output(lacking[k].family, lacking[k].id, "aborted")]

\* Seeded bug: the synthetic output overwrites the call.
EnsureCallOutputsOverwriting(items) ==
  [k \in DOMAIN items |->
     IF LacksOutput(items, items[k])
     THEN Output(items[k].family, items[k].id, "aborted")
     ELSE items[k]]

EnsureCallOutputsPresent(items) ==
  FlattenSeq([k \in DOMAIN items |->
                IF LacksOutput(items, items[k])
                THEN <<items[k], Output(items[k].family, items[k].id, "aborted")>>
                ELSE <<items[k]>>])

(***************************************************************************)
(* remove_orphan_outputs: an output stays when some call of its family     *)
(* has its id. Tool search outputs of the provider also stay when the      *)
(* server executed them or when they carry no id.                          *)
(***************************************************************************)
CallIdsOf(items, family) ==
  {items[k].id : k \in {j \in DOMAIN items : /\ items[j].kind = "call"
                                             /\ items[j].family = family
                                             /\ items[j].id # NoId}}

KeptOutput(items, output) ==
  \/ output.id \in CallIdsOf(items, output.family)
  \/ /\ output.family = "search"
     /\ output.side = "response"
     /\ output.exec = "server" \/ output.id = NoId

\* The items at the given indices, in their order.
ItemsAt(items, indices) ==
  FlattenSeq([k \in DOMAIN items |-> IF k \in indices THEN <<items[k]>> ELSE << >>])

\* Retained is a function so that TLC evaluates the list it is given once.
RemoveOrphanOutputs(items) ==
  LET Retained[list \in Seq(AnyItem)] ==
        ItemsAt(list, {k \in DOMAIN list :
                         list[k].kind = "output" => KeptOutput(list, list[k])})
  IN  Retained[items]

(***************************************************************************)
(* strip_images_when_unsupported, then truncate_function_outputs, which a  *)
(* limit of usize::MAX switches off. Neither touches tool search outputs.  *)
(*                                                                         *)
(* The budget is 1.2 times the limit in bytes. Of what is over it the      *)
(* beginning and the end are kept, as much as the budget, around a marker  *)
(* that says how much is gone, or a line that counts the items left out:   *)
(* what was cut is over the budget again, by that. The limit is assumed to *)
(* have room for the notes of the core itself, "aborted" and the           *)
(* placeholder of an image.                                                *)
(***************************************************************************)
OverBudget == {"long", "cut", "cut again"}

Cut(body) == IF body = "long" THEN "cut" ELSE "cut again"

CarriesImages(item) ==
  \/ item.kind = "message"
  \/ item.kind = "output" /\ item.family # "search"

StripImages(items) ==
  [k \in DOMAIN items |->
     IF CarriesImages(items[k]) /\ items[k].body = "image"
     THEN [items[k] EXCEPT !.body = "omitted"]
     ELSE items[k]]

TruncateFunctionOutputs(items, limited) ==
  [k \in DOMAIN items |->
     IF /\ limited
        /\ items[k].kind = "output"
        /\ items[k].family # "search"
        /\ items[k].body \in OverBudget
     THEN [items[k] EXCEPT !.body = Cut(items[k].body)]
     ELSE items[k]]

ForPrompt(items, limited) ==
  LET Rendered[list \in Seq(AnyItem)] ==
        TruncateFunctionOutputs(StripImages(list), limited)
  IN  Rendered[RemoveOrphanOutputs(EnsureCallOutputsPresent(items))]

(***************************************************************************)
(* What validate_request_body_invariants of tests/core.rs demands of a     *)
(* request: calls open their id, an output the core built closes the       *)
(* nearest earlier opening of its id, once, and none stays open.           *)
(***************************************************************************)
Opens(item) ==
  /\ item.kind = "call"
  /\ \/ item.family # "search"
     \/ item.id # NoId /\ item.exec = "client"

Closes(item) == item.kind = "output" /\ item.side = "input"

ClosesAt(prompt, o, c) ==
  /\ Closes(prompt[o]) /\ Opens(prompt[c])
  /\ prompt[o].id = prompt[c].id
  /\ c < o
  /\ \A k \in c+1 .. o-1 :
       ~(Opens(prompt[k]) \/ Closes(prompt[k])) \/ prompt[k].id # prompt[o].id

RequestBodyValid(prompt) ==
  /\ \A o \in DOMAIN prompt :
       Closes(prompt[o]) => \E c \in DOMAIN prompt : ClosesAt(prompt, o, c)
  /\ \A c \in DOMAIN prompt :
       Opens(prompt[c]) =>
         \/ \E o \in DOMAIN prompt : ClosesAt(prompt, o, c)
         \/ \E k \in c+1 .. Len(prompt) :
              Opens(prompt[k]) /\ prompt[k].id = prompt[c].id
=============================================================================
