------------------------- MODULE ConversationHistory -------------------------
(***************************************************************************)
(* The History object as a state machine: push_input and push_response     *)
(* append whatever they are given, so every list up to MaxItems is a       *)
(* history that from_items, a restored snapshot or a sequence of pushes    *)
(* can produce. The invariants say what for_prompt makes of each of them.  *)
(***************************************************************************)
EXTENDS PromptHistory

CONSTANT MaxItems        \* bound on the length of the history

ASSUME MaxItemsAssumption == MaxItems \in Nat

VARIABLE items           \* History::items

InputItems ==
  {Message("input", body) : body \in {"text", "image"}}
    \union {Output(family, id, body) :
              family \in {"function", "custom"}, id \in CallIds,
              body \in {"text", "image", "long"}}
    \union {Output("search", id, "text") : id \in CallIds}

ResponseItems ==
  {Message("response", "text")}
    \union {Call(family, id) : family \in {"function", "custom"}, id \in CallIds}
    \union {SearchCall(id, exec) : id \in Ids, exec \in {"client", "server"}}
    \union {Item("output", family, id, "response", "client", "long") :
              family \in {"function", "custom"}, id \in CallIds}
    \union {SearchResponse(id, exec) : id \in Ids, exec \in {"client", "server"}}

Init == items = << >>

PushInput(item) ==
  /\ Len(items) < MaxItems
  /\ items' = Append(items, item)

PushResponse(item) ==
  /\ Len(items) < MaxItems
  /\ items' = Append(items, item)

Next ==
  \/ \E item \in InputItems : PushInput(item)
  \/ \E item \in ResponseItems : PushResponse(item)

Spec == Init /\ [][Next]_items

-----------------------------------------------------------------------------

Prompt == ForPrompt(items, TRUE)

IsOutput(item) == item.kind = "output"

IsCall(item) == item.kind = "call"

\* What the proofs start from; no run spends a check on it, for the pushes
\* append these items and no others.
TypeOK ==
  /\ items \in Seq(InputItems \union ResponseItems)
  /\ Len(items) <= MaxItems

\* No call with an id lacks an output of its family and no output lacks its
\* call, server executed and anonymous tool searches aside.
PromptPaired ==
  /\ \A k \in DOMAIN Prompt : ~LacksOutput(Prompt, Prompt[k])
  /\ \A k \in DOMAIN Prompt :
       IsOutput(Prompt[k]) => KeptOutput(Prompt, Prompt[k])

ConversationOf(list) == ItemsAt(list, {k \in DOMAIN list : ~IsOutput(list[k])})

\* Pairing calls and outputs never costs, moves or invents conversation: the
\* prompt without its outputs is the history without its outputs, images
\* replaced by their placeholder, and a prompt taken for a history is paired and
\* without images as it is: only an output that was cut would be cut once more,
\* since its marker comes on top of the budget (history.rs:65-248).
ConversationPreserved ==
  /\ ConversationOf(Prompt) = StripImages(ConversationOf(items))
  /\ \A limited \in BOOLEAN :
       ForPrompt(Prompt, limited) = TruncateFunctionOutputs(Prompt, limited)

\* "aborted" is told to the model only of a call that has no output, and
\* then directly behind the call; an output that exists and has its call
\* stays in the prompt (history.rs:87-135).
AbortedOnlyWhenUnanswered ==
  /\ \A k \in DOMAIN Prompt :
       Prompt[k].body = "aborted" =>
         /\ ~HasOutput(items, Prompt[k].family, Prompt[k].id)
         /\ k > 1
         /\ IsCall(Prompt[k-1])
         /\ Prompt[k-1].id = Prompt[k].id /\ Prompt[k-1].family = Prompt[k].family
  /\ \A k \in DOMAIN items :
       IsOutput(items[k]) /\ KeptOutput(items, items[k]) =>
         \E j \in DOMAIN Prompt : /\ IsOutput(Prompt[j])
                                  /\ Prompt[j].family = items[k].family
                                  /\ Prompt[j].id = items[k].id
                                  /\ Prompt[j].body # "aborted"

(***************************************************************************)
(* Histories a session builds itself: an id is used by one call, an output *)
(* of the core comes after its call and once, the provider sends outputs   *)
(* only for the tool searches it runs itself.                              *)
(***************************************************************************)
SessionBuilt ==
  /\ \A j, k \in DOMAIN items :
       IsCall(items[j]) /\ IsCall(items[k]) /\ items[j].id = items[k].id
         => j = k \/ items[j].id = NoId
  /\ \A k \in DOMAIN items :
       IsOutput(items[k]) /\ items[k].side = "input" =>
         /\ \E j \in 1 .. k-1 : /\ IsCall(items[j])
                                /\ items[j].family = items[k].family
                                /\ items[j].id = items[k].id
                                /\ items[j].exec = "client"
         /\ \A j \in 1 .. k-1 : ~(IsOutput(items[j]) /\ items[j].id = items[k].id)
  /\ \A k \in DOMAIN items :
       IsOutput(items[k]) /\ items[k].side = "response" =>
         /\ items[k].exec = "server"
         /\ items[k].id \notin {items[j].id : j \in {i \in DOMAIN items :
                                  IsCall(items[i]) /\ items[i].exec = "client"}}
              \/ items[k].id = NoId

NoServerSearch ==
  \A k \in DOMAIN items : IsCall(items[k]) => items[k].exec = "client"

\* No request carries an image, and an output that was over the budget is in it
\* as its beginning and end, cut once, with a marker on top.
PromptTextOnlyAndBounded ==
  \A k \in DOMAIN Prompt :
    CarriesImages(Prompt[k]) => Prompt[k].body \notin {"image", "long", "cut again"}

\* Whatever history is restored, the request made of it is paired, "aborted"
\* stands in it only for outputs that do not exist, there is no image in it, and
\* each output fits the byte budget or was cut to it once, its marker not
\* counted; a history a session built, in whatever state its calls were left,
\* gives a request that passes validate_request_body_invariants
\* (tests/core.rs:1363) as long as the provider ran no tool search of its own
\* (history.rs:65-248).
PromptValid ==
  /\ PromptPaired
  /\ AbortedOnlyWhenUnanswered
  /\ PromptTextOnlyAndBounded
  /\ SessionBuilt /\ NoServerSearch => RequestBodyValid(Prompt)
=============================================================================
