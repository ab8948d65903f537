------------------------------ MODULE ChatProofs ------------------------------
(***************************************************************************)
(* Theorems about the page, for any number of functions under way, of      *)
(* presses and of rejected awaits: its types, that it comes to rest on the *)
(* truth, and that it acts as it shows.                                    *)
(***************************************************************************)
EXTENDS AgentChat, SequenceTheorems, FiniteSetTheorems, TLAPS

Listed == [id : Nat, title : {"NewSession", "renamed", "userText"}]

TurnRecord == [asked : Seq(Nat), gets : Seq(Nat)]

Kinds == {"none", "refresh", "create", "load", "rename", "turn"}

Places == {"done", "boot", "list", "create", "select", "relist", "load", "rename", "turn"}

Function == [kind : Kinds, at : Places, id : Nat, first : BOOLEAN, turn : TurnRecord]

PageTyped ==
  /\ providerConfig \in Nat /\ provider \in Nat
  /\ session \in Nat /\ active \in Nat /\ renamingSessionId \in Nat /\ chosen \in Nat
  /\ effectDue \in BOOLEAN /\ booting \in BOOLEAN /\ ready \in BOOLEAN /\ hasty \in BOOLEAN
  /\ presses \in 0 .. MaxPresses /\ faults \in Nat
  /\ task \in [Tasks -> Function]
  /\ sessions \in Seq(Listed) /\ stored \in Seq(Listed)

\* Where a function of each kind may stand, and what it has by then.
StepsOf(kind) ==
  CASE kind = "none" -> {"done"}
    [] kind = "refresh" -> {"boot", "list", "create", "select", "load", "relist"}
    [] kind = "create" -> {"boot", "create", "select", "relist"}
    [] kind = "load" -> {"load"}
    [] kind = "rename" -> {"rename", "relist"}
    [] kind = "turn" -> {"turn", "relist"}

Placed(t) ==
  /\ task[t].at \in StepsOf(task[t].kind)
  /\ task[t].kind = "none" => task[t] = Idle
  /\ task[t].first => task[t].kind = "refresh"
  /\ task[t].kind = "refresh" /\ task[t].at \in {"create", "select", "load"} => task[t].first
  /\ task[t].at \in {"select", "load", "rename", "turn"} => task[t].id \in 1 .. Len(stored)
  /\ task[t].kind = "refresh" /\ ~task[t].first => session # NoSession
  /\ At(t, "relist") /\ task[t].kind # "rename" => session # NoSession
  /\ task[t].kind = "rename" => sessions # << >>

\* The first init: nothing is beyond it before it has succeeded.
BootInv ==
  /\ booting <=> \E t \in Tasks : At(t, "boot")
  /\ ready => ~booting
  /\ booting \/ ready => provider # 0
  /\ effectDue \/ booting \/ ready => providerConfig # 0
  /\ sessions # << >> \/ session # NoSession => ready
  /\ \A t \in Tasks : ~At(t, "boot") /\ ~At(t, "done") => ready

\* The stored sessions are numbered, and what is known of them is stored.
Numbered(rows) ==
  /\ \A k \in 1 .. Len(rows) : rows[k].id \in 1 .. Len(rows)
  /\ \A j, k \in 1 .. Len(rows) : rows[j].id = rows[k].id => j = k
  /\ \A s \in 1 .. Len(rows) : \E k \in 1 .. Len(rows) : rows[k].id = s

StoredInv ==
  /\ Numbered(stored)
  /\ \A k \in 1 .. Len(sessions) : sessions[k].id \in 1 .. Len(stored)
  /\ session \in 0 .. Len(stored) /\ active = session
  /\ unasked \subseteq 1 .. Len(stored)

QueueInv ==
  /\ queue \in Seq(Tasks)
  /\ \A j, k \in 1 .. Len(queue) : queue[j] = queue[k] => j = k
  /\ \A t \in Tasks : At(t, "load") <=> \E k \in 1 .. Len(queue) : queue[k] = t

\* The functions that will create a session if nothing fails.
Pends(t) ==
  \/ task[t].kind = "create" /\ task[t].at \in {"boot", "create"}
  \/ task[t].kind = "refresh" /\ At(t, "create")
  \/ stored = << >> /\ task[t].kind = "refresh" /\ task[t].at \in {"boot", "list"}

Pending == {t \in Tasks : Pends(t)}

Due == IF stored = << >> /\ effectDue THEN 1 ELSE 0

Budget == Len(stored) + Cardinality(Pending) + Due <= presses + 2

OneTurn ==
  \A t, u \in Tasks : task[t].kind = "turn" /\ task[u].kind = "turn" => t = u

TurnsRight == \A t \in Tasks : task[t].turn.gets = task[t].turn.asked

\* Before the first session is stored.
EmptyInv == stored = << >> =>
  /\ sessions = << >> /\ session = NoSession /\ unasked = {}
  /\ \A t \in Tasks : task[t].kind \in {"none", "refresh", "create"}

CreatesUnasked(t) == task[t].kind = "refresh" /\ At(t, "create")

UnaskedInv == ~hasty =>
  /\ stored = << >> =>
       /\ \A t, u \in Tasks : task[t].first /\ task[u].first => t = u
       /\ effectDue => \A t \in Tasks : ~task[t].first
  /\ \A t, u \in Tasks : CreatesUnasked(t) /\ CreatesUnasked(u) => t = u
  /\ \A t \in Tasks : CreatesUnasked(t) => unasked = {}
  /\ \A s, r \in unasked : s = r

ProviderInv == session # NoSession /\ ~effectDue => provider = providerConfig

ListInv == faults = 0 /\ ready /\ Quiet => sessions = stored

Creates(t) == task[t].kind = "create" \/ task[t].first

ShownInv ==
  faults = 0 /\ sessions # << >> /\ session = NoSession => \E t \in Tasks : Creates(t)

\* The restore that was chosen last is answered last, and nothing else changes
\* the session.
ChosenInv == faults = 0 /\ chosen # NoSession =>
  /\ session # NoSession
  /\ \A t \in Tasks : ~Creates(t) /\ task[t].kind # "turn"
  /\ queue = << >> => session = chosen
  /\ queue # << >> => task[queue[Len(queue)]].id = chosen

ChatInv ==
  /\ PageTyped /\ (\A t \in Tasks : Placed(t)) /\ BootInv /\ StoredInv /\ QueueInv
  /\ OneTurn /\ TurnsRight /\ EmptyInv /\ UnaskedInv /\ ProviderInv /\ ListInv /\ ShownInv
  /\ ChosenInv

-----------------------------------------------------------------------------

(***************************************************************************)
(* The parts of the steps.                                                 *)
(***************************************************************************)
LEMMA IdleTyped == Idle \in Function /\ NoTurn \in TurnRecord
<1>1. NoTurn \in TurnRecord
  BY DEF NoTurn, TurnRecord
<1>2. "none" \in Kinds /\ "done" \in Places
  BY DEF Kinds, Places
<1> QED
  BY <1>1, <1>2 DEF Idle, Function, NoSession

LEMMA FreeIsIdle == \A t \in Free : t \in Tasks /\ task[t] = Idle
BY DEF Free, Busy

\* A function starts.
LEMMA Started ==
  ASSUME PageTyped, NEW t \in Free, NEW id \in Nat,
         NEW kind \in {"refresh", "create", "load", "rename", "turn"},
         ensureRuntime(t, kind, id), providerConfig \in Nat
  PROVE  /\ t \in Tasks /\ task[t] = Idle
         /\ \A u \in Tasks : u # t => task'[u] = task[u]
         /\ task' \in [Tasks -> Function]
         /\ task'[t].kind = kind /\ task'[t].id = id
         /\ task'[t].at = IF ready THEN Entry(kind) ELSE "boot"
         /\ task'[t].first = (kind = "refresh" /\ session = NoSession)
         /\ task'[t].turn = Turn(kind, id, provider')
         /\ provider' = (IF booting THEN provider ELSE providerConfig)
         /\ booting' = ~ready /\ provider' \in Nat /\ renamingSessionId' \in Nat
<1> DEFINE new == [kind |-> kind, at |-> IF ready THEN Entry(kind) ELSE "boot", id |-> id,
                   first |-> kind = "refresh" /\ session = NoSession,
                   turn |-> Turn(kind, id, provider')]
<1>1. t \in Tasks /\ task[t] = Idle /\ task \in [Tasks -> Function]
  BY FreeIsIdle DEF PageTyped
<1>2. provider' = (IF booting THEN provider ELSE providerConfig) /\ booting' = ~ready
  BY DEF ensureRuntime
<1>3. provider' \in Nat /\ renamingSessionId' \in Nat
  BY <1>2 DEF PageTyped, ensureRuntime, NoSession
<1>4. Turn(kind, id, provider') \in TurnRecord
  <2>1. CASE kind = "turn"
    <3>1. <<session, providerConfig>> \in Seq(Nat) /\ <<id, provider'>> \in Seq(Nat)
      BY <1>3 DEF PageTyped
    <3> QED
      BY <2>1, <3>1 DEF Turn, TurnRecord
  <2>2. CASE kind # "turn"
    BY <2>2, IdleTyped DEF Turn
  <2> QED
    BY <2>1, <2>2
<1>5. new \in Function
  <2>1. (IF ready THEN Entry(kind) ELSE "boot") \in Places /\ kind \in Kinds
    BY DEF Entry, Kinds, Places
  <2> QED
    BY <1>4, <2>1 DEF Function
<1>6. task' = [task EXCEPT ![t] = new]
  BY DEF ensureRuntime
<1>7. task'[t] = new /\ \A u \in Tasks : u # t => task'[u] = task[u]
  BY <1>1, <1>6
<1>8. task' \in [Tasks -> Function]
  BY <1>1, <1>5, <1>6
<1> QED
  BY <1>1, <1>2, <1>3, <1>7, <1>8

\* It goes on, or ends.
LEMMA Moved ==
  ASSUME PageTyped, NEW t \in Tasks,
         NEW step \in {"create", "select", "relist", "load"}, MoveTo(t, step)
  PROVE  /\ \A u \in Tasks : u # t => task'[u] = task[u]
         /\ task' \in [Tasks -> Function] /\ task'[t].at = step
         /\ task'[t].kind = task[t].kind /\ task'[t].id = task[t].id
         /\ task'[t].first = task[t].first /\ task'[t].turn = task[t].turn
<1>1. task \in [Tasks -> Function] /\ task' = [task EXCEPT ![t].at = step]
  BY DEF PageTyped, MoveTo
<1>2. task[t] \in Function
  BY <1>1
<1>3. task'[t] = [task[t] EXCEPT !.at = step] /\ \A u \in Tasks : u # t => task'[u] = task[u]
  BY <1>1
<1>4. step \in Places
  BY DEF Places
<1>5. task'[t] \in Function
  BY <1>2, <1>3, <1>4 DEF Function
<1>6. task' \in [Tasks -> Function]
  BY <1>1, <1>5
<1> QED
  BY <1>2, <1>3, <1>6 DEF Function

LEMMA MovedTo ==
  ASSUME PageTyped, NEW t \in Tasks, NEW step \in {"select", "load"}, NEW s \in Nat
  PROVE  task' = [task EXCEPT ![t].at = step, ![t].id = s] =>
         /\ \A u \in Tasks : u # t => task'[u] = task[u]
         /\ task' \in [Tasks -> Function] /\ task'[t].at = step
         /\ task'[t].kind = task[t].kind /\ task'[t].id = s
         /\ task'[t].first = task[t].first /\ task'[t].turn = task[t].turn
<1>1. task \in [Tasks -> Function] /\ task[t] \in Function
  BY DEF PageTyped
<1>2. PICK f \in Function : f = task[t]
  BY <1>1
<1>3. PICK place \in Places : place = step
  BY DEF Places
<1>4. PICK g : g = [f EXCEPT !.at = place, !.id = s]
  OBVIOUS
<1>5. /\ g \in Function /\ g.at = place /\ g.id = s
      /\ g.kind = f.kind /\ g.first = f.first /\ g.turn = f.turn
  BY <1>4 DEF Function
<1>6. [task EXCEPT ![t].at = step, ![t].id = s] = [task EXCEPT ![t] = g]
  BY <1>1, <1>2, <1>3, <1>4
<1>7. ASSUME task' = [task EXCEPT ![t] = g]
      PROVE  /\ \A u \in Tasks : u # t => task'[u] = task[u]
             /\ task' \in [Tasks -> Function] /\ task'[t] = g
  BY <1>1, <1>5, <1>7
<1> QED
  BY <1>2, <1>3, <1>5, <1>6, <1>7

LEMMA Finished ==
  ASSUME PageTyped, NEW t \in Tasks, Finish(t)
  PROVE  /\ \A u \in Tasks : u # t => task'[u] = task[u]
         /\ task' \in [Tasks -> Function] /\ task'[t] = Idle
BY IdleTyped DEF PageTyped, Finish

LEMMA Booted ==
  ASSUME PageTyped, \A t \in Tasks : At(t, "boot") => task[t].kind \in {"refresh", "create"},
         BootDone
  PROVE  /\ \A u \in Tasks : ~At(u, "boot") => task'[u] = task[u]
         /\ task' \in [Tasks -> Function]
         /\ \A t \in Tasks : At(t, "boot") =>
              /\ task'[t].at = Entry(task[t].kind)
              /\ task'[t].kind = task[t].kind /\ task'[t].id = task[t].id
              /\ task'[t].first = task[t].first /\ task'[t].turn = task[t].turn
<1>1. task \in [Tasks -> Function]
  BY DEF PageTyped
<1>2. task' = [t \in Tasks |-> IF At(t, "boot")
                               THEN [task[t] EXCEPT !.at = Entry(task[t].kind)] ELSE task[t]]
  BY DEF BootDone
<1>3. ASSUME NEW t \in Tasks, At(t, "boot")
      PROVE  /\ task'[t] \in Function /\ task'[t].at = Entry(task[t].kind)
             /\ task'[t].kind = task[t].kind /\ task'[t].id = task[t].id
             /\ task'[t].first = task[t].first /\ task'[t].turn = task[t].turn
  <2>1. task[t] \in Function /\ task'[t] = [task[t] EXCEPT !.at = Entry(task[t].kind)]
    BY <1>1, <1>2, <1>3
  <2>2. Entry(task[t].kind) \in Places
    BY <1>3 DEF Entry, Places
  <2> QED
    BY <2>1, <2>2 DEF Function
<1>4. ASSUME NEW t \in Tasks, ~At(t, "boot") PROVE task'[t] = task[t] /\ task'[t] \in Function
  BY <1>1, <1>2, <1>4
<1>5. task' \in [Tasks -> Function]
  BY <1>2, <1>3, <1>4
<1> QED
  BY <1>3, <1>4, <1>5

(***************************************************************************)
(* The rows: a new one comes to the front, and so does one that is touched. *)
(***************************************************************************)
LEMMA NumberedRows ==
  ASSUME NEW rows, NEW n, n = Len(rows),
         \A k \in 1 .. n : rows[k].id \in 1 .. n,
         \A j, k \in 1 .. n : rows[j].id = rows[k].id => j = k,
         \A q \in 1 .. n : \E k \in 1 .. n : rows[k].id = q
  PROVE  Numbered(rows)
BY Zenon DEF Numbered

LEMMA RowsNumbered ==
  ASSUME NEW rows, NEW n, n = Len(rows), Numbered(rows)
  PROVE  /\ \A k \in 1 .. n : rows[k].id \in 1 .. n
         /\ \A j, k \in 1 .. n : rows[j].id = rows[k].id => j = k
         /\ \A q \in 1 .. n : \E k \in 1 .. n : rows[k].id = q
BY Zenon DEF Numbered

LEMMA InsertedProps ==
  ASSUME NEW rows \in Seq(Listed), Numbered(rows), NEW row \in Listed,
         row.id = Len(rows) + 1
  PROVE  /\ <<row>> \o rows \in Seq(Listed) /\ Len(<<row>> \o rows) = Len(rows) + 1
         /\ Numbered(<<row>> \o rows)
<1>1. PICK n \in Nat : n = Len(rows)
  OBVIOUS
<1>2. PICK new : new = <<row>> \o rows
  OBVIOUS
<1>3. new \in Seq(Listed) /\ Len(new) = n + 1
  BY <1>1, <1>2
<1>4. new[1] = row /\ \A k \in 2 .. n + 1 : new[k] = rows[k - 1] /\ k - 1 \in 1 .. n
  BY <1>1, <1>2
<1>5. /\ \A k \in 1 .. n : rows[k].id \in 1 .. n
      /\ \A j, k \in 1 .. n : rows[j].id = rows[k].id => j = k
      /\ \A q \in 1 .. n : \E k \in 1 .. n : rows[k].id = q
  <2>1. /\ \A k \in 1 .. Len(rows) : rows[k].id \in 1 .. Len(rows)
        /\ \A j, k \in 1 .. Len(rows) : rows[j].id = rows[k].id => j = k
        /\ \A q \in 1 .. Len(rows) : \E k \in 1 .. Len(rows) : rows[k].id = q
    BY DEF Numbered
  <2> QED
    BY <1>1, <2>1
<1>6. row.id = n + 1
  BY <1>1
<1>7. \A k \in 1 .. n + 1 : k = 1 \/ k \in 2 .. n + 1
  BY <1>1
<1>8. \A k \in 2 .. n + 1 : new[k].id \in 1 .. n
  BY <1>4, <1>5
<1>9. \A k \in 1 .. n + 1 : new[k].id \in 1 .. n + 1
  BY <1>1, <1>4, <1>6, <1>7, <1>8
<1>10. \A j, k \in 1 .. n + 1 : new[j].id = new[k].id => j = k
  <2> TAKE j, k \in 1 .. n + 1
  <2> HAVE new[j].id = new[k].id
  <2>1. CASE j = 1 /\ k \in 2 .. n + 1
    BY <2>1, <1>1, <1>4, <1>6, <1>8
  <2>2. CASE k = 1 /\ j \in 2 .. n + 1
    BY <2>2, <1>1, <1>4, <1>6, <1>8
  <2>3. CASE j \in 2 .. n + 1 /\ k \in 2 .. n + 1
    <3>1. /\ j - 1 \in 1 .. n /\ k - 1 \in 1 .. n
          /\ rows[j - 1].id = rows[k - 1].id
      BY <2>3, <1>4
    <3>2. j - 1 = k - 1
      BY <3>1, <1>5, ZenonT(30)
    <3> QED
      BY <2>3, <3>2, <1>1
  <2> QED
    BY <2>1, <2>2, <2>3, <1>7
<1>11. \A q \in 1 .. n + 1 : \E k \in 1 .. n + 1 : new[k].id = q
  <2> TAKE q \in 1 .. n + 1
  <2>1. CASE q = n + 1
    <3>1. 1 \in 1 .. n + 1 /\ new[1].id = q
      BY <2>1, <1>1, <1>4, <1>6
    <3> QED
      BY <3>1
  <2>2. CASE q \in 1 .. n
    <3>1. PICK k \in 1 .. n : rows[k].id = q
      BY <2>2, <1>5
    <3>2. k + 1 \in 2 .. n + 1 /\ (k + 1) - 1 = k
      BY <1>1
    <3>3. new[k + 1].id = q
      BY <3>1, <3>2, <1>4
    <3>4. k + 1 \in 1 .. n + 1
      BY <1>1
    <3> QED
      BY <3>3, <3>4
  <2> QED
    BY <2>1, <2>2, <1>1
<1>12. Numbered(new)
  BY <1>3, <1>9, <1>10, <1>11, NumberedRows
<1> QED
  BY <1>1, <1>2, <1>3, <1>12

\* Where the rows stand after one of them was touched.
LEMMA TouchedRows ==
  ASSUME stored \in Seq(Listed), Numbered(stored), NEW s \in 1 .. Len(stored), NEW name
  PROVE  /\ rowOf(s) \in 1 .. Len(stored) /\ stored[rowOf(s)].id = s
         /\ Len(Touched(s, name)) = Len(stored)
         /\ Touched(s, name)[1] = Summary(s, name)
         /\ \A k \in 2 .. Len(stored) :
              Touched(s, name)[k] = stored[IF k <= rowOf(s) THEN k - 1 ELSE k]
<1>1. PICK n \in Nat : n = Len(stored)
  OBVIOUS
<1>2. \E k \in 1 .. n : stored[k].id = s
  BY <1>1, RowsNumbered
<1>3. DOMAIN stored = 1 .. n
  BY <1>1
<1>4. PICK r \in 1 .. n : r = rowOf(s) /\ stored[r].id = s
  BY <1>2, <1>3 DEF rowOf
<1>5. PICK left : left = SubSeq(stored, 1, r - 1)
  OBVIOUS
<1>6. PICK right : right = SubSeq(stored, r + 1, n)
  OBVIOUS
<1>7. left \in Seq(Listed) /\ Len(left) = r - 1 /\ \A k \in 1 .. r - 1 : left[k] = stored[k]
  BY <1>1, <1>5
<1>8. /\ right \in Seq(Listed) /\ Len(right) = n - r
      /\ \A k \in 1 .. n - r : right[k] = stored[r + k]
  BY <1>1, <1>6
<1>9. PICK rest : rest = left \o right
  OBVIOUS
<1>10. RemoveAt(stored, r) = rest
  BY <1>1, <1>5, <1>6, <1>9 DEF RemoveAt
<1>11. rest \in Seq(Listed) /\ Len(rest) = n - 1
  BY <1>1, <1>7, <1>8, <1>9
<1>12. \A k \in 1 .. r - 1 : rest[k] = stored[k]
  <2> TAKE k \in 1 .. r - 1
  <2>1. rest[k] = left[k]
    BY <1>1, <1>7, <1>8, <1>9
  <2> QED
    BY <2>1, <1>7
<1>13. \A k \in r .. n - 1 : rest[k] = stored[k + 1]
  <2> TAKE k \in r .. n - 1
  <2>1. k - (r - 1) \in 1 .. n - r /\ r + (k - (r - 1)) = k + 1
    BY <1>1
  <2>2. rest[k] = right[k - (r - 1)]
    BY <1>1, <1>7, <1>8, <1>9
  <2> QED
    BY <2>1, <2>2, <1>8
<1>14. PICK new : new = Touched(s, name)
  OBVIOUS
<1>15. new = <<Summary(s, name)>> \o rest
  BY <1>4, <1>10, <1>14 DEF Touched
<1>16. PICK row : row = Summary(s, name)
  OBVIOUS
<1>17. /\ Len(new) = n /\ new[1] = row /\ \A k \in 2 .. n : new[k] = rest[k - 1]
  BY <1>1, <1>11, <1>15, <1>16
<1>18. \A k \in 2 .. n : new[k] = stored[IF k <= r THEN k - 1 ELSE k]
  <2> TAKE k \in 2 .. n
  <2>1. CASE k <= r
    <3>1. k - 1 \in 1 .. r - 1
      BY <2>1, <1>1
    <3> QED
      BY <2>1, <3>1, <1>12, <1>17
  <2>2. CASE k > r
    <3>1. k - 1 \in r .. n - 1 /\ (k - 1) + 1 = k /\ ~(k <= r)
      BY <2>2, <1>1
    <3> QED
      BY <2>2, <3>1, <1>13, <1>17
  <2> QED
    BY <2>1, <2>2, <1>1
<1> QED
  BY <1>1, <1>4, <1>14, <1>16, <1>17, <1>18

LEMMA TouchedProps ==
  ASSUME stored \in Seq(Listed), Numbered(stored), NEW s \in 1 .. Len(stored),
         NEW name \in {"NewSession", "renamed", "userText"}
  PROVE  /\ Touched(s, name) \in Seq(Listed)
         /\ Len(Touched(s, name)) = Len(stored)
         /\ Numbered(Touched(s, name))
         /\ titleOf(s) \in {"NewSession", "renamed", "userText"}
<1>1. PICK n \in Nat : n = Len(stored)
  OBVIOUS
<1>2. PICK r \in 1 .. n : r = rowOf(s) /\ stored[r].id = s
  BY <1>1, TouchedRows
<1>3. PICK new : new = Touched(s, name)
  OBVIOUS
<1>4. /\ Len(new) = n /\ new[1] = Summary(s, name)
      /\ \A k \in 2 .. n : new[k] = stored[IF k <= r THEN k - 1 ELSE k]
  BY <1>1, <1>2, <1>3, TouchedRows
<1>5. s \in Nat
  BY <1>1
<1>6. Summary(s, name) \in Listed /\ Summary(s, name).id = s
  BY <1>5 DEF Summary, Listed
<1>7. RemoveAt(stored, r) \in Seq(Listed)
  <2>1. /\ SubSeq(stored, 1, r - 1) \in Seq(Listed)
        /\ SubSeq(stored, r + 1, Len(stored)) \in Seq(Listed)
    BY <1>1
  <2>2. SubSeq(stored, 1, r - 1) \o SubSeq(stored, r + 1, Len(stored)) \in Seq(Listed)
    BY <2>1
  <2> QED
    BY <2>2 DEF RemoveAt
<1>8. new \in Seq(Listed)
  BY <1>2, <1>3, <1>6, <1>7 DEF Touched
<1>9. PICK was : was = [k \in 1 .. n |-> IF k = 1 THEN r ELSE IF k <= r THEN k - 1 ELSE k]
  OBVIOUS
<1>10. /\ \A k \in 1 .. n : k = 1 => was[k] = r
       /\ \A k \in 2 .. n : was[k] = IF k <= r THEN k - 1 ELSE k
       /\ \A k \in 1 .. n : k = 1 \/ k \in 2 .. n
  BY <1>1, <1>9
<1>11. \A k \in 1 .. n : was[k] \in 1 .. n
  BY <1>1, <1>10
<1>12. was \in [1 .. n -> 1 .. n]
  BY <1>9, <1>11
<1>13. \A k \in 1 .. n : new[k].id = stored[was[k]].id
  <2> TAKE k \in 1 .. n
  <2>1. CASE k = 1
    BY <2>1, <1>1, <1>2, <1>4, <1>6, <1>10
  <2>2. CASE k \in 2 .. n
    BY <2>2, <1>4, <1>10
  <2> QED
    BY <2>1, <2>2, <1>10
<1>14. \A j, k \in 1 .. n : was[j] = was[k] => j = k
  BY <1>1, <1>10
<1>15. \A k \in 1 .. n : \E j \in 1 .. n : was[j] = k
  <2> TAKE k \in 1 .. n
  <2>1. CASE k = r
    <3>1. was[1] = r /\ 1 \in 1 .. n
      BY <1>1, <1>10
    <3> QED
      BY <2>1, <3>1
  <2>2. CASE k < r
    <3>1. k + 1 \in 2 .. n /\ k + 1 <= r /\ (k + 1) - 1 = k /\ k + 1 \in 1 .. n
      BY <2>2, <1>1
    <3> QED
      BY <3>1, <1>10
  <2>3. CASE k > r
    <3>1. k \in 2 .. n /\ ~(k <= r)
      BY <2>3, <1>1
    <3> QED
      BY <3>1, <1>10
  <2> QED
    BY <2>1, <2>2, <2>3, <1>1
<1>16. Numbered(new)
  <2>1. /\ \A k \in 1 .. n : stored[k].id \in 1 .. n
        /\ \A j, k \in 1 .. n : stored[j].id = stored[k].id => j = k
        /\ \A q \in 1 .. n : \E k \in 1 .. n : stored[k].id = q
    BY ZenonT(30), <1>1, RowsNumbered
  <2>2. \A k \in 1 .. n : new[k].id \in 1 .. n
    BY <2>1, <1>11, <1>13
  <2>3. \A j, k \in 1 .. n : new[j].id = new[k].id => j = k
    <3> TAKE j, k \in 1 .. n
    <3> HAVE new[j].id = new[k].id
    <3>1. PICK a \in 1 .. n : a = was[j]
      BY <1>11
    <3>2. PICK b \in 1 .. n : b = was[k]
      BY <1>11
    <3>3. stored[a].id = stored[b].id
      BY <3>1, <3>2, <1>13
    <3>4. a = b
      BY <3>3, <2>1, Zenon
    <3> QED
      BY <3>1, <3>2, <3>4, <1>14
  <2>4. \A q \in 1 .. n : \E k \in 1 .. n : new[k].id = q
    <3> TAKE q \in 1 .. n
    <3>1. PICK k \in 1 .. n : stored[k].id = q
      BY <2>1
    <3>2. PICK j \in 1 .. n : was[j] = k
      BY <1>15
    <3> QED
      BY <3>1, <3>2, <1>13
  <2> QED
    BY <2>2, <2>3, <2>4, <1>4, NumberedRows
<1>17. titleOf(s) \in {"NewSession", "renamed", "userText"}
  <2>1. stored[r] \in Listed
    BY <1>1
  <2>2. titleOf(s) = stored[r].title
    BY <1>2 DEF titleOf
  <2> QED
    BY <2>1, <2>2 DEF Listed
<1> QED
  BY <1>1, <1>3, <1>4, <1>8, <1>16, <1>17

(***************************************************************************)
(* The queue of restores.                                                  *)
(***************************************************************************)
LEMMA AppendedQueue ==
  ASSUME QueueInv, NEW t \in Tasks, ~At(t, "load"), queue' = Append(queue, t),
         \A u \in Tasks : At(u, "load")' <=> u = t \/ At(u, "load")
  PROVE  QueueInv'
<1>1. queue \in Seq(Tasks)
  BY DEF QueueInv
<1>2. PICK n \in Nat : n = Len(queue)
  BY <1>1
<1>3. /\ queue' \in Seq(Tasks) /\ Len(queue') = n + 1 /\ queue'[n + 1] = t
      /\ \A k \in 1 .. n : queue'[k] = queue[k]
  BY <1>1, <1>2
<1>4. \A k \in 1 .. n : queue[k] # t
  BY <1>1, <1>2 DEF QueueInv
<1>5. \A j, k \in 1 .. n + 1 : queue'[j] = queue'[k] => j = k
  <2> TAKE j, k \in 1 .. n + 1
  <2> HAVE queue'[j] = queue'[k]
  <2>1. CASE j \in 1 .. n /\ k \in 1 .. n
    BY <2>1, <1>2, <1>3 DEF QueueInv
  <2>2. CASE j = n + 1 \/ k = n + 1
    BY <2>2, <1>2, <1>3, <1>4
  <2> QED
    BY <2>1, <2>2, <1>2
<1>6. \A u \in Tasks : At(u, "load")' <=> \E k \in 1 .. n + 1 : queue'[k] = u
  <2> TAKE u \in Tasks
  <2>1. At(u, "load") <=> \E k \in 1 .. n : queue[k] = u
    BY <1>2 DEF QueueInv
  <2>2. (\E k \in 1 .. n + 1 : queue'[k] = u) <=> u = t \/ \E k \in 1 .. n : queue[k] = u
    BY <1>2, <1>3
  <2> QED
    BY <2>1, <2>2
<1> QED
  BY <1>3, <1>5, <1>6 DEF QueueInv

LEMMA LastQueued ==
  ASSUME QueueInv, queue # << >>
  PROVE  queue[Len(queue)] \in Tasks /\ At(queue[Len(queue)], "load")
<1>1. queue \in Seq(Tasks) /\ Len(queue) \in 1 .. Len(queue)
  BY DEF QueueInv
<1>2. queue[Len(queue)] \in Tasks
  BY <1>1
<1> QED
  BY <1>1, <1>2 DEF QueueInv

(***************************************************************************)
(* A function starts: what the actions that start one have in common, and  *)
(* that it keeps the invariant.                                            *)
(***************************************************************************)
Starts(t, kind, s) ==
  /\ t \in Free /\ s \in Nat /\ kind \in {"refresh", "create", "load", "rename", "turn"}
  /\ ensureRuntime(t, kind, s) /\ providerConfig # 0
  /\ UNCHANGED <<providerConfig, session, sessions, ready, active, stored, unasked, faults>>
  /\ presses' \in 0 .. MaxPresses
  /\ presses' = IF kind = "refresh" THEN presses ELSE presses + 1
  /\ queue' = IF kind = "load" THEN Append(queue, t) ELSE queue
  /\ IF kind = "refresh" THEN effectDue /\ effectDue' = FALSE /\ hasty' = hasty
                         ELSE effectDue' = effectDue /\ hasty' \in BOOLEAN /\ (hasty => hasty')
  /\ kind \in {"load", "rename", "turn"} => ready /\ s \in 1 .. Len(stored) /\ ~isRunning
  /\ kind \in {"load", "rename"} => sessions # << >>
  /\ kind = "turn" => s = session /\ ~booting
  /\ chosen' = CASE kind \in {"create", "turn"} -> NoSession
                 [] kind = "load" -> IF Creating THEN NoSession ELSE s
                 [] kind \in {"refresh", "rename"} -> chosen

LEMMA StartsFacts ==
  ASSUME ChatInv, NEW t, NEW kind, NEW s, Starts(t, kind, s)
  PROVE  /\ t \in Tasks /\ task[t] = Idle
         /\ \A u \in Tasks : u # t => task'[u] = task[u]
         /\ task' \in [Tasks -> Function]
         /\ task'[t].kind = kind /\ task'[t].id = s
         /\ task'[t].at = IF ready THEN Entry(kind) ELSE "boot"
         /\ task'[t].first = (kind = "refresh" /\ session = NoSession)
         /\ task'[t].turn = Turn(kind, s, provider')
         /\ provider' = (IF booting THEN provider ELSE providerConfig)
         /\ booting' = ~ready /\ provider' \in Nat /\ renamingSessionId' \in Nat
<1>1. PageTyped
  BY DEF ChatInv
<1>2. /\ t \in Free /\ s \in Nat /\ kind \in {"refresh", "create", "load", "rename", "turn"}
      /\ ensureRuntime(t, kind, s)
  BY DEF Starts
<1>3. providerConfig \in Nat
  BY <1>1 DEF PageTyped
<1> QED
  BY <1>1, <1>2, <1>3, Started

LEMMA StartsKeeps ==
  ASSUME ChatInv, NEW t, NEW kind, NEW s, Starts(t, kind, s)
  PROVE  ChatInv'
<1>1. /\ t \in Tasks /\ task[t] = Idle
      /\ \A u \in Tasks : u # t => task'[u] = task[u]
      /\ task' \in [Tasks -> Function]
      /\ task'[t].kind = kind /\ task'[t].id = s
      /\ task'[t].at = IF ready THEN Entry(kind) ELSE "boot"
      /\ task'[t].first = (kind = "refresh" /\ session = NoSession)
      /\ task'[t].turn = Turn(kind, s, provider')
      /\ provider' = (IF booting THEN provider ELSE providerConfig)
      /\ booting' = ~ready /\ provider' \in Nat /\ renamingSessionId' \in Nat
  BY StartsFacts
<1>2. /\ PageTyped /\ (\A u \in Tasks : Placed(u)) /\ BootInv /\ StoredInv /\ QueueInv
      /\ OneTurn /\ TurnsRight /\ EmptyInv /\ UnaskedInv /\ ProviderInv /\ ListInv /\ ShownInv
      /\ ChosenInv
  BY DEF ChatInv
<1>3. s \in Nat /\ kind \in {"refresh", "create", "load", "rename", "turn"}
  BY DEF Starts
<1>4. PageTyped'
  BY <1>1, <1>2, <1>3 DEF PageTyped, Starts, NoSession
<1>5. ASSUME NEW u \in Tasks PROVE Placed(u)'
  <2>1. CASE u = t
    BY ZenonT(30), <2>1, <1>1, <1>2, <1>3 DEF Placed, StepsOf, Starts, Entry, At, EmptyInv
  <2>2. CASE u # t
    BY <2>2, <1>1, <1>2 DEF Placed, Starts, At
  <2> QED
    BY <2>1, <2>2
<1>6. BootInv'
  <2>1. booting' <=> \E u \in Tasks : At(u, "boot")'
    BY <1>1, <1>2, <1>3 DEF BootInv, At, Entry, Starts
  <2>2. /\ (ready => ~booting)' /\ (booting \/ ready => provider # 0)'
        /\ (effectDue \/ booting \/ ready => providerConfig # 0)'
        /\ (sessions # << >> \/ session # NoSession => ready)'
    BY <1>1, <1>2 DEF BootInv, Starts
  <2>3. \A u \in Tasks : (~At(u, "boot") /\ ~At(u, "done") => ready)'
    BY <1>1, <1>2 DEF BootInv, At, Starts
  <2> QED
    BY <2>1, <2>2, <2>3 DEF BootInv
<1>7. StoredInv'
  BY <1>2 DEF StoredInv, Starts, Numbered
<1>8. QueueInv'
  <2>1. ~At(t, "load") /\ (At(t, "load")' <=> kind = "load")
    BY <1>1, <1>3 DEF At, Idle, Entry, Starts
  <2>2. CASE kind # "load"
    <3>1. queue' = queue
      BY <2>2 DEF Starts
    <3>2. \A u \in Tasks : At(u, "load")' <=> At(u, "load")
      BY <1>1, <2>1, <2>2 DEF At
    <3> QED
      BY <3>1, <3>2, <1>2 DEF QueueInv
  <2>3. CASE kind = "load"
    <3>1. queue' = Append(queue, t) /\ queue \in Seq(Tasks)
      BY <2>3, <1>2 DEF Starts, QueueInv
    <3>2. \A u \in Tasks : At(u, "load")' <=> u = t \/ At(u, "load")
      BY <1>1, <2>1, <2>3 DEF At
    <3> QED
      BY <3>1, <3>2, <2>1, <1>1, <1>2, AppendedQueue
  <2> QED
    BY <2>2, <2>3
<1>9. OneTurn'
  BY <1>1, <1>2 DEF OneTurn, Starts, isRunning
<1>10. TurnsRight'
  <2>1. task'[t].turn.gets = task'[t].turn.asked
    <3>1. CASE kind = "turn"
      BY <3>1, <1>1, <1>2 DEF Starts, Turn, StoredInv
    <3>2. CASE kind # "turn"
      BY <3>2, <1>1 DEF Turn, NoTurn
    <3> QED
      BY <3>1, <3>2
  <2> QED
    BY <2>1, <1>1, <1>2 DEF TurnsRight
<1>11. EmptyInv'
  <2>1. CASE stored = << >>
    <3>1. kind \in {"refresh", "create"}
      BY <2>1, <1>2, <1>3 DEF EmptyInv, Starts
    <3> QED
      BY <2>1, <3>1, <1>1, <1>2 DEF EmptyInv, Starts
  <2>2. CASE stored # << >>
    BY <2>2 DEF EmptyInv, Starts
  <2> QED
    BY <2>1, <2>2
<1>12. UnaskedInv'
  <2>1. ~CreatesUnasked(t)'
    BY <1>1, <1>3 DEF CreatesUnasked, At, Entry
  <2>2. \A u \in Tasks : CreatesUnasked(u)' => CreatesUnasked(u)
    BY <2>1, <1>1 DEF CreatesUnasked, At
  <2>3. task[t].first = FALSE
    BY <1>1 DEF Idle
  <2>4. CASE kind = "refresh"
    <3>1. effectDue /\ effectDue' = FALSE /\ hasty' = hasty
      BY <2>4 DEF Starts
    <3>2. stored' = stored /\ unasked' = unasked
      BY DEF Starts
    <3> QED
      BY <3>1, <3>2, <2>2, <2>3, <1>1, <1>2 DEF UnaskedInv
  <2>5. CASE kind # "refresh"
    <3>1. effectDue' = effectDue /\ (hasty => hasty') /\ task'[t].first = FALSE
      BY <2>5, <1>1 DEF Starts
    <3>2. stored' = stored /\ unasked' = unasked
      BY DEF Starts
    <3> QED
      BY <3>1, <3>2, <2>2, <2>3, <1>1, <1>2 DEF UnaskedInv
  <2> QED
    BY <2>4, <2>5
<1>13. ProviderInv'
  BY <1>1, <1>2 DEF ProviderInv, BootInv, Starts
<1>14. task'[t] # Idle
  BY <1>1, <1>3 DEF Idle
<1>15. ListInv'
  BY <1>1, <1>14 DEF ListInv, Quiet, Busy
<1>16. ShownInv'
  <2>1. ~Creates(t)
    BY <1>1 DEF Creates, Idle
  <2>2. \A u \in Tasks : Creates(u) => Creates(u)'
    BY <2>1, <1>1 DEF Creates
  <2>3. faults' = faults /\ sessions' = sessions /\ session' = session
    BY DEF Starts
  <2> QED
    BY <2>2, <2>3, <1>2 DEF ShownInv
<1>17. ChosenInv'
  <2>1. session' = session /\ faults' = faults
    BY DEF Starts
  <2>2. CASE kind \in {"create", "turn"}
    <3>1. chosen' = NoSession
      BY <2>2 DEF Starts
    <3> QED
      BY <3>1 DEF ChosenInv
  <2>3. CASE kind \in {"refresh", "rename"}
    <3>1. chosen' = chosen /\ queue' = queue
      BY <2>3 DEF Starts
    <3>2. ASSUME faults = 0, chosen # NoSession
          PROVE  \A u \in Tasks : ~Creates(u)' /\ task'[u].kind # "turn"
      BY <3>2, <2>3, <1>1, <1>2 DEF ChosenInv, Creates
    <3>3. ASSUME queue # << >> PROVE task'[queue[Len(queue)]] = task[queue[Len(queue)]]
      <4>1. PICK last : last = queue[Len(queue)]
        OBVIOUS
      <4>2. last \in Tasks /\ At(last, "load")
        BY <3>3, <4>1, <1>2, LastQueued
      <4>3. last # t
        BY <4>2, <1>1 DEF At, Idle
      <4> QED
        BY <4>1, <4>2, <4>3, <1>1
    <3> QED
      BY <2>1, <3>1, <3>2, <3>3, <1>2 DEF ChosenInv
  <2>4. CASE kind = "load"
    <3>1. /\ chosen' = IF Creating THEN NoSession ELSE s
          /\ queue' = Append(queue, t) /\ sessions # << >> /\ ~isRunning
      BY <2>4 DEF Starts
    <3>2. ASSUME faults = 0, ~Creating PROVE session # NoSession
      <4>1. \A u \in Tasks : ~Creates(u)
        BY <3>2, <1>2 DEF Creating, Creates, Busy, Idle
      <4> QED
        BY <3>1, <3>2, <4>1, <1>2 DEF ShownInv
    <3>3. ASSUME ~Creating PROVE \A u \in Tasks : ~Creates(u)' /\ task'[u].kind # "turn"
      <4>1. \A u \in Tasks : ~Creates(u)
        BY <3>3, <1>2 DEF Creating, Creates, Busy, Idle
      <4> QED
        BY <4>1, <3>1, <2>4, <1>1 DEF Creates, isRunning
    <3>4. queue' # << >> /\ queue'[Len(queue')] = t
      BY <3>1, <1>2 DEF QueueInv
    <3> QED
      BY <2>1, <3>1, <3>2, <3>3, <3>4, <1>1 DEF ChosenInv
  <2> QED
    BY <2>2, <2>3, <2>4, <1>3
<1> QED
  BY <1>4, <1>5, <1>6, <1>7, <1>8, <1>9, <1>10, <1>11, <1>12, <1>13, <1>15, <1>16, <1>17
  DEF ChatInv

LEMMA RunEffectStarts ==
  ASSUME ChatInv, RunEffect PROVE \E t, kind, q : Starts(t, kind, q)
<1>1. PageTyped /\ BootInv
  BY DEF ChatInv
<1>2. PICK t \in Free : ensureRuntime(t, "refresh", NoSession)
  BY DEF RunEffect
<1>3. /\ effectDue /\ effectDue' = FALSE
      /\ UNCHANGED <<providerConfig, session, sessions, ready, active, queue, stored>>
      /\ UNCHANGED <<presses, faults, unasked, hasty, chosen>>
  BY DEF RunEffect, counted
<1>4. Starts(t, "refresh", NoSession)
  BY <1>1, <1>2, <1>3 DEF Starts, PageTyped, BootInv, NoSession
<1> QED
  BY <1>4

LEMMA newSessionStarts ==
  ASSUME ChatInv, newSession PROVE \E t, kind, q : Starts(t, kind, q)
<1>1. PageTyped /\ BootInv
  BY DEF ChatInv
<1>2. PICK t \in Free : ensureRuntime(t, "create", NoSession)
  BY DEF newSession
<1>3. /\ presses < MaxPresses /\ presses' = presses + 1 /\ providerConfig # 0
      /\ hasty' = (hasty \/ StartingUp \/ effectDue) /\ chosen' = NoSession
      /\ UNCHANGED <<providerConfig, session, sessions, effectDue, ready, active, queue, stored,
                     faults, unasked>>
  BY DEF newSession, Press, NewChatEnabled
<1>4. presses' \in 0 .. MaxPresses
  BY <1>1, <1>3, BoundsAssumption DEF PageTyped
<1>5. hasty' \in BOOLEAN /\ (hasty => hasty')
  BY <1>1, <1>3 DEF PageTyped, StartingUp
<1>6. Starts(t, "create", NoSession)
  BY <1>1, <1>2, <1>3, <1>4, <1>5 DEF Starts, PageTyped, BootInv, NoSession
<1> QED
  BY <1>6

\* A row of the list is one of a stored session.
LEMMA OfferedIsStored ==
  ASSUME ChatInv, NEW s, \E k \in DOMAIN sessions : sessions[k].id = s
  PROVE  /\ ready /\ ~booting /\ providerConfig # 0 /\ sessions # << >>
         /\ s \in 1 .. Len(stored) /\ s \in Nat
<1>1. PageTyped /\ BootInv /\ StoredInv
  BY DEF ChatInv
<1>2. PICK n \in Nat : n = Len(sessions)
  BY <1>1 DEF PageTyped
<1>3. DOMAIN sessions = 1 .. n
  BY <1>1, <1>2 DEF PageTyped
<1>4. PICK k \in 1 .. n : sessions[k].id = s
  BY <1>3
<1>5. s \in 1 .. Len(stored)
  BY <1>1, <1>2, <1>4 DEF StoredInv
<1>6. sessions # << >>
  BY <1>2, <1>4
<1>7. ready
  BY <1>1, <1>6 DEF BootInv
<1>8. ~booting /\ providerConfig # 0
  BY <1>1, <1>7 DEF BootInv
<1>9. Len(stored) \in Nat
  BY <1>1 DEF PageTyped
<1> QED
  BY <1>5, <1>6, <1>7, <1>8, <1>9

LEMMA loadSessionStarts ==
  ASSUME ChatInv, NEW s \in Sessions, loadSession(s) PROVE \E t, kind, q : Starts(t, kind, q)
<1>1. PageTyped
  BY DEF ChatInv
<1>2. PICK t \in Free : ensureRuntime(t, "load", s) /\ queue' = Append(queue, t)
  BY DEF loadSession
<1>3. /\ presses < MaxPresses /\ presses' = presses + 1 /\ ~isRunning
      /\ chosen' = IF Creating THEN NoSession ELSE s
      /\ UNCHANGED <<providerConfig, session, sessions, effectDue, ready, active, stored,
                     faults, unasked, hasty>>
  BY DEF loadSession, Press, RowOffersLoad
<1>4. presses' \in 0 .. MaxPresses
  BY <1>1, <1>3, BoundsAssumption DEF PageTyped
<1>5. /\ ready /\ ~booting /\ providerConfig # 0 /\ sessions # << >>
      /\ s \in 1 .. Len(stored) /\ s \in Nat
  <2>1. \E k \in DOMAIN sessions : sessions[k].id = s
    BY DEF loadSession, RowOffersLoad
  <2> QED
    BY <2>1, OfferedIsStored
<1>6. Starts(t, "load", s)
  BY <1>1, <1>2, <1>3, <1>4, <1>5 DEF Starts, PageTyped
<1> QED
  BY <1>6

LEMMA saveRenameStarts ==
  ASSUME ChatInv, saveRename PROVE \E t, kind, q : Starts(t, kind, q)
<1>1. PageTyped
  BY DEF ChatInv
<1>2. PICK t \in Free : ensureRuntime(t, "rename", renamingSessionId)
  BY DEF saveRename
<1>3. /\ presses < MaxPresses /\ presses' = presses + 1 /\ ~isRunning
      /\ UNCHANGED <<providerConfig, session, sessions, effectDue, ready, active, queue, stored,
                     faults, unasked, hasty, chosen>>
  BY DEF saveRename, Press, RenameFormEnabled
<1>4. presses' \in 0 .. MaxPresses
  BY <1>1, <1>3, BoundsAssumption DEF PageTyped
<1>5. /\ ready /\ ~booting /\ providerConfig # 0 /\ sessions # << >>
      /\ renamingSessionId \in 1 .. Len(stored) /\ renamingSessionId \in Nat
  <2>1. \E k \in DOMAIN sessions : sessions[k].id = renamingSessionId
    BY DEF saveRename, RenameFormEnabled
  <2> QED
    BY <2>1, OfferedIsStored
<1>6. Starts(t, "rename", renamingSessionId)
  BY <1>1, <1>2, <1>3, <1>4, <1>5 DEF Starts, PageTyped
<1> QED
  BY <1>6

LEMMA submitStarts ==
  ASSUME ChatInv, submit PROVE \E t, kind, q : Starts(t, kind, q)
<1>1. PageTyped /\ BootInv /\ StoredInv
  BY DEF ChatInv
<1>2. PICK t \in Free : ensureRuntime(t, "turn", active)
  BY DEF submit
<1>3. /\ presses < MaxPresses /\ presses' = presses + 1
      /\ ~booting /\ ~isRunning /\ providerConfig # 0 /\ session # NoSession
      /\ chosen' = NoSession
      /\ UNCHANGED <<providerConfig, session, sessions, effectDue, ready, active, queue, stored,
                     faults, unasked, hasty>>
  BY DEF submit, Press, PromptEnabled, status, canChat
<1>4. presses' \in 0 .. MaxPresses
  BY <1>1, <1>3, BoundsAssumption DEF PageTyped
<1>5. active = session /\ active \in 1 .. Len(stored) /\ ready /\ active \in Nat
  BY <1>1, <1>3 DEF StoredInv, BootInv, PageTyped, NoSession
<1>6. Starts(t, "turn", active)
  BY <1>1, <1>2, <1>3, <1>4, <1>5 DEF Starts, PageTyped
<1> QED
  BY <1>6

StartAction ==
  RunEffect \/ newSession \/ saveRename \/ submit \/ \E s \in Sessions : loadSession(s)

LEMMA ActionsStart ==
  ASSUME ChatInv, StartAction PROVE \E t, kind, s : Starts(t, kind, s)
BY RunEffectStarts, newSessionStarts, saveRenameStarts, submitStarts, loadSessionStarts
DEF StartAction

(***************************************************************************)
(* Steps of the page that start nothing, and the end of an init.           *)
(***************************************************************************)
LEMMA RenameFormKeeps ==
  ASSUME ChatInv, renamingSessionId' \in Nat,
         UNCHANGED <<providerConfig, session, sessions, effectDue, task, booting, runtime,
                     counted>>
  PROVE  ChatInv'
<1>1. \A t \in Tasks : Placed(t)' <=> Placed(t)
  BY DEF Placed, At, runtime
<1>2. PageTyped' /\ BootInv' /\ StoredInv' /\ QueueInv'
  BY DEF ChatInv, PageTyped, BootInv, StoredInv, QueueInv, At, runtime, counted, Numbered
<1>3. OneTurn' /\ TurnsRight' /\ EmptyInv' /\ ProviderInv'
  BY DEF ChatInv, OneTurn, TurnsRight, EmptyInv, ProviderInv, runtime, counted
<1>4. UnaskedInv'
  BY DEF ChatInv, UnaskedInv, CreatesUnasked, At, runtime, counted
<1>5. ListInv' /\ ShownInv' /\ ChosenInv'
  BY DEF ChatInv, ListInv, ShownInv, ChosenInv, Creates, Quiet, Busy, runtime, counted
<1> QED
  BY <1>1, <1>2, <1>3, <1>4, <1>5 DEF ChatInv

LEMMA saveProviderConfigKeeps ==
  ASSUME ChatInv, saveProviderConfig PROVE ChatInv'
<1>1. /\ PageTyped /\ (\A u \in Tasks : Placed(u)) /\ BootInv /\ StoredInv /\ QueueInv
      /\ OneTurn /\ TurnsRight /\ EmptyInv /\ UnaskedInv /\ ShownInv /\ ChosenInv
  BY DEF ChatInv
<1>2. /\ presses < MaxPresses /\ presses' = presses + 1
      /\ providerConfig' = providerConfig + 1 /\ effectDue' = TRUE
      /\ hasty' = (hasty \/ StartingUp)
      /\ UNCHANGED <<session, sessions, renamingSessionId, task, booting>>
      /\ UNCHANGED <<ready, provider, active, queue, stored, faults, unasked, chosen>>
  BY DEF saveProviderConfig, Press, runtime
<1>3. PageTyped'
  BY <1>1, <1>2, BoundsAssumption DEF PageTyped, StartingUp
<1>4. \A t \in Tasks : Placed(t)'
  BY <1>1, <1>2 DEF Placed, At
<1>5. BootInv'
  BY <1>1, <1>2 DEF PageTyped, BootInv, At
<1>6. StoredInv' /\ QueueInv'
  BY <1>1, <1>2 DEF StoredInv, QueueInv, At, Numbered
<1>7. OneTurn' /\ TurnsRight' /\ EmptyInv' /\ ProviderInv'
  BY <1>1, <1>2 DEF OneTurn, TurnsRight, EmptyInv, ProviderInv
<1>8. UnaskedInv'
  <2>1. ASSUME ~hasty', NEW t \in Tasks PROVE ~task[t].first
    <3>1. ~StartingUp
      BY <2>1, <1>2
    <3>2. SUFFICES ASSUME task[t].first PROVE FALSE
      OBVIOUS
    <3>3. task[t].kind = "refresh"
      BY <3>2, <1>1 DEF Placed
    <3>4. t \in Busy
      BY <3>3 DEF Busy, Idle
    <3> QED
      BY <3>1, <3>2, <3>3, <3>4 DEF StartingUp
  <2>2. \A t \in Tasks : CreatesUnasked(t)' <=> CreatesUnasked(t)
    BY <1>2 DEF CreatesUnasked, At
  <2> QED
    BY <2>1, <2>2, <1>1, <1>2 DEF UnaskedInv
<1>9. ListInv' /\ ShownInv' /\ ChosenInv'
  BY <1>1, <1>2 DEF ListInv, ShownInv, ChosenInv, Creates, Quiet
<1> QED
  BY <1>3, <1>4, <1>5, <1>6, <1>7, <1>8, <1>9 DEF ChatInv

LEMMA BootDoneKeeps ==
  ASSUME ChatInv, BootDone PROVE ChatInv'
<1>1. /\ PageTyped /\ (\A u \in Tasks : Placed(u)) /\ BootInv /\ StoredInv /\ QueueInv
      /\ OneTurn /\ TurnsRight /\ EmptyInv /\ UnaskedInv /\ ProviderInv /\ ShownInv
      /\ ChosenInv
  BY DEF ChatInv
<1>2. /\ booting /\ booting' = FALSE /\ ready' = TRUE
      /\ UNCHANGED <<providerConfig, session, sessions, effectDue, provider, active>>
      /\ UNCHANGED <<queue, stored, presses, faults, unasked, hasty, chosen>>
  BY DEF BootDone, counted
<1>3. \A t \in Tasks : At(t, "boot") => task[t].kind \in {"refresh", "create"}
  BY <1>1 DEF Placed, StepsOf, At, PageTyped, Function, Kinds
<1>4. /\ \A u \in Tasks : ~At(u, "boot") => task'[u] = task[u]
      /\ task' \in [Tasks -> Function]
      /\ \A t \in Tasks : At(t, "boot") =>
           /\ task'[t].at = Entry(task[t].kind)
           /\ task'[t].kind = task[t].kind /\ task'[t].id = task[t].id
           /\ task'[t].first = task[t].first /\ task'[t].turn = task[t].turn
  BY <1>1, <1>3, Booted
<1>5. \A t \in Tasks : /\ task'[t].kind = task[t].kind /\ task'[t].id = task[t].id
                       /\ task'[t].first = task[t].first /\ task'[t].turn = task[t].turn
  BY <1>4
<1>6. PageTyped'
  <2>1. renamingSessionId' \in Nat
    BY <1>1 DEF BootDone, PageTyped, NoSession
  <2> QED
    BY <2>1, <1>1, <1>2, <1>4 DEF PageTyped
<1>7. ASSUME NEW t \in Tasks PROVE Placed(t)'
  <2>1. CASE At(t, "boot")
    <3>1. task'[t].at = IF task[t].kind = "refresh" THEN "list" ELSE "create"
      BY <2>1, <1>3, <1>4 DEF Entry
    <3>2. task[t].kind \in {"refresh", "create"}
      BY <2>1, <1>3
    <3> QED
      BY <3>1, <3>2, <1>1, <1>2, <1>5 DEF Placed, StepsOf, At
  <2>2. CASE ~At(t, "boot")
    BY <2>2, <1>1, <1>2, <1>4 DEF Placed, At
  <2> QED
    BY <2>1, <2>2
<1>8. BootInv'
  <2>1. \A t \in Tasks : task'[t].at # "boot"
    BY <1>3, <1>4 DEF At, Entry
  <2> QED
    BY <2>1, <1>1, <1>2 DEF BootInv, At
<1>9. StoredInv'
  BY <1>1, <1>2 DEF StoredInv, Numbered
<1>10. QueueInv'
  <2>1. \A t \in Tasks : At(t, "load")' <=> At(t, "load")
    BY <1>3, <1>4 DEF At, Entry
  <2> QED
    BY <2>1, <1>1, <1>2 DEF QueueInv
<1>11. OneTurn' /\ TurnsRight' /\ EmptyInv' /\ ProviderInv'
  BY <1>1, <1>2, <1>5 DEF OneTurn, TurnsRight, EmptyInv, ProviderInv
<1>12. UnaskedInv'
  <2>1. \A t \in Tasks : CreatesUnasked(t)' <=> CreatesUnasked(t)
    BY <1>3, <1>4, <1>5 DEF CreatesUnasked, At, Entry
  <2> QED
    BY <2>1, <1>1, <1>2, <1>5 DEF UnaskedInv
<1>13. ListInv'
  <2>1. PICK t \in Tasks : At(t, "boot")
    BY <1>1, <1>2 DEF BootInv
  <2>2. task'[t] # Idle
    BY <2>1, <1>3, <1>5 DEF Idle
  <2> QED
    BY <2>2 DEF ListInv, Quiet, Busy
<1>14. ShownInv'
  BY <1>1, <1>2, <1>5 DEF ShownInv, Creates
<1>15. ChosenInv'
  <2>1. queue # << >> => task'[queue[Len(queue)]].id = task[queue[Len(queue)]].id
    BY <1>1, <1>5, LastQueued
  <2> QED
    BY <2>1, <1>1, <1>2, <1>5 DEF ChosenInv, Creates
<1> QED
  BY <1>6, <1>7, <1>8, <1>9, <1>10, <1>11, <1>12, <1>13, <1>14, <1>15 DEF ChatInv

LEMMA BootFailsKeeps ==
  ASSUME ChatInv, BootFails PROVE ChatInv'
<1>1. /\ PageTyped /\ (\A u \in Tasks : Placed(u)) /\ BootInv /\ StoredInv /\ QueueInv
      /\ OneTurn /\ TurnsRight /\ EmptyInv /\ UnaskedInv /\ ProviderInv
  BY DEF ChatInv
<1>2. /\ faults' = faults + 1 /\ booting /\ booting' = FALSE
      /\ UNCHANGED <<providerConfig, session, sessions, renamingSessionId, effectDue>>
      /\ UNCHANGED <<ready, provider, active, queue, stored, presses, unasked, hasty, chosen>>
  BY DEF BootFails, Fault, page, runtime
<1>3. /\ \A t \in Tasks : At(t, "boot") => task'[t] = Idle
      /\ \A t \in Tasks : ~At(t, "boot") => task'[t] = task[t]
      /\ task' \in [Tasks -> Function]
  <2>1. task' = [t \in Tasks |-> IF At(t, "boot") THEN Idle ELSE task[t]]
    BY DEF BootFails
  <2> QED
    BY <2>1, <1>1, IdleTyped DEF PageTyped
<1>4. PageTyped'
  <2>1. faults' \in Nat
    BY <1>1, <1>2 DEF PageTyped
  <2>2. booting' \in BOOLEAN
    BY <1>2
  <2> QED
    BY <2>1, <2>2, <1>1, <1>2, <1>3 DEF PageTyped
<1>5. ASSUME NEW t \in Tasks PROVE Placed(t)'
  <2>1. CASE At(t, "boot")
    BY <2>1, <1>3 DEF Placed, StepsOf, At, Idle
  <2>2. CASE ~At(t, "boot")
    BY <2>2, <1>1, <1>2, <1>3 DEF Placed, At
  <2> QED
    BY <2>1, <2>2
<1>6. BootInv'
  <2>1. \A t \in Tasks : task'[t].at # "boot"
    BY <1>3 DEF At, Idle
  <2>2. \A t \in Tasks : task'[t].at # "done" => task'[t] = task[t]
    BY <1>3 DEF Idle
  <2> QED
    BY <2>1, <2>2, <1>1, <1>2 DEF BootInv, At
<1>7. StoredInv'
  BY <1>1, <1>2 DEF StoredInv, Numbered
<1>8. QueueInv'
  <2>1. \A t \in Tasks : At(t, "load")' <=> At(t, "load")
    BY <1>3 DEF At, Idle
  <2> QED
    BY <2>1, <1>1, <1>2 DEF QueueInv
<1>9. \A t \in Tasks : task'[t].kind # "none" => task'[t] = task[t]
  BY <1>3 DEF Idle
<1>10. \A t \in Tasks : task'[t].first => task[t].first
  BY <1>3 DEF Idle
<1>11. OneTurn'
  BY <1>1, <1>9 DEF OneTurn
<1>12. TurnsRight'
  BY <1>1, <1>3 DEF TurnsRight, Idle, NoTurn
<1>13. EmptyInv' /\ ProviderInv'
  BY <1>1, <1>2, <1>9 DEF EmptyInv, ProviderInv
<1>14. UnaskedInv'
  <2>1. \A t \in Tasks : CreatesUnasked(t)' => CreatesUnasked(t)
    BY <1>9 DEF CreatesUnasked, At
  <2> QED
    BY <2>1, <1>1, <1>2, <1>10 DEF UnaskedInv
<1>15. ListInv' /\ ShownInv' /\ ChosenInv'
  BY <1>1, <1>2 DEF PageTyped, ListInv, ShownInv, ChosenInv
<1> QED
  BY <1>4, <1>5, <1>6, <1>7, <1>8, <1>11, <1>12, <1>13, <1>14, <1>15 DEF ChatInv

(***************************************************************************)
(* Answers: one function goes on or ends.                                  *)
(***************************************************************************)
LEMMA ListedLastKeeps ==
  ASSUME ChatInv, NEW t \in Tasks, ListedLast(t) PROVE ChatInv'
<1>1. /\ PageTyped /\ (\A u \in Tasks : Placed(u)) /\ BootInv /\ StoredInv /\ QueueInv
      /\ OneTurn /\ TurnsRight /\ EmptyInv /\ UnaskedInv /\ ProviderInv /\ ShownInv
      /\ ChosenInv
  BY DEF ChatInv
<1>2. /\ task[t].at \in {"list", "relist"} /\ ~needsSession(t) /\ sessions' = stored
      /\ UNCHANGED <<providerConfig, session, effectDue, booting>>
      /\ UNCHANGED <<ready, provider, active, queue, stored>>
      /\ UNCHANGED <<presses, faults, unasked, hasty, chosen>>
  BY DEF ListedLast, runtime, counted
<1>3. /\ \A u \in Tasks : u # t => task'[u] = task[u]
      /\ task' \in [Tasks -> Function] /\ task'[t] = Idle
  BY <1>1, Finished DEF ListedLast
<1>4. PageTyped'
  <2>1. renamingSessionId' \in Nat
    BY <1>1 DEF ListedLast, PageTyped, NoSession
  <2> QED
    BY <2>1, <1>1, <1>2, <1>3 DEF PageTyped
<1>5. ASSUME NEW u \in Tasks PROVE Placed(u)'
  <2>1. CASE u = t
    BY <2>1, <1>3 DEF Placed, StepsOf, At, Idle
  <2>2. CASE u # t
    BY <2>2, <1>1, <1>2, <1>3 DEF Placed, At, EmptyInv
  <2> QED
    BY <2>1, <2>2
<1>6. BootInv'
  BY <1>1, <1>2, <1>3 DEF BootInv, At, Idle
<1>7. StoredInv'
  BY <1>1, <1>2 DEF StoredInv, Numbered
<1>8. QueueInv'
  <2>1. \A u \in Tasks : At(u, "load")' <=> At(u, "load")
    BY <1>2, <1>3 DEF At, Idle
  <2> QED
    BY <2>1, <1>1, <1>2 DEF QueueInv
<1>9. \A u \in Tasks : task'[u].kind # "none" => task'[u] = task[u]
  BY <1>3 DEF Idle
<1>10. \A u \in Tasks : task'[u].first => task[u].first
  BY <1>3 DEF Idle
<1>11. OneTurn' /\ EmptyInv' /\ ProviderInv'
  BY <1>1, <1>2, <1>9 DEF OneTurn, EmptyInv, ProviderInv
<1>12. TurnsRight'
  BY <1>1, <1>3 DEF TurnsRight, Idle, NoTurn
<1>13. UnaskedInv'
  <2>1. \A u \in Tasks : CreatesUnasked(u)' => CreatesUnasked(u)
    BY <1>9 DEF CreatesUnasked, At
  <2> QED
    BY <2>1, <1>1, <1>2, <1>10 DEF UnaskedInv
<1>14. ListInv'
  BY <1>2 DEF ListInv
<1>15. ShownInv'
  <2>1. SUFFICES ASSUME faults = 0, stored # << >>, session = NoSession
                 PROVE  \E u \in Tasks : Creates(u)'
    BY <1>2 DEF ShownInv
  <2>2. task[t].kind = "rename"
    BY <2>1, <1>1, <1>2
    DEF Placed, StepsOf, At, needsSession, PageTyped, Function, Kinds
  <2>3. sessions # << >>
    BY <2>2, <1>1 DEF Placed
  <2>4. PICK u \in Tasks : Creates(u)
    BY <2>1, <2>3, <1>1 DEF ShownInv
  <2>5. u # t
    BY <2>2, <2>4, <1>1 DEF Creates, Placed
  <2> QED
    BY <2>4, <2>5, <1>3 DEF Creates
<1>16. ChosenInv'
  <2>1. \A u \in Tasks : Creates(u)' => Creates(u)
    BY <1>3 DEF Creates, Idle
  <2>2. queue # << >> => task'[queue[Len(queue)]] = task[queue[Len(queue)]]
    BY <1>1, <1>2, <1>3, LastQueued DEF At
  <2> QED
    BY <2>1, <2>2, <1>1, <1>2, <1>9 DEF ChosenInv
<1> QED
  BY <1>4, <1>5, <1>6, <1>7, <1>8, <1>11, <1>12, <1>13, <1>14, <1>15, <1>16 DEF ChatInv

LEMMA ListedFirstKeeps ==
  ASSUME ChatInv, NEW t \in Tasks, ListedFirst(t) PROVE ChatInv'
<1>1. /\ PageTyped /\ (\A u \in Tasks : Placed(u)) /\ BootInv /\ StoredInv /\ QueueInv
      /\ OneTurn /\ TurnsRight /\ EmptyInv /\ UnaskedInv /\ ProviderInv /\ ShownInv
      /\ ChosenInv
  BY DEF ChatInv
<1>2. /\ task[t].kind = "refresh" /\ At(t, "list") /\ task[t].first /\ sessions' = stored
      /\ UNCHANGED <<providerConfig, session, renamingSessionId, effectDue, booting>>
      /\ UNCHANGED <<ready, provider, active, stored>>
      /\ UNCHANGED <<presses, faults, unasked, hasty, chosen>>
  BY DEF ListedFirst, needsSession, counted
<1>3. /\ \A u \in Tasks : u # t => task'[u] = task[u]
      /\ task' \in [Tasks -> Function]
      /\ task'[t].kind = task[t].kind /\ task'[t].first = task[t].first
      /\ task'[t].turn = task[t].turn
      /\ IF stored = << >>
         THEN queue' = queue /\ task'[t].at = "create" /\ task'[t].id = task[t].id
         ELSE queue' = Append(queue, t) /\ task'[t].at = "load"
              /\ task'[t].id \in 1 .. Len(stored)
  <2>1. CASE stored = << >>
    <3>1. MoveTo(t, "create") /\ queue' = queue
      BY <2>1 DEF ListedFirst
    <3> QED
      BY <2>1, <3>1, <1>1, Moved
  <2>2. CASE stored # << >>
    <3>1. /\ task' = [task EXCEPT ![t].at = "load", ![t].id = Head(stored).id]
          /\ queue' = Append(queue, t)
      BY <2>2 DEF ListedFirst
    <3>2. Head(stored).id \in 1 .. Len(stored) /\ Head(stored).id \in Nat
      <4>1. PICK n \in Nat : n = Len(stored)
        BY <1>1 DEF PageTyped
      <4>2. 1 \in 1 .. Len(stored) /\ Head(stored) = stored[1]
        BY <2>2, <4>1, <1>1 DEF PageTyped
      <4>3. stored[1].id \in 1 .. Len(stored)
        BY <4>2, <1>1 DEF StoredInv, Numbered
      <4> QED
        BY <4>1, <4>2, <4>3
    <3>3. PICK s \in Nat : s = Head(stored).id
      BY <3>2
    <3>4. task' = [task EXCEPT ![t].at = "load", ![t].id = s]
      BY <3>1, <3>3
    <3>5. /\ \A u \in Tasks : u # t => task'[u] = task[u]
          /\ task' \in [Tasks -> Function] /\ task'[t].at = "load"
          /\ task'[t].kind = task[t].kind /\ task'[t].id = s
          /\ task'[t].first = task[t].first /\ task'[t].turn = task[t].turn
      BY <3>4, <1>1, MovedTo
    <3> QED
      BY <2>2, <3>1, <3>2, <3>3, <3>5
  <2> QED
    BY <2>1, <2>2
<1>4. PageTyped'
  BY <1>1, <1>2, <1>3 DEF PageTyped
<1>5. ASSUME NEW u \in Tasks PROVE Placed(u)'
  <2>1. CASE u = t
    BY <2>1, <1>2, <1>3 DEF Placed, StepsOf, At
  <2>2. CASE u # t
    BY <2>2, <1>1, <1>2, <1>3 DEF Placed, At, EmptyInv
  <2> QED
    BY <2>1, <2>2
<1>6. BootInv'
  BY <1>1, <1>2, <1>3 DEF BootInv, At
<1>7. StoredInv'
  BY <1>1, <1>2 DEF StoredInv, Numbered
<1>8. QueueInv'
  <2>1. CASE stored = << >>
    <3>1. queue' = queue /\ \A u \in Tasks : At(u, "load")' <=> At(u, "load")
      BY <2>1, <1>2, <1>3 DEF At
    <3> QED
      BY <3>1, <1>1 DEF QueueInv
  <2>2. CASE stored # << >>
    <3>1. /\ queue' = Append(queue, t) /\ ~At(t, "load")
          /\ \A u \in Tasks : At(u, "load")' <=> u = t \/ At(u, "load")
      BY <2>2, <1>2, <1>3 DEF At
    <3> QED
      BY <3>1, <1>1, AppendedQueue
  <2> QED
    BY <2>1, <2>2
<1>9. \A u \in Tasks : task'[u].kind = task[u].kind /\ task'[u].first = task[u].first
                       /\ task'[u].turn = task[u].turn
  BY <1>3
<1>10. OneTurn' /\ TurnsRight' /\ EmptyInv' /\ ProviderInv'
  BY <1>1, <1>2, <1>9 DEF OneTurn, TurnsRight, EmptyInv, ProviderInv
<1>11. UnaskedInv'
  <2>1. CASE stored = << >>
    <3>1. \A u \in Tasks : CreatesUnasked(u)' => task[u].first
      BY <1>1, <1>2, <1>3 DEF CreatesUnasked, At, Placed
    <3>2. unasked = {}
      BY <2>1, <1>1 DEF EmptyInv
    <3> QED
      BY <2>1, <3>1, <3>2, <1>1, <1>2, <1>9 DEF UnaskedInv
  <2>2. CASE stored # << >>
    <3>1. \A u \in Tasks : CreatesUnasked(u)' => CreatesUnasked(u)
      BY <2>2, <1>3 DEF CreatesUnasked, At
    <3> QED
      BY <2>2, <3>1, <1>1, <1>2 DEF UnaskedInv
  <2> QED
    BY <2>1, <2>2
<1>12. ListInv'
  BY <1>2 DEF ListInv
<1>13. ShownInv' /\ ChosenInv'
  BY <1>1, <1>2, <1>9 DEF ShownInv, ChosenInv, Creates
<1> QED
  BY <1>4, <1>5, <1>6, <1>7, <1>8, <1>10, <1>11, <1>12, <1>13 DEF ChatInv

LEMMA RowInsertedKeeps ==
  ASSUME ChatInv, NEW t \in Tasks, RowInserted(t) PROVE ChatInv'
<1>1. /\ PageTyped /\ (\A u \in Tasks : Placed(u)) /\ BootInv /\ StoredInv /\ QueueInv
      /\ OneTurn /\ TurnsRight /\ EmptyInv /\ UnaskedInv /\ ProviderInv /\ ShownInv
      /\ ChosenInv
  BY DEF ChatInv
<1>2. PICK n \in Nat : n = Len(stored)
  BY <1>1 DEF PageTyped
<1>3. /\ At(t, "create")
      /\ stored' = <<Summary(n + 1, "NewSession")>> \o stored
      /\ task' = [task EXCEPT ![t].at = "select", ![t].id = n + 1]
      /\ unasked' = IF task[t].kind = "refresh" THEN unasked \union {n + 1} ELSE unasked
      /\ UNCHANGED <<providerConfig, session, sessions, renamingSessionId, effectDue>>
      /\ UNCHANGED <<booting, ready, provider, active, queue>>
      /\ UNCHANGED <<presses, faults, hasty, chosen>>
  BY <1>2 DEF RowInserted, page
<1>4. /\ \A u \in Tasks : u # t => task'[u] = task[u]
      /\ task' \in [Tasks -> Function] /\ task'[t].at = "select"
      /\ task'[t].kind = task[t].kind /\ task'[t].id = n + 1
      /\ task'[t].first = task[t].first /\ task'[t].turn = task[t].turn
  <2>1. PICK s \in Nat : s = n + 1
    OBVIOUS
  <2>2. task' = [task EXCEPT ![t].at = "select", ![t].id = s]
    BY <2>1, <1>3
  <2>3. /\ \A u \in Tasks : u # t => task'[u] = task[u]
        /\ task' \in [Tasks -> Function] /\ task'[t].at = "select"
        /\ task'[t].kind = task[t].kind /\ task'[t].id = s
        /\ task'[t].first = task[t].first /\ task'[t].turn = task[t].turn
    BY <2>2, <1>1, MovedTo
  <2> QED
    BY <2>1, <2>3
<1>5. /\ stored' \in Seq(Listed) /\ Len(stored') = n + 1 /\ Numbered(stored')
      /\ stored' # << >>
  <2>1. PICK row : row = Summary(n + 1, "NewSession")
    OBVIOUS
  <2>2. row \in Listed /\ row.id = n + 1
    BY <2>1 DEF Summary, Listed
  <2>3. stored' = <<row>> \o stored
    BY <2>1, <1>3
  <2>4. /\ stored' \in Seq(Listed) /\ Len(stored') = n + 1 /\ Numbered(stored')
    BY <2>2, <2>3, <1>1, <1>2, InsertedProps DEF PageTyped, StoredInv
  <2> QED
    BY <2>4
<1>6. PageTyped'
  BY <1>1, <1>3, <1>4, <1>5 DEF PageTyped
<1>7. \A s : s \in 1 .. Len(stored) => s \in 1 .. n + 1
  BY <1>2
<1>8. ASSUME NEW u \in Tasks PROVE Placed(u)'
  <2>1. CASE u = t
    BY <2>1, <1>1, <1>2, <1>3, <1>4, <1>5
    DEF Placed, StepsOf, At, PageTyped, Function, Kinds
  <2>2. CASE u # t
    BY <2>2, <1>1, <1>3, <1>4, <1>5, <1>7 DEF Placed, At
  <2> QED
    BY <2>1, <2>2
<1>9. BootInv'
  BY <1>1, <1>3, <1>4 DEF BootInv, At
<1>10. StoredInv'
  BY <1>1, <1>2, <1>3, <1>5 DEF StoredInv
<1>11. QueueInv'
  <2>1. \A u \in Tasks : At(u, "load")' <=> At(u, "load")
    BY <1>3, <1>4 DEF At
  <2> QED
    BY <2>1, <1>1, <1>3 DEF QueueInv
<1>12. \A u \in Tasks : task'[u].kind = task[u].kind /\ task'[u].first = task[u].first
                        /\ task'[u].turn = task[u].turn
  BY <1>4
<1>13. OneTurn' /\ TurnsRight' /\ EmptyInv' /\ ProviderInv'
  <2>1. OneTurn' /\ TurnsRight'
    BY <1>1, <1>12 DEF OneTurn, TurnsRight
  <2>2. EmptyInv'
    BY <1>5 DEF EmptyInv
  <2>3. ProviderInv'
    BY <1>1, <1>3 DEF ProviderInv
  <2> QED
    BY <2>1, <2>2, <2>3
<1>14. UnaskedInv'
  <2>1. SUFFICES ASSUME ~hasty
                 PROVE  /\ \A u, v \in Tasks : CreatesUnasked(u)' /\ CreatesUnasked(v)' => u = v
                        /\ \A u \in Tasks : CreatesUnasked(u)' => unasked' = {}
                        /\ \A s, r \in unasked' : s = r
    BY <1>3, <1>5 DEF UnaskedInv
  <2>2. ~CreatesUnasked(t)'
    BY <1>4 DEF CreatesUnasked, At
  <2>3. \A u \in Tasks : CreatesUnasked(u)' => CreatesUnasked(u) /\ u # t
    BY <2>2, <1>4 DEF CreatesUnasked, At
  <2>4. CASE task[t].kind = "refresh"
    <3>1. CreatesUnasked(t)
      BY <2>4, <1>3 DEF CreatesUnasked
    <3>2. unasked' = {n + 1}
      BY <2>1, <2>4, <3>1, <1>1, <1>3 DEF UnaskedInv
    <3>3. \A u \in Tasks : ~CreatesUnasked(u)'
      BY <2>1, <2>3, <3>1, <1>1 DEF UnaskedInv
    <3> QED
      BY <3>2, <3>3
  <2>5. CASE task[t].kind # "refresh"
    <3>1. unasked' = unasked
      BY <2>5, <1>3
    <3> QED
      BY <2>1, <2>3, <3>1, <1>1 DEF UnaskedInv
  <2> QED
    BY <2>4, <2>5
<1>15. ListInv'
  <2>1. task'[t] # Idle
    BY <1>4 DEF Idle
  <2> QED
    BY <2>1 DEF ListInv, Quiet, Busy
<1>16. ShownInv'
  BY <1>1, <1>3, <1>12 DEF ShownInv, Creates
<1>17. ChosenInv'
  <2>1. Creates(t)
    BY <1>1, <1>3
    DEF Creates, Placed, StepsOf, At, PageTyped, Function, Kinds
  <2> QED
    BY <2>1, <1>1, <1>3 DEF ChosenInv
<1> QED
  BY <1>6, <1>8, <1>9, <1>10, <1>11, <1>13, <1>14, <1>15, <1>16, <1>17 DEF ChatInv

\* The session that was created or restored is shown.
LEMMA CreatedKeeps ==
  ASSUME ChatInv, NEW t \in Tasks, Created(t) PROVE ChatInv'
<1>1. /\ PageTyped /\ (\A u \in Tasks : Placed(u)) /\ BootInv /\ StoredInv /\ QueueInv
      /\ OneTurn /\ TurnsRight /\ EmptyInv /\ UnaskedInv /\ ProviderInv /\ ShownInv
      /\ ChosenInv
  BY DEF ChatInv
<1>2. /\ At(t, "select") /\ active' = task[t].id /\ session' = task[t].id /\ effectDue' = TRUE
      /\ UNCHANGED <<providerConfig, sessions, renamingSessionId, booting>>
      /\ UNCHANGED <<ready, provider, queue, stored>>
      /\ UNCHANGED <<presses, faults, unasked, hasty, chosen>>
  BY DEF Created, show, counted
<1>3. /\ \A u \in Tasks : u # t => task'[u] = task[u]
      /\ task' \in [Tasks -> Function] /\ task'[t].at = "relist"
      /\ task'[t].kind = task[t].kind /\ task'[t].id = task[t].id
      /\ task'[t].first = task[t].first /\ task'[t].turn = task[t].turn
  BY <1>1, Moved DEF Created
<1>4. task[t].id \in 1 .. Len(stored) /\ task[t].id \in Nat \ {0} /\ stored # << >>
  <2>1. task[t].id \in 1 .. Len(stored)
    BY <1>1, <1>2 DEF Placed, At
  <2>2. Len(stored) \in Nat
    BY <1>1 DEF PageTyped
  <2> QED
    BY <2>1, <2>2
<1>5. PageTyped'
  BY <1>1, <1>2, <1>3, <1>4 DEF PageTyped
<1>6. ASSUME NEW u \in Tasks PROVE Placed(u)'
  <2>1. CASE u = t
    BY <2>1, <1>1, <1>2, <1>3, <1>4
    DEF Placed, StepsOf, At, NoSession, PageTyped, Function, Kinds
  <2>2. CASE u # t
    BY <2>2, <1>1, <1>2, <1>3, <1>4 DEF Placed, At, NoSession
  <2> QED
    BY <2>1, <2>2
<1>7. BootInv'
  BY <1>1, <1>2, <1>3 DEF BootInv, At
<1>8. StoredInv'
  <2>1. task[t].id \in 0 .. Len(stored)
    BY <1>1, <1>4 DEF PageTyped
  <2> QED
    BY <2>1, <1>1, <1>2 DEF StoredInv, Numbered
<1>9. QueueInv'
  <2>1. \A u \in Tasks : At(u, "load")' <=> At(u, "load")
    BY <1>2, <1>3 DEF At
  <2> QED
    BY <2>1, <1>1, <1>2 DEF QueueInv
<1>10. \A u \in Tasks : task'[u].kind = task[u].kind /\ task'[u].first = task[u].first
                        /\ task'[u].turn = task[u].turn
  BY <1>3
<1>11. OneTurn' /\ TurnsRight' /\ EmptyInv' /\ ProviderInv'
  BY <1>1, <1>2, <1>4, <1>10 DEF OneTurn, TurnsRight, EmptyInv, ProviderInv
<1>12. UnaskedInv'
  <2>1. \A u \in Tasks : CreatesUnasked(u)' => CreatesUnasked(u)
    BY <1>3 DEF CreatesUnasked, At
  <2> QED
    BY <2>1, <1>1, <1>2, <1>4 DEF UnaskedInv
<1>13. ListInv' /\ ShownInv'
  BY <1>2, <1>4 DEF ListInv, ShownInv, Quiet, NoSession
<1>14. ChosenInv'
  <2>1. Creates(t)
    BY <1>1, <1>2 DEF Creates, Placed, StepsOf, At, PageTyped, Function, Kinds
  <2> QED
    BY <2>1, <1>1, <1>2 DEF ChosenInv
<1> QED
  BY <1>5, <1>6, <1>7, <1>8, <1>9, <1>11, <1>12, <1>13, <1>14 DEF ChatInv

\* The first restore of the queue is answered, well or not.
LEMMA QueueShortened ==
  ASSUME QueueInv, NEW t \in Tasks, At(t, "load"), Head(queue) = t, queue' = Tail(queue),
         \A u \in Tasks : u # t => (At(u, "load")' <=> At(u, "load")),
         ~At(t, "load")'
  PROVE  /\ QueueInv' /\ Len(queue) \in Nat \ {0}
         /\ queue' = << >> <=> Len(queue) = 1
         /\ Len(queue) # 1 => queue'[Len(queue')] = queue[Len(queue)]
                              /\ queue[Len(queue)] \in Tasks /\ queue[Len(queue)] # t
         /\ Len(queue) = 1 => queue[Len(queue)] = t
<1>1. queue \in Seq(Tasks)
  BY DEF QueueInv
<1>2. PICK n \in Nat : n = Len(queue)
  BY <1>1
<1>3. n # 0
  BY <1>2 DEF QueueInv
<1>4. queue[1] = t
  BY <1>1, <1>2, <1>3
<1>5. /\ queue' \in Seq(Tasks) /\ Len(queue') = n - 1
      /\ \A k \in 1 .. n - 1 : queue'[k] = queue[k + 1]
  BY <1>1, <1>2, <1>3
<1>6. \A j, k \in 1 .. n : queue[j] = queue[k] => j = k
  BY <1>2 DEF QueueInv
<1>7. \A j, k \in 1 .. n - 1 : queue'[j] = queue'[k] => j = k
  <2> TAKE j, k \in 1 .. n - 1
  <2> HAVE queue'[j] = queue'[k]
  <2>1. queue[j + 1] = queue[k + 1] /\ j + 1 \in 1 .. n /\ k + 1 \in 1 .. n
    BY <1>2, <1>5
  <2>2. j + 1 = k + 1
    BY <2>1, <1>6, Zenon
  <2> QED
    BY <2>2, <1>2
<1>8. \A k \in 1 .. n - 1 : queue'[k] # t
  BY <1>2, <1>3, <1>4, <1>5, <1>6
<1>9. \A u \in Tasks : At(u, "load") <=> \E k \in 1 .. n : queue[k] = u
  BY <1>2 DEF QueueInv
<1>10. \A u \in Tasks : At(u, "load")' <=> \E k \in 1 .. n - 1 : queue'[k] = u
  <2> TAKE u \in Tasks
  <2>1. CASE u = t
    BY <2>1, <1>8
  <2>2. ASSUME u # t, NEW k \in 1 .. n, queue[k] = u
        PROVE  k - 1 \in 1 .. n - 1 /\ queue'[k - 1] = u
    <3>1. k # 1
      BY <2>2, <1>4
    <3>2. k - 1 \in 1 .. n - 1 /\ (k - 1) + 1 = k
      BY <3>1, <1>2
    <3> QED
      BY <3>2, <2>2, <1>5
  <2>3. ASSUME NEW k \in 1 .. n - 1, queue'[k] = u
        PROVE  k + 1 \in 1 .. n /\ queue[k + 1] = u
    BY <2>3, <1>2, <1>5
  <2> QED
    BY <2>1, <2>2, <2>3, <1>9
<1>11. QueueInv'
  BY <1>5, <1>7, <1>10 DEF QueueInv
<1>12. n # 1 => queue'[n - 1] = queue[n] /\ queue[n] \in Tasks /\ queue[n] # t
  <2>1. SUFFICES ASSUME n # 1 PROVE queue'[n - 1] = queue[n] /\ queue[n] \in Tasks /\ queue[n] # t
    OBVIOUS
  <2>2. n - 1 \in 1 .. n - 1 /\ (n - 1) + 1 = n /\ n \in 1 .. n /\ 1 \in 1 .. n
    BY <2>1, <1>2, <1>3
  <2>3. queue[n] # queue[1]
    BY <2>1, <2>2, <1>6
  <2>4. queue'[n - 1] = queue[n]
    BY <2>2, <1>5
  <2>5. queue[n] \in Tasks
    BY <2>2, <1>1, <1>2
  <2> QED
    BY <2>3, <2>4, <2>5, <1>4
<1>13. queue' = << >> <=> n = 1
  <2>1. queue' = << >> <=> Len(queue') = 0
    BY <1>5, EmptySeq
  <2> QED
    BY <2>1, <1>2, <1>3, <1>5
<1> QED
  BY <1>2, <1>3, <1>4, <1>5, <1>11, <1>12, <1>13

LEMMA LoadedKeeps ==
  ASSUME ChatInv, NEW t \in Tasks, Loaded(t) PROVE ChatInv'
<1>1. /\ PageTyped /\ (\A u \in Tasks : Placed(u)) /\ BootInv /\ StoredInv /\ QueueInv
      /\ OneTurn /\ TurnsRight /\ EmptyInv /\ UnaskedInv /\ ProviderInv /\ ShownInv
      /\ ChosenInv
  BY DEF ChatInv
<1>2. /\ At(t, "load") /\ Head(queue) = t /\ queue' = Tail(queue)
      /\ active' = task[t].id /\ session' = task[t].id /\ effectDue' = TRUE
      /\ UNCHANGED <<providerConfig, sessions, renamingSessionId, booting>>
      /\ UNCHANGED <<ready, provider, stored>>
      /\ UNCHANGED <<presses, faults, unasked, hasty, chosen>>
  BY DEF Loaded, show, counted
<1>3. /\ \A u \in Tasks : u # t => task'[u] = task[u]
      /\ task' \in [Tasks -> Function]
      /\ \/ task'[t] = Idle
         \/ /\ task'[t].at = "relist" /\ task[t].kind = "refresh"
            /\ task'[t].kind = task[t].kind /\ task'[t].id = task[t].id
            /\ task'[t].first = task[t].first /\ task'[t].turn = task[t].turn
  <2>1. CASE task[t].kind = "refresh"
    <3>1. MoveTo(t, "relist")
      BY <2>1 DEF Loaded
    <3> QED
      BY <2>1, <3>1, <1>1, Moved
  <2>2. CASE task[t].kind # "refresh"
    <3>1. Finish(t)
      BY <2>2 DEF Loaded
    <3> QED
      BY <3>1, <1>1, Finished
  <2> QED
    BY <2>1, <2>2
<1>4. task[t].id \in 1 .. Len(stored) /\ task[t].id \in Nat \ {0} /\ stored # << >>
  <2>1. task[t].id \in 1 .. Len(stored)
    BY <1>1, <1>2 DEF Placed, At
  <2>2. Len(stored) \in Nat
    BY <1>1 DEF PageTyped
  <2> QED
    BY <2>1, <2>2
<1>5. /\ QueueInv' /\ Len(queue) \in Nat \ {0}
      /\ queue' = << >> <=> Len(queue) = 1
      /\ Len(queue) # 1 => queue'[Len(queue')] = queue[Len(queue)]
                           /\ queue[Len(queue)] \in Tasks /\ queue[Len(queue)] # t
      /\ Len(queue) = 1 => queue[Len(queue)] = t
  <2>1. ~At(t, "load")' /\ \A u \in Tasks : u # t => (At(u, "load")' <=> At(u, "load"))
    BY <1>3 DEF At, Idle
  <2> QED
    BY <2>1, <1>1, <1>2, QueueShortened
<1>6. PageTyped'
  BY <1>1, <1>2, <1>3, <1>4 DEF PageTyped
<1>7. ASSUME NEW u \in Tasks PROVE Placed(u)'
  <2>1. CASE u = t
    BY <2>1, <1>1, <1>2, <1>3, <1>4 DEF Placed, StepsOf, At, NoSession, Idle
  <2>2. CASE u # t
    BY <2>2, <1>1, <1>2, <1>3, <1>4 DEF Placed, At, NoSession
  <2> QED
    BY <2>1, <2>2
<1>8. BootInv'
  BY <1>1, <1>2, <1>3 DEF BootInv, At, Idle
<1>9. StoredInv'
  <2>1. task[t].id \in 0 .. Len(stored)
    BY <1>1, <1>4 DEF PageTyped
  <2> QED
    BY <2>1, <1>1, <1>2 DEF StoredInv, Numbered
<1>10. \A u \in Tasks : task'[u].kind # "none" => task'[u].kind = task[u].kind
  BY <1>3 DEF Idle
<1>11. \A u \in Tasks : task'[u].first => task[u].first
  BY <1>3 DEF Idle
<1>12. OneTurn' /\ EmptyInv' /\ ProviderInv'
  BY <1>1, <1>2, <1>4, <1>10 DEF OneTurn, EmptyInv, ProviderInv
<1>13. TurnsRight'
  BY <1>1, <1>3 DEF TurnsRight, Idle, NoTurn
<1>14. UnaskedInv'
  <2>1. \A u \in Tasks : CreatesUnasked(u)' => CreatesUnasked(u)
    BY <1>3 DEF CreatesUnasked, At, Idle
  <2> QED
    BY <2>1, <1>1, <1>2, <1>4 DEF UnaskedInv
<1>15. ListInv' /\ ShownInv'
  BY <1>2, <1>4 DEF ListInv, ShownInv, Quiet, NoSession
<1>16. ChosenInv'
  <2>1. SUFFICES ASSUME faults = 0, chosen # NoSession
                 PROVE  /\ \A u \in Tasks : ~Creates(u)' /\ task'[u].kind # "turn"
                        /\ queue' = << >> => session' = chosen
                        /\ queue' # << >> => task'[queue'[Len(queue')]].id = chosen
    BY <1>2, <1>4 DEF ChosenInv, NoSession
  <2>2. \A u \in Tasks : ~Creates(u) /\ task[u].kind # "turn"
    BY <2>1, <1>1 DEF ChosenInv
  <2>3. \A u \in Tasks : ~Creates(u)' /\ task'[u].kind # "turn"
    BY <2>2, <1>3 DEF Creates, Idle
  <2>4. task[queue[Len(queue)]].id = chosen
    <3>1. queue # << >>
      BY <1>5
    <3> QED
      BY <2>1, <3>1, <1>1 DEF ChosenInv
  <2>5. CASE Len(queue) = 1
    BY <2>3, <2>4, <2>5, <1>2, <1>5
  <2>6. CASE Len(queue) # 1
    BY <2>3, <2>4, <2>6, <1>3, <1>5
  <2> QED
    BY <2>5, <2>6
<1> QED
  BY <1>5, <1>6, <1>7, <1>8, <1>9, <1>12, <1>13, <1>14, <1>15, <1>16 DEF ChatInv

\* A row is touched: what is known of the sessions stays so.
LEMMA TouchedKeeps ==
  ASSUME ChatInv, NEW s \in 1 .. Len(stored), NEW name \in {"NewSession", "renamed", "userText"},
         stored' = Touched(s, name)
  PROVE  /\ stored' \in Seq(Listed) /\ Len(stored') = Len(stored) /\ Numbered(stored')
         /\ stored # << >> /\ stored' # << >>
<1>1. stored \in Seq(Listed) /\ Numbered(stored)
  BY DEF ChatInv, PageTyped, StoredInv
<1>2. /\ stored' \in Seq(Listed) /\ Len(stored') = Len(stored) /\ Numbered(stored')
  BY <1>1, TouchedProps
<1>3. Len(stored) # 0
  BY <1>1
<1> QED
  BY <1>1, <1>2, <1>3, EmptySeq

LEMMA RenamedKeeps ==
  ASSUME ChatInv, NEW t \in Tasks, Renamed(t) PROVE ChatInv'
<1>1. /\ PageTyped /\ (\A u \in Tasks : Placed(u)) /\ BootInv /\ StoredInv /\ QueueInv
      /\ OneTurn /\ TurnsRight /\ EmptyInv /\ UnaskedInv /\ ProviderInv /\ ShownInv
      /\ ChosenInv
  BY DEF ChatInv
<1>2. /\ At(t, "rename") /\ active' = active /\ session' = active /\ effectDue' = TRUE
      /\ UNCHANGED <<providerConfig, sessions, renamingSessionId, booting>>
      /\ UNCHANGED <<ready, provider, queue>>
      /\ UNCHANGED <<presses, faults, unasked, hasty, chosen>>
  BY DEF Renamed, show, counted
<1>3. /\ \A u \in Tasks : u # t => task'[u] = task[u]
      /\ task' \in [Tasks -> Function] /\ task'[t].at = "relist"
      /\ task'[t].kind = task[t].kind /\ task'[t].id = task[t].id
      /\ task'[t].first = task[t].first /\ task'[t].turn = task[t].turn
  BY <1>1, Moved DEF Renamed
<1>4. task[t].kind = "rename" /\ task[t].id \in 1 .. Len(stored) /\ session' = session
  BY <1>1, <1>2 DEF Placed, StepsOf, At, StoredInv, PageTyped, Function, Kinds
<1>5. /\ stored' \in Seq(Listed) /\ Len(stored') = Len(stored) /\ Numbered(stored')
      /\ stored # << >> /\ stored' # << >>
  BY <1>4, TouchedKeeps DEF Renamed
<1>6. PageTyped'
  BY <1>1, <1>2, <1>3, <1>4, <1>5 DEF PageTyped
<1>7. ASSUME NEW u \in Tasks PROVE Placed(u)'
  <2>1. CASE u = t
    BY <2>1, <1>1, <1>2, <1>3, <1>4 DEF Placed, StepsOf, At
  <2>2. CASE u # t
    BY <2>2, <1>1, <1>2, <1>3, <1>4, <1>5 DEF Placed, At
  <2> QED
    BY <2>1, <2>2
<1>8. BootInv'
  BY <1>1, <1>2, <1>3, <1>4 DEF BootInv, At
<1>9. StoredInv'
  BY <1>1, <1>2, <1>4, <1>5 DEF StoredInv
<1>10. QueueInv'
  <2>1. \A u \in Tasks : At(u, "load")' <=> At(u, "load")
    BY <1>2, <1>3 DEF At
  <2> QED
    BY <2>1, <1>1, <1>2 DEF QueueInv
<1>11. \A u \in Tasks : task'[u].kind = task[u].kind /\ task'[u].first = task[u].first
                        /\ task'[u].turn = task[u].turn /\ task'[u].id = task[u].id
  BY <1>3
<1>12. OneTurn' /\ TurnsRight' /\ EmptyInv' /\ ProviderInv'
  BY <1>1, <1>2, <1>5, <1>11 DEF OneTurn, TurnsRight, EmptyInv, ProviderInv
<1>13. UnaskedInv'
  <2>1. \A u \in Tasks : CreatesUnasked(u)' => CreatesUnasked(u)
    BY <1>3 DEF CreatesUnasked, At
  <2> QED
    BY <2>1, <1>1, <1>2, <1>5 DEF UnaskedInv
<1>14. ListInv' /\ ShownInv'
  BY <1>1, <1>2, <1>4, <1>11 DEF ListInv, ShownInv, Quiet, Creates
<1>15. ChosenInv'
  <2>1. queue # << >> => task'[queue[Len(queue)]].id = task[queue[Len(queue)]].id
    BY <1>1, <1>11, LastQueued
  <2> QED
    BY <2>1, <1>1, <1>2, <1>4, <1>11 DEF ChosenInv, Creates
<1> QED
  BY <1>6, <1>7, <1>8, <1>9, <1>10, <1>12, <1>13, <1>14, <1>15 DEF ChatInv

LEMMA TurnDoneKeeps ==
  ASSUME ChatInv, NEW t \in Tasks, TurnDone(t) PROVE ChatInv'
<1>1. /\ PageTyped /\ (\A u \in Tasks : Placed(u)) /\ BootInv /\ StoredInv /\ QueueInv
      /\ OneTurn /\ TurnsRight /\ EmptyInv /\ UnaskedInv /\ ProviderInv /\ ShownInv
      /\ ChosenInv
  BY DEF ChatInv
<1>2. /\ At(t, "turn") /\ active' = task[t].id /\ session' = task[t].id /\ effectDue' = TRUE
      /\ UNCHANGED <<providerConfig, sessions, renamingSessionId, booting>>
      /\ UNCHANGED <<ready, provider, queue>>
      /\ UNCHANGED <<presses, faults, unasked, hasty, chosen>>
  BY DEF TurnDone, show, counted
<1>3. /\ \A u \in Tasks : u # t => task'[u] = task[u]
      /\ task' \in [Tasks -> Function] /\ task'[t].at = "relist"
      /\ task'[t].kind = task[t].kind /\ task'[t].id = task[t].id
      /\ task'[t].first = task[t].first /\ task'[t].turn = task[t].turn
  BY <1>1, Moved DEF TurnDone
<1>4. task[t].kind = "turn" /\ task[t].id \in 1 .. Len(stored) /\ task[t].id \in Nat \ {0}
  <2>1. task[t].kind = "turn" /\ task[t].id \in 1 .. Len(stored)
    BY <1>1, <1>2 DEF Placed, StepsOf, At, PageTyped, Function, Kinds
  <2>2. Len(stored) \in Nat
    BY <1>1 DEF PageTyped
  <2> QED
    BY <2>1, <2>2
<1>5. /\ stored' \in Seq(Listed) /\ Len(stored') = Len(stored) /\ Numbered(stored')
      /\ stored # << >> /\ stored' # << >>
  <2>1. PICK name \in {titleOf(task[t].id), "userText"} : stored' = Touched(task[t].id, name)
    BY DEF TurnDone
  <2>2. name \in {"NewSession", "renamed", "userText"}
    BY <1>1, <1>4, TouchedProps DEF PageTyped, StoredInv
  <2> QED
    BY <2>1, <2>2, <1>4, TouchedKeeps
<1>6. PageTyped'
  BY <1>1, <1>2, <1>3, <1>4, <1>5 DEF PageTyped
<1>7. ASSUME NEW u \in Tasks PROVE Placed(u)'
  <2>1. CASE u = t
    BY <2>1, <1>1, <1>2, <1>3, <1>4 DEF Placed, StepsOf, At, NoSession
  <2>2. CASE u # t
    BY <2>2, <1>1, <1>2, <1>3, <1>4, <1>5 DEF Placed, At, NoSession
  <2> QED
    BY <2>1, <2>2
<1>8. BootInv'
  BY <1>1, <1>2, <1>3, <1>4 DEF BootInv, At
<1>9. StoredInv'
  <2>1. task[t].id \in 0 .. Len(stored)
    BY <1>1, <1>4 DEF PageTyped
  <2> QED
    BY <2>1, <1>1, <1>2, <1>5 DEF StoredInv
<1>10. QueueInv'
  <2>1. \A u \in Tasks : At(u, "load")' <=> At(u, "load")
    BY <1>2, <1>3 DEF At
  <2> QED
    BY <2>1, <1>1, <1>2 DEF QueueInv
<1>11. \A u \in Tasks : task'[u].kind = task[u].kind /\ task'[u].first = task[u].first
                        /\ task'[u].turn = task[u].turn
  BY <1>3
<1>12. OneTurn' /\ TurnsRight' /\ EmptyInv' /\ ProviderInv'
  BY <1>1, <1>2, <1>5, <1>11 DEF OneTurn, TurnsRight, EmptyInv, ProviderInv
<1>13. UnaskedInv'
  <2>1. \A u \in Tasks : CreatesUnasked(u)' => CreatesUnasked(u)
    BY <1>3 DEF CreatesUnasked, At
  <2> QED
    BY <2>1, <1>1, <1>2, <1>5 DEF UnaskedInv
<1>14. ListInv' /\ ShownInv' /\ ChosenInv'
  BY <1>1, <1>2, <1>4 DEF ListInv, ShownInv, ChosenInv, Quiet, NoSession
<1> QED
  BY <1>6, <1>7, <1>8, <1>9, <1>10, <1>12, <1>13, <1>14 DEF ChatInv

LEMMA FailsKeeps ==
  ASSUME ChatInv, NEW t \in Tasks, Fails(t) PROVE ChatInv'
<1>1. /\ PageTyped /\ (\A u \in Tasks : Placed(u)) /\ BootInv /\ StoredInv /\ QueueInv
      /\ OneTurn /\ TurnsRight /\ EmptyInv /\ UnaskedInv /\ ProviderInv
  BY DEF ChatInv
<1>2. /\ faults' = faults + 1 /\ task[t] # Idle /\ ~At(t, "boot")
      /\ queue' = IF At(t, "load") THEN Tail(queue) ELSE queue
      /\ At(t, "load") => Head(queue) = t
      /\ UNCHANGED <<providerConfig, session, sessions, renamingSessionId, effectDue>>
      /\ UNCHANGED <<booting, ready, provider, active, presses, unasked, hasty, chosen>>
  BY DEF Fails, Fault, page
<1>3. /\ \A u \in Tasks : u # t => task'[u] = task[u]
      /\ task' \in [Tasks -> Function] /\ task'[t] = Idle
  BY <1>1, Finished DEF Fails
<1>4. /\ stored' \in Seq(Listed) /\ Len(stored') = Len(stored) /\ Numbered(stored')
      /\ stored' = << >> <=> stored = << >>
  <2>1. CASE stored' = stored
    BY <2>1, <1>1 DEF PageTyped, StoredInv
  <2>2. CASE stored' # stored
    <3>1. At(t, "turn") /\ stored' = Touched(task[t].id, "userText")
      BY <2>2 DEF Fails
    <3>2. task[t].id \in 1 .. Len(stored)
      BY <3>1, <1>1 DEF Placed, At
    <3> QED
      BY <3>1, <3>2, TouchedKeeps
  <2> QED
    BY <2>1, <2>2
<1>5. faults' \in Nat /\ faults' # 0
  BY <1>1, <1>2 DEF PageTyped
<1>6. QueueInv'
  <2>1. ~At(t, "load")' /\ \A u \in Tasks : u # t => (At(u, "load")' <=> At(u, "load"))
    BY <1>3 DEF At, Idle
  <2>2. CASE At(t, "load")
    BY <2>1, <2>2, <1>1, <1>2, QueueShortened
  <2>3. CASE ~At(t, "load")
    <3>1. \A u \in Tasks : At(u, "load")' <=> At(u, "load")
      BY <2>1, <2>3
    <3> QED
      BY <2>3, <3>1, <1>1, <1>2 DEF QueueInv
  <2> QED
    BY <2>2, <2>3
<1>7. PageTyped'
  BY <1>1, <1>2, <1>3, <1>4, <1>5 DEF PageTyped
<1>8. ASSUME NEW u \in Tasks PROVE Placed(u)'
  <2>1. CASE u = t
    BY <2>1, <1>3 DEF Placed, StepsOf, At, Idle
  <2>2. CASE u # t
    BY <2>2, <1>1, <1>2, <1>3, <1>4 DEF Placed, At
  <2> QED
    BY <2>1, <2>2
<1>9. BootInv'
  BY <1>1, <1>2, <1>3 DEF BootInv, At, Idle
<1>10. StoredInv'
  BY <1>1, <1>2, <1>4 DEF StoredInv
<1>11. \A u \in Tasks : task'[u].kind # "none" => task'[u] = task[u]
  BY <1>3 DEF Idle
<1>12. \A u \in Tasks : task'[u].first => task[u].first
  BY <1>3 DEF Idle
<1>13. OneTurn' /\ EmptyInv' /\ ProviderInv'
  BY <1>1, <1>2, <1>4, <1>11 DEF OneTurn, EmptyInv, ProviderInv
<1>14. TurnsRight'
  BY <1>1, <1>3 DEF TurnsRight, Idle, NoTurn
<1>15. UnaskedInv'
  <2>1. \A u \in Tasks : CreatesUnasked(u)' => CreatesUnasked(u)
    BY <1>11 DEF CreatesUnasked, At
  <2> QED
    BY <2>1, <1>1, <1>2, <1>4, <1>12 DEF UnaskedInv
<1>16. ListInv' /\ ShownInv' /\ ChosenInv'
  BY <1>5 DEF ListInv, ShownInv, ChosenInv
<1> QED
  BY <1>6, <1>7, <1>8, <1>9, <1>10, <1>13, <1>14, <1>15, <1>16 DEF ChatInv

(***************************************************************************)
(* The invariant holds of the initial states, and every step keeps it.     *)
(***************************************************************************)
LEMMA InitChat == Init => ChatInv
<1> SUFFICES ASSUME Init PROVE ChatInv
  OBVIOUS
<1>1. /\ providerConfig \in {0, 1} /\ effectDue = (providerConfig # 0)
      /\ session = 0 /\ sessions = << >> /\ renamingSessionId = 0
      /\ booting = FALSE /\ ready = FALSE /\ provider = 0 /\ active = 0 /\ queue = << >>
      /\ presses = 0 /\ faults = 0 /\ unasked = {} /\ hasty = FALSE /\ chosen = 0
  BY DEF Init, NoSession
<1>2. task \in [Tasks -> Function] /\ \A t \in Tasks : task[t] = Idle
  BY IdleTyped DEF Init
<1>3. stored \in Seq(Listed) /\ Numbered(stored)
  <2>1. PICK two, one : two = Summary(2, "NewSession") /\ one = Summary(1, "NewSession")
    OBVIOUS
  <2>2. two \in Listed /\ one \in Listed /\ two.id = 2 /\ one.id = 1
    BY <2>1 DEF Summary, Listed
  <2>3. stored = << >> \/ stored = <<two, one>>
    BY <2>1 DEF Init
  <2>4. CASE stored = << >>
    BY <2>4 DEF Numbered
  <2>5. CASE stored = <<two, one>>
    <3>1. stored \in Seq(Listed) /\ Len(stored) = 2 /\ stored[1] = two /\ stored[2] = one
      BY <2>2, <2>5
    <3>2. \A k \in 1 .. 2 : k = 1 \/ k = 2
      OBVIOUS
    <3>3. \A k \in 1 .. 2 : stored[k].id = 3 - k
      BY <2>2, <3>1, <3>2
    <3>4. \A q \in 1 .. 2 : 3 - q \in 1 .. 2 /\ stored[3 - q].id = q
      BY <2>2, <3>1, <3>2
    <3>5. Numbered(stored)
      <4>1. PICK n \in Nat : n = 2
        OBVIOUS
      <4>2. \A k \in 1 .. n : stored[k].id \in 1 .. n
        BY <3>3, <4>1
      <4>3. \A j, k \in 1 .. n : stored[j].id = stored[k].id => j = k
        BY <3>3, <4>1
      <4>4. \A q \in 1 .. n : \E k \in 1 .. n : stored[k].id = q
        BY <3>4, <4>1
      <4> QED
        BY <3>1, <4>1, <4>2, <4>3, <4>4, NumberedRows
    <3> QED
      BY <3>1, <3>5
  <2> QED
    BY <2>3, <2>4, <2>5
<1>4. PageTyped
  <2>1. effectDue \in BOOLEAN /\ presses \in 0 .. MaxPresses
    BY <1>1, BoundsAssumption
  <2>2. sessions \in Seq(Listed)
    BY <1>1
  <2>3. providerConfig \in Nat
    BY <1>1
  <2>4. /\ provider \in Nat /\ session \in Nat /\ active \in Nat /\ renamingSessionId \in Nat
        /\ chosen \in Nat /\ faults \in Nat
    BY <1>1
  <2>5. booting \in BOOLEAN /\ ready \in BOOLEAN /\ hasty \in BOOLEAN
    BY <1>1
  <2> QED
    BY <2>1, <2>2, <2>3, <2>4, <2>5, <1>2, <1>3 DEF PageTyped
<1>5. \A t \in Tasks : Placed(t)
  BY <1>2 DEF Placed, StepsOf, At, Idle
<1>6. BootInv
  <2>1. \A t \in Tasks : ~At(t, "boot") /\ At(t, "done")
    BY <1>2 DEF At, Idle
  <2>2. effectDue => providerConfig # 0
    BY <1>1
  <2> QED
    BY <2>1, <2>2, <1>1 DEF BootInv, NoSession
<1>7. StoredInv
  <2>1. Len(stored) \in Nat
    BY <1>3
  <2> QED
    BY <2>1, <1>1, <1>3 DEF StoredInv
<1>8. QueueInv
  BY <1>1, <1>2 DEF QueueInv, At, Idle
<1>9. OneTurn /\ TurnsRight /\ EmptyInv /\ UnaskedInv
  BY <1>1, <1>2
  DEF OneTurn, TurnsRight, EmptyInv, UnaskedInv, CreatesUnasked, Idle, NoTurn, NoSession
<1>10. ProviderInv /\ ListInv /\ ShownInv /\ ChosenInv
  BY <1>1 DEF ProviderInv, ListInv, ShownInv, ChosenInv, NoSession
<1> QED
  BY <1>4, <1>5, <1>6, <1>7, <1>8, <1>9, <1>10 DEF ChatInv

LEMMA StepChat == ChatInv /\ [Next]_vars => ChatInv'
<1> SUFFICES ASSUME ChatInv, [Next]_vars PROVE ChatInv'
  OBVIOUS
<1>2. ASSUME StartAction PROVE ChatInv'
  BY <1>2, ActionsStart, StartsKeeps
<1>1. CASE User
  <2>1. renamingSessionId \in Nat
    BY DEF ChatInv, PageTyped
  <2>2. ASSUME NEW s \in Sessions, startRename(s) PROVE ChatInv'
    <3>1. renamingSessionId' \in Nat
      BY <2>2 DEF startRename, Sessions
    <3> QED
      BY <3>1, <2>2, RenameFormKeeps DEF startRename
  <2>3. CASE cancelRename
    <3>1. renamingSessionId' \in Nat
      BY <2>3 DEF cancelRename, NoSession
    <3> QED
      BY <3>1, <2>3, RenameFormKeeps DEF cancelRename
  <2> QED
    BY <1>1, <2>2, <2>3, <1>2, saveProviderConfigKeeps DEF User, StartAction
<1>3. CASE BootDone
  BY <1>3, BootDoneKeeps
<1>4. CASE BootFails
  BY <1>4, BootFailsKeeps
<1>5. ASSUME NEW t \in Tasks, Proceed(t) \/ Fails(t) PROVE ChatInv'
  BY <1>5, ListedLastKeeps, ListedFirstKeeps, RowInsertedKeeps, CreatedKeeps, LoadedKeeps,
     RenamedKeeps, TurnDoneKeeps, FailsKeeps DEF Proceed
<1>6. CASE UNCHANGED vars
  <2>1. renamingSessionId' \in Nat
    BY <1>6 DEF ChatInv, PageTyped, vars, page
  <2> QED
    BY <2>1, <1>6, RenameFormKeeps DEF vars, page
<1> QED
  BY <1>1, <1>2, <1>3, <1>4, <1>5, <1>6 DEF Next, StartAction

LEMMA AtMostOne ==
  ASSUME NEW S, \A x, y \in S : x = y
  PROVE  IsFiniteSet(S) /\ Cardinality(S) \in 0 .. 1
<1>1. CASE S = {}
  BY <1>1, FS_EmptySet
<1>2. CASE S # {}
  <2>1. PICK x \in S : TRUE
    BY <1>2
  <2>2. S = {x}
    BY <2>1
  <2> QED
    BY <2>2, FS_Singleton
<1> QED
  BY <1>1, <1>2

\* When the page has come to rest it shows what is: the session it shows is the
\* one the runtime would work on, with the provider saved last; if nothing was
\* refused, the list is the stored one and the session is the one the user
\* selected last (index.tsx:139-262).
THEOREM PageRestsOnTheTruth == Spec => []RestsOnTheTruth
<1>1. ChatInv => RestsOnTheTruth
  <2> SUFFICES ASSUME ChatInv, Quiet PROVE RestsOnTheTruth
    BY DEF RestsOnTheTruth
  <2>1. StoredInv /\ QueueInv /\ ProviderInv /\ ListInv /\ ChosenInv
    BY DEF ChatInv
  <2>2. \A t \in Tasks : ~At(t, "load")
    BY DEF Quiet, Busy, At, Idle
  <2>3. queue = << >>
    BY <2>1, <2>2, LastQueued
  <2> QED
    BY <2>1, <2>3
    DEF RestsOnTheTruth, StoredInv, ProviderInv, ListInv, ChosenInv, Quiet
<1> QED
  BY <1>1, InitChat, StepChat, PTL DEF Spec

\* A prompt goes to the session on the screen and to the provider saved last,
\* whatever else is under way; and a page that starts up undisturbed creates at
\* most one session nobody asked for (index.tsx:139-190, 264-276).
THEOREM PageActsAsShown == Spec => []ActsAsShown
<1>1. ChatInv => ActsAsShown
  <2> SUFFICES ASSUME ChatInv PROVE ActsAsShown
    OBVIOUS
  <2>1. TurnsRight /\ UnaskedInv
    BY DEF ChatInv
  <2>2. \A t \in Busy : task[t].turn.gets = task[t].turn.asked
    BY <2>1 DEF TurnsRight, Busy
  <2>3. ~hasty => Cardinality(unasked) <= 1
    BY <2>1, AtMostOne DEF UnaskedInv
  <2> QED
    BY <2>2, <2>3 DEF ActsAsShown
<1> QED
  BY <1>1, InitChat, StepChat, PTL DEF Spec

(***************************************************************************)
(* The numbers of the sessions: each press and the first effect add one at *)
(* most to the two that may be stored.                                     *)
(***************************************************************************)
LEMMA PendingFinite == IsFiniteSet(Pending) /\ Cardinality(Pending) \in Nat
<1>1. IsFiniteSet(Tasks)
  BY FS_Interval, BoundsAssumption DEF Tasks
<1>2. Pending \subseteq Tasks
  BY DEF Pending
<1> QED
  BY <1>1, <1>2, FS_Subset, FS_CardinalityType

\* How many are pending, of a set that changes by one function.
LEMMA FewerPending ==
  ASSUME NEW S, IsFiniteSet(S), NEW R, R \subseteq S
  PROVE  IsFiniteSet(R) /\ Cardinality(R) \in Nat /\ Cardinality(R) <= Cardinality(S)
BY FS_Subset, FS_CardinalityType

LEMMA OneMorePending ==
  ASSUME NEW S, IsFiniteSet(S), NEW t, NEW R, R \subseteq S \union {t}
  PROVE  Cardinality(R) <= Cardinality(S) + 1
<1>1. /\ IsFiniteSet(S \union {t})
      /\ Cardinality(S \union {t}) \in {Cardinality(S), Cardinality(S) + 1}
  BY FS_AddElement
<1>2. Cardinality(S) \in Nat
  BY FS_CardinalityType
<1>3. Cardinality(R) \in Nat /\ Cardinality(R) <= Cardinality(S \union {t})
  BY <1>1, FewerPending
<1> QED
  BY <1>1, <1>2, <1>3

LEMMA OneLessPending ==
  ASSUME NEW S, IsFiniteSet(S), NEW t \in S, NEW R, R \subseteq S \ {t}
  PROVE  Cardinality(R) <= Cardinality(S) - 1
<1>1. IsFiniteSet(S \ {t}) /\ Cardinality(S \ {t}) = Cardinality(S) - 1
  BY FS_RemoveElement
<1>2. Cardinality(S) \in Nat
  BY FS_CardinalityType
<1>3. Cardinality(R) \in Nat /\ Cardinality(R) <= Cardinality(S \ {t})
  BY <1>1, FewerPending
<1> QED
  BY <1>1, <1>2, <1>3

\* A step that makes no function pending.
LEMMA BudgetKept ==
  ASSUME ChatInv, ChatInv', Budget, presses' = presses, Len(stored') = Len(stored),
         stored' = << >> <=> stored = << >>,
         stored = << >> /\ effectDue' => effectDue,
         \A u \in Tasks : Pends(u)' => Pends(u)
  PROVE  Budget'
<1>1. Pending' \subseteq Pending
  BY DEF Pending
<1>2. PICK p, q : p = Cardinality(Pending) /\ q = Cardinality(Pending')
  OBVIOUS
<1>3. p \in Nat /\ q \in Nat /\ q <= p
  BY <1>1, <1>2, PendingFinite, FewerPending
<1>4. Due' \in {0, 1} /\ Due \in {0, 1} /\ Due' <= Due
  BY DEF Due
<1>5. Len(stored) \in Nat /\ presses \in Nat
  BY DEF ChatInv, PageTyped
<1>6. Len(stored) + p + Due <= presses + 2
  BY <1>2 DEF Budget
<1>7. Len(stored') + q + Due' <= presses' + 2
  BY <1>3, <1>4, <1>5, <1>6
<1> QED
  BY <1>2, <1>7 DEF Budget

LEMMA StartsBudget ==
  ASSUME ChatInv, Budget, NEW t, NEW kind, NEW s, Starts(t, kind, s)
  PROVE  Budget'
<1>1. /\ t \in Tasks /\ task[t] = Idle
      /\ \A u \in Tasks : u # t => task'[u] = task[u]
      /\ task'[t].kind = kind
      /\ task'[t].at = IF ready THEN Entry(kind) ELSE "boot"
  BY StartsFacts
<1>2. stored' = stored /\ presses' = IF kind = "refresh" THEN presses ELSE presses + 1
  BY DEF Starts
<1>3. \A u \in Tasks : u # t => (Pends(u)' <=> Pends(u))
  BY <1>1, <1>2 DEF Pends, At
<1>4. PICK p, q : p = Cardinality(Pending) /\ q = Cardinality(Pending')
  OBVIOUS
<1>5. p \in Nat /\ q \in Nat
  <2>1. IsFiniteSet(Pending') /\ Cardinality(Pending') \in Nat
    <3>1. IsFiniteSet(Tasks)
      BY FS_Interval, BoundsAssumption DEF Tasks
    <3>2. Pending' \subseteq Tasks
      BY DEF Pending
    <3> QED
      BY <3>1, <3>2, FewerPending
  <2> QED
    BY <2>1, <1>4, PendingFinite
<1>6. Len(stored) \in Nat /\ presses \in Nat
  BY DEF ChatInv, PageTyped
<1>7. Len(stored) + p + Due <= presses + 2
  BY <1>4 DEF Budget
<1>8. Due \in {0, 1} /\ Due' \in {0, 1}
  BY DEF Due
<1>9. q <= p + 1
  <2>1. Pending' \subseteq Pending \union {t}
    BY <1>3 DEF Pending
  <2> QED
    BY <2>1, <1>4, PendingFinite, OneMorePending
<1>10. Len(stored') + q + Due' <= presses' + 2
  <2>1. CASE kind = "refresh" /\ stored = << >>
    <3>1. effectDue /\ effectDue' = FALSE
      BY <2>1 DEF Starts
    <3>2. Due = 1 /\ Due' = 0
      BY <2>1, <3>1, <1>2 DEF Due
    <3> QED
      BY <2>1, <3>2, <1>2, <1>5, <1>6, <1>7, <1>9
  <2>2. CASE kind = "refresh" /\ stored # << >>
    <3>1. ~Pends(t)'
      BY <2>2, <1>1, <1>2 DEF Pends, At, Entry
    <3>2. Pending' \subseteq Pending
      BY <3>1, <1>3 DEF Pending
    <3>3. q <= p
      BY <3>2, <1>4, PendingFinite, FewerPending
    <3>4. Due = 0 /\ Due' = 0
      BY <2>2, <1>2 DEF Due
    <3> QED
      BY <2>2, <3>3, <3>4, <1>2, <1>5, <1>6, <1>7
  <2>3. CASE kind # "refresh"
    <3>1. effectDue' = effectDue
      BY <2>3 DEF Starts
    <3>2. Due' = Due
      BY <3>1, <1>2 DEF Due
    <3> QED
      BY <2>3, <3>2, <1>2, <1>5, <1>6, <1>7, <1>8, <1>9
  <2> QED
    BY <2>1, <2>2, <2>3
<1> QED
  BY <1>4, <1>10 DEF Budget

LEMMA RowInsertedBudget ==
  ASSUME ChatInv, ChatInv', Budget, NEW t \in Tasks, RowInserted(t) PROVE Budget'
<1>1. PageTyped /\ Placed(t) /\ PageTyped'
  BY DEF ChatInv
<1>2. PICK n \in Nat : n = Len(stored)
  BY SMTT(30), <1>1 DEF PageTyped
<1>3. /\ At(t, "create") /\ presses' = presses
      /\ stored' = <<Summary(n + 1, "NewSession")>> \o stored
      /\ task' = [task EXCEPT ![t].at = "select", ![t].id = n + 1]
  BY <1>2 DEF RowInserted
<1>4. \A u \in Tasks : u # t => task'[u] = task[u]
  BY <1>1, <1>3 DEF PageTyped
<1>5. Len(stored') = n + 1 /\ stored' # << >>
  <2>1. PICK row : row = Summary(n + 1, "NewSession")
    OBVIOUS
  <2>2. row \in Listed /\ stored' = <<row>> \o stored
    BY <2>1, <1>3 DEF Summary, Listed
  <2>3. Len(stored') = n + 1
    BY <2>2, <1>1, <1>2 DEF PageTyped
  <2> QED
    BY <2>3
<1>6. Pends(t)
  BY <1>1, <1>3 DEF Pends, Placed, StepsOf, At, PageTyped, Function, Kinds
<1>7. task'[t].at = "select" /\ task'[t] \in Function
  BY <1>1, <1>3 DEF PageTyped
<1>8. \A u \in Tasks : Pends(u)' => Pends(u) /\ u # t
  BY <1>4, <1>5, <1>7 DEF Pends, At
<1>9. PICK p, q : p = Cardinality(Pending) /\ q = Cardinality(Pending')
  OBVIOUS
<1>10. p \in Nat /\ q \in Nat /\ q <= p - 1
  <2>1. t \in Pending /\ Pending' \subseteq Pending \ {t}
    BY <1>6, <1>8 DEF Pending
  <2>2. q <= p - 1
    BY <2>1, <1>9, PendingFinite, OneLessPending
  <2>3. Pending' \subseteq Pending
    BY <2>1
  <2> QED
    BY <2>2, <2>3, <1>9, PendingFinite, FewerPending
<1>11. Due \in {0, 1} /\ Due' = 0 /\ presses \in Nat
  BY <1>1, <1>5 DEF Due, PageTyped
<1>12. n + p + Due <= presses + 2
  BY <1>2, <1>9 DEF Budget
<1>13. Len(stored') + q + Due' <= presses' + 2
  BY <1>3, <1>5, <1>10, <1>11, <1>12
<1> QED
  BY <1>9, <1>13 DEF Budget

LEMMA saveProviderConfigBudget ==
  ASSUME ChatInv, Budget, saveProviderConfig PROVE Budget'
<1>1. stored' = stored /\ task' = task /\ presses' = presses + 1
  BY DEF saveProviderConfig, runtime, Press
<1>2. Pending' = Pending
  BY <1>1 DEF Pending, Pends, At
<1>3. Due \in {0, 1} /\ Due' \in {0, 1}
  BY DEF Due
<1>4. PICK p : p = Cardinality(Pending)
  OBVIOUS
<1>5. p \in Nat /\ Len(stored) \in Nat /\ presses \in Nat
  BY <1>4, PendingFinite DEF ChatInv, PageTyped
<1>6. Len(stored) + p + Due <= presses + 2
  BY <1>4 DEF Budget
<1>7. Len(stored') + p + Due' <= presses' + 2
  BY <1>1, <1>3, <1>5, <1>6
<1> QED
  BY <1>2, <1>4, <1>7 DEF Budget

\* The answers that insert no row.
LEMMA AnswersBudget ==
  ASSUME ChatInv, ChatInv', Budget, NEW t \in Tasks, Proceed(t) \/ Fails(t), ~RowInserted(t)
  PROVE  Budget'
<1>1. PageTyped /\ Placed(t) /\ PageTyped' /\ EmptyInv
  BY DEF ChatInv
<1>2. CASE ListedLast(t)
  <2>1. /\ \A u \in Tasks : u # t => task'[u] = task[u]
        /\ task'[t] = Idle
    BY <1>1, <1>2, Finished DEF ListedLast
  <2>2. stored' = stored /\ presses' = presses /\ effectDue' = effectDue
    BY <1>2 DEF ListedLast, runtime, counted
  <2>3. \A u \in Tasks : Pends(u)' => Pends(u)
    BY <2>1, <2>2 DEF Pends, At, Idle
  <2> QED
    BY <2>2, <2>3, BudgetKept
<1>3. CASE ListedFirst(t)
  <2>1. \A u \in Tasks : u # t => task'[u] = task[u]
    BY <1>1, <1>3 DEF ListedFirst, MoveTo, PageTyped
  <2>2. stored' = stored /\ presses' = presses /\ effectDue' = effectDue
    BY <1>3 DEF ListedFirst, counted
  <2>3. Pends(t)' => Pends(t)
    <3>1. task[t].kind = "refresh" /\ At(t, "list")
      BY <1>3 DEF ListedFirst, needsSession
    <3>2. CASE stored = << >>
      BY <3>1, <3>2 DEF Pends, At
    <3>3. CASE stored # << >>
      <4>1. task' = [task EXCEPT ![t].at = "load", ![t].id = Head(stored).id]
        BY <3>3, <1>3 DEF ListedFirst
      <4>2. PICK s \in Nat : s = Head(stored).id
        <5>1. Head(stored) \in Listed
          BY SMTT(30), <3>3, <1>1 DEF PageTyped
        <5> QED
          BY <5>1 DEF Listed
      <4>3. task'[t].at = "load"
        BY <4>1, <4>2, <1>1, MovedTo
      <4> QED
        BY <4>3, <3>3, <2>2 DEF Pends, At
    <3> QED
      BY <3>2, <3>3
  <2>4. \A u \in Tasks : Pends(u)' => Pends(u)
    BY <2>1, <2>2, <2>3 DEF Pends, At
  <2> QED
    BY <2>2, <2>4, BudgetKept
<1>4. ASSUME stored # << >>, Len(stored') = Len(stored), presses' = presses, 
             stored' # << >>, \A u \in Tasks : u # t => task'[u] = task[u],
             task'[t] = Idle \/ task'[t].at = "relist"
      PROVE  Budget'
  <2>1. \A u \in Tasks : Pends(u)' => Pends(u)
    BY <1>4 DEF Pends, At, Idle
  <2> QED
    BY <2>1, <1>4, BudgetKept
<1>5. CASE Created(t) \/ Loaded(t)
  <2>1. stored' = stored /\ presses' = presses
    BY <1>5 DEF Created, Loaded, counted
  <2>2. At(t, "select") \/ At(t, "load")
    BY <1>5 DEF Created, Loaded
  <2>3. task[t].id \in 1 .. Len(stored)
    BY <2>2, <1>1 DEF Placed, At
  <2>4. stored # << >>
    BY <2>3
  <2>5. MoveTo(t, "relist") \/ Finish(t)
    BY <1>5 DEF Created, Loaded
  <2>6. /\ \A u \in Tasks : u # t => task'[u] = task[u]
        /\ task'[t] = Idle \/ task'[t].at = "relist"
    BY <2>5, <1>1, Moved, Finished
  <2> QED
    BY <2>1, <2>4, <2>6, <1>4
<1>6. CASE Renamed(t) \/ TurnDone(t)
  <2>1. presses' = presses /\ MoveTo(t, "relist")
    BY <1>6 DEF Renamed, TurnDone, counted
  <2>2. At(t, "rename") \/ At(t, "turn")
    BY <1>6 DEF Renamed, TurnDone
  <2>3. task[t].id \in 1 .. Len(stored) /\ Numbered(stored)
    BY <2>2, <1>1 DEF Placed, At, ChatInv, StoredInv
  <2>4. titleOf(task[t].id) \in {"NewSession", "renamed", "userText"}
    BY <2>3, <1>1, TouchedProps DEF PageTyped
  <2>5. PICK name \in {"NewSession", "renamed", "userText"} :
          stored' = Touched(task[t].id, name)
    BY <2>4, <1>6 DEF Renamed, TurnDone
  <2>6. Len(stored') = Len(stored) /\ stored # << >> /\ stored' # << >>
    BY <2>3, <2>5, TouchedKeeps
  <2>7. /\ \A u \in Tasks : u # t => task'[u] = task[u]
        /\ task'[t].at = "relist"
    BY <2>1, <1>1, Moved
  <2> QED
    BY <2>1, <2>6, <2>7, <1>4
<1>7. CASE Fails(t)
  <2>1. /\ \A u \in Tasks : u # t => task'[u] = task[u]
        /\ task'[t] = Idle
    BY <1>1, <1>7, Finished DEF Fails
  <2>2. presses' = presses /\ effectDue' = effectDue
    BY <1>7 DEF Fails, page
  <2>3. CASE stored' = stored
    <3>1. \A u \in Tasks : Pends(u)' => Pends(u)
      BY <2>1, <2>3 DEF Pends, At, Idle
    <3> QED
      BY <2>2, <2>3, <3>1, BudgetKept
  <2>4. CASE stored' # stored
    <3>1. At(t, "turn") /\ stored' = Touched(task[t].id, "userText")
      BY <2>4, <1>7 DEF Fails
    <3>2. task[t].id \in 1 .. Len(stored)
      BY <3>1, <1>1 DEF Placed, At
    <3>3. Len(stored') = Len(stored) /\ stored # << >> /\ stored' # << >>
      BY <3>1, <3>2, TouchedKeeps
    <3> QED
      BY <2>1, <2>2, <3>3, <1>4
  <2> QED
    BY <2>3, <2>4
<1> QED
  BY <1>2, <1>3, <1>5, <1>6, <1>7 DEF Proceed

LEMMA StepBudget ==
  ASSUME ChatInv, ChatInv', Budget, [Next]_vars PROVE Budget'
<1>1. CASE StartAction
  BY <1>1, ActionsStart, StartsBudget
<1>2. CASE saveProviderConfig
  BY <1>2, saveProviderConfigBudget
<1>3. ASSUME UNCHANGED <<stored, task, presses, effectDue>> PROVE Budget'
  BY <1>3 DEF Budget, Pending, Pends, Due, At
<1>4. CASE User
  <2>1. ASSUME NEW s \in Sessions, startRename(s) PROVE Budget'
    BY <2>1, <1>3 DEF startRename, runtime, counted
  <2>2. CASE cancelRename
    BY <2>2, <1>3 DEF cancelRename, runtime, counted
  <2> QED
    BY <1>1, <1>2, <1>4, <2>1, <2>2 DEF User, StartAction
<1>5. CASE BootDone
  <2>1. \A t \in Tasks : At(t, "boot") => task[t].kind \in {"refresh", "create"}
    BY DEF ChatInv, Placed, StepsOf, At, PageTyped, Function, Kinds
  <2>2. /\ \A u \in Tasks : ~At(u, "boot") => task'[u] = task[u]
        /\ \A t \in Tasks : At(t, "boot") =>
             task'[t].at = Entry(task[t].kind) /\ task'[t].kind = task[t].kind
    BY <2>1, <1>5, Booted DEF ChatInv
  <2>3. stored' = stored /\ presses' = presses /\ effectDue' = effectDue
    BY <1>5 DEF BootDone, counted
  <2>4. \A u \in Tasks : Pends(u)' => Pends(u)
    BY <2>1, <2>2, <2>3 DEF Pends, At, Entry
  <2> QED
    BY <2>3, <2>4, BudgetKept
<1>6. CASE BootFails
  <2>1. \A t \in Tasks : task'[t] = Idle \/ task'[t] = task[t]
    BY <1>6 DEF BootFails
  <2>2. stored' = stored /\ presses' = presses /\ effectDue' = effectDue
    BY <1>6 DEF BootFails, page, runtime
  <2>3. \A u \in Tasks : Pends(u)' => Pends(u)
    BY <2>1, <2>2 DEF Pends, At, Idle
  <2> QED
    BY <2>2, <2>3, BudgetKept
<1>7. ASSUME NEW t \in Tasks, Proceed(t) \/ Fails(t) PROVE Budget'
  BY <1>7, RowInsertedBudget, AnswersBudget
<1>8. CASE UNCHANGED vars
  BY <1>8, <1>3 DEF vars, page, runtime, counted
<1> QED
  BY <1>1, <1>4, <1>5, <1>6, <1>7, <1>8 DEF Next, StartAction

LEMMA InitBudget == Init => Budget
<1> SUFFICES ASSUME Init PROVE Budget
  OBVIOUS
<1>1. \A t \in Tasks : ~Pends(t)
  BY DEF Init, Pends, Idle, At
<1>2. Cardinality(Pending) = 0
  BY <1>1, FS_EmptySet DEF Pending
<1>3. presses = 0
  BY DEF Init
<1>4. CASE stored = << >>
  <2>1. Len(stored) = 0 /\ Due \in {0, 1}
    BY <1>4 DEF Due
  <2> QED
    BY <2>1, <1>2, <1>3 DEF Budget
<1>5. CASE stored # << >>
  <2>1. PICK two, one : two = Summary(2, "NewSession") /\ one = Summary(1, "NewSession")
    OBVIOUS
  <2>2. stored = <<two, one>>
    BY <1>5, <2>1 DEF Init
  <2>3. Len(stored) = 2 /\ Due = 0
    BY <1>5, <2>2 DEF Due
  <2> QED
    BY <2>3, <1>2, <1>3 DEF Budget
<1> QED
  BY <1>4, <1>5

\* The functions wait where they can: for the first init only before it
\* succeeded, and in the queue exactly for restores; at most one is a turn; and
\* every session that is shown or stored has one of the numbers there are
\* (index.tsx:139-178, 264-299).
THEOREM PageTypeCorrect == Spec => []TypeOK
<1>1. ChatInv /\ Budget => TypeOK
  <2> SUFFICES ASSUME ChatInv, Budget PROVE TypeOK
    OBVIOUS
  <2>1. /\ PageTyped /\ (\A u \in Tasks : Placed(u)) /\ BootInv /\ StoredInv /\ QueueInv
        /\ OneTurn
    BY DEF ChatInv
  <2>2. \A s \in 0 .. Len(stored) : s \in Sessions \union {NoSession}
    <3>1. PICK p : p = Cardinality(Pending)
      OBVIOUS
    <3>2. p \in Nat /\ Due \in {0, 1} /\ Len(stored) \in Nat /\ presses \in 0 .. MaxPresses
      BY <3>1, <2>1, PendingFinite DEF Due, PageTyped
    <3>3. Len(stored) + p + Due <= presses + 2
      BY <3>1 DEF Budget
    <3>4. Len(stored) <= MaxPresses + 3
      BY <3>2, <3>3, BoundsAssumption
    <3> QED
      BY <3>2, <3>4, BoundsAssumption DEF Sessions, NoSession
  <2>3. \A s \in 1 .. Len(stored) : s \in Sessions
    <3>1. Len(stored) \in Nat
      BY <2>1 DEF PageTyped
    <3>2. \A s \in 1 .. Len(stored) : s \in 0 .. Len(stored) /\ s # 0
      BY <3>1
    <3> QED
      BY <3>2, <2>2 DEF NoSession
  <2>4. Cardinality({t \in Tasks : task[t].kind = "turn"}) <= 1
    <3>1. PICK S : S = {t \in Tasks : task[t].kind = "turn"}
      OBVIOUS
    <3>2. \A x, y \in S : x = y
      BY <3>1, <2>1 DEF OneTurn
    <3>3. Cardinality(S) <= 1
      BY <3>2, AtMostOne
    <3> QED
      BY <3>1, <3>3
  <2>5. IsInjective(queue) /\ ToSet(queue) = {t \in Tasks : At(t, "load")}
    <3>1. queue \in Seq(Tasks) /\ DOMAIN queue = 1 .. Len(queue)
      BY <2>1 DEF QueueInv
    <3>2. IsInjective(queue)
      BY <3>1, <2>1 DEF QueueInv, IsInjective
    <3>3. \A k \in 1 .. Len(queue) : queue[k] \in Tasks
      BY <3>1
    <3>4. ToSet(queue) = {t \in Tasks : At(t, "load")}
      BY <3>1, <3>3, <2>1 DEF QueueInv, ToSet
    <3> QED
      BY <3>2, <3>4
  <2>6. \A t \in Tasks : At(t, "boot") => task[t].kind \in {"refresh", "create"}
    BY <2>1 DEF Placed, StepsOf, At, PageTyped, Function, Kinds
  <2>7. \A k \in DOMAIN stored : stored[k].id \in Sessions
    <3>1. DOMAIN stored = 1 .. Len(stored)
      BY <2>1 DEF PageTyped
    <3>2. \A k \in 1 .. Len(stored) : stored[k].id \in 1 .. Len(stored)
      BY <2>1 DEF StoredInv, Numbered
    <3> QED
      BY <3>1, <3>2, <2>3
  <2>8. session \in Sessions \union {NoSession} /\ unasked \subseteq Sessions
    BY <2>1, <2>2, <2>3 DEF StoredInv
  <2> QED
    BY <2>1, <2>4, <2>5, <2>6, <2>7, <2>8 DEF TypeOK, BootInv
<1> QED
  BY <1>1, InitChat, StepChat, InitBudget, StepBudget, PTL DEF Spec

=============================================================================
