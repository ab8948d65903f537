----------------------------- MODULE PromptProofs -----------------------------
(***************************************************************************)
(* Lemmas about the prompt of a history, for every history: what the flat  *)
(* maps of ensure_call_outputs_present and remove_orphan_outputs keep, add *)
(* and leave in order, and what that makes of the request. FlattenSeq is a *)
(* recursive function, so the induction is on sets of natural numbers.     *)
(***************************************************************************)
EXTENDS PromptHistory, WellFoundedInduction, SequenceTheorems, TLAPS

-----------------------------------------------------------------------------
(***************************************************************************)
(* Induction.                                                              *)
(***************************************************************************)

\* A set of natural numbers with zero and with the successor of each of its
\* members has them all.
LEMMA SetInduction ==
  ASSUME NEW S \in SUBSET Nat, 0 \in S, \A n \in Nat : n \in S => n + 1 \in S
  PROVE  S = Nat
<1> DEFINE T == Nat \ S
<1>1. SUFFICES ASSUME T # {} PROVE FALSE
  OBVIOUS
<1>2. PICK x \in T : \A y \in T : ~(<<y, x>> \in OpToRel(<, Nat))
  <2>1. T \subseteq Nat
    OBVIOUS
  <2> HIDE DEF T
  <2> QED
    BY <1>1, <2>1, WFMin, NatLessThanWellFounded
<1>3. x \in Nat /\ x # 0 /\ x \notin S
  OBVIOUS
<1>4. x - 1 \in Nat /\ (x - 1) + 1 = x
  BY <1>3
<1>5. x - 1 \in T
  BY <1>3, <1>4
<1>6. <<x - 1, x>> \in OpToRel(<, Nat)
  BY <1>3, <1>4 DEF OpToRel
<1> QED
  BY <1>2, <1>5, <1>6

\* The same on an interval that starts at zero.
LEMMA IntervalInduction ==
  ASSUME NEW n \in Nat, NEW S, 0 \in S,
         \A k \in 0 .. n : k < n /\ k \in S => k + 1 \in S
  PROVE  0 .. n \subseteq S
<1> DEFINE T == {k \in Nat : k <= n => k \in S}
<1>1. 0 \in T
  OBVIOUS
<1>2. ASSUME NEW k \in Nat, k \in T PROVE k + 1 \in T
  BY <1>2
<1>3. T = Nat
  <2>1. T \in SUBSET Nat
    OBVIOUS
  <2> HIDE DEF T
  <2> QED
    BY <1>1, <1>2, <2>1, SetInduction
<1> QED
  BY <1>3

-----------------------------------------------------------------------------
(***************************************************************************)
(* FlattenSeq conforms to its own equation.                                *)
(***************************************************************************)
IsFlattening(f, seqs, n) ==
  f = [i \in 1 .. n |-> IF i = 1 THEN seqs[i] ELSE f[i-1] \o seqs[i]]

LEMMA FlatteningExists ==
  ASSUME NEW seqs
  PROVE  \A n \in Nat : \E f : IsFlattening(f, seqs, n)
<1> DEFINE S == {n \in Nat : \E f : IsFlattening(f, seqs, n)}
<1>1. 0 \in S
  <2>1. IsFlattening([i \in 1 .. 0 |-> seqs[i]], seqs, 0)
    <3>1. \A i : i \notin 1 .. 0
      OBVIOUS
    <3> QED
      BY <3>1, Zenon DEF IsFlattening
  <2> QED
    BY <2>1
<1>2. ASSUME NEW n \in Nat, n \in S PROVE n + 1 \in S
  <2>1. PICK f : IsFlattening(f, seqs, n)
    BY <1>2
  <2>2. PICK g : g = [i \in 1 .. n + 1 |-> IF i = 1 THEN seqs[i] ELSE f[i-1] \o seqs[i]]
    OBVIOUS
  <2>3. \A i \in 1 .. n : g[i] = f[i]
    <3>1. TAKE i \in 1 .. n
    <3>2. i \in 1 .. n + 1
      OBVIOUS
    <3>3. g[i] = IF i = 1 THEN seqs[i] ELSE f[i-1] \o seqs[i]
      BY <2>2, <3>2, Zenon
    <3>4. f[i] = IF i = 1 THEN seqs[i] ELSE f[i-1] \o seqs[i]
      BY <2>1, <3>1, Zenon DEF IsFlattening
    <3> QED
      BY <3>3, <3>4, Zenon
  <2>4. \A i \in 1 .. n + 1 : i # 1 => i - 1 \in 1 .. n
    OBVIOUS
  <2>5. g = [i \in 1 .. n + 1 |-> IF i = 1 THEN seqs[i] ELSE g[i-1] \o seqs[i]]
    BY <2>2, <2>3, <2>4
  <2>6. IsFlattening(g, seqs, n + 1)
    BY <2>5, Zenon DEF IsFlattening
  <2> QED
    BY <2>6
<1>3. S = Nat
  <2>1. S \in SUBSET Nat
    OBVIOUS
  <2> HIDE DEF S
  <2> QED
    BY <1>1, <1>2, <2>1, SetInduction
<1> QED
  BY <1>3

LEMMA FlattenUnfolds ==
  ASSUME NEW seqs, Len(seqs) \in Nat \ {0}
  PROVE  \E f : IsFlattening(f, seqs, Len(seqs)) /\ FlattenSeq(seqs) = f[Len(seqs)]
<1>1. PICK f : f = CHOOSE g : IsFlattening(g, seqs, Len(seqs))
  OBVIOUS
<1>2. IsFlattening(f, seqs, Len(seqs))
  BY <1>1, FlatteningExists
<1>3. FlattenSeq(seqs) = f[Len(seqs)]
  BY <1>1, Zenon DEF IsFlattening, FlattenSeq
<1> QED
  BY <1>2, <1>3

(***************************************************************************)
(* Where the elements of the sequences stand in their concatenation: the   *)
(* k-th begins behind off[k-1].                                            *)
(***************************************************************************)
Offsets(off, seqs) ==
  /\ off \in [0 .. Len(seqs) -> Nat] /\ off[0] = 0
  /\ \A k \in 1 .. Len(seqs) : off[k] = off[k-1] + Len(seqs[k])

Placed(off, seqs, flat) ==
  \A k \in 1 .. Len(seqs) : \A j \in 1 .. Len(seqs[k]) : flat[off[k-1] + j] = seqs[k][j]

Covered(off, seqs) ==
  \A p \in 1 .. off[Len(seqs)] :
    \E k \in 1 .. Len(seqs) : \E j \in 1 .. Len(seqs[k]) : p = off[k-1] + j

\* Later sequences begin later, and each place belongs to one of them.
LEMMA OffsetsGrow ==
  ASSUME NEW S, NEW seqs \in Seq(Seq(S)), NEW off, Offsets(off, seqs)
  PROVE  \A k \in 0 .. Len(seqs) : \A j \in 0 .. k : off[j] <= off[k]
<1>1. Len(seqs) \in Nat /\ \A k \in 1 .. Len(seqs) : Len(seqs[k]) \in Nat
  <2>1. \A k \in 1 .. Len(seqs) : seqs[k] \in Seq(S)
    OBVIOUS
  <2> QED
    BY <2>1
<1> DEFINE T == {k \in 0 .. Len(seqs) : \A j \in 0 .. k : off[j] <= off[k]}
<1>2. 0 \in T
  BY <1>1 DEF Offsets
<1>3. ASSUME NEW k \in 0 .. Len(seqs), k < Len(seqs), k \in T PROVE k + 1 \in T
  <2>1. k + 1 \in 1 .. Len(seqs) /\ (k + 1) - 1 = k /\ k + 1 \in 0 .. Len(seqs)
    BY <1>1, <1>3
  <2>2. off[k + 1] = off[k] + Len(seqs[k + 1])
    BY <2>1 DEF Offsets
  <2>3. off[k] \in Nat /\ Len(seqs[k + 1]) \in Nat
    BY <1>1, <2>1 DEF Offsets
  <2>4. off[k] <= off[k + 1] /\ off[k + 1] \in Nat
    BY <2>2, <2>3
  <2>5. ASSUME NEW j \in 0 .. k + 1 PROVE off[j] <= off[k + 1]
    <3>1. CASE j = k + 1
      BY <2>4, <3>1
    <3>2. CASE j # k + 1
      <4>1. j \in 0 .. k /\ j \in 0 .. Len(seqs)
        BY <1>1, <3>2
      <4>2. off[j] <= off[k] /\ off[j] \in Nat
        BY <1>3, <4>1 DEF Offsets
      <4> QED
        BY <2>3, <2>4, <4>2
    <3> QED
      BY <3>1, <3>2
  <2> QED
    BY <2>1, <2>5
<1>4. 0 .. Len(seqs) \subseteq T
  <2> HIDE DEF T
  <2> QED
    BY <1>1, <1>2, <1>3, IntervalInduction
<1> QED
  BY <1>4

LEMMA OffsetsCover ==
  ASSUME NEW S, NEW seqs \in Seq(Seq(S)), NEW off, Offsets(off, seqs)
  PROVE  Covered(off, seqs)
<1>1. Len(seqs) \in Nat /\ \A k \in 1 .. Len(seqs) : Len(seqs[k]) \in Nat
  <2>1. \A k \in 1 .. Len(seqs) : seqs[k] \in Seq(S)
    OBVIOUS
  <2> QED
    BY <2>1
<1> DEFINE T == {m \in 0 .. Len(seqs) : \A p \in 1 .. off[m] :
                   \E k \in 1 .. m : \E j \in 1 .. Len(seqs[k]) : p = off[k-1] + j}
<1>2. 0 \in T
  BY <1>1 DEF Offsets
<1>3. ASSUME NEW m \in 0 .. Len(seqs), m < Len(seqs), m \in T PROVE m + 1 \in T
  <2>1. m + 1 \in 1 .. Len(seqs) /\ (m + 1) - 1 = m /\ m + 1 \in 0 .. Len(seqs)
        /\ m + 1 \in 1 .. m + 1
    BY <1>1, <1>3
  <2>2. off[m + 1] = off[m] + Len(seqs[m + 1])
    BY <2>1 DEF Offsets
  <2>3. off[m] \in Nat /\ Len(seqs[m + 1]) \in Nat
    BY <1>1, <2>1 DEF Offsets
  <2>4. ASSUME NEW p \in 1 .. off[m + 1]
        PROVE  \E k \in 1 .. m + 1 : \E j \in 1 .. Len(seqs[k]) : p = off[k-1] + j
    <3>1. CASE p <= off[m]
      <4>1. p \in 1 .. off[m]
        BY <2>2, <2>3, <3>1
      <4>2. PICK k \in 1 .. m : \E j \in 1 .. Len(seqs[k]) : p = off[k-1] + j
        BY <1>3, <4>1
      <4>3. k \in 1 .. m + 1
        BY <1>1
      <4> QED
        BY <4>2, <4>3
    <3>2. CASE p > off[m]
      <4>1. PICK j : j = p - off[m]
        OBVIOUS
      <4>2. j \in 1 .. Len(seqs[m + 1]) /\ p = off[m] + j
        BY SMTT(30), <2>2, <2>3, <3>2, <4>1
      <4>3. p = off[(m + 1) - 1] + j
        BY <2>1, <4>2
      <4> QED
        BY <2>1, <4>2, <4>3
    <3> QED
      BY <2>2, <2>3, <3>1, <3>2
  <2> QED
    BY <2>1, <2>4
<1>4. 0 .. Len(seqs) \subseteq T
  <2> HIDE DEF T
  <2> QED
    BY <1>1, <1>2, <1>3, IntervalInduction
<1>5. Len(seqs) \in T
  <2> HIDE DEF T
  <2> QED
    BY <1>1, <1>4
<1> QED
  BY <1>5 DEF Covered

\* What a partial concatenation of the first m sequences is.
FlatUpTo(flat, off, seqs, S, m) ==
  /\ flat \in Seq(S) /\ off[m] = Len(flat)
  /\ \A k \in 1 .. m : \A j \in 1 .. Len(seqs[k]) :
       off[k-1] + j \in 1 .. Len(flat) /\ flat[off[k-1] + j] = seqs[k][j]

GoesOn(S, seqs, off, s, t, longer, m, n) ==
  /\ t \in Seq(S) /\ m \in Nat /\ n \in Nat /\ n = m + 1 /\ t = seqs[n]
  /\ FlatUpTo(s, off, seqs, S, m)
  /\ longer = s \o t /\ off[n] = Len(longer)

LEMMA FlatGoesOn ==
  ASSUME NEW S, NEW seqs, NEW off, NEW s, NEW t, NEW longer, NEW m, NEW n,
         GoesOn(S, seqs, off, s, t, longer, m, n)
  PROVE  FlatUpTo(longer, off, seqs, S, n) /\ off[n] = off[m] + Len(t)
<1>0. /\ t \in Seq(S) /\ m \in Nat /\ n \in Nat /\ n = m + 1 /\ t = seqs[n]
      /\ FlatUpTo(s, off, seqs, S, m)
      /\ longer = s \o t /\ off[n] = Len(longer)
  BY DEF GoesOn
<1>1. n - 1 = m
  BY <1>0
<1>2. s \in Seq(S) /\ t \in Seq(S) /\ off[m] = Len(s)
  BY <1>0 DEF FlatUpTo
<1>4. /\ s \o t \in Seq(S) /\ Len(s \o t) = Len(s) + Len(t)
      /\ \A i \in 1 .. Len(s) + Len(t) :
           (s \o t)[i] = IF i <= Len(s) THEN s[i] ELSE t[i - Len(s)]
  BY <1>2, ConcatProperties
<1>5. Len(s) \in Nat /\ Len(t) \in Nat
  BY <1>2
<1>7. off[n] = off[m] + Len(t)
  BY <1>0, <1>2, <1>4
<1>8. ASSUME NEW k \in 1 .. n, NEW j \in 1 .. Len(seqs[k])
      PROVE  off[k-1] + j \in 1 .. Len(s \o t) /\ (s \o t)[off[k-1] + j] = seqs[k][j]
  <2>1. CASE k = n
    <3>1. off[k-1] = Len(s) /\ j \in 1 .. Len(t) /\ j \in Nat
      BY <1>0, <1>1, <1>2, <2>1
    <3>2. PICK i : i = off[k-1] + j
      OBVIOUS
    <3>3. i \in 1 .. Len(s) + Len(t) /\ ~(i <= Len(s)) /\ i - Len(s) = j
      BY <1>5, <3>1, <3>2
    <3>4. (s \o t)[i] = t[j]
      BY <1>4, <3>3
    <3> QED
      BY <1>0, <1>4, <2>1, <3>2, <3>3, <3>4
  <2>2. CASE k # n
    <3>1. k \in 1 .. m
      BY <1>0, <1>1, <2>2
    <3>2. PICK i : i = off[k-1] + j
      OBVIOUS
    <3>3. i \in 1 .. Len(s) /\ s[i] = seqs[k][j]
      BY <1>0, <3>1, <3>2 DEF FlatUpTo
    <3>4. i \in 1 .. Len(s) + Len(t) /\ i <= Len(s)
      BY <1>5, <3>3
    <3>5. (s \o t)[i] = s[i]
      BY <1>4, <3>4
    <3> QED
      BY <1>4, <3>2, <3>3, <3>4, <3>5
  <2> QED
    BY <2>1, <2>2
<1> QED
  BY <1>0, <1>4, <1>7, <1>8 DEF FlatUpTo

LEMMA FlattenPlaces ==
  ASSUME NEW S, NEW seqs \in Seq(Seq(S))
  PROVE  /\ FlattenSeq(seqs) \in Seq(S)
         /\ \E off : /\ Offsets(off, seqs) /\ Placed(off, seqs, FlattenSeq(seqs))
                     /\ Len(FlattenSeq(seqs)) = off[Len(seqs)]
<1>1. Len(seqs) \in Nat /\ \A k \in 1 .. Len(seqs) : seqs[k] \in Seq(S)
  OBVIOUS
<1>2. CASE Len(seqs) = 0
  <2>1. seqs = << >> /\ FlattenSeq(seqs) = << >>
    BY <1>2, EmptySeq DEF FlattenSeq
  <2>2. PICK off : off = [k \in 0 .. 0 |-> 0]
    OBVIOUS
  <2>3. off \in [0 .. Len(seqs) -> Nat] /\ off[0] = 0
    BY <1>2, <2>2
  <2> QED
    BY <1>2, <2>1, <2>3 DEF Offsets, Placed
<1>3. CASE Len(seqs) # 0
  <2>1. PICK f : IsFlattening(f, seqs, Len(seqs)) /\ FlattenSeq(seqs) = f[Len(seqs)]
    BY <1>1, <1>3, FlattenUnfolds
  <2>2. PICK off : off = [k \in 0 .. Len(seqs) |-> IF k = 0 THEN 0 ELSE Len(f[k])]
    OBVIOUS
  <2>3. f[1] = seqs[1] /\ f[1] \in Seq(S)
    <3>1. 1 \in 1 .. Len(seqs)
      BY <1>1, <1>3
    <3>2. f[1] = IF 1 = 1 THEN seqs[1] ELSE f[1-1] \o seqs[1]
      BY <2>1, <3>1, Zenon DEF IsFlattening
    <3> QED
      BY <1>1, <3>1, <3>2
  <2>4. ASSUME NEW m \in 1 .. Len(seqs), m < Len(seqs)
        PROVE  f[m + 1] = f[m] \o seqs[m + 1]
    <3>1. m + 1 \in 1 .. Len(seqs) /\ (m + 1) - 1 = m /\ m + 1 # 1
      BY <1>1, <2>4
    <3>2. f[m + 1] = IF m + 1 = 1 THEN seqs[m + 1] ELSE f[(m + 1) - 1] \o seqs[m + 1]
      BY <2>1, <3>1, Zenon DEF IsFlattening
    <3> QED
      BY <3>1, <3>2, Zenon
  <2> DEFINE UpTo(m) == /\ FlatUpTo(f[m], off, seqs, S, m)
                        /\ \A k \in 1 .. m : off[k] = off[k-1] + Len(seqs[k])
                        /\ \A k \in 0 .. m : off[k] \in Nat
  <2> DEFINE T == {m \in 0 .. Len(seqs) : m > 0 => UpTo(m)}
  <2>5. 0 \in T
    BY <1>1
  <2>6. ASSUME NEW m \in 0 .. Len(seqs), m < Len(seqs), m \in T PROVE m + 1 \in T
    <3>0. m + 1 \in 1 .. Len(seqs) /\ m + 1 \in 0 .. Len(seqs) /\ (m + 1) - 1 = m
      BY <1>1, <2>6
    <3>1. CASE m = 0
      <4>1. off[0] = 0 /\ off[1] = Len(f[1]) /\ Len(f[1]) \in Nat
        BY <1>1, <1>3, <2>2, <2>3
      <4>2. Len(seqs[1]) = Len(f[1])
        BY <2>3
      <4>3. ASSUME NEW j \in 1 .. Len(seqs[1])
            PROVE  off[0] + j \in 1 .. Len(f[1]) /\ f[1][off[0] + j] = seqs[1][j]
        <5>1. off[0] + j = j
          BY <4>1
        <5> QED
          BY <2>3, <4>2, <5>1
      <4>4. \A k \in 1 .. 1 : k = 1 /\ k - 1 = 0
        OBVIOUS
      <4>5. FlatUpTo(f[1], off, seqs, S, 1)
        BY <2>3, <4>1, <4>3, <4>4 DEF FlatUpTo
      <4>6. off[1] = off[1-1] + Len(seqs[1])
        BY <4>1, <4>2
      <4>7. \A k \in 0 .. 1 : off[k] \in Nat
        BY <4>1
      <4> QED
        <5>1. UpTo(1)
          BY <4>4, <4>5, <4>6, <4>7
        <5>2. m + 1 = 1
          BY <3>1
        <5> HIDE DEF UpTo
        <5> QED
          BY <3>0, <5>1, <5>2
    <3>2. CASE m # 0
      <4>1. m \in 1 .. Len(seqs) /\ m \in 1 .. m
        BY <2>6, <3>2
      <4>2. /\ FlatUpTo(f[m], off, seqs, S, m)
            /\ \A k \in 1 .. m : off[k] = off[k-1] + Len(seqs[k])
            /\ \A k \in 0 .. m : off[k] \in Nat
        BY <2>6, <3>2
      <4>3. f[m + 1] = f[m] \o seqs[m + 1] /\ f[m + 1] \in Seq(S)
        <5>1. f[m] \in Seq(S) /\ seqs[m + 1] \in Seq(S)
          BY <1>1, <3>0, <4>1, <4>2 DEF FlatUpTo
        <5> QED
          BY <2>4, <2>6, <4>1, <5>1, ConcatProperties
      <4>4. off[m + 1] = Len(f[m + 1]) /\ Len(f[m + 1]) \in Nat
        <5>1. off[m + 1] = Len(f[m + 1])
          BY <2>2, <3>0
        <5> QED
          BY <4>3, <5>1, LenProperties
      <4>5. FlatUpTo(f[m + 1], off, seqs, S, m + 1)
            /\ off[m + 1] = off[m] + Len(seqs[m + 1])
        <5>1. PICK n, s, t, longer : n = m + 1 /\ s = f[m] /\ t = seqs[n] /\ longer = f[n]
          OBVIOUS
        <5>2. n \in Nat /\ m \in Nat /\ n = m + 1 /\ t \in Seq(S) /\ t = seqs[n]
          BY <1>1, <3>0, <4>1, <5>1
        <5>3. FlatUpTo(s, off, seqs, S, m)
          BY <4>2, <5>1
        <5>4. longer = s \o t /\ off[n] = Len(longer)
          BY <4>3, <4>4, <5>1
        <5>5. FlatUpTo(longer, off, seqs, S, n) /\ off[n] = off[m] + Len(t)
          <6>1. GoesOn(S, seqs, off, s, t, longer, m, n)
            BY <5>2, <5>3, <5>4 DEF GoesOn
          <6> QED
            BY <6>1, FlatGoesOn
        <5> QED
          BY <5>1, <5>5
      <4>6. /\ \A k \in 1 .. m + 1 : k \in 1 .. m \/ k = m + 1
            /\ \A k \in 0 .. m + 1 : k \in 0 .. m \/ k = m + 1
        BY <3>0
      <4> QED
        BY <3>0, <4>2, <4>4, <4>5, <4>6
    <3> QED
      BY <3>1, <3>2
  <2>7. Len(seqs) \in T
    <3> HIDE DEF T
    <3>1. 0 .. Len(seqs) \subseteq T
      BY <1>1, <2>5, <2>6, IntervalInduction
    <3> QED
      BY <1>1, <3>1
  <2>8. FlatUpTo(f[Len(seqs)], off, seqs, S, Len(seqs)) /\ Offsets(off, seqs)
    <3>1. Len(seqs) > 0 /\ Len(seqs) \in 1 .. Len(seqs)
      BY <1>1, <1>3
    <3>2. off[0] = 0
      BY <1>1, <2>2
    <3> QED
      BY <1>1, <2>2, <2>7, <3>1, <3>2 DEF Offsets
  <2> QED
    BY <2>1, <2>8 DEF FlatUpTo, Placed
<1> QED
  BY <1>2, <1>3

-----------------------------------------------------------------------------
(***************************************************************************)
(* ItemsAt enumerates the items at the indices, in the order of the list.  *)
(***************************************************************************)
Increasing(at, n) == \A j, k \in 1 .. n : j < k => at[j] < at[k]

Selects(at, indices, list, chosen) ==
  /\ at \in [1 .. Len(chosen) -> indices] /\ Increasing(at, Len(chosen))
  /\ \A q \in 1 .. Len(chosen) : chosen[q] = list[at[q]]
  /\ \A k \in indices : \E q \in 1 .. Len(chosen) : at[q] = k

LEMMA ItemsAtSelects ==
  ASSUME NEW S, NEW list \in Seq(S), NEW indices, indices \subseteq DOMAIN list
  PROVE  /\ ItemsAt(list, indices) \in Seq(S)
         /\ \E at : Selects(at, indices, list, ItemsAt(list, indices))
<1>1. Len(list) \in Nat /\ DOMAIN list = 1 .. Len(list) /\ \A k \in 1 .. Len(list) : list[k] \in S
  OBVIOUS
<1>2. PICK seqs : seqs = [k \in DOMAIN list |-> IF k \in indices THEN <<list[k]>> ELSE << >>]
  OBVIOUS
<1>3. seqs \in Seq(Seq(S)) /\ Len(seqs) = Len(list)
  <2>1. \A k \in 1 .. Len(list) : seqs[k] \in Seq(S)
    BY <1>1, <1>2
  <2>2. seqs = [k \in 1 .. Len(list) |-> seqs[k]]
    BY <1>1, <1>2
  <2> QED
    BY <1>1, <2>1, <2>2, IsASeq
<1>4. PICK chosen : chosen = ItemsAt(list, indices)
  OBVIOUS
<1>5. chosen = FlattenSeq(seqs)
  BY <1>2, <1>4 DEF ItemsAt
<1>6. PICK off : /\ Offsets(off, seqs) /\ Placed(off, seqs, chosen)
                 /\ Len(chosen) = off[Len(seqs)] /\ chosen \in Seq(S)
  BY <1>3, <1>5, FlattenPlaces
<1>7. \A k \in 1 .. Len(list) :
        /\ k \in indices => Len(seqs[k]) = 1
        /\ k \notin indices => Len(seqs[k]) = 0
  BY <1>1, <1>2
<1>7a. \A k \in indices : seqs[k][1] = list[k]
  BY <1>1, <1>2
<1>8. \A k \in 0 .. Len(list) : off[k] \in Nat
  BY <1>3, <1>6 DEF Offsets
<1>9. \A k \in 1 .. Len(list) : /\ k - 1 \in 0 .. Len(list) /\ k \in 0 .. Len(list)
                                /\ k \in indices => off[k] = off[k-1] + 1
                                /\ k \notin indices => off[k] = off[k-1]
  <2>1. TAKE k \in 1 .. Len(list)
  <2>2. k - 1 \in 0 .. Len(list) /\ k \in 0 .. Len(list)
    BY <1>1
  <2>3. off[k] = off[k-1] + Len(seqs[k])
    BY <1>3, <1>6 DEF Offsets
  <2>4. PICK l : l = Len(seqs[k])
    OBVIOUS
  <2>5. (k \in indices => l = 1) /\ (k \notin indices => l = 0) /\ off[k] = off[k-1] + l
    BY <1>7, <2>3, <2>4
  <2>6. off[k-1] \in Nat
    BY <1>8, <2>2
  <2> QED
    BY <2>2, <2>5, <2>6
<1>10. \A k \in 0 .. Len(list) : \A j \in 0 .. k : off[j] <= off[k]
  BY <1>3, <1>6, OffsetsGrow
<1>11. \A q \in 1 .. Len(chosen) : \E k \in indices : off[k-1] + 1 = q /\ chosen[q] = list[k]
  <2>0. \A q \in 1 .. off[Len(seqs)] :
           \E k \in 1 .. Len(seqs) : \E j \in 1 .. Len(seqs[k]) : q = off[k-1] + j
    <3>1. Covered(off, seqs)
      BY <1>3, <1>6, OffsetsCover
    <3> QED
      BY <3>1, Zenon DEF Covered
  <2>1. TAKE q \in 1 .. Len(chosen)
  <2>2. PICK k \in 1 .. Len(seqs) : \E j \in 1 .. Len(seqs[k]) : q = off[k-1] + j
    BY <1>6, <2>0
  <2>3. PICK j \in 1 .. Len(seqs[k]) : q = off[k-1] + j
    BY <2>2
  <2>4. k \in indices /\ j = 1
    <3>1. PICK l : l = Len(seqs[k])
      OBVIOUS
    <3>2. j \in 1 .. l /\ k \in 1 .. Len(list)
      BY <1>3, <3>1
    <3>3. (k \in indices => l = 1) /\ (k \notin indices => l = 0)
      BY <1>7, <3>1, <3>2
    <3> QED
      BY <3>2, <3>3
  <2>5. chosen[off[k-1] + j] = seqs[k][j]
    BY <1>6 DEF Placed
  <2> QED
    BY <1>7a, <2>3, <2>4, <2>5
<1>12. PICK at : at = [q \in 1 .. Len(chosen) |->
                         CHOOSE k \in indices : off[k-1] + 1 = q /\ chosen[q] = list[k]]
  OBVIOUS
<1>13. \A q \in 1 .. Len(chosen) :
         at[q] \in indices /\ off[at[q]-1] + 1 = q /\ chosen[q] = list[at[q]]
  BY <1>11, <1>12
<1>14. ASSUME NEW j \in indices, NEW k \in indices, j < k
       PROVE  off[j-1] + 1 < off[k-1] + 1
  <2>1. j \in 1 .. Len(list) /\ k \in 1 .. Len(list)
    BY <1>1
  <2>2. off[j] = off[j-1] + 1 /\ off[j] <= off[k-1]
    <3>1. k - 1 \in 0 .. Len(list) /\ j \in 0 .. k - 1
      BY <1>1, <1>14, <2>1
    <3> QED
      BY <1>9, <1>10, <2>1, <3>1
  <2>3. off[j-1] \in Nat /\ off[k-1] \in Nat /\ off[j] \in Nat
    BY <1>8, <1>9, <2>1
  <2> QED
    BY <2>2, <2>3
<1>15. \A k \in indices : /\ off[k-1] + 1 \in 1 .. Len(chosen)
                          /\ at[off[k-1] + 1] = k
  <2>1. TAKE k \in indices
  <2>2. k \in 1 .. Len(list) /\ Len(list) \in 0 .. Len(list) /\ k \in 0 .. Len(list)
    BY <1>1
  <2>3. off[k] = off[k-1] + 1 /\ off[k] <= off[Len(list)] /\ off[k-1] \in Nat
    BY <1>8, <1>9, <1>10, <2>2
  <2>4. PICK q : q = off[k-1] + 1
    OBVIOUS
  <2>5. q \in 1 .. Len(chosen)
    BY <1>3, <1>6, <1>8, <2>2, <2>3, <2>4
  <2>6. at[q] \in indices /\ off[at[q]-1] + 1 = q
    BY <1>13, <2>5
  <2>7. at[q] \in 1 .. Len(list)
    BY <1>1, <2>6
  <2>8. off[k-1] \in Nat /\ off[at[q]-1] \in Nat
    BY <1>8, <1>9, <2>2, <2>7
  <2>9. ~(at[q] < k) /\ ~(k < at[q])
    BY SMTT(30), <1>14, <2>4, <2>6, <2>8
  <2> QED
    BY <2>2, <2>4, <2>5, <2>7, <2>9
<1>16. Increasing(at, Len(chosen))
  <2>1. SUFFICES ASSUME NEW p \in 1 .. Len(chosen), NEW q \in 1 .. Len(chosen), p < q
                 PROVE  at[p] < at[q]
    BY DEF Increasing
  <2>2. at[p] \in indices /\ at[q] \in indices /\ off[at[p]-1] + 1 = p /\ off[at[q]-1] + 1 = q
    BY <1>13
  <2>3. at[p] \in 1 .. Len(list) /\ at[q] \in 1 .. Len(list)
    BY <1>1, <2>2
  <2>4. ~(at[q] < at[p]) /\ at[p] # at[q]
    <3>1. p # q /\ ~(q < p)
      BY <2>1
    <3> QED
      BY <1>14, <2>2, <3>1
  <2> QED
    BY <2>3, <2>4
<1>17. Selects(at, indices, list, chosen)
  BY <1>12, <1>13, <1>15, <1>16 DEF Selects
<1> QED
  BY <1>4, <1>6, <1>17

-----------------------------------------------------------------------------
(***************************************************************************)
(* A list with one more item right behind some of its items.               *)
(***************************************************************************)
Behind(list, places, extra) ==
  FlattenSeq([k \in DOMAIN list |-> IF k \in places THEN <<list[k], extra[k]>> ELSE <<list[k]>>])

Inserts(pos, places, list, extra, longer) ==
  /\ pos \in [1 .. Len(list) -> 1 .. Len(longer)]
  /\ \A k \in 1 .. Len(list) : longer[pos[k]] = list[k]
  /\ \A j, k \in 1 .. Len(list) :
       j < k => pos[j] < pos[k] /\ (j \in places => pos[j] + 1 < pos[k])
  /\ \A k \in places : pos[k] + 1 \in 1 .. Len(longer) /\ longer[pos[k] + 1] = extra[k]
  /\ \A p \in 1 .. Len(longer) :
       \E k \in 1 .. Len(list) : p = pos[k] \/ (k \in places /\ p = pos[k] + 1)

LEMMA BehindInserts ==
  ASSUME NEW S, NEW list \in Seq(S), NEW places, places \subseteq DOMAIN list,
         NEW extra \in [DOMAIN list -> S]
  PROVE  /\ Behind(list, places, extra) \in Seq(S)
         /\ \E pos : Inserts(pos, places, list, extra, Behind(list, places, extra))
<1>1. Len(list) \in Nat /\ DOMAIN list = 1 .. Len(list) /\ \A k \in 1 .. Len(list) : list[k] \in S
  OBVIOUS
<1>2. PICK seqs : seqs = [k \in DOMAIN list |-> IF k \in places THEN <<list[k], extra[k]>>
                                                                ELSE <<list[k]>>]
  OBVIOUS
<1>3. seqs \in Seq(Seq(S)) /\ Len(seqs) = Len(list)
  <2>1. \A k \in 1 .. Len(list) : seqs[k] \in Seq(S)
    <3>1. TAKE k \in 1 .. Len(list)
    <3>2. list[k] \in S /\ extra[k] \in S
      BY <1>1
    <3>3. <<list[k], extra[k]>> \in Seq(S) /\ <<list[k]>> \in Seq(S)
      BY <3>2
    <3>4. seqs[k] = <<list[k], extra[k]>> \/ seqs[k] = <<list[k]>>
      BY <1>1, <1>2
    <3> QED
      BY <3>3, <3>4
  <2>2. seqs = [k \in 1 .. Len(list) |-> seqs[k]]
    BY <1>1, <1>2
  <2> QED
    BY <1>1, <2>1, <2>2, IsASeq
<1>4. PICK longer : longer = Behind(list, places, extra)
  OBVIOUS
<1>5. longer = FlattenSeq(seqs)
  BY <1>2, <1>4 DEF Behind
<1>6. PICK off : /\ Offsets(off, seqs) /\ Placed(off, seqs, longer)
                 /\ Len(longer) = off[Len(seqs)] /\ longer \in Seq(S)
  BY <1>3, <1>5, FlattenPlaces
<1>7. \A k \in 1 .. Len(list) : /\ k \in places => Len(seqs[k]) = 2
                                /\ k \notin places => Len(seqs[k]) = 1
  BY <1>1, <1>2
<1>8. /\ \A k \in 1 .. Len(list) : seqs[k][1] = list[k]
      /\ \A k \in places : seqs[k][2] = extra[k]
  BY <1>1, <1>2
<1>9. \A k \in 0 .. Len(list) : off[k] \in Nat
  BY <1>3, <1>6 DEF Offsets
<1>10. \A k \in 1 .. Len(list) : /\ k - 1 \in 0 .. Len(list) /\ k \in 0 .. Len(list)
                                 /\ k \in places => off[k] = off[k-1] + 2
                                 /\ k \notin places => off[k] = off[k-1] + 1
  <2>1. TAKE k \in 1 .. Len(list)
  <2>2. k - 1 \in 0 .. Len(list) /\ k \in 0 .. Len(list)
    BY <1>1
  <2>3. off[k] = off[k-1] + Len(seqs[k])
    BY <1>3, <1>6 DEF Offsets
  <2>4. PICK l : l = Len(seqs[k])
    OBVIOUS
  <2>5. (k \in places => l = 2) /\ (k \notin places => l = 1) /\ off[k] = off[k-1] + l
    BY <1>7, <2>3, <2>4
  <2>6. off[k-1] \in Nat
    BY <1>9, <2>2
  <2> QED
    BY <2>2, <2>5, <2>6
<1>11. \A k \in 0 .. Len(list) : \A j \in 0 .. k : off[j] <= off[k]
  BY <1>3, <1>6, OffsetsGrow
<1>12. PICK pos : pos = [k \in 1 .. Len(list) |-> off[k-1] + 1]
  OBVIOUS
<1>13. \A k \in 1 .. Len(list) :
         /\ pos[k] = off[k-1] + 1 /\ off[k-1] \in Nat /\ off[k] \in Nat
         /\ k \in places => pos[k] + 1 = off[k]
         /\ k \notin places => pos[k] = off[k]
         /\ off[k] <= Len(longer)
  <2>1. TAKE k \in 1 .. Len(list)
  <2>2. Len(list) \in 0 .. Len(list) /\ k \in 0 .. Len(list)
    BY <1>1
  <2>3. off[k] <= off[Len(list)] /\ off[Len(list)] = Len(longer)
    BY <1>3, <1>6, <1>11, <2>2
  <2>4. pos[k] = off[k-1] + 1 /\ off[k-1] \in Nat /\ off[k] \in Nat
    BY <1>9, <1>10, <1>12, <2>2
  <2> QED
    BY <1>10, <2>3, <2>4
<1>14. Len(longer) \in Nat
  BY <1>6
<1>15. \A k \in 1 .. Len(list) : pos[k] \in 1 .. Len(longer)
  <2>1. TAKE k \in 1 .. Len(list)
  <2>2. PICK a, b, c : a = off[k-1] /\ b = off[k] /\ c = Len(longer)
    OBVIOUS
  <2>3. a \in Nat /\ b \in Nat /\ c \in Nat /\ b <= c /\ pos[k] = a + 1
        /\ (pos[k] + 1 = b \/ pos[k] = b)
    BY <1>13, <1>14, <2>2
  <2> QED
    BY <2>2, <2>3
<1>16. \A k \in 1 .. Len(list) : longer[pos[k]] = list[k]
  <2>1. TAKE k \in 1 .. Len(list)
  <2>2. PICK l : l = Len(seqs[k])
    OBVIOUS
  <2>3. 1 \in 1 .. l
    <3>1. l = 1 \/ l = 2
      BY <1>7, <2>2
    <3> QED
      BY <3>1
  <2>4. longer[off[k-1] + 1] = seqs[k][1]
    BY <1>3, <1>6, <2>2, <2>3 DEF Placed
  <2> QED
    BY <1>8, <1>13, <2>4
<1>17. ASSUME NEW k \in places
       PROVE  pos[k] + 1 \in 1 .. Len(longer) /\ longer[pos[k] + 1] = extra[k]
  <2>1. k \in 1 .. Len(list)
    BY <1>1
  <2>2. PICK l : l = Len(seqs[k])
    OBVIOUS
  <2>3. 2 \in 1 .. l
    <3>1. l = 2
      BY <1>7, <2>1, <2>2
    <3> QED
      BY <3>1
  <2>4. longer[off[k-1] + 2] = seqs[k][2]
    BY <1>3, <1>6, <2>1, <2>2, <2>3 DEF Placed
  <2>5. pos[k] + 1 = off[k-1] + 2 /\ pos[k] + 1 \in 1 .. Len(longer)
    BY <1>13, <1>14, <2>1
  <2> QED
    BY <1>8, <2>4, <2>5
<1>18. ASSUME NEW j \in 1 .. Len(list), NEW k \in 1 .. Len(list), j < k
       PROVE  pos[j] < pos[k] /\ (j \in places => pos[j] + 1 < pos[k])
  <2>1. k - 1 \in 0 .. Len(list) /\ j \in 0 .. k - 1
    BY <1>1, <1>18
  <2>2. off[j] <= off[k-1]
    BY <1>11, <2>1
  <2>3. /\ pos[k] = off[k-1] + 1 /\ off[k-1] \in Nat /\ off[j] \in Nat
        /\ pos[j] = off[j-1] + 1 /\ off[j-1] \in Nat
        /\ (j \in places => pos[j] + 1 = off[j]) /\ (j \notin places => pos[j] = off[j])
    BY <1>13
  <2> QED
    BY SMTT(30), <2>2, <2>3
<1>19. ASSUME NEW p \in 1 .. Len(longer)
       PROVE  \E k \in 1 .. Len(list) : p = pos[k] \/ (k \in places /\ p = pos[k] + 1)
  <2>1. Covered(off, seqs)
    BY <1>3, <1>6, OffsetsCover
  <2>2. PICK k \in 1 .. Len(seqs) : \E j \in 1 .. Len(seqs[k]) : p = off[k-1] + j
    BY <1>6, <2>1, Zenon DEF Covered
  <2>3. PICK l : l = Len(seqs[k])
    OBVIOUS
  <2>4. PICK j \in 1 .. l : p = off[k-1] + j
    BY <2>2, <2>3
  <2>5. k \in 1 .. Len(list)
    BY <1>3
  <2>6. (k \in places => l = 2) /\ (k \notin places => l = 1)
    BY <1>7, <2>3, <2>5
  <2>7. pos[k] = off[k-1] + 1 /\ off[k-1] \in Nat
    BY <1>13, <2>5
  <2>8. p = pos[k] \/ (k \in places /\ p = pos[k] + 1)
    BY SMTT(30), <2>4, <2>6, <2>7
  <2> QED
    BY <2>5, <2>8
<1>20. pos \in [1 .. Len(list) -> 1 .. Len(longer)]
  BY <1>12, <1>15
<1>21. Inserts(pos, places, list, extra, longer)
  BY <1>16, <1>17, <1>18, <1>19, <1>20 DEF Inserts
<1> QED
  BY <1>4, <1>6, <1>21

-----------------------------------------------------------------------------
(***************************************************************************)
(* The items of a history, and which of them normalisation keeps and adds  *)
(* to.                                                                     *)
(***************************************************************************)
LackingAt(items) == {k \in DOMAIN items : LacksOutput(items, items[k])}

KeptAt(items) ==
  {k \in DOMAIN items : items[k].kind = "output" => KeptOutput(items, items[k])}

Aborted(items) == [k \in DOMAIN items |-> Output(items[k].family, items[k].id, "aborted")]

LEMMA AbortedTyped ==
  ASSUME NEW items \in Seq(AnyItem)
  PROVE  /\ Aborted(items) \in [DOMAIN items -> AnyItem]
         /\ \A k \in DOMAIN items :
              /\ Aborted(items)[k].kind = "output" /\ Aborted(items)[k].family = items[k].family
              /\ Aborted(items)[k].id = items[k].id /\ Aborted(items)[k].side = "input"
              /\ Aborted(items)[k].body = "aborted"
<1>1. ASSUME NEW x \in AnyItem
      PROVE  /\ Output(x.family, x.id, "aborted") \in AnyItem
             /\ Output(x.family, x.id, "aborted").kind = "output"
             /\ Output(x.family, x.id, "aborted").family = x.family
             /\ Output(x.family, x.id, "aborted").id = x.id
             /\ Output(x.family, x.id, "aborted").side = "input"
             /\ Output(x.family, x.id, "aborted").body = "aborted"
  <2>1. x.family \in FamilyNames /\ x.id \in Ids
    BY DEF AnyItem
  <2> QED
    BY <2>1 DEF Output, Item, AnyItem, Kinds, Sides, Execs, Bodies
<1>2. \A k \in DOMAIN items : items[k] \in AnyItem
  OBVIOUS
<1> QED
  BY <1>1, <1>2 DEF Aborted

LEMMA EnsureInserts ==
  ASSUME NEW items \in Seq(AnyItem)
  PROVE  /\ EnsureCallOutputsPresent(items) \in Seq(AnyItem)
         /\ \E pos : Inserts(pos, LackingAt(items), items, Aborted(items),
                             EnsureCallOutputsPresent(items))
<1>1. EnsureCallOutputsPresent(items) = Behind(items, LackingAt(items), Aborted(items))
  BY DEF EnsureCallOutputsPresent, Behind, LackingAt, Aborted
<1>2. LackingAt(items) \subseteq DOMAIN items
  BY DEF LackingAt
<1> QED
  BY <1>1, <1>2, AbortedTyped, BehindInserts

LEMMA Retains ==
  ASSUME NEW items \in Seq(AnyItem)
  PROVE  RemoveOrphanOutputs(items) = ItemsAt(items, KeptAt(items))
<1>1. PICK f : f = [list \in Seq(AnyItem) |-> ItemsAt(list, KeptAt(list))]
  OBVIOUS
<1>2. RemoveOrphanOutputs(items) = f[items]
  BY <1>1, Zenon DEF RemoveOrphanOutputs, KeptAt
<1> QED
  BY <1>1, <1>2, Zenon

LEMMA RemoveSelects ==
  ASSUME NEW items \in Seq(AnyItem)
  PROVE  /\ RemoveOrphanOutputs(items) \in Seq(AnyItem)
         /\ \E at : Selects(at, KeptAt(items), items, RemoveOrphanOutputs(items))
<1>1. KeptAt(items) \subseteq DOMAIN items
  BY DEF KeptAt
<1>2. RemoveOrphanOutputs(items) = ItemsAt(items, KeptAt(items))
  BY Retains
<1> QED
  BY <1>1, <1>2, ItemsAtSelects

-----------------------------------------------------------------------------
(***************************************************************************)
(* What normalisation adds and removes: the items it keeps stay in order,  *)
(* and a call without an output has a synthetic one right behind it.       *)
(***************************************************************************)
Renders(own, items, list) ==
  /\ own \in [KeptAt(items) -> 1 .. Len(list)]
  /\ \A k \in KeptAt(items) : list[own[k]] = items[k]
  /\ \A j, k \in KeptAt(items) :
       j < k => own[j] < own[k] /\ (j \in LackingAt(items) => own[j] + 1 < own[k])
  /\ \A k \in LackingAt(items) : /\ k \in KeptAt(items) /\ own[k] + 1 \in 1 .. Len(list)
                                 /\ list[own[k] + 1] = Aborted(items)[k]
  /\ \A q \in 1 .. Len(list) :
       \E k \in KeptAt(items) : q = own[k] \/ (k \in LackingAt(items) /\ q = own[k] + 1)

\* Synthetic outputs make no call.
LEMMA EnsuredCallIds ==
  ASSUME NEW items \in Seq(AnyItem), NEW pos, NEW longer \in Seq(AnyItem),
         Inserts(pos, LackingAt(items), items, Aborted(items), longer)
  PROVE  \A family : CallIdsOf(longer, family) = CallIdsOf(items, family)
<1>1. /\ Len(items) \in Nat /\ DOMAIN items = 1 .. Len(items)
      /\ DOMAIN longer = 1 .. Len(longer)
  OBVIOUS
<1>2. TAKE family
<1>3. ASSUME NEW k \in DOMAIN items PROVE longer[pos[k]] = items[k] /\ pos[k] \in DOMAIN longer
  BY <1>1 DEF Inserts
<1>4. ASSUME NEW p \in DOMAIN longer, longer[p].kind = "call"
      PROVE  \E k \in DOMAIN items : items[k] = longer[p]
  <2>1. PICK k \in 1 .. Len(items) :
          p = pos[k] \/ (k \in LackingAt(items) /\ p = pos[k] + 1)
    BY <1>1 DEF Inserts
  <2>2. k \in LackingAt(items) /\ p = pos[k] + 1 => longer[p].kind = "output"
    BY <1>1, AbortedTyped DEF Inserts
  <2>3. p = pos[k]
    BY <1>4, <2>1, <2>2
  <2> QED
    BY <1>1, <1>3, <2>3
<1>5. \A id : id \in CallIdsOf(longer, family) <=>
                \E p \in DOMAIN longer : /\ longer[p].kind = "call" /\ longer[p].family = family
                                         /\ longer[p].id # NoId /\ longer[p].id = id
  BY DEF CallIdsOf
<1>6. \A id : id \in CallIdsOf(items, family) <=>
                \E p \in DOMAIN items : /\ items[p].kind = "call" /\ items[p].family = family
                                        /\ items[p].id # NoId /\ items[p].id = id
  BY DEF CallIdsOf
<1>7. \A id : id \in CallIdsOf(longer, family) <=> id \in CallIdsOf(items, family)
  BY SMTT(30), <1>3, <1>4, <1>5, <1>6
<1> QED
  BY <1>7

\* What is kept of the longer list: the items kept of the shorter one, and
\* what was inserted.
LEMMA EnsuredKept ==
  ASSUME NEW items \in Seq(AnyItem), NEW pos, NEW longer \in Seq(AnyItem),
         Inserts(pos, LackingAt(items), items, Aborted(items), longer)
  PROVE  /\ LackingAt(items) \subseteq KeptAt(items)
         /\ \A k \in DOMAIN items : k \in KeptAt(items) <=> pos[k] \in KeptAt(longer)
         /\ \A k \in LackingAt(items) : pos[k] + 1 \in KeptAt(longer)
<1>1. /\ Len(items) \in Nat /\ DOMAIN items = 1 .. Len(items)
      /\ DOMAIN longer = 1 .. Len(longer)
  OBVIOUS
<1>2. \A output : KeptOutput(longer, output) <=> KeptOutput(items, output)
  BY EnsuredCallIds DEF KeptOutput
<1>3. LackingAt(items) \subseteq KeptAt(items)
  BY DEF LackingAt, LacksOutput, KeptAt
<1>4. ASSUME NEW k \in DOMAIN items
      PROVE  k \in KeptAt(items) <=> pos[k] \in KeptAt(longer)
  <2>1. longer[pos[k]] = items[k] /\ pos[k] \in DOMAIN longer
    BY <1>1 DEF Inserts
  <2> QED
    BY <1>2, <2>1 DEF KeptAt
<1>5. ASSUME NEW k \in LackingAt(items) PROVE pos[k] + 1 \in KeptAt(longer)
  <2>1. k \in DOMAIN items /\ items[k].kind = "call" /\ items[k].id # NoId
    BY DEF LackingAt, LacksOutput
  <2>2. pos[k] + 1 \in DOMAIN longer /\ longer[pos[k] + 1] = Aborted(items)[k]
    BY <1>1 DEF Inserts
  <2>3. items[k].id \in CallIdsOf(items, items[k].family)
    BY <2>1 DEF CallIdsOf
  <2>4. PICK x : x = longer[pos[k] + 1]
    OBVIOUS
  <2>5. x.family = items[k].family /\ x.id = items[k].id
    BY <2>1, <2>2, <2>4, AbortedTyped
  <2>6. KeptOutput(longer, x)
    BY <1>2, <2>3, <2>5 DEF KeptOutput
  <2> QED
    BY <2>2, <2>4, <2>6 DEF KeptAt
<1> QED
  BY <1>3, <1>4, <1>5

LEMMA ListRenders ==
  ASSUME NEW items \in Seq(AnyItem), NEW list,
         list = RemoveOrphanOutputs(EnsureCallOutputsPresent(items))
  PROVE  list \in Seq(AnyItem) /\ \E own : Renders(own, items, list)
<1>1. PICK longer : longer = EnsureCallOutputsPresent(items)
  OBVIOUS
<1>2. PICK pos : Inserts(pos, LackingAt(items), items, Aborted(items), longer)
  BY <1>1, EnsureInserts
<1>3. longer \in Seq(AnyItem)
  BY <1>1, EnsureInserts
<1>4. list \in Seq(AnyItem) /\ \E at : Selects(at, KeptAt(longer), longer, list)
  BY <1>1, <1>3, RemoveSelects
<1>5. PICK at : Selects(at, KeptAt(longer), longer, list)
  BY <1>4
<1>6. /\ LackingAt(items) \subseteq KeptAt(items)
      /\ \A k \in DOMAIN items : k \in KeptAt(items) <=> pos[k] \in KeptAt(longer)
      /\ \A k \in LackingAt(items) : pos[k] + 1 \in KeptAt(longer)
  BY <1>2, <1>3, EnsuredKept
<1>7. /\ Len(items) \in Nat /\ DOMAIN items = 1 .. Len(items) /\ KeptAt(items) \subseteq DOMAIN items
      /\ Len(longer) \in Nat /\ KeptAt(longer) \subseteq 1 .. Len(longer) /\ Len(list) \in Nat
  BY <1>3, <1>4 DEF KeptAt
<1>8. /\ \A q \in 1 .. Len(list) : at[q] \in KeptAt(longer) /\ at[q] \in Nat /\ list[q] = longer[at[q]]
      /\ \A p, q \in 1 .. Len(list) : p < q => at[p] < at[q]
      /\ \A k \in KeptAt(longer) : \E q \in 1 .. Len(list) : at[q] = k
  BY <1>5, <1>7 DEF Selects, Increasing
<1>9. ASSUME NEW p \in 1 .. Len(list), NEW q \in 1 .. Len(list)
      PROVE  /\ at[p] < at[q] => p < q
             /\ at[p] = at[q] => p = q
             /\ at[q] = at[p] + 1 => q = p + 1
  <2>1. /\ at[p] \in Nat /\ at[q] \in Nat /\ p \in Nat /\ q \in Nat
        /\ p < q => at[p] < at[q]
        /\ q < p => at[q] < at[p]
    BY <1>8
  <2>2. at[p] < at[q] => p < q
    BY <2>1
  <2>3. at[p] = at[q] => p = q
    BY <2>1
  <2>4. ASSUME at[q] = at[p] + 1 PROVE q = p + 1
    <3>1. p < q
      BY <2>1, <2>2, <2>4
    <3>2. CASE p + 1 < q
      <4>1. p + 1 \in 1 .. Len(list)
        BY <1>7, <2>1, <3>2
      <4>2. at[p + 1] \in Nat /\ at[p] < at[p + 1] /\ at[p + 1] < at[q]
        BY <1>8, <2>1, <3>2, <4>1
      <4> QED
        BY <2>1, <2>4, <4>2
    <3> QED
      BY <2>1, <3>1, <3>2
  <2> QED
    BY <2>2, <2>3, <2>4
<1>10. \A k \in KeptAt(items) : \E q \in 1 .. Len(list) : at[q] = pos[k]
  BY <1>6, <1>7, <1>8
<1>11. PICK own : own = [k \in KeptAt(items) |-> CHOOSE q \in 1 .. Len(list) : at[q] = pos[k]]
  OBVIOUS
<1>12. \A k \in KeptAt(items) : own[k] \in 1 .. Len(list) /\ at[own[k]] = pos[k]
  BY <1>10, <1>11
<1>13. own \in [KeptAt(items) -> 1 .. Len(list)]
  BY <1>11, <1>12
<1>14. \A k \in KeptAt(items) : k \in 1 .. Len(items) /\ longer[pos[k]] = items[k]
  BY <1>2, <1>7 DEF Inserts
<1>15. \A k \in KeptAt(items) : list[own[k]] = items[k]
  BY <1>8, <1>12, <1>14
<1>16. ASSUME NEW k \in LackingAt(items)
       PROVE  /\ k \in KeptAt(items) /\ own[k] + 1 \in 1 .. Len(list)
              /\ list[own[k] + 1] = Aborted(items)[k] /\ at[own[k] + 1] = pos[k] + 1
  <2>1. k \in KeptAt(items)
    BY <1>6
  <2>2. PICK q \in 1 .. Len(list) : at[q] = pos[k] + 1
    BY <1>6, <1>8
  <2>3. at[q] = at[own[k]] + 1 /\ own[k] \in 1 .. Len(list)
    BY <1>12, <2>1, <2>2
  <2>4. q = own[k] + 1
    BY <1>9, <2>3
  <2>5. longer[pos[k] + 1] = Aborted(items)[k]
    BY <1>2 DEF Inserts
  <2> QED
    BY <1>8, <2>1, <2>2, <2>4, <2>5
<1>17. ASSUME NEW j \in KeptAt(items), NEW k \in KeptAt(items), j < k
       PROVE  own[j] < own[k] /\ (j \in LackingAt(items) => own[j] + 1 < own[k])
  <2>1. pos[j] < pos[k] /\ (j \in LackingAt(items) => pos[j] + 1 < pos[k])
    BY <1>2, <1>14, <1>17 DEF Inserts
  <2>2. own[j] < own[k]
    BY <1>9, <1>12, <2>1
  <2>3. ASSUME j \in LackingAt(items) PROVE own[j] + 1 < own[k]
    <3>1. own[j] + 1 \in 1 .. Len(list) /\ at[own[j] + 1] < at[own[k]] /\ own[k] \in 1 .. Len(list)
      BY <1>12, <1>16, <2>1, <2>3
    <3> QED
      BY <1>9, <3>1
  <2> QED
    BY <2>2, <2>3
<1>18. ASSUME NEW q \in 1 .. Len(list)
       PROVE  \E k \in KeptAt(items) : q = own[k] \/ (k \in LackingAt(items) /\ q = own[k] + 1)
  <2>1. at[q] \in KeptAt(longer) /\ at[q] \in 1 .. Len(longer)
    BY <1>7, <1>8
  <2>2. PICK k \in 1 .. Len(items) :
          at[q] = pos[k] \/ (k \in LackingAt(items) /\ at[q] = pos[k] + 1)
    BY <1>2, <2>1 DEF Inserts
  <2>3. CASE at[q] = pos[k]
    <3>1. k \in KeptAt(items)
      BY <1>6, <1>7, <2>1, <2>3
    <3>2. q = own[k]
      BY <1>9, <1>12, <2>3, <3>1
    <3> QED
      BY <3>1, <3>2
  <2>4. CASE k \in LackingAt(items) /\ at[q] = pos[k] + 1
    <3>1. own[k] + 1 \in 1 .. Len(list) /\ at[own[k] + 1] = at[q] /\ k \in KeptAt(items)
      BY <1>16, <2>4
    <3>2. q = own[k] + 1
      BY <1>9, <3>1
    <3> QED
      BY <2>4, <3>1, <3>2
  <2> QED
    BY <2>2, <2>3, <2>4
<1>19. Renders(own, items, list)
  BY <1>13, <1>15, <1>16, <1>17, <1>18 DEF Renders
<1> QED
  BY <1>4, <1>19

-----------------------------------------------------------------------------
(***************************************************************************)
(* The prompt: the rendered list, with every image replaced and every long *)
(* output cut. What an item is does not change, nor whether it says that   *)
(* its call was aborted.                                                   *)
(***************************************************************************)
Stripped(item) ==
  IF CarriesImages(item) /\ item.body = "image" THEN [item EXCEPT !.body = "omitted"] ELSE item

Bounded(item, limited) ==
  IF limited /\ item.kind = "output" /\ item.family # "search" /\ item.body \in OverBudget
  THEN [item EXCEPT !.body = Cut(item.body)] ELSE item

Same(x, y) ==
  /\ x.kind = y.kind /\ x.family = y.family /\ x.id = y.id
  /\ x.side = y.side /\ x.exec = y.exec
  /\ x.body = "aborted" <=> y.body = "aborted"

LEMMA StrippedSame ==
  ASSUME NEW x \in AnyItem
  PROVE  /\ Stripped(x) \in AnyItem /\ Same(Stripped(x), x)
         /\ CarriesImages(x) => Stripped(x).body # "image"
         /\ x.body # "image" => Stripped(x) = x
         /\ Stripped(x).body \in {x.body, "omitted"}
<1>1. CASE CarriesImages(x) /\ x.body = "image"
  <2>1. Stripped(x) = [x EXCEPT !.body = "omitted"] /\ "omitted" \in Bodies
    BY <1>1 DEF Stripped, Bodies
  <2>2. /\ Stripped(x) \in AnyItem
        /\ Stripped(x).kind = x.kind /\ Stripped(x).family = x.family /\ Stripped(x).id = x.id
        /\ Stripped(x).side = x.side /\ Stripped(x).exec = x.exec /\ Stripped(x).body = "omitted"
    BY <2>1 DEF AnyItem
  <2> QED
    BY <1>1, <2>2 DEF Same
<1>2. CASE ~(CarriesImages(x) /\ x.body = "image")
  BY <1>2 DEF Stripped, Same
<1> QED
  BY <1>1, <1>2

LEMMA BoundedSame ==
  ASSUME NEW x \in AnyItem, NEW limited \in BOOLEAN
  PROVE  /\ Bounded(x, limited) \in AnyItem /\ Same(Bounded(x, limited), x)
         /\ limited /\ x.kind = "output" /\ x.family # "search" /\ x.body \notin {"cut", "cut again"} =>
              Bounded(x, limited).body \notin {"long", "cut again"}
         /\ x.kind # "output" => Bounded(x, limited) = x
         /\ Bounded(x, limited).body = "image" <=> x.body = "image"
<1>1. CASE limited /\ x.kind = "output" /\ x.family # "search" /\ x.body \in OverBudget
  <2> DEFINE cut == Cut(x.body)
  <2>1. Bounded(x, limited) = [x EXCEPT !.body = cut] /\ cut \in Bodies
        /\ cut \in {"cut", "cut again"} /\ (x.body = "long" => cut = "cut")
    BY <1>1 DEF Bounded, Bodies, Cut
  <2> HIDE DEF cut
  <2>2. PICK y : y = Bounded(x, limited)
    OBVIOUS
  <2>3. /\ y \in AnyItem
        /\ y.kind = x.kind /\ y.family = x.family /\ y.id = x.id
        /\ y.side = x.side /\ y.exec = x.exec /\ y.body = cut
    BY <2>1, <2>2 DEF AnyItem
  <2>4. Same(y, x)
    BY <1>1, <2>1, <2>3 DEF Same, OverBudget
  <2> QED
    BY <1>1, <2>1, <2>2, <2>3, <2>4 DEF OverBudget
<1>2. CASE ~(limited /\ x.kind = "output" /\ x.family # "search" /\ x.body \in OverBudget)
  <2>1. Bounded(x, limited) = x
    BY <1>2 DEF Bounded
  <2> QED
    BY <1>2, <2>1 DEF Same, OverBudget
<1> QED
  BY <1>1, <1>2

LEMMA PromptMaps ==
  ASSUME NEW items \in Seq(AnyItem), NEW limited \in BOOLEAN, NEW list,
         list = RemoveOrphanOutputs(EnsureCallOutputsPresent(items)),
         NEW prompt, prompt = ForPrompt(items, limited)
  PROVE  /\ list \in Seq(AnyItem) /\ prompt \in Seq(AnyItem)
         /\ Len(prompt) = Len(list) /\ DOMAIN prompt = 1 .. Len(prompt)
         /\ \A q \in 1 .. Len(list) : /\ prompt[q] = Bounded(Stripped(list[q]), limited)
                                      /\ Same(prompt[q], list[q])
<1>1. list \in Seq(AnyItem)
  BY ListRenders
<1>2. Len(list) \in Nat /\ DOMAIN list = 1 .. Len(list) /\ \A q \in 1 .. Len(list) : list[q] \in AnyItem
  BY <1>1
<1>3. PICK stripped : stripped = StripImages(list)
  OBVIOUS
<1>4. stripped = [q \in 1 .. Len(list) |-> Stripped(list[q])]
  BY <1>2, <1>3 DEF StripImages, Stripped
<1>5. /\ DOMAIN stripped = 1 .. Len(list)
      /\ \A q \in 1 .. Len(list) : stripped[q] = Stripped(list[q]) /\ stripped[q] \in AnyItem
                                   /\ Same(stripped[q], list[q])
  BY <1>2, <1>4, StrippedSame
<1>6. prompt = TruncateFunctionOutputs(stripped, limited)
  <2>1. PICK f : f = [l \in Seq(AnyItem) |-> TruncateFunctionOutputs(StripImages(l), limited)]
    OBVIOUS
  <2>2. prompt = f[list]
    BY <2>1, Zenon DEF ForPrompt
  <2> QED
    BY <1>1, <1>3, <2>1, <2>2, Zenon
<1>7. prompt = [q \in 1 .. Len(list) |-> Bounded(stripped[q], limited)]
  BY <1>5, <1>6 DEF TruncateFunctionOutputs, Bounded
<1>8. \A q \in 1 .. Len(list) : /\ prompt[q] = Bounded(Stripped(list[q]), limited)
                                /\ prompt[q] \in AnyItem /\ Same(prompt[q], stripped[q])
  BY ZenonT(30), <1>5, <1>7, BoundedSame
<1>9. prompt \in Seq(AnyItem) /\ Len(prompt) = Len(list) /\ DOMAIN prompt = 1 .. Len(prompt)
  <2>1. prompt = [q \in 1 .. Len(list) |-> prompt[q]]
    BY <1>7
  <2>2. \A q \in 1 .. Len(list) : prompt[q] \in AnyItem
    BY <1>8
  <2> QED
    BY <1>2, <2>1, <2>2, IsASeq, LenProperties
<1> QED
  BY <1>1, <1>5, <1>8, <1>9 DEF Same

\* The prompt as the history shows in it.
Shows(own, items, prompt) ==
  /\ own \in [KeptAt(items) -> 1 .. Len(prompt)]
  /\ \A k \in KeptAt(items) : Same(prompt[own[k]], items[k])
  /\ \A j, k \in KeptAt(items) :
       j < k => own[j] < own[k] /\ (j \in LackingAt(items) => own[j] + 1 < own[k])
  /\ \A k \in LackingAt(items) : /\ k \in KeptAt(items) /\ own[k] + 1 \in 1 .. Len(prompt)
                                 /\ Same(prompt[own[k] + 1], Aborted(items)[k])
  /\ \A q \in 1 .. Len(prompt) :
       \E k \in KeptAt(items) : q = own[k] \/ (k \in LackingAt(items) /\ q = own[k] + 1)

LEMMA PromptShows ==
  ASSUME NEW items \in Seq(AnyItem), NEW limited \in BOOLEAN
  PROVE  /\ ForPrompt(items, limited) \in Seq(AnyItem)
         /\ \E own : Shows(own, items, ForPrompt(items, limited))
<1>1. PICK list, prompt : /\ list = RemoveOrphanOutputs(EnsureCallOutputsPresent(items))
                          /\ prompt = ForPrompt(items, limited)
  OBVIOUS
<1>2. PICK own : Renders(own, items, list)
  BY <1>1, ListRenders
<1>3. /\ prompt \in Seq(AnyItem) /\ Len(prompt) = Len(list)
      /\ \A q \in 1 .. Len(list) : Same(prompt[q], list[q])
  BY <1>1, PromptMaps
<1>4. ASSUME NEW k \in KeptAt(items)
      PROVE  own[k] \in 1 .. Len(list) /\ Same(prompt[own[k]], items[k])
  <2>1. own[k] \in 1 .. Len(list) /\ list[own[k]] = items[k]
    BY <1>2 DEF Renders
  <2> QED
    BY <1>3, <2>1
<1>5. ASSUME NEW k \in LackingAt(items)
      PROVE  /\ k \in KeptAt(items) /\ own[k] + 1 \in 1 .. Len(list)
             /\ Same(prompt[own[k] + 1], Aborted(items)[k])
  <2>1. /\ k \in KeptAt(items) /\ own[k] + 1 \in 1 .. Len(list)
        /\ list[own[k] + 1] = Aborted(items)[k]
    BY <1>2 DEF Renders
  <2> QED
    BY <1>3, <2>1
<1>6. Shows(own, items, prompt)
  <2>1. own \in [KeptAt(items) -> 1 .. Len(prompt)]
    BY <1>2, <1>3 DEF Renders
  <2>2. \A j, k \in KeptAt(items) :
          j < k => own[j] < own[k] /\ (j \in LackingAt(items) => own[j] + 1 < own[k])
    BY <1>2 DEF Renders
  <2>3. \A q \in 1 .. Len(prompt) :
          \E k \in KeptAt(items) : q = own[k] \/ (k \in LackingAt(items) /\ q = own[k] + 1)
    BY <1>2, <1>3 DEF Renders
  <2> QED
    BY <1>3, <1>4, <1>5, <2>1, <2>2, <2>3 DEF Shows
<1> QED
  BY <1>1, <1>3, <1>6

-----------------------------------------------------------------------------
(***************************************************************************)
(* What every prompt is, whatever the history.                             *)
(***************************************************************************)
LEMMA ShownCallIds ==
  ASSUME NEW items \in Seq(AnyItem), NEW prompt \in Seq(AnyItem), NEW own,
         Shows(own, items, prompt)
  PROVE  \A family : CallIdsOf(prompt, family) = CallIdsOf(items, family)
<1>1. DOMAIN prompt = 1 .. Len(prompt) /\ DOMAIN items = 1 .. Len(items)
  OBVIOUS
<1>2. TAKE family
<1>3. ASSUME NEW k \in DOMAIN items, items[k].kind = "call"
      PROVE  \E q \in DOMAIN prompt : Same(prompt[q], items[k])
  <2>1. k \in KeptAt(items)
    BY <1>3 DEF KeptAt
  <2>2. own[k] \in 1 .. Len(prompt) /\ Same(prompt[own[k]], items[k])
    BY <2>1 DEF Shows
  <2> QED
    BY <1>1, <2>2
<1>4. ASSUME NEW q \in DOMAIN prompt, prompt[q].kind = "call"
      PROVE  \E k \in DOMAIN items : Same(prompt[q], items[k])
  <2>1. PICK k \in KeptAt(items) : q = own[k] \/ (k \in LackingAt(items) /\ q = own[k] + 1)
    BY <1>1 DEF Shows
  <2>2. k \in DOMAIN items
    BY DEF KeptAt
  <2>3. ~(k \in LackingAt(items) /\ q = own[k] + 1)
    <3>1. SUFFICES ASSUME k \in LackingAt(items), q = own[k] + 1 PROVE FALSE
      OBVIOUS
    <3>2. Same(prompt[q], Aborted(items)[k])
      BY <3>1 DEF Shows
    <3>3. prompt[q].kind = "output"
      BY <2>2, <3>2, AbortedTyped DEF Same
    <3> QED
      BY <1>4, <3>3
  <2> QED
    BY <2>1, <2>2, <2>3 DEF Shows
<1>5. \A list, id : id \in CallIdsOf(list, family) <=>
                \E p \in DOMAIN list : /\ list[p].kind = "call" /\ list[p].family = family
                                       /\ list[p].id # NoId /\ list[p].id = id
  BY DEF CallIdsOf
<1>6. ASSUME NEW id PROVE id \in CallIdsOf(prompt, family) <=> id \in CallIdsOf(items, family)
  <2>1. ASSUME id \in CallIdsOf(prompt, family) PROVE id \in CallIdsOf(items, family)
    <3>1. PICK q \in DOMAIN prompt : /\ prompt[q].kind = "call" /\ prompt[q].family = family
                                     /\ prompt[q].id # NoId /\ prompt[q].id = id
      BY <1>5, <2>1
    <3>2. PICK k \in DOMAIN items : Same(prompt[q], items[k])
      BY <1>4, <3>1
    <3> QED
      BY <1>5, <3>1, <3>2 DEF Same
  <2>2. ASSUME id \in CallIdsOf(items, family) PROVE id \in CallIdsOf(prompt, family)
    <3>1. PICK k \in DOMAIN items : /\ items[k].kind = "call" /\ items[k].family = family
                                    /\ items[k].id # NoId /\ items[k].id = id
      BY <1>5, <2>2
    <3>2. PICK q \in DOMAIN prompt : Same(prompt[q], items[k])
      BY <1>3, <3>1
    <3> QED
      BY <1>5, <3>1, <3>2 DEF Same
  <2> QED
    BY <2>1, <2>2
<1> QED
  BY <1>6

LEMMA ShownOutputs ==
  ASSUME NEW items \in Seq(AnyItem), NEW prompt \in Seq(AnyItem), NEW own,
         Shows(own, items, prompt), NEW family, NEW id, id \in CallIdsOf(items, family)
  PROVE  HasOutput(prompt, family, id)
<1>1. DOMAIN prompt = 1 .. Len(prompt) /\ DOMAIN items = 1 .. Len(items)
  OBVIOUS
<1>2. PICK k \in DOMAIN items : /\ items[k].kind = "call" /\ items[k].family = family
                                /\ items[k].id # NoId /\ items[k].id = id
  BY DEF CallIdsOf
<1>3. CASE k \in LackingAt(items)
  <2>1. own[k] + 1 \in DOMAIN prompt /\ Same(prompt[own[k] + 1], Aborted(items)[k])
    BY <1>1, <1>3 DEF Shows
  <2> QED
    BY <1>2, <2>1, AbortedTyped DEF HasOutput, Same
<1>4. CASE k \notin LackingAt(items)
  <2>1. HasOutput(items, family, id)
    BY <1>2, <1>4 DEF LackingAt, LacksOutput
  <2>2. PICK m \in DOMAIN items : /\ items[m].kind = "output" /\ items[m].family = family
                                  /\ items[m].id = id
    BY <2>1 DEF HasOutput
  <2>3. m \in KeptAt(items)
    BY <2>2 DEF KeptAt, KeptOutput
  <2>4. own[m] \in DOMAIN prompt /\ Same(prompt[own[m]], items[m])
    BY <1>1, <2>3 DEF Shows
  <2> QED
    BY <2>2, <2>4 DEF HasOutput, Same
<1> QED
  BY <1>3, <1>4

\* No call with an id lacks its output and no output its call.
LEMMA PromptIsPaired ==
  ASSUME NEW items \in Seq(AnyItem), NEW prompt \in Seq(AnyItem), NEW own,
         Shows(own, items, prompt)
  PROVE  \A q \in DOMAIN prompt :
           /\ ~LacksOutput(prompt, prompt[q])
           /\ prompt[q].kind = "output" => KeptOutput(prompt, prompt[q])
<1>1. DOMAIN prompt = 1 .. Len(prompt) /\ DOMAIN items = 1 .. Len(items)
  OBVIOUS
<1>2. TAKE q \in DOMAIN prompt
<1>3. \A family : CallIdsOf(prompt, family) = CallIdsOf(items, family)
  BY ShownCallIds
<1>4. ~LacksOutput(prompt, prompt[q])
  <2>1. SUFFICES ASSUME prompt[q].kind = "call", prompt[q].id # NoId
                 PROVE  HasOutput(prompt, prompt[q].family, prompt[q].id)
    BY DEF LacksOutput
  <2>2. prompt[q].id \in CallIdsOf(prompt, prompt[q].family)
    BY <2>1 DEF CallIdsOf
  <2>3. prompt[q].id \in CallIdsOf(items, prompt[q].family)
    BY <1>3, <2>2
  <2> QED
    BY <2>3, ShownOutputs
<1>5. ASSUME prompt[q].kind = "output" PROVE KeptOutput(prompt, prompt[q])
  <2>1. PICK k \in KeptAt(items) : q = own[k] \/ (k \in LackingAt(items) /\ q = own[k] + 1)
    BY <1>1 DEF Shows
  <2>2. k \in DOMAIN items
    BY DEF KeptAt
  <2>3. CASE q = own[k]
    <3>1. Same(prompt[q], items[k])
      BY <2>3 DEF Shows
    <3>2. KeptOutput(items, items[k])
      BY <1>5, <2>1, <3>1 DEF KeptAt, Same
    <3> QED
      BY <1>3, <3>1, <3>2 DEF KeptOutput, Same
  <2>4. CASE k \in LackingAt(items) /\ q = own[k] + 1
    <3>1. Same(prompt[q], Aborted(items)[k])
      BY <2>4 DEF Shows
    <3>2. prompt[q].id = items[k].id /\ prompt[q].family = items[k].family
      BY <2>2, <3>1, AbortedTyped DEF Same
    <3>3. items[k].id \in CallIdsOf(items, items[k].family)
      BY <2>4 DEF LackingAt, LacksOutput, CallIdsOf
    <3> QED
      BY <1>3, <3>2, <3>3 DEF KeptOutput
  <2> QED
    BY <2>1, <2>3, <2>4
<1> QED
  BY <1>4, <1>5

\* "aborted" is said only of a call without an output, right behind it, and no
\* output that has its call is lost.
LEMMA AbortedRight ==
  ASSUME NEW items \in Seq(AnyItem), NEW prompt \in Seq(AnyItem), NEW own,
         Shows(own, items, prompt), \A k \in DOMAIN items : items[k].body # "aborted"
  PROVE  /\ \A q \in DOMAIN prompt :
              prompt[q].body = "aborted" =>
                /\ ~HasOutput(items, prompt[q].family, prompt[q].id)
                /\ q > 1 /\ prompt[q-1].kind = "call"
                /\ prompt[q-1].id = prompt[q].id /\ prompt[q-1].family = prompt[q].family
         /\ \A k \in DOMAIN items :
              items[k].kind = "output" /\ KeptOutput(items, items[k]) =>
                \E q \in DOMAIN prompt : /\ prompt[q].kind = "output"
                                         /\ prompt[q].family = items[k].family
                                         /\ prompt[q].id = items[k].id
                                         /\ prompt[q].body # "aborted"
<1>1. DOMAIN prompt = 1 .. Len(prompt) /\ DOMAIN items = 1 .. Len(items)
  OBVIOUS
<1>2. ASSUME NEW q \in DOMAIN prompt, prompt[q].body = "aborted"
      PROVE  /\ ~HasOutput(items, prompt[q].family, prompt[q].id)
             /\ q > 1 /\ prompt[q-1].kind = "call"
             /\ prompt[q-1].id = prompt[q].id /\ prompt[q-1].family = prompt[q].family
  <2>1. PICK k \in KeptAt(items) : q = own[k] \/ (k \in LackingAt(items) /\ q = own[k] + 1)
    BY <1>1 DEF Shows
  <2>2. k \in DOMAIN items
    BY DEF KeptAt
  <2>3. own[k] \in 1 .. Len(prompt) /\ Same(prompt[own[k]], items[k])
    BY DEF Shows
  <2>4. k \in LackingAt(items) /\ q = own[k] + 1
    BY <1>2, <2>1, <2>2, <2>3 DEF Same
  <2>5. Same(prompt[q], Aborted(items)[k])
    BY <2>4 DEF Shows
  <2>6. prompt[q].id = items[k].id /\ prompt[q].family = items[k].family
    BY <2>2, <2>5, AbortedTyped DEF Same
  <2>7. items[k].kind = "call" /\ ~HasOutput(items, items[k].family, items[k].id)
    BY <2>4 DEF LackingAt, LacksOutput
  <2>8. q > 1 /\ q - 1 = own[k]
    BY <2>3, <2>4
  <2> QED
    BY <2>3, <2>6, <2>7, <2>8 DEF Same
<1>3. ASSUME NEW k \in DOMAIN items, items[k].kind = "output", KeptOutput(items, items[k])
      PROVE  \E q \in DOMAIN prompt : /\ prompt[q].kind = "output"
                                      /\ prompt[q].family = items[k].family
                                      /\ prompt[q].id = items[k].id
                                      /\ prompt[q].body # "aborted"
  <2>1. k \in KeptAt(items)
    BY <1>3 DEF KeptAt
  <2>2. own[k] \in DOMAIN prompt /\ Same(prompt[own[k]], items[k])
    BY <1>1, <2>1 DEF Shows
  <2> QED
    BY <1>3, <2>2 DEF Same
<1> QED
  BY <1>2, <1>3

-----------------------------------------------------------------------------
(***************************************************************************)
(* Histories whose prompt passes the validator of the test suite: an id is *)
(* used by one call, an output of the core comes after its call and once,  *)
(* the provider answers no call, and runs no tool search of its own.       *)
(***************************************************************************)
WellBuilt(items) ==
  /\ \A j, k \in DOMAIN items :
       /\ items[j].kind = "call" /\ items[k].kind = "call"
       /\ items[j].id = items[k].id /\ items[j].id # NoId
       => j = k
  /\ \A k \in DOMAIN items :
       items[k].kind = "output" /\ items[k].side = "input" =>
         /\ items[k].id # NoId
         /\ \E j \in DOMAIN items : /\ j < k /\ items[j].kind = "call"
                                    /\ items[j].family = items[k].family
                                    /\ items[j].id = items[k].id
         /\ \A j \in DOMAIN items :
              j < k => ~(items[j].kind = "output" /\ items[j].id = items[k].id)
  /\ \A j, k \in DOMAIN items :
       /\ items[k].kind = "output" /\ items[k].side = "response"
       /\ items[j].kind = "call" /\ items[j].id # NoId
       => items[j].id # items[k].id
  /\ \A k \in DOMAIN items :
       items[k].kind = "call" =>
         items[k].exec = "client" /\ (items[k].family # "search" => items[k].id # NoId)

LEMMA OwnOrder ==
  ASSUME NEW items \in Seq(AnyItem), NEW prompt \in Seq(AnyItem), NEW own,
         Shows(own, items, prompt)
  PROVE  /\ \A k \in KeptAt(items) : own[k] \in 1 .. Len(prompt) /\ k \in DOMAIN items
         /\ \A j, k \in KeptAt(items) : own[j] < own[k] => j < k
<1>1. DOMAIN items = 1 .. Len(items)
  OBVIOUS
<1>2. \A k \in KeptAt(items) : own[k] \in 1 .. Len(prompt) /\ k \in DOMAIN items
  BY DEF Shows, KeptAt
<1>3. \A j, k \in KeptAt(items) : k < j => own[k] < own[j]
  BY DEF Shows
<1> QED
  BY <1>1, <1>2, <1>3

\* An opening or closing of an id in the prompt is the call with this id, its
\* output, or the synthetic output of this call.
LEMMA UsesOfId ==
  ASSUME NEW items \in Seq(AnyItem), NEW prompt \in Seq(AnyItem), NEW own,
         Shows(own, items, prompt), NEW q \in DOMAIN prompt,
         Opens(prompt[q]) \/ Closes(prompt[q])
  PROVE  \/ \E k \in KeptAt(items) :
              /\ q = own[k] /\ items[k].id = prompt[q].id
              /\ items[k].kind = prompt[q].kind /\ items[k].side = prompt[q].side
              /\ items[k].family = prompt[q].family
              /\ \/ items[k].kind = "call"
                 \/ items[k].kind = "output" /\ items[k].side = "input"
         \/ \E k \in LackingAt(items) :
              /\ q = own[k] + 1 /\ items[k].id = prompt[q].id /\ items[k].kind = "call"
              /\ prompt[q].kind = "output"
<1>1. DOMAIN prompt = 1 .. Len(prompt)
  OBVIOUS
<1>2. PICK k \in KeptAt(items) : q = own[k] \/ (k \in LackingAt(items) /\ q = own[k] + 1)
  BY <1>1 DEF Shows
<1>3. CASE q = own[k]
  <2>1. Same(prompt[q], items[k])
    BY <1>3 DEF Shows
  <2>2. \/ prompt[q].kind = "call"
        \/ prompt[q].kind = "output" /\ prompt[q].side = "input"
    BY DEF Opens, Closes
  <2> QED
    BY <1>3, <2>1, <2>2 DEF Same
<1>4. CASE k \in LackingAt(items) /\ q = own[k] + 1
  <2>1. Same(prompt[q], Aborted(items)[k]) /\ k \in DOMAIN items /\ items[k].kind = "call"
    BY <1>4 DEF Shows, LackingAt, LacksOutput
  <2> QED
    BY <1>4, <2>1, AbortedTyped DEF Same
<1> QED
  BY <1>2, <1>3, <1>4

LEMMA OutputCloses ==
  ASSUME NEW items \in Seq(AnyItem), NEW prompt \in Seq(AnyItem), NEW own,
         Shows(own, items, prompt), WellBuilt(items),
         NEW j \in KeptAt(items), NEW k \in KeptAt(items), j < k,
         items[j].kind = "call", items[k].kind = "output", items[k].side = "input",
         items[j].family = items[k].family, items[j].id = items[k].id
  PROVE  ClosesAt(prompt, own[k], own[j])
<1>1. /\ DOMAIN items = 1 .. Len(items) /\ DOMAIN prompt = 1 .. Len(prompt)
      /\ j \in DOMAIN items /\ k \in DOMAIN items
      /\ own[j] \in 1 .. Len(prompt) /\ own[k] \in 1 .. Len(prompt) /\ Len(prompt) \in Nat
  BY OwnOrder
<1>2. own[j] < own[k]
  BY DEF Shows
<1>3. Same(prompt[own[j]], items[j]) /\ Same(prompt[own[k]], items[k])
  BY DEF Shows
<1>4. items[j].id # NoId /\ items[j].exec = "client"
  BY <1>1 DEF WellBuilt
<1>5. Closes(prompt[own[k]]) /\ Opens(prompt[own[j]]) /\ prompt[own[k]].id = prompt[own[j]].id
  BY <1>3, <1>4 DEF Closes, Opens, Same
<1>6. ASSUME NEW q \in own[j] + 1 .. own[k] - 1,
             Opens(prompt[q]) \/ Closes(prompt[q]), prompt[q].id = prompt[own[k]].id
      PROVE  FALSE
  <2>1. q \in DOMAIN prompt /\ own[j] < q /\ q < own[k]
    BY <1>1
  <2>2. ASSUME NEW i \in KeptAt(items), q = own[i], items[i].id = prompt[q].id,
               items[i].kind = "call" \/ (items[i].kind = "output" /\ items[i].side = "input")
        PROVE  FALSE
    <3>1. j < i /\ i < k /\ i \in DOMAIN items /\ j # i
      BY <1>1, <2>1, <2>2, OwnOrder
    <3>2. items[i].id = items[k].id
      BY <1>3, <1>6, <2>2 DEF Same
    <3>3. items[i].kind # "call"
      BY <1>1, <1>4, <3>1, <3>2 DEF WellBuilt
    <3>4. ~(items[i].kind = "output")
      BY <1>1, <3>1, <3>2 DEF WellBuilt
    <3> QED
      BY <2>2, <3>3, <3>4
  <2>3. ASSUME NEW i \in LackingAt(items), items[i].id = prompt[q].id, items[i].kind = "call"
        PROVE  FALSE
    <3>1. items[i].id = items[k].id /\ i \in DOMAIN items
      BY <1>3, <1>6, <2>3 DEF Same, LackingAt
    <3>2. i = j
      BY <1>1, <1>4, <2>3, <3>1 DEF WellBuilt
    <3>3. ~HasOutput(items, items[j].family, items[j].id)
      BY <2>3, <3>2 DEF LackingAt, LacksOutput
    <3> QED
      BY <1>1, <3>3 DEF HasOutput
  <2> QED
    BY <1>6, <2>1, <2>2, <2>3, UsesOfId
<1> QED
  BY <1>2, <1>5, <1>6 DEF ClosesAt

LEMMA AbortedCloses ==
  ASSUME NEW items \in Seq(AnyItem), NEW prompt \in Seq(AnyItem), NEW own,
         Shows(own, items, prompt), WellBuilt(items), NEW k \in LackingAt(items)
  PROVE  own[k] + 1 \in DOMAIN prompt /\ ClosesAt(prompt, own[k] + 1, own[k])
<1>1. k \in KeptAt(items) /\ k \in DOMAIN items /\ own[k] \in 1 .. Len(prompt)
      /\ items[k].kind = "call" /\ items[k].id # NoId
  BY OwnOrder DEF Shows, LackingAt, LacksOutput
<1>2. own[k] + 1 \in DOMAIN prompt
  BY DEF Shows
<1>3. Same(prompt[own[k]], items[k]) /\ Same(prompt[own[k] + 1], Aborted(items)[k])
  BY <1>1 DEF Shows
<1>4. PICK x : x = prompt[own[k] + 1]
  OBVIOUS
<1>5. x.kind = "output" /\ x.side = "input" /\ x.id = items[k].id
  BY <1>1, <1>3, <1>4, AbortedTyped DEF Same
<1>6. items[k].exec = "client"
  BY <1>1 DEF WellBuilt
<1>7. Closes(x) /\ Opens(prompt[own[k]]) /\ x.id = prompt[own[k]].id
  BY <1>1, <1>3, <1>5, <1>6 DEF Closes, Opens, Same
<1>8. own[k] + 1 .. (own[k] + 1) - 1 = {} /\ own[k] < own[k] + 1
  BY <1>1
<1> QED
  BY <1>2, <1>4, <1>7, <1>8 DEF ClosesAt

LEMMA BuiltIsValid ==
  ASSUME NEW items \in Seq(AnyItem), NEW prompt \in Seq(AnyItem), NEW own,
         Shows(own, items, prompt), WellBuilt(items)
  PROVE  RequestBodyValid(prompt)
<1>1. DOMAIN items = 1 .. Len(items) /\ DOMAIN prompt = 1 .. Len(prompt)
  OBVIOUS
<1>2. ASSUME NEW o \in DOMAIN prompt, Closes(prompt[o])
      PROVE  \E c \in DOMAIN prompt : ClosesAt(prompt, o, c)
  <2>1. ASSUME NEW k \in KeptAt(items), o = own[k], items[k].kind = "output",
               items[k].side = "input"
        PROVE  \E c \in DOMAIN prompt : ClosesAt(prompt, o, c)
    <3>1. PICK j \in DOMAIN items : /\ j < k /\ items[j].kind = "call"
                                    /\ items[j].family = items[k].family
                                    /\ items[j].id = items[k].id
      BY <2>1, OwnOrder DEF WellBuilt
    <3>2. j \in KeptAt(items)
      BY <3>1 DEF KeptAt
    <3>3. ClosesAt(prompt, own[k], own[j])
      BY <2>1, <3>1, <3>2, OutputCloses
    <3>4. own[j] \in DOMAIN prompt
      BY <1>1, <3>2, OwnOrder
    <3> QED
      BY <2>1, <3>3, <3>4
  <2>2. ASSUME NEW k \in LackingAt(items), o = own[k] + 1
        PROVE  \E c \in DOMAIN prompt : ClosesAt(prompt, o, c)
    <3>1. own[k] \in DOMAIN prompt
      BY <1>1, OwnOrder DEF Shows
    <3> QED
      BY <2>2, <3>1, AbortedCloses
  <2>3. prompt[o].kind = "output"
    BY <1>2 DEF Closes
  <2> QED
    BY <1>2, <2>1, <2>2, <2>3, UsesOfId
<1>3. ASSUME NEW c \in DOMAIN prompt, Opens(prompt[c])
      PROVE  \E o \in DOMAIN prompt : ClosesAt(prompt, o, c)
  <2>1. PICK k \in KeptAt(items) : c = own[k] /\ items[k].kind = "call"
                                   /\ items[k].family = prompt[c].family
                                   /\ items[k].id = prompt[c].id
    <3>1. prompt[c].kind = "call"
      BY <1>3 DEF Opens
    <3> QED
      BY <1>3, <3>1, UsesOfId
  <2>2. k \in DOMAIN items
    BY DEF KeptAt
  <2>3. items[k].id # NoId
    BY <1>3, <2>1, <2>2 DEF Opens, WellBuilt
  <2>4. CASE k \in LackingAt(items)
    BY <2>1, <2>4, AbortedCloses
  <2>5. CASE k \notin LackingAt(items)
    <3>1. HasOutput(items, items[k].family, items[k].id)
      BY <2>1, <2>2, <2>3, <2>5 DEF LackingAt, LacksOutput
    <3>2. PICK m \in DOMAIN items : /\ items[m].kind = "output"
                                    /\ items[m].family = items[k].family
                                    /\ items[m].id = items[k].id
      BY <3>1 DEF HasOutput
    <3>3. items[m].side = "input"
      <4>1. items[m].side \in Sides
        <5>1. items[m] \in AnyItem
          OBVIOUS
        <5> QED
          BY <5>1 DEF AnyItem
      <4>2. items[m].side # "response"
        BY <2>1, <2>2, <2>3, <3>2 DEF WellBuilt
      <4> QED
        BY <4>1, <4>2 DEF Sides
    <3>4. PICK j \in DOMAIN items : /\ j < m /\ items[j].kind = "call"
                                    /\ items[j].id = items[m].id
      BY <3>2, <3>3 DEF WellBuilt
    <3>5. j = k
      BY <2>1, <2>2, <2>3, <3>2, <3>4 DEF WellBuilt
    <3>6. items[m].id \in CallIdsOf(items, items[m].family)
      BY <2>1, <2>2, <2>3, <3>2 DEF CallIdsOf
    <3>7. m \in KeptAt(items)
      BY <3>6 DEF KeptAt, KeptOutput
    <3>8. ClosesAt(prompt, own[m], own[k])
      BY <2>1, <3>2, <3>3, <3>4, <3>5, <3>7, OutputCloses
    <3>9. own[m] \in DOMAIN prompt
      BY <1>1, <3>7, OwnOrder
    <3> QED
      BY <2>1, <3>8, <3>9
  <2> QED
    BY <2>4, <2>5
<1> QED
  BY <1>2, <1>3 DEF RequestBodyValid

-----------------------------------------------------------------------------
(***************************************************************************)
(* Concatenations that begin alike.                                        *)
(***************************************************************************)
AsLong(left, right, m) ==
  /\ m \in Nat /\ Len(left) \in Nat /\ Len(right) \in Nat
  /\ m <= Len(left) /\ m <= Len(right)
  /\ \A k \in 1 .. m : Len(left[k]) = Len(right[k])

AgreeUpTo(a, b, m) == \A k \in 0 .. m : a[k] = b[k]

LEMMA OffsetsAgree ==
  ASSUME NEW left, NEW right, NEW a, NEW b, NEW m, Offsets(a, left), Offsets(b, right),
         AsLong(left, right, m)
  PROVE  AgreeUpTo(a, b, m)
<1> USE DEF AsLong, AgreeUpTo
<1> DEFINE T == {k \in 0 .. m : a[k] = b[k]}
<1>1. 0 \in T
  BY DEF Offsets
<1>2. ASSUME NEW k \in 0 .. m, k < m, k \in T PROVE k + 1 \in T
  <2>1. k + 1 \in 1 .. m /\ k + 1 \in 1 .. Len(left) /\ k + 1 \in 1 .. Len(right)
        /\ (k + 1) - 1 = k
    BY <1>2
  <2>2. a[k + 1] = a[k] + Len(left[k + 1]) /\ b[k + 1] = b[k] + Len(right[k + 1])
    BY <2>1 DEF Offsets
  <2>3. Len(left[k + 1]) = Len(right[k + 1]) /\ a[k] = b[k]
    BY <1>2, <2>1
  <2> QED
    BY <2>1, <2>2, <2>3
<1>3. 0 .. m \subseteq T
  <2> HIDE DEF T
  <2> QED
    BY <1>1, <1>2, IntervalInduction
<1> QED
  BY <1>3

Begins(s, t) == Len(s) <= Len(t) /\ \A k \in 1 .. Len(s) : s[k] = t[k]

LEMMA FlattenBegins ==
  ASSUME NEW S, NEW left \in Seq(Seq(S)), NEW right \in Seq(Seq(S)), Begins(left, right)
  PROVE  Begins(FlattenSeq(left), FlattenSeq(right))
<1>1. Len(left) \in Nat /\ Len(right) \in Nat /\ Len(left) <= Len(right)
      /\ \A k \in 1 .. Len(left) : left[k] = right[k]
  BY DEF Begins
<1>2. PICK s, t : s = FlattenSeq(left) /\ t = FlattenSeq(right)
  OBVIOUS
<1>3. PICK a : /\ Offsets(a, left) /\ Placed(a, left, s) /\ Len(s) = a[Len(left)]
  BY <1>2, FlattenPlaces
<1>4. PICK b : /\ Offsets(b, right) /\ Placed(b, right, t) /\ Len(t) = b[Len(right)]
  BY <1>2, FlattenPlaces
<1>5. \A k \in 0 .. Len(left) : a[k] = b[k]
  <2>1. AsLong(left, right, Len(left))
    BY <1>1 DEF AsLong
  <2>2. AgreeUpTo(a, b, Len(left))
    BY <1>3, <1>4, <2>1, OffsetsAgree
  <2> QED
    BY <2>2 DEF AgreeUpTo
<1>6. Len(s) <= Len(t)
  <2>1. \A k \in 0 .. Len(right) : \A j \in 0 .. k : b[j] <= b[k]
    BY <1>4, OffsetsGrow
  <2>2. Len(left) \in 0 .. Len(right) /\ Len(right) \in 0 .. Len(right)
        /\ Len(left) \in 0 .. Len(left)
    BY <1>1
  <2>3. b[Len(left)] <= b[Len(right)]
    BY <2>1, <2>2
  <2> QED
    BY <1>3, <1>4, <1>5, <2>2, <2>3
<1>7. ASSUME NEW p \in 1 .. Len(s) PROVE s[p] = t[p]
  <2>1. Covered(a, left)
    BY <1>3, OffsetsCover
  <2>2. PICK k \in 1 .. Len(left) : \E j \in 1 .. Len(left[k]) : p = a[k-1] + j
    BY <1>3, <2>1, Zenon DEF Covered
  <2>3. PICK j \in 1 .. Len(left[k]) : p = a[k-1] + j
    BY <2>2
  <2>4. k \in 1 .. Len(right) /\ k - 1 \in 0 .. Len(left) /\ left[k] = right[k]
    BY <1>1
  <2>5. s[a[k-1] + j] = left[k][j]
    BY <1>3 DEF Placed
  <2>6. t[b[k-1] + j] = right[k][j]
    <3>1. j \in 1 .. Len(right[k])
      BY <2>4
    <3> QED
      BY <1>4, <2>4, <3>1 DEF Placed
  <2> QED
    BY <1>5, <2>3, <2>4, <2>5, <2>6
<1> QED
  BY <1>2, <1>6, <1>7 DEF Begins

\* A list cut in lists of one item and put together again.
LEMMA FlattenSingles ==
  ASSUME NEW S, NEW list \in Seq(S)
  PROVE  FlattenSeq([k \in DOMAIN list |-> <<list[k]>>]) = list
<1>1. Len(list) \in Nat /\ DOMAIN list = 1 .. Len(list) /\ \A k \in 1 .. Len(list) : list[k] \in S
  OBVIOUS
<1>2. PICK seqs : seqs = [k \in DOMAIN list |-> <<list[k]>>]
  OBVIOUS
<1>3. seqs \in Seq(Seq(S)) /\ Len(seqs) = Len(list)
  <2>1. \A k \in 1 .. Len(list) : seqs[k] \in Seq(S)
    BY <1>1, <1>2
  <2>2. seqs = [k \in 1 .. Len(list) |-> seqs[k]]
    BY <1>1, <1>2
  <2> QED
    BY <1>1, <2>1, <2>2, IsASeq
<1>4. \A k \in 1 .. Len(list) : Len(seqs[k]) = 1 /\ seqs[k][1] = list[k]
  BY <1>1, <1>2
<1>5. PICK flat : flat = FlattenSeq(seqs)
  OBVIOUS
<1>6. PICK off : /\ Offsets(off, seqs) /\ Placed(off, seqs, flat) /\ Len(flat) = off[Len(seqs)]
                 /\ flat \in Seq(S)
  BY <1>3, <1>5, FlattenPlaces
<1>7. PICK plain : plain = [k \in 0 .. Len(list) |-> k]
  OBVIOUS
<1>8. Offsets(plain, seqs)
  <2>1. plain \in [0 .. Len(seqs) -> Nat] /\ plain[0] = 0
    BY <1>1, <1>3, <1>7
  <2>2. ASSUME NEW k \in 1 .. Len(seqs) PROVE plain[k] = plain[k-1] + Len(seqs[k])
    <3>1. k - 1 \in 0 .. Len(list) /\ k \in 0 .. Len(list)
      BY <1>1, <1>3
    <3>2. plain[k] = k /\ plain[k-1] = k - 1
      BY <1>7, <3>1
    <3>3. Len(seqs[k]) = 1
      BY <1>3, <1>4
    <3> QED
      BY <3>1, <3>2, <3>3
  <2> QED
    BY <2>1, <2>2 DEF Offsets
<1>9. \A k \in 0 .. Len(list) : off[k] = plain[k]
  <2>1. AsLong(seqs, seqs, Len(list))
    BY <1>1, <1>3 DEF AsLong
  <2>2. AgreeUpTo(off, plain, Len(list))
    BY <1>6, <1>8, <2>1, OffsetsAgree
  <2> QED
    BY <2>2 DEF AgreeUpTo
<1>10. \A k \in 0 .. Len(list) : off[k] = k
  BY <1>7, <1>9
<1>11. Len(flat) = Len(list)
  BY <1>1, <1>3, <1>6, <1>10
<1>12. \A k \in 1 .. Len(list) : flat[k] = list[k]
  <2>1. TAKE k \in 1 .. Len(list)
  <2>2. 1 \in 1 .. Len(seqs[k])
    BY <1>4
  <2>3. flat[off[k-1] + 1] = seqs[k][1]
    BY <1>3, <1>6, <2>2 DEF Placed
  <2>4. off[k-1] + 1 = k
    BY <1>1, <1>10
  <2> QED
    BY <1>4, <2>3, <2>4
<1> QED
  BY <1>2, <1>5, <1>6, <1>11, <1>12, SeqEqual

-----------------------------------------------------------------------------
(***************************************************************************)
(* A list whose calls and outputs are paired is left as it is, and a       *)
(* prompt is such a list.                                                  *)
(***************************************************************************)
LEMMA NothingAdded ==
  ASSUME NEW items \in Seq(AnyItem), LackingAt(items) = {}
  PROVE  EnsureCallOutputsPresent(items) = items
<1>1. \A k \in DOMAIN items : ~LacksOutput(items, items[k])
  BY DEF LackingAt
<1>2. EnsureCallOutputsPresent(items) = FlattenSeq([k \in DOMAIN items |-> <<items[k]>>])
  BY <1>1, Zenon DEF EnsureCallOutputsPresent
<1> QED
  BY <1>2, FlattenSingles

LEMMA NothingRemoved ==
  ASSUME NEW items \in Seq(AnyItem), KeptAt(items) = DOMAIN items
  PROVE  RemoveOrphanOutputs(items) = items
<1>1. RemoveOrphanOutputs(items) = ItemsAt(items, DOMAIN items)
  BY Retains
<1>2. ItemsAt(items, DOMAIN items) = FlattenSeq([k \in DOMAIN items |-> <<items[k]>>])
  BY DEF ItemsAt
<1> QED
  BY <1>1, <1>2, FlattenSingles

LEMMA StrippedTwice ==
  ASSUME NEW x \in AnyItem, NEW limited \in BOOLEAN, NEW y, y = Bounded(Stripped(x), limited)
  PROVE  Stripped(y) = y
<1>1. PICK z : z = Stripped(x)
  OBVIOUS
<1>2. z \in AnyItem /\ Same(z, x) /\ (CarriesImages(x) => z.body # "image")
  BY <1>1, StrippedSame
<1>3. y \in AnyItem /\ Same(y, z) /\ (y.body = "image" <=> z.body = "image")
  BY <1>1, <1>2, BoundedSame
<1>4. y.kind = x.kind /\ y.family = x.family /\ y.kind = z.kind /\ y.family = z.family
  BY <1>2, <1>3 DEF Same
<1>5. CarriesImages(y) <=> CarriesImages(x)
  BY <1>4 DEF CarriesImages
<1> QED
  BY <1>2, <1>3, <1>5 DEF Stripped

\* A prompt taken for a history gives itself, but for outputs over the budget.
LEMMA PromptIsFixed ==
  ASSUME NEW items \in Seq(AnyItem), NEW limited \in BOOLEAN, NEW anew \in BOOLEAN
  PROVE  ForPrompt(ForPrompt(items, limited), anew) =
           TruncateFunctionOutputs(ForPrompt(items, limited), anew)
<1>1. PICK list, prompt : /\ list = RemoveOrphanOutputs(EnsureCallOutputsPresent(items))
                          /\ prompt = ForPrompt(items, limited)
  OBVIOUS
<1>2. /\ list \in Seq(AnyItem) /\ prompt \in Seq(AnyItem) /\ Len(prompt) = Len(list)
      /\ DOMAIN prompt = 1 .. Len(prompt)
      /\ \A q \in 1 .. Len(list) : prompt[q] = Bounded(Stripped(list[q]), limited)
  BY <1>1, PromptMaps
<1>3. PICK own : Shows(own, items, prompt)
  BY <1>1, PromptShows
<1>4. LackingAt(prompt) = {} /\ KeptAt(prompt) = DOMAIN prompt
  BY <1>2, <1>3, PromptIsPaired DEF LackingAt, KeptAt
<1>5. RemoveOrphanOutputs(EnsureCallOutputsPresent(prompt)) = prompt
  BY <1>2, <1>4, NothingAdded, NothingRemoved
<1>6. PICK again : again = ForPrompt(prompt, anew)
  OBVIOUS
<1>7. /\ again \in Seq(AnyItem) /\ Len(again) = Len(prompt)
      /\ DOMAIN again = 1 .. Len(again)
      /\ \A q \in 1 .. Len(prompt) : again[q] = Bounded(Stripped(prompt[q]), anew)
  BY <1>2, <1>5, <1>6, PromptMaps
<1>8. \A q \in 1 .. Len(prompt) : again[q] = Bounded(prompt[q], anew)
  <2>1. TAKE q \in 1 .. Len(prompt)
  <2>2. list[q] \in AnyItem /\ prompt[q] = Bounded(Stripped(list[q]), limited)
    BY <1>2
  <2>3. Stripped(prompt[q]) = prompt[q]
    BY <2>2, StrippedTwice
  <2> QED
    BY <1>7, <2>3
<1>9. again = [q \in 1 .. Len(prompt) |-> again[q]]
  BY <1>7
<1>10. TruncateFunctionOutputs(prompt, anew) = [q \in 1 .. Len(prompt) |-> Bounded(prompt[q], anew)]
  BY <1>2 DEF TruncateFunctionOutputs, Bounded
<1>11. again = TruncateFunctionOutputs(prompt, anew)
  BY <1>8, <1>9, <1>10
<1> QED
  BY <1>1, <1>6, <1>11

-----------------------------------------------------------------------------
(***************************************************************************)
(* A set of numbers has one increasing enumeration.                        *)
(***************************************************************************)
Enumerates(at, n, numbers) ==
  /\ n \in Nat /\ numbers \subseteq Nat
  /\ \A i \in 1 .. n : at[i] \in numbers
  /\ Increasing(at, n)
  /\ \A k \in numbers : \E i \in 1 .. n : at[i] = k

LEMMA NextIsNotLater ==
  ASSUME NEW a, NEW b, NEW m, NEW n, NEW numbers,
         Enumerates(a, m, numbers), Enumerates(b, n, numbers),
         NEW k \in 1 .. m, k <= n, \A i \in 1 .. n : i < k => a[i] = b[i]
  PROVE  b[k] <= a[k]
<1>1. m \in Nat /\ n \in Nat /\ numbers \subseteq Nat /\ k \in 1 .. n
  BY DEF Enumerates
<1>2. a[k] \in numbers /\ a[k] \in Nat
  BY DEF Enumerates
<1>3. PICK j \in 1 .. n : b[j] = a[k]
  BY <1>2 DEF Enumerates
<1>4. ~(j < k)
  <2>1. SUFFICES ASSUME j < k PROVE FALSE
    OBVIOUS
  <2>2. j \in 1 .. m /\ a[j] = b[j]
    BY <1>1, <2>1
  <2>3. a[j] < a[k]
    BY <2>1, <2>2 DEF Enumerates, Increasing
  <2> QED
    BY <1>2, <1>3, <2>2, <2>3
<1>5. CASE j = k
  BY <1>2, <1>3, <1>5
<1>6. CASE k < j
  <2>1. b[k] < b[j]
    BY <1>1, <1>3, <1>6 DEF Enumerates, Increasing
  <2>2. b[k] \in Nat
    BY <1>1 DEF Enumerates
  <2> QED
    BY <1>2, <1>3, <2>1, <2>2
<1> QED
  BY <1>1, <1>3, <1>4, <1>5, <1>6

LEMMA NoneIsLeft ==
  ASSUME NEW a, NEW b, NEW m, NEW n, NEW numbers,
         Enumerates(a, m, numbers), Enumerates(b, n, numbers),
         \A i \in 1 .. m : i <= n => a[i] = b[i]
  PROVE  n <= m
<1>1. m \in Nat /\ n \in Nat /\ numbers \subseteq Nat
  BY DEF Enumerates
<1>2. SUFFICES ASSUME m < n PROVE FALSE
  BY <1>1
<1>3. PICK k : k = m + 1
  OBVIOUS
<1>4. k \in 1 .. n /\ \A i \in 1 .. m : i < k /\ i \in 1 .. n
  BY <1>1, <1>2, <1>3
<1>5. b[k] \in numbers /\ b[k] \in Nat
  BY <1>4 DEF Enumerates
<1>6. PICK j \in 1 .. m : a[j] = b[k]
  BY <1>5 DEF Enumerates
<1>7. a[j] = b[j] /\ j < k /\ j \in 1 .. n
  BY <1>1, <1>4, <1>6
<1>8. b[j] < b[k]
  BY <1>4, <1>7 DEF Enumerates, Increasing
<1> QED
  BY <1>5, <1>6, <1>7, <1>8

LEMMA OneEnumeration ==
  ASSUME NEW a, NEW b, NEW m, NEW n, NEW numbers,
         Enumerates(a, m, numbers), Enumerates(b, n, numbers)
  PROVE  m = n /\ \A i \in 1 .. m : a[i] = b[i]
<1>1. m \in Nat /\ n \in Nat /\ numbers \subseteq Nat
  BY DEF Enumerates
<1> DEFINE T == {k \in Nat : \A i \in 1 .. k : i <= m /\ i <= n => a[i] = b[i]}
<1>2. 0 \in T
  OBVIOUS
<1>3. ASSUME NEW p \in Nat, p \in T PROVE p + 1 \in T
  <2>1. PICK k : k = p + 1
    OBVIOUS
  <2>2. k \in Nat /\ \A i \in 1 .. k : i \in 1 .. p \/ i = k
    BY <2>1
  <2>3. ASSUME k <= m, k <= n PROVE a[k] = b[k]
    <3>1. k \in 1 .. m /\ k \in 1 .. n
      BY <1>1, <2>1, <2>3
    <3>2. \A i \in 1 .. n : i < k => a[i] = b[i]
      BY <1>1, <1>3, <2>1, <2>3
    <3>3. \A i \in 1 .. m : i < k => b[i] = a[i]
      BY <1>1, <1>3, <2>1, <2>3
    <3>4. b[k] <= a[k]
      BY <3>1, <3>2, NextIsNotLater
    <3>5. a[k] <= b[k]
      BY <3>1, <3>3, NextIsNotLater
    <3>6. a[k] \in Nat /\ b[k] \in Nat
      BY <3>1 DEF Enumerates
    <3> QED
      BY <3>4, <3>5, <3>6
  <2>4. \A i \in 1 .. k : i <= m /\ i <= n => a[i] = b[i]
    BY <1>3, <2>2, <2>3
  <2> QED
    BY <2>1, <2>2, <2>4
<1>4. T = Nat
  <2>1. T \in SUBSET Nat
    OBVIOUS
  <2> HIDE DEF T
  <2> QED
    BY <1>2, <1>3, <2>1, SetInduction
<1>5. \A i \in 1 .. m : i <= n => a[i] = b[i]
  BY <1>1, <1>4
<1>6. \A i \in 1 .. n : i <= m => b[i] = a[i]
  BY <1>1, <1>5
<1>7. n <= m
  BY <1>5, NoneIsLeft
<1>8. m <= n
  BY <1>6, NoneIsLeft
<1> QED
  BY <1>1, <1>5, <1>7, <1>8

-----------------------------------------------------------------------------
(***************************************************************************)
(* The conversation: what is left of a list without its outputs.           *)
(***************************************************************************)
PlainAt(list) == {k \in DOMAIN list : list[k].kind # "output"}

\* The places where the conversation of the history stands in the prompt are
\* those of the conversation of the prompt.
LEMMA PlainShown ==
  ASSUME NEW items \in Seq(AnyItem), NEW prompt \in Seq(AnyItem), NEW own,
         Shows(own, items, prompt)
  PROVE  /\ \A k \in PlainAt(items) : k \in KeptAt(items) /\ own[k] \in PlainAt(prompt)
         /\ \A q \in PlainAt(prompt) : \E k \in PlainAt(items) : own[k] = q
<1>1. DOMAIN items = 1 .. Len(items) /\ DOMAIN prompt = 1 .. Len(prompt)
  OBVIOUS
<1>2. ASSUME NEW k \in PlainAt(items)
      PROVE  k \in KeptAt(items) /\ own[k] \in PlainAt(prompt)
  <2>1. k \in DOMAIN items /\ items[k].kind # "output"
    BY DEF PlainAt
  <2>2. k \in KeptAt(items)
    BY <2>1 DEF KeptAt
  <2>3. Same(prompt[own[k]], items[k]) /\ own[k] \in DOMAIN prompt
    BY <1>1, <2>2 DEF Shows
  <2> QED
    BY <2>1, <2>2, <2>3 DEF Same, PlainAt
<1>3. ASSUME NEW q \in PlainAt(prompt)
      PROVE  \E k \in PlainAt(items) : own[k] = q
  <2>1. q \in 1 .. Len(prompt) /\ prompt[q].kind # "output"
    BY <1>1 DEF PlainAt
  <2>2. PICK k \in KeptAt(items) : q = own[k] \/ (k \in LackingAt(items) /\ q = own[k] + 1)
    BY <2>1 DEF Shows
  <2>3. k \in DOMAIN items
    BY DEF KeptAt
  <2>4. ~(k \in LackingAt(items) /\ q = own[k] + 1)
    <3>1. SUFFICES ASSUME k \in LackingAt(items), q = own[k] + 1 PROVE FALSE
      OBVIOUS
    <3>2. Same(prompt[q], Aborted(items)[k])
      BY <3>1 DEF Shows
    <3>3. Aborted(items)[k].kind = "output"
      BY <2>3, AbortedTyped
    <3> QED
      BY <2>1, <3>2, <3>3 DEF Same
  <2>5. Same(prompt[q], items[k]) /\ q = own[k]
    BY <2>2, <2>4 DEF Shows
  <2> QED
    BY <2>1, <2>3, <2>5 DEF Same, PlainAt
<1> QED
  BY <1>2, <1>3

LEMMA StrippedList ==
  ASSUME NEW list \in Seq(AnyItem)
  PROVE  /\ StripImages(list) \in Seq(AnyItem) /\ Len(StripImages(list)) = Len(list)
         /\ \A q \in 1 .. Len(list) : StripImages(list)[q] = Stripped(list[q])
<1>1. Len(list) \in Nat /\ DOMAIN list = 1 .. Len(list)
      /\ \A q \in 1 .. Len(list) : list[q] \in AnyItem
  OBVIOUS
<1>2. StripImages(list) = [q \in 1 .. Len(list) |-> Stripped(list[q])]
  BY <1>1 DEF StripImages, Stripped
<1>3. \A q \in 1 .. Len(list) : Stripped(list[q]) \in AnyItem
  BY <1>1, StrippedSame
<1>4. [q \in 1 .. Len(list) |-> Stripped(list[q])] \in Seq(AnyItem)
  BY <1>1, <1>3, IsASeq
<1> QED
  BY <1>1, <1>2, <1>4

LEMMA SelectsEnumerates ==
  ASSUME NEW S, NEW list \in Seq(S), NEW indices, indices \subseteq DOMAIN list,
         NEW chosen \in Seq(S), NEW at, Selects(at, indices, list, chosen)
  PROVE  Enumerates(at, Len(chosen), indices)
<1>1. DOMAIN list = 1 .. Len(list) /\ Len(list) \in Nat /\ Len(chosen) \in Nat
  OBVIOUS
<1>2. indices \subseteq Nat
  BY <1>1
<1> QED
  BY <1>1, <1>2 DEF Selects, Enumerates

\* Pairing calls and outputs costs, moves and invents no conversation.
LEMMA ConversationRendered ==
  ASSUME NEW items \in Seq(AnyItem), NEW limited \in BOOLEAN, NEW prompt,
         prompt = ForPrompt(items, limited)
  PROVE  ItemsAt(prompt, PlainAt(prompt)) = StripImages(ItemsAt(items, PlainAt(items)))
<1>1. PICK list : list = RemoveOrphanOutputs(EnsureCallOutputsPresent(items))
  OBVIOUS
<1>2. PICK own : Renders(own, items, list)
  BY <1>1, ListRenders
<1>3. /\ list \in Seq(AnyItem) /\ prompt \in Seq(AnyItem) /\ Len(prompt) = Len(list)
      /\ \A q \in 1 .. Len(list) : /\ prompt[q] = Bounded(Stripped(list[q]), limited)
                                    /\ Same(prompt[q], list[q])
  BY <1>1, PromptMaps
<1>4. Shows(own, items, prompt)
  BY <1>2, <1>3, AbortedTyped DEF Renders, Shows
<1>5. PlainAt(items) \subseteq DOMAIN items /\ PlainAt(prompt) \subseteq DOMAIN prompt
  BY DEF PlainAt
<1>6. PICK said, told : /\ said = ItemsAt(items, PlainAt(items))
                        /\ told = ItemsAt(prompt, PlainAt(prompt))
  OBVIOUS
<1>7. said \in Seq(AnyItem) /\ \E at : Selects(at, PlainAt(items), items, said)
  BY <1>5, <1>6, ItemsAtSelects
<1>8. told \in Seq(AnyItem) /\ \E at : Selects(at, PlainAt(prompt), prompt, told)
  BY <1>3, <1>5, <1>6, ItemsAtSelects
<1>9. PICK a : Selects(a, PlainAt(items), items, said)
  BY <1>7
<1>10. PICK b : Selects(b, PlainAt(prompt), prompt, told)
  BY <1>8
<1>11. Len(said) \in Nat /\ Len(told) \in Nat
  BY <1>7, <1>8
<1>12. PICK c : c = [i \in 1 .. Len(said) |-> own[a[i]]]
  OBVIOUS
<1>13. Enumerates(b, Len(told), PlainAt(prompt))
  BY <1>3, <1>5, <1>8, <1>10, SelectsEnumerates
<1>14. \A i \in 1 .. Len(said) : a[i] \in PlainAt(items) /\ said[i] = items[a[i]]
  BY <1>9 DEF Selects
<1>15. Enumerates(c, Len(said), PlainAt(prompt))
  <2>1. PlainAt(prompt) \subseteq Nat
    BY <1>13 DEF Enumerates
  <2>2. \A i \in 1 .. Len(said) : c[i] \in PlainAt(prompt)
    BY <1>3, <1>4, <1>12, <1>14, PlainShown
  <2>3. ASSUME NEW i \in 1 .. Len(said), NEW j \in 1 .. Len(said), i < j PROVE c[i] < c[j]
    <3>1. a[i] < a[j]
      BY <1>9, <2>3 DEF Selects, Increasing
    <3>2. a[i] \in KeptAt(items) /\ a[j] \in KeptAt(items)
      BY <1>3, <1>4, <1>14, PlainShown
    <3>3. own[a[i]] < own[a[j]]
      BY <1>4, <3>1, <3>2 DEF Shows
    <3> QED
      BY <1>12, <3>3
  <2>4. ASSUME NEW q \in PlainAt(prompt) PROVE \E i \in 1 .. Len(said) : c[i] = q
    <3>1. PICK k \in PlainAt(items) : own[k] = q
      BY <1>3, <1>4, PlainShown
    <3>2. PICK i \in 1 .. Len(said) : a[i] = k
      BY <1>9 DEF Selects
    <3> QED
      BY <1>12, <3>1, <3>2
  <2> QED
    BY <1>11, <2>1, <2>2, <2>3, <2>4 DEF Enumerates, Increasing
<1>16. Len(said) = Len(told) /\ \A i \in 1 .. Len(said) : c[i] = b[i]
  BY <1>13, <1>15, OneEnumeration
<1>17. ASSUME NEW i \in 1 .. Len(said) PROVE told[i] = Stripped(said[i])
  <2>1. PICK k : k = a[i] /\ k \in PlainAt(items) /\ said[i] = items[k]
    BY <1>14
  <2>2. k \in KeptAt(items) /\ items[k] \in AnyItem /\ items[k].kind # "output"
    BY <1>3, <1>4, <2>1, PlainShown DEF PlainAt
  <2>3. told[i] = prompt[own[k]]
    BY <1>10, <1>12, <1>16, <2>1 DEF Selects
  <2>4. own[k] \in 1 .. Len(list) /\ list[own[k]] = items[k]
    BY <1>2, <2>2 DEF Renders
  <2>5. prompt[own[k]] = Bounded(Stripped(items[k]), limited)
    BY <1>3, <2>4
  <2>6. Stripped(items[k]) \in AnyItem /\ Stripped(items[k]).kind # "output"
    BY <2>2, StrippedSame DEF Same
  <2>7. Bounded(Stripped(items[k]), limited) = Stripped(items[k])
    BY <2>6, BoundedSame
  <2> QED
    BY <2>1, <2>3, <2>5, <2>7
<1>18. told = StripImages(said)
  <2>1. /\ StripImages(said) \in Seq(AnyItem) /\ Len(StripImages(said)) = Len(said)
        /\ \A q \in 1 .. Len(said) : StripImages(said)[q] = Stripped(said[q])
    BY <1>7, StrippedList
  <2>2. \A q \in 1 .. Len(told) : told[q] = StripImages(said)[q]
    BY <1>16, <1>17, <2>1
  <2> QED
    BY <1>8, <1>16, <2>1, <2>2, SeqEqual
<1> QED
  BY <1>6, <1>18

-----------------------------------------------------------------------------
(***************************************************************************)
(* A history that grows, with no orphan in it and no call answered that    *)
(* an earlier prompt called aborted, gives a prompt that grows.            *)
(***************************************************************************)
Grows(items, longer) ==
  /\ Begins(items, longer)
  /\ KeptAt(items) = DOMAIN items /\ KeptAt(longer) = DOMAIN longer
  /\ \A k \in DOMAIN items : k \in LackingAt(items) <=> k \in LackingAt(longer)

\* What is written behind the calls that lack an output is kept as well.
LEMMA AllIsRendered ==
  ASSUME NEW items \in Seq(AnyItem), KeptAt(items) = DOMAIN items
  PROVE  RemoveOrphanOutputs(EnsureCallOutputsPresent(items)) = EnsureCallOutputsPresent(items)
<1>1. PICK longer : longer = EnsureCallOutputsPresent(items)
  OBVIOUS
<1>2. longer \in Seq(AnyItem) /\ \E pos : Inserts(pos, LackingAt(items), items, Aborted(items), longer)
  BY <1>1, EnsureInserts
<1>3. PICK pos : Inserts(pos, LackingAt(items), items, Aborted(items), longer)
  BY <1>2
<1>4. /\ \A k \in DOMAIN items : k \in KeptAt(items) <=> pos[k] \in KeptAt(longer)
      /\ \A k \in LackingAt(items) : pos[k] + 1 \in KeptAt(longer)
  BY <1>2, <1>3, EnsuredKept
<1>5. DOMAIN longer = 1 .. Len(longer) /\ DOMAIN items = 1 .. Len(items)
  BY <1>2
<1>6. ASSUME NEW p \in DOMAIN longer PROVE p \in KeptAt(longer)
  <2>1. PICK k \in 1 .. Len(items) : p = pos[k] \/ (k \in LackingAt(items) /\ p = pos[k] + 1)
    BY <1>3, <1>5 DEF Inserts
  <2> QED
    BY <1>4, <1>5, <2>1
<1>7. KeptAt(longer) = DOMAIN longer
  BY <1>6 DEF KeptAt
<1> QED
  BY <1>1, <1>2, <1>7, NothingRemoved

LEMMA EnsureGrows ==
  ASSUME NEW items \in Seq(AnyItem), NEW longer \in Seq(AnyItem), Grows(items, longer)
  PROVE  Begins(EnsureCallOutputsPresent(items), EnsureCallOutputsPresent(longer))
<1>1. /\ DOMAIN items = 1 .. Len(items) /\ DOMAIN longer = 1 .. Len(longer)
      /\ Len(items) \in Nat /\ Len(longer) \in Nat /\ Len(items) <= Len(longer)
      /\ \A k \in 1 .. Len(items) : items[k] = longer[k]
      /\ \A k \in 1 .. Len(items) : k \in LackingAt(items) <=> k \in LackingAt(longer)
  BY DEF Grows, Begins
<1>2. PICK left : left = [k \in DOMAIN items |->
                           IF LacksOutput(items, items[k])
                           THEN <<items[k], Output(items[k].family, items[k].id, "aborted")>>
                           ELSE <<items[k]>>]
  OBVIOUS
<1>3. PICK right : right = [k \in DOMAIN longer |->
                           IF LacksOutput(longer, longer[k])
                           THEN <<longer[k], Output(longer[k].family, longer[k].id, "aborted")>>
                           ELSE <<longer[k]>>]
  OBVIOUS
<1>4. ASSUME NEW x \in AnyItem
      PROVE  <<x>> \in Seq(AnyItem) /\ <<x, Output(x.family, x.id, "aborted")>> \in Seq(AnyItem)
  <2>1. Output(x.family, x.id, "aborted") \in AnyItem
    <3>1. <<x>> \in Seq(AnyItem) /\ 1 \in DOMAIN <<x>> /\ <<x>>[1] = x
      OBVIOUS
    <3>2. Aborted(<<x>>) \in [DOMAIN <<x>> -> AnyItem]
      BY <3>1, AbortedTyped
    <3>3. Aborted(<<x>>)[1] = Output(x.family, x.id, "aborted")
      BY <3>1 DEF Aborted
    <3> QED
      BY <3>1, <3>2, <3>3
  <2> QED
    BY <2>1
<1>5. \A k \in 1 .. Len(items) : left[k] \in Seq(AnyItem)
  BY <1>1, <1>2, <1>4
<1>6. \A k \in 1 .. Len(longer) : right[k] \in Seq(AnyItem)
  BY <1>1, <1>3, <1>4
<1>7. left \in Seq(Seq(AnyItem)) /\ Len(left) = Len(items)
  <2>1. left = [k \in 1 .. Len(items) |-> left[k]]
    BY <1>1, <1>2
  <2> QED
    BY <1>1, <1>5, <2>1, IsASeq
<1>8. right \in Seq(Seq(AnyItem)) /\ Len(right) = Len(longer)
  <2>1. right = [k \in 1 .. Len(longer) |-> right[k]]
    BY <1>1, <1>3
  <2> QED
    BY <1>1, <1>6, <2>1, IsASeq
<1>9. \A k \in 1 .. Len(items) : left[k] = right[k]
  <2>1. TAKE k \in 1 .. Len(items)
  <2>2. k \in 1 .. Len(longer) /\ items[k] = longer[k]
    BY <1>1
  <2>3. LacksOutput(items, items[k]) <=> LacksOutput(longer, longer[k])
    BY <1>1, <2>2 DEF LackingAt
  <2> QED
    BY <1>1, <1>2, <1>3, <2>2, <2>3
<1>10. Begins(left, right)
  BY <1>1, <1>7, <1>8, <1>9 DEF Begins
<1>11. Begins(FlattenSeq(left), FlattenSeq(right))
  BY <1>7, <1>8, <1>10, FlattenBegins
<1> QED
  BY <1>2, <1>3, <1>11 DEF EnsureCallOutputsPresent

LEMMA PromptGrows ==
  ASSUME NEW items \in Seq(AnyItem), NEW longer \in Seq(AnyItem), Grows(items, longer),
         NEW limited \in BOOLEAN
  PROVE  IsPrefix(ForPrompt(items, limited), ForPrompt(longer, limited))
<1>1. PICK s, t : s = ForPrompt(items, limited) /\ t = ForPrompt(longer, limited)
  OBVIOUS
<1>2. PICK x, y : x = EnsureCallOutputsPresent(items) /\ y = EnsureCallOutputsPresent(longer)
  OBVIOUS
<1>3. Begins(x, y)
  BY <1>2, EnsureGrows
<1>4. x = RemoveOrphanOutputs(EnsureCallOutputsPresent(items))
  BY <1>2, AllIsRendered DEF Grows
<1>5. y = RemoveOrphanOutputs(EnsureCallOutputsPresent(longer))
  BY <1>2, AllIsRendered DEF Grows
<1>6. /\ s \in Seq(AnyItem) /\ Len(s) = Len(x)
      /\ \A q \in 1 .. Len(x) : s[q] = Bounded(Stripped(x[q]), limited)
  BY <1>1, <1>4, PromptMaps
<1>7. /\ t \in Seq(AnyItem) /\ Len(t) = Len(y)
      /\ \A q \in 1 .. Len(y) : t[q] = Bounded(Stripped(y[q]), limited)
  BY <1>1, <1>5, PromptMaps
<1>8. Len(s) \in Nat /\ Len(t) \in Nat
  BY <1>6, <1>7
<1>9. Len(s) <= Len(t) /\ \A q \in 1 .. Len(s) : s[q] = t[q]
  BY <1>3, <1>6, <1>7, <1>8 DEF Begins
<1>10. SubSeq(t, 1, Len(s)) = s
  <2>1. SubSeq(t, 1, Len(s)) \in Seq(AnyItem) /\ Len(SubSeq(t, 1, Len(s))) = Len(s)
        /\ \A q \in 1 .. Len(s) : SubSeq(t, 1, Len(s))[q] = t[q]
    BY <1>7, <1>8, <1>9
  <2> QED
    BY <1>6, <1>9, <2>1, SeqEqual
<1>11. IsPrefix(s, t)
  BY <1>8, <1>9, <1>10 DEF IsPrefix
<1> QED
  BY <1>1, <1>11
=============================================================================
