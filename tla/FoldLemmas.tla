---------------------------- MODULE FoldLemmas ----------------------------
(***************************************************************************)
(* Induction over natural numbers and over sequences, with sets in the place   *)
(* of predicates, and what `FoldLeft` computes.  The provers cannot            *)
(* instantiate a theorem that takes an operator; these take sets, and functions *)
(* from pairs for the operator that is folded.                                *)
(***************************************************************************)
EXTENDS Integers, SequencesExt, WellFoundedInduction, SequenceTheorems, TLAPS

(* A set of natural numbers has a least element.                               *)
LEMMA LeastNatural ==
  ASSUME NEW T, T \subseteq Nat, T # {}
  PROVE  \E m \in T : \A n \in T : m <= n
<1> DEFINE R == OpToRel(<, Nat)
<1>1. IsWellFoundedOn(R, Nat)
  BY NatLessThanWellFounded
<1>2. \A x, y \in Nat : <<y, x>> \in R <=> y < x
  BY DEF OpToRel
<1> HIDE DEF R
<1>3. PICK m \in T : \A n \in T : <<n, m>> \notin R
  BY <1>1, WFMin
<1>4. \A n \in T : m \in Nat /\ n \in Nat /\ ~(n < m)
  BY <1>2, <1>3
<1>5. \A n \in T : m <= n
  BY <1>4
<1> QED
  BY <1>5

(* Induction: T is the set of numbers that have the property.                   *)
LEMMA NaturalInduction ==
  ASSUME NEW T, 0 \in T, \A n \in Nat : n \in T => n + 1 \in T
  PROVE  Nat \subseteq T
<1> DEFINE U == Nat \ T
<1> SUFFICES ASSUME U # {} PROVE FALSE
  OBVIOUS
<1>1. PICK m \in U : \A n \in U : m <= n
  <2> U \subseteq Nat
    OBVIOUS
  <2> HIDE DEF U
  <2> QED
    BY LeastNatural
<1>2. m - 1 \in Nat /\ m - 1 \in T
  BY <1>1
<1> QED
  BY <1>1, <1>2

-----------------------------------------------------------------------------
(* The greatest index of a set, at which `FoldLeft` takes the set apart.         *)
LEMMA MaxBelongs ==
  ASSUME NEW n \in Nat, NEW s \in SUBSET (0..n), s # {}
  PROVE  Max(s) \in s
<1> DEFINE T == {m \in Nat : \A x \in s : x <= m}
<1>1. T \subseteq Nat /\ n \in T /\ (\A x \in s : x \in Nat)
  OBVIOUS
<1>2. PICK m \in T : \A k \in T : m <= k
  <2> HIDE DEF T
  <2> QED
    BY <1>1, LeastNatural
<1>3. m \in Nat /\ (\A x \in s : x <= m)
  OBVIOUS
<1>4. m \in s
  <2> SUFFICES ASSUME m \notin s PROVE FALSE
    OBVIOUS
  <2>1. \A x \in s : x <= m - 1
    BY <1>1, <1>3
  <2>2. m - 1 \in Nat
    <3>1. PICK x \in s : x \in Nat /\ x # m
      BY <1>1
    <3> QED
      BY <1>3, <3>1
  <2>3. m - 1 \in T
    BY <2>1, <2>2
  <2> QED
    BY <1>2, <1>3, <2>3
<1>5. \A y \in s : m >= y
  BY <1>1, <1>3
<1> QED
  BY <1>4, <1>5 DEF Max

LEMMA MaxInterval == \A k \in Nat : \A s \in SUBSET (1..k + 1) : k + 1 \in s => Max(s) = k + 1
<1> SUFFICES ASSUME NEW k \in Nat, NEW s \in SUBSET (1..k + 1), k + 1 \in s PROVE Max(s) = k + 1
  OBVIOUS
<1>1. \A x \in s : x <= k + 1 /\ x \in Int
  OBVIOUS
<1>2. \A m \in s : (\A x \in s : m >= x) => m = k + 1
  BY <1>1
<1>3. \A x \in s : k + 1 >= x
  BY <1>1
<1> QED
  BY <1>2, <1>3 DEF Max

(* One step down from 1..k.                                                     *)
LEMMA Downward ==
  ASSUME NEW n \in Nat, NEW k \in 1..n
  PROVE  /\ 1..k \in SUBSET (1..n) /\ 1..k # {} /\ Max(1..k) = k
         /\ (1..k) \ {k} = 1..k - 1
<1>1. k - 1 \in Nat /\ (k - 1) + 1 = k /\ k \in 1..k
  OBVIOUS
<1>2. Max(1..k) = k
  BY <1>1, MaxInterval
<1>3. (1..k) \ {k} = 1..k - 1
  OBVIOUS
<1>4. 1..k \in SUBSET (1..n)
  OBVIOUS
<1> QED
  BY <1>1, <1>2, <1>3, <1>4

-----------------------------------------------------------------------------
(* `FoldLeft` goes by a function of the sets of indices that it unfolds.  There   *)
(* is one that stays within its types.                                        *)
Unfolds(op, base, seq, n, it) ==
  it = [s \in SUBSET (1..n) |->
          IF s = {} THEN base ELSE op[<<it[s \ {Max(s)}], seq[Max(s)]>>]]

(* The fold's function on sets of positions exists.                          *)
LEMMA FoldExists ==
  ASSUME NEW A, NEW B, NEW base \in B, NEW op \in [B \X A -> B], NEW seq \in Seq(A)
  PROVE  \E it \in [SUBSET (1..Len(seq)) -> B] : Unfolds(op, base, seq, Len(seq), it)
<1> DEFINE Exists(n) == \E it \in [SUBSET (1..n) -> B] : Unfolds(op, base, seq, n, it)
           T == {n \in Nat : n <= Len(seq) => Exists(n)}
<1>1. Len(seq) \in Nat /\ \A i \in 1..Len(seq) : seq[i] \in A
  BY LenProperties, ElementOfSeq
<1>2. Exists(0)
  <2> DEFINE it == [s \in SUBSET (1..0) |-> base]
  <2>1. \A s \in SUBSET (1..0) : s = {}
    OBVIOUS
  <2>2. it \in [SUBSET (1..0) -> B]
    OBVIOUS
  <2>3. it = [s \in SUBSET (1..0) |->
                IF s = {} THEN base ELSE op[<<it[s \ {Max(s)}], seq[Max(s)]>>]]
    BY <2>1
  <2> QED
    BY <2>2, <2>3 DEF Unfolds
<1>3. ASSUME NEW n \in Nat, Exists(n), n + 1 <= Len(seq) PROVE Exists(n + 1)
  <2>1. PICK it \in [SUBSET (1..n) -> B] : Unfolds(op, base, seq, n, it)
    BY <1>1, <1>3
  <2> DEFINE S == SUBSET (1..n + 1)
             less(s) == s \ {n + 1}
             new == [s \in S |-> IF n + 1 \in s THEN op[<<it[less(s)], seq[n + 1]>>] ELSE it[s]]
  <2>2. \A s \in S : less(s) \in SUBSET (1..n) /\ (n + 1 \notin s => s \in SUBSET (1..n))
    OBVIOUS
  <2>3. seq[n + 1] \in A
    BY <1>1, <1>3
  <2>4. new \in [S -> B]
    BY <2>2, <2>3
  <2>5. ASSUME NEW s \in S
        PROVE  new[s] = IF s = {} THEN base ELSE op[<<new[s \ {Max(s)}], seq[Max(s)]>>]
    <3>1. CASE n + 1 \in s
      <4>1. Max(s) = n + 1
        BY <3>1, MaxInterval
      <4>2. new[less(s)] = it[less(s)]
        BY <2>2
      <4> QED
        BY <3>1, <4>1, <4>2
    <3>2. CASE n + 1 \notin s
      <4>1. s \in SUBSET (1..n) /\ new[s] = it[s]
        BY <2>2, <3>2
      <4>2. it[s] = IF s = {} THEN base ELSE op[<<it[s \ {Max(s)}], seq[Max(s)]>>]
        BY <2>1, <4>1 DEF Unfolds
      <4>3. new[s \ {Max(s)}] = it[s \ {Max(s)}]
        BY <3>2, <4>1
      <4> HIDE DEF new
      <4> QED
        BY <4>1, <4>2, <4>3
    <3> QED
      BY <3>1, <3>2
  <2>6. Unfolds(op, base, seq, n + 1, new)
    <3>1. new = [s \in S |-> new[s]]
      BY <2>4
    <3> HIDE DEF new
    <3> QED
      BY <2>5, <3>1 DEF Unfolds
  <2> HIDE DEF new
  <2> QED
    BY <2>4, <2>6
<1> HIDE DEF Exists
<1>4. 0 \in T /\ \A n \in Nat : n \in T => n + 1 \in T
  BY <1>1, <1>2, <1>3
<1>5. Nat \subseteq T
  <2> HIDE DEF T
  <2> QED
    BY <1>4, NaturalInduction
<1>6. Exists(Len(seq))
  BY <1>1, <1>5
<1> QED
  BY <1>6 DEF Exists

Foldable(A, B, op, base) == base \in B /\ op \in [B \X A -> B]

Stays(A, B, op, base, seq, it) ==
  /\ Unfolds(op, base, seq, Len(seq), it)
  /\ \A s \in SUBSET (1..Len(seq)) : s # {} => it[s \ {Max(s)}] \in B /\ seq[Max(s)] \in A

(* It stays in the fold's type.                                              *)
LEMMA FoldStays ==
  ASSUME NEW A, NEW B, NEW op, NEW base, Foldable(A, B, op, base), NEW seq \in Seq(A)
  PROVE  \E it : Stays(A, B, op, base, seq, it)
<1>1. /\ Len(seq) \in Nat /\ (\A i \in 1..Len(seq) : seq[i] \in A)
      /\ base \in B /\ op \in [B \X A -> B]
  BY LenProperties, ElementOfSeq DEF Foldable
<1>2. PICK it \in [SUBSET (1..Len(seq)) -> B] : Unfolds(op, base, seq, Len(seq), it)
  BY <1>1, FoldExists
<1>3. ASSUME NEW s \in SUBSET (1..Len(seq)), s # {}
      PROVE  it[s \ {Max(s)}] \in B /\ seq[Max(s)] \in A
  <2>1. s \in SUBSET (0..Len(seq)) /\ s # {}
    BY <1>1, <1>3
  <2>2. Max(s) \in s
    BY <1>1, <2>1, MaxBelongs
  <2>3. Max(s) \in 1..Len(seq) /\ s \ {Max(s)} \in SUBSET (1..Len(seq))
    BY <1>3, <2>2
  <2> QED
    BY <1>1, <1>2, <2>3
<1> QED
  BY <1>2, <1>3 DEF Stays

(* Such a function at the sets 1..k, and the values it goes through.              *)
GoesAlong(A, B, op, base, seq, it) ==
  /\ Foldable(A, B, op, base) /\ seq \in Seq(A)
  /\ it[{}] = base
  /\ \A k \in 1..Len(seq) : it[1..k - 1] \in B => it[1..k] = op[<<it[1..k - 1], seq[k]>>]

Stages(A, B, op, base, seq, st) ==
  /\ seq \in Seq(A) /\ st \in [0..Len(seq) -> B] /\ st[0] = base
  /\ \A k \in 1..Len(seq) : st[k] = op[<<st[k - 1], seq[k]>>]

(* Along the prefixes it gives the stages of the fold.                       *)
LEMMA FoldSteps ==
  ASSUME NEW A, NEW B, NEW op, NEW base, NEW seq, NEW it, GoesAlong(A, B, op, base, seq, it)
  PROVE  \E st : Stages(A, B, op, base, seq, st) /\ st[Len(seq)] = it[1..Len(seq)]
<1> USE DEF GoesAlong, Foldable
<1>1. Len(seq) \in Nat /\ \A i \in 1..Len(seq) : seq[i] \in A
  BY LenProperties, ElementOfSeq
<1> DEFINE T == {n \in Nat : n <= Len(seq) => it[1..n] \in B}
<1>2. 0 \in T
  <2>1. 1..0 = {}
    OBVIOUS
  <2> QED
    BY <2>1
<1>3. ASSUME NEW n \in T PROVE n + 1 \in T
  <2> SUFFICES ASSUME n + 1 <= Len(seq) PROVE it[1..n + 1] \in B
    OBVIOUS
  <2>1. n \in Nat /\ it[1..n] \in B /\ n + 1 \in 1..Len(seq) /\ (n + 1) - 1 = n
    BY <1>1, <1>3
  <2>2. it[1..n + 1] = op[<<it[1..n], seq[n + 1]>>]
    BY <2>1
  <2> QED
    BY <1>1, <2>1, <2>2
<1>4. Nat \subseteq T
  <2> HIDE DEF T
  <2> QED
    BY <1>2, <1>3, NaturalInduction
<1>5. \A k \in 0..Len(seq) : it[1..k] \in B
  BY <1>1, <1>4
<1> DEFINE st == [k \in 0..Len(seq) |-> it[1..k]]
<1>6. st \in [0..Len(seq) -> B]
  BY <1>5
<1>7. st[0] = base /\ st[Len(seq)] = it[1..Len(seq)]
  <2>1. 1..0 = {} /\ 0 \in 0..Len(seq) /\ Len(seq) \in 0..Len(seq)
    BY <1>1
  <2> QED
    BY <2>1
<1>8. \A k \in 1..Len(seq) : st[k] = op[<<st[k - 1], seq[k]>>]
  <2> SUFFICES ASSUME NEW k \in 1..Len(seq) PROVE st[k] = op[<<st[k - 1], seq[k]>>]
    OBVIOUS
  <2>1. k - 1 \in 0..Len(seq) /\ k \in 0..Len(seq)
    BY <1>1
  <2> QED
    BY <1>5, <2>1
<1> HIDE DEF st
<1> QED
  BY <1>6, <1>7, <1>8 DEF Stages

(* Every sequence has stages.                                                *)
LEMMA StagesExist ==
  ASSUME NEW A, NEW B, NEW op, NEW base, Foldable(A, B, op, base), NEW seq \in Seq(A)
  PROVE  \E st : Stages(A, B, op, base, seq, st)
<1>1. /\ Len(seq) \in Nat /\ (\A i \in 1..Len(seq) : seq[i] \in A)
      /\ base \in B /\ op \in [B \X A -> B]
  BY LenProperties, ElementOfSeq DEF Foldable
<1>2. PICK it \in [SUBSET (1..Len(seq)) -> B] : Unfolds(op, base, seq, Len(seq), it)
  BY <1>1, FoldExists
<1>3. it[{}] = base
  BY <1>2 DEF Unfolds
<1>4. ASSUME NEW k \in 1..Len(seq)
      PROVE  it[1..k] = op[<<it[1..k - 1], seq[k]>>]
  <2>1. /\ 1..k \in SUBSET (1..Len(seq)) /\ 1..k # {} /\ Max(1..k) = k
        /\ (1..k) \ {k} = 1..k - 1
    BY <1>1, Downward
  <2>2. \A s \in SUBSET (1..Len(seq)) : s # {} => it[s] = op[<<it[s \ {Max(s)}], seq[Max(s)]>>]
    BY <1>2 DEF Unfolds
  <2>3. it[1..k] = op[<<it[(1..k) \ {Max(1..k)}], seq[Max(1..k)]>>]
    BY <2>1, <2>2
  <2> QED
    BY <2>1, <2>3
<1>5. GoesAlong(A, B, op, base, seq, it)
  BY <1>3, <1>4 DEF GoesAlong
<1> QED
  BY <1>5, FoldSteps

(* They are the same as far as the sequences are.                                *)
Begins(s, t) == Len(s) <= Len(t) /\ \A i \in 1..Len(s) : s[i] = t[i]

(* A longer sequence has the same stages up to where they part.              *)
LEMMA StagesAgree ==
  ASSUME NEW A, NEW B, NEW op, NEW base, NEW s, NEW t,
         NEW st, Stages(A, B, op, base, s, st), NEW other, Stages(A, B, op, base, t, other),
         Begins(s, t)
  PROVE  \A k \in 0..Len(s) : st[k] = other[k]
<1> USE DEF Begins
<1> DEFINE T == {n \in Nat : n <= Len(s) => st[n] = other[n]}
<1>1. Len(s) \in Nat /\ Len(t) \in Nat
  BY LenProperties DEF Stages
<1>2. 0 \in T
  BY DEF Stages
<1>3. ASSUME NEW n \in T PROVE n + 1 \in T
  <2> SUFFICES ASSUME n + 1 <= Len(s) PROVE st[n + 1] = other[n + 1]
    OBVIOUS
  <2>1. n + 1 \in 1..Len(s) /\ n + 1 \in 1..Len(t) /\ (n + 1) - 1 = n /\ st[n] = other[n]
    BY <1>1, <1>3
  <2> QED
    BY <2>1 DEF Stages
<1>4. Nat \subseteq T
  <2> HIDE DEF T
  <2> QED
    BY <1>2, <1>3, NaturalInduction
<1> QED
  BY <1>1, <1>4

-----------------------------------------------------------------------------
(* What is folded: the value after the last element.                            *)
Folded(A, B, op, base, seq) ==
  CHOOSE b : \E st : Stages(A, B, op, base, seq, st) /\ b = st[Len(seq)]

(* The fold's value is the last stage, whichever stages are taken.           *)
LEMMA FoldedIs ==
  ASSUME NEW A, NEW B, NEW op, NEW base, NEW seq, NEW st, Stages(A, B, op, base, seq, st)
  PROVE  Folded(A, B, op, base, seq) = st[Len(seq)]
<1>1. Len(seq) \in Nat /\ Len(seq) \in 0..Len(seq) /\ Len(seq) <= Len(seq)
  BY LenProperties DEF Stages
<1>2. \A b : (\E other : Stages(A, B, op, base, seq, other) /\ b = other[Len(seq)]) => b = st[Len(seq)]
  <2> SUFFICES ASSUME NEW other, Stages(A, B, op, base, seq, other)
               PROVE  other[Len(seq)] = st[Len(seq)]
    OBVIOUS
  <2>1. Begins(seq, seq)
    BY <1>1 DEF Begins
  <2>2. \A k \in 0..Len(seq) : st[k] = other[k]
    BY <2>1, StagesAgree
  <2> QED
    BY <1>1, <2>2
<1> QED
  BY <1>2 DEF Folded

(* The function that `FoldLeft` unfolds is one that goes along, if it agrees with   *)
(* `op` on values of the types.                                               *)
LEMMA FoldedAlong ==
  ASSUME NEW A, NEW B, NEW op, NEW base, NEW seq, NEW it, GoesAlong(A, B, op, base, seq, it)
  PROVE  it[1..Len(seq)] = Folded(A, B, op, base, seq)
<1>1. PICK st : Stages(A, B, op, base, seq, st) /\ st[Len(seq)] = it[1..Len(seq)]
  BY FoldSteps
<1> QED
  BY <1>1, FoldedIs

(* From the outside: a fold starts with the base and takes one element more.       *)
LEMMA FoldedFacts ==
  ASSUME NEW A, NEW B, NEW op, NEW base, Foldable(A, B, op, base)
  PROVE  /\ Folded(A, B, op, base, <<>>) = base
         /\ \A s \in Seq(A) : Folded(A, B, op, base, s) \in B
         /\ \A s \in Seq(A), e \in A :
              Folded(A, B, op, base, Append(s, e)) = op[<<Folded(A, B, op, base, s), e>>]
<1>1. Folded(A, B, op, base, <<>>) = base
  <2>1. <<>> \in Seq(A) /\ Len(<<>>) = 0
    BY EmptySeq
  <2>2. PICK st : Stages(A, B, op, base, <<>>, st)
    BY <2>1, StagesExist
  <2>3. Folded(A, B, op, base, <<>>) = st[Len(<<>>)]
    BY <2>1, <2>2, FoldedIs
  <2> QED
    BY <2>1, <2>2, <2>3 DEF Stages
<1>2. ASSUME NEW s \in Seq(A) PROVE Folded(A, B, op, base, s) \in B
  <2>1. PICK st : Stages(A, B, op, base, s, st)
    BY StagesExist
  <2>2. Folded(A, B, op, base, s) = st[Len(s)]
    BY <2>1, FoldedIs
  <2>3. Len(s) \in 0..Len(s)
    BY LenProperties
  <2> QED
    BY <2>1, <2>2, <2>3 DEF Stages
<1>3. ASSUME NEW s \in Seq(A), NEW e \in A
      PROVE  Folded(A, B, op, base, Append(s, e)) = op[<<Folded(A, B, op, base, s), e>>]
  <2> DEFINE t == Append(s, e)
  <2>1. /\ Len(s) \in Nat /\ t \in Seq(A) /\ Len(t) = Len(s) + 1
        /\ (\A i \in 1..Len(s) : t[i] = s[i]) /\ t[Len(s) + 1] = e
    BY LenProperties, AppendProperties
  <2> HIDE DEF t
  <2>2. PICK st : Stages(A, B, op, base, s, st)
    BY StagesExist
  <2>3. PICK other : Stages(A, B, op, base, t, other)
    BY <2>1, StagesExist
  <2>4. Folded(A, B, op, base, s) = st[Len(s)] /\ Folded(A, B, op, base, t) = other[Len(t)]
    BY <2>1, <2>2, <2>3, FoldedIs
  <2>5. Begins(s, t)
    BY <2>1 DEF Begins
  <2>6. \A k \in 0..Len(s) : st[k] = other[k]
    BY <2>1, <2>2, <2>3, <2>5, StagesAgree
  <2>7. st[Len(s)] = other[Len(s)]
    BY <2>1, <2>6
  <2>8. other[Len(t)] = op[<<other[Len(s)], e>>]
    <3>1. Len(s) + 1 \in 1..Len(t) /\ (Len(s) + 1) - 1 = Len(s)
      BY <2>1
    <3> QED
      BY <2>1, <2>3, <3>1 DEF Stages
  <2> QED
    BY <2>4, <2>7, <2>8 DEF t
<1> QED
  BY <1>1, <1>2, <1>3

(* Induction over sequences, by the element appended last.                        *)
LEMMA SequenceInduction ==
  ASSUME NEW A, NEW T, <<>> \in T, \A s \in Seq(A), e \in A : s \in T => Append(s, e) \in T
  PROVE  Seq(A) \subseteq T
<1> DEFINE U == {n \in Nat : \A s \in Seq(A) : Len(s) = n => s \in T}
<1>1. 0 \in U
  BY EmptySeq, LenProperties
<1>2. ASSUME NEW n \in U PROVE n + 1 \in U
  <2> SUFFICES ASSUME NEW s \in Seq(A), Len(s) = n + 1 PROVE s \in T
    OBVIOUS
  <2> DEFINE front == SubSeq(s, 1, n)
  <2>1. n \in Nat /\ n + 1 \in 1..Len(s) /\ \A i \in 1..n + 1 : s[i] \in A
    BY <1>2, ElementOfSeq
  <2>2. /\ front \in Seq(A) /\ Len(front) = n /\ (\A i \in 1..n : front[i] = s[i])
    <3>1. 1 \in Int /\ n \in Int /\ \A i \in 1..n : s[i] \in A
      BY <2>1
    <3>2. /\ front \in Seq(A)
          /\ Len(front) = IF 1 <= n THEN n - 1 + 1 ELSE 0
          /\ \A i \in 1..n - 1 + 1 : front[i] = s[1 + i - 1]
      BY <3>1, SubSeqProperties
    <3> QED
      BY <2>1, <3>2
  <2>3. front \in T
    BY <1>2, <2>2
  <2> HIDE DEF front
  <2>4. Append(front, s[n + 1]) \in T
    BY <2>1, <2>2, <2>3
  <2>5. /\ Append(front, s[n + 1]) \in Seq(A) /\ Len(Append(front, s[n + 1])) = n + 1
        /\ (\A i \in 1..n : Append(front, s[n + 1])[i] = s[i])
        /\ Append(front, s[n + 1])[n + 1] = s[n + 1]
    BY <2>1, <2>2, AppendProperties
  <2>6. \A i \in 1..n + 1 : i = n + 1 \/ i \in 1..n
    BY <2>1
  <2>7. Append(front, s[n + 1]) = s
    BY <2>5, <2>6, SeqEqual
  <2> QED
    BY <2>4, <2>7
<1>3. Nat \subseteq U
  <2> HIDE DEF U
  <2> QED
    BY <1>1, <1>2, NaturalInduction
<1> SUFFICES ASSUME NEW s \in Seq(A) PROVE s \in T
  OBVIOUS
<1>4. Len(s) \in Nat
  BY LenProperties
<1> QED
  BY <1>3, <1>4

-----------------------------------------------------------------------------
(* A recursive function exists if its value at i depends only on the values      *)
(* where the measure m is smaller; F gives the value from i and the function.    *)
Grounded(D, B, n, m, F) ==
  /\ B # {} /\ n \in Nat /\ m \in [D -> 0..n] /\ F \in [D \X [D -> B] -> B]
  /\ \A i \in D : \A g, h \in [D -> B] :
       (\A j \in D : m[j] < m[i] => g[j] = h[j]) => F[<<i, g>>] = F[<<i, h>>]

(* By induction over the measure: the function up to each bound, then the whole.*)
LEMMA RecursionExists ==
  ASSUME NEW D, NEW B, NEW n, NEW m, NEW F, Grounded(D, B, n, m, F)
  PROVE  \E f \in [D -> B] : \A i \in D : f[i] = F[<<i, f>>]
<1> USE DEF Grounded
<1> DEFINE T == {k \in Nat : \E f \in [D -> B] : \A i \in D : m[i] < k => f[i] = F[<<i, f>>]}
<1>1. 0 \in T
  <2>1. PICK b : b \in B
    OBVIOUS
  <2> DEFINE f == [i \in D |-> b]
  <2>2. f \in [D -> B] /\ \A i \in D : ~(m[i] < 0)
    BY <2>1
  <2> QED
    BY <2>2
<1>2. ASSUME NEW k \in Nat, k \in T PROVE k + 1 \in T
  <2>1. PICK f \in [D -> B] : \A i \in D : m[i] < k => f[i] = F[<<i, f>>]
    BY <1>2
  <2> DEFINE g == [i \in D |-> F[<<i, f>>]]
  <2>2. g \in [D -> B] /\ \A i \in D : g[i] = F[<<i, f>>]
    OBVIOUS
  <2> HIDE DEF g
  <2>3. ASSUME NEW i \in D, m[i] < k + 1 PROVE g[i] = F[<<i, g>>]
    <3>1. \A j \in D : m[j] < m[i] => m[j] < k
      <4>1. \A j \in D : m[j] \in Nat
        OBVIOUS
      <4> QED
        BY <2>3, <4>1
    <3>2. \A j \in D : m[j] < m[i] => f[j] = g[j]
      BY <2>1, <2>2, <3>1
    <3>3. F[<<i, f>>] = F[<<i, g>>]
      BY <2>2, <3>2
    <3> QED
      BY <2>2, <3>3
  <2> QED
    BY <2>2, <2>3
<1>3. Nat \subseteq T
  <2> HIDE DEF T
  <2>1. \A k \in Nat : k \in T => k + 1 \in T
    BY <1>2
  <2> QED
    BY ONLY <1>1, <2>1, NaturalInduction
<1>4. n + 1 \in T
  <2> HIDE DEF T
  <2> QED
    BY <1>3
<1>5. PICK f \in [D -> B] : \A i \in D : m[i] < n + 1 => f[i] = F[<<i, f>>]
  BY <1>4
<1>6. \A i \in D : m[i] < n + 1
  <2>1. \A i \in D : m[i] \in 0..n
    OBVIOUS
  <2> QED
    BY <2>1
<1> QED
  BY <1>5, <1>6
=============================================================================
