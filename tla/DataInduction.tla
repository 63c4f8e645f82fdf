---------------------------- MODULE DataInduction ---------------------------
(***************************************************************************)
(* Induction over numbers and finite sets, and what follows for the        *)
(* recursive functions of the community modules that the models are        *)
(* written with.  The principle is stated for a set of numbers or of sets, *)
(* from the well-founded order of the naturals.                            *)
(***************************************************************************)
EXTENDS Integers, FiniteSetsExt, SequencesExt, FiniteSetTheorems, SequenceTheorems,
        WellFoundedInduction, TLAPS

\* A set of numbers with 0 and every successor has them all.
LEMMA Counting ==
  ASSUME NEW P \in SUBSET Nat, 0 \in P, \A n \in P : n + 1 \in P
  PROVE  P = Nat
<1> DEFINE R == {ss \in Nat \X Nat : ss[1] < ss[2]}
<1>1. IsWellFoundedOn(R, Nat)
  BY NatLessThanWellFounded DEF OpToRel
<1> SUFFICES ASSUME Nat \ P # {} PROVE FALSE
  OBVIOUS
<1>2. PICK x \in Nat \ P : \A y \in Nat \ P : <<y, x>> \notin R
  <2> HIDE DEF R
  <2> DEFINE T == Nat \ P
  <2>1. T # {} /\ T \subseteq Nat
    OBVIOUS
  <2> HIDE DEF T
  <2>2. \E x \in T : \A y \in T : <<y, x>> \notin R
    BY <1>1, <2>1, WFMin
  <2> QED
    BY <2>2 DEF T
<1>3. x - 1 \in Nat /\ <<x - 1, x>> \in R
  OBVIOUS
<1>4. x - 1 \in P
  BY <1>2, <1>3
<1> QED
  BY <1>3, <1>4
-----------------------------------------------------------------------------
(* Lists of lists.                                                         *)

\* f[i] is the first i lists of q, put together.
Flattens(f, q) == \A i \in 1..Len(q) : f[i] = IF i = 1 THEN q[i] ELSE f[i-1] \o q[i]

\* There is one such function.
LEMMA FlattensAgree ==
  ASSUME NEW q, Len(q) \in Nat, NEW f, NEW g, Flattens(f, q), Flattens(g, q)
  PROVE  \A i \in 1..Len(q) : f[i] = g[i]
<1> DEFINE P == {n \in Nat : n \in 1..Len(q) => f[n] = g[n]}
<1>1. \A n \in P : n + 1 \in P
  BY DEF Flattens
<1>2. P = Nat
  <2>1. 0 \in P /\ P \subseteq Nat
    OBVIOUS
  <2> HIDE DEF P
  <2> QED
    BY <1>1, <2>1, Counting
<1> QED
  BY <1>2

\* FlattenSeq takes its last value.
LEMMA FlattenIs ==
  ASSUME NEW S, NEW q \in Seq(Seq(S)), q # <<>>
  PROVE  \E f \in [1..Len(q) -> Seq(S)] : Flattens(f, q) /\ FlattenSeq(q) = f[Len(q)]
<1> DEFINE Is(f, n) == \A i \in 1..n : f[i] = IF i = 1 THEN q[i] ELSE f[i-1] \o q[i]
           Has(n) == n <= Len(q) => \E f \in [1..n -> Seq(S)] : Is(f, n)
           P == {n \in Nat : Has(n)}
<1>0. Len(q) \in Nat /\ Len(q) # 0 /\ \A i \in 1..Len(q) : q[i] \in Seq(S)
  BY EmptySeq
<1>1. Has(0)
  <2> DEFINE f == [i \in 1..0 |-> <<>>]
  <2>1. f \in [1..0 -> Seq(S)] /\ Is(f, 0)
    OBVIOUS
  <2> HIDE DEF f, Is
  <2> QED
    BY <2>1
<1>2. ASSUME NEW n \in Nat, Has(n) PROVE Has(n + 1)
  <2> SUFFICES ASSUME n + 1 <= Len(q) PROVE \E f \in [1..(n+1) -> Seq(S)] : Is(f, n + 1)
    OBVIOUS
  <2>1. PICK f \in [1..n -> Seq(S)] : Is(f, n)
    <3> HIDE DEF Is
    <3>1. n <= Len(q)
      BY <1>0
    <3> QED
      BY <1>2, <3>1
  <2> DEFINE last == IF n = 0 THEN q[n+1] ELSE f[n] \o q[n+1]
             g == [i \in 1..(n+1) |-> IF i = n + 1 THEN last ELSE f[i]]
  <2>2. last \in Seq(S)
    BY <1>0
  <2>3. g \in [1..(n+1) -> Seq(S)]
    BY <2>2
  <2>4. Is(g, n + 1)
    <3> SUFFICES ASSUME NEW i \in 1..(n+1) PROVE g[i] = IF i = 1 THEN q[i] ELSE g[i-1] \o q[i]
      OBVIOUS
    <3> HIDE DEF last, Is
    <3>0. g[n+1] = last /\ \A k \in 1..n : g[k] = f[k]
      OBVIOUS
    <3> USE DEF last, Is
    <3> HIDE DEF g
    <3>1. CASE i = n + 1
      <4>1. CASE n = 0
        BY <3>0, <3>1, <4>1
      <4>2. CASE n # 0
        <5>1. i # 1 /\ i - 1 = n /\ n \in 1..n
          BY <3>1, <4>2
        <5> QED
          BY <3>0, <3>1, <4>2, <5>1
      <4> QED
        BY <4>1, <4>2
    <3>2. CASE i \in 1..n
      <4>1. f[i] = IF i = 1 THEN q[i] ELSE f[i-1] \o q[i]
        BY <2>1, <3>2
      <4>2. g[i] = f[i] /\ (i # 1 => g[i-1] = f[i-1])
        BY <3>0, <3>2
      <4> QED
        BY <4>1, <4>2
    <3> QED
      BY <3>1, <3>2
  <2> HIDE DEF g, Is
  <2> QED
    BY <2>3, <2>4
<1>3. \A n \in Nat : Has(n)
  <2> HIDE DEF Has
  <2>1. P \subseteq Nat /\ 0 \in P /\ \A n \in P : n + 1 \in P
    BY <1>1, <1>2
  <2> HIDE DEF P
  <2>2. P = Nat
    BY <2>1, Counting
  <2> QED
    BY <2>2 DEF P
<1>4. PICK f \in [1..Len(q) -> Seq(S)] : Is(f, Len(q))
  <2> HIDE DEF Is
  <2> QED
    BY <1>0, <1>3
<1>5. f = [i \in 1..Len(q) |-> IF i = 1 THEN q[i] ELSE f[i-1] \o q[i]]
  BY <1>4
<1> DEFINE h == CHOOSE h : h = [i \in 1..Len(q) |-> IF i = 1 THEN q[i] ELSE h[i-1] \o q[i]]
<1>6. h = [i \in 1..Len(q) |-> IF i = 1 THEN q[i] ELSE h[i-1] \o q[i]]
  BY <1>5
<1>7. FlattenSeq(q) = h[Len(q)]
  BY <1>0 DEF FlattenSeq
<1> HIDE DEF h
<1>8. Flattens(h, q) /\ Flattens(f, q)
  BY <1>4, <1>6 DEF Flattens
<1>9. \A i \in 1..Len(q) : h[i] = f[i]
  BY <1>0, <1>8, FlattensAgree
<1> QED
  BY <1>0, <1>7, <1>8, <1>9

\* A list more is put at the end.
LEMMA FlattenAppend ==
  ASSUME NEW S, NEW q \in Seq(Seq(S)), NEW m \in Seq(S)
  PROVE  FlattenSeq(Append(q, m)) = FlattenSeq(q) \o m /\ FlattenSeq(q) \in Seq(S)
<1> DEFINE r == Append(q, m)
<1>1. r \in Seq(Seq(S)) /\ Len(r) = Len(q) + 1 /\ r # <<>> /\ r[Len(q) + 1] = m
  BY AppendProperties, LenProperties, EmptySeq
<1>2. Len(q) \in Nat /\ \A i \in 1..Len(q) : r[i] = q[i]
  BY AppendProperties, LenProperties
<1> HIDE DEF r
<1>3. PICK g \in [1..Len(r) -> Seq(S)] : Flattens(g, r) /\ FlattenSeq(r) = g[Len(r)]
  BY <1>1, FlattenIs
<1>4. CASE q = <<>>
  <2>1. FlattenSeq(q) = <<>>
    BY <1>4 DEF FlattenSeq
  <2>2. FlattenSeq(r) = m
    BY <1>1, <1>3, <1>4 DEF Flattens
  <2> QED
    BY <2>1, <2>2 DEF r
<1>5. CASE q # <<>>
  <2>1. PICK f \in [1..Len(q) -> Seq(S)] : Flattens(f, q) /\ FlattenSeq(q) = f[Len(q)]
    BY <1>5, FlattenIs
  <2>2. Flattens(g, q)
    <3> SUFFICES ASSUME NEW i \in 1..Len(q) PROVE g[i] = IF i = 1 THEN q[i] ELSE g[i-1] \o q[i]
      BY DEF Flattens
    <3>1. i \in 1..Len(r) /\ r[i] = q[i]
      BY <1>1, <1>2
    <3> QED
      BY <1>3, <3>1 DEF Flattens
  <2>3. Len(q) \in 1..Len(q)
    <3>1. Len(q) # 0
      BY <1>5, EmptySeq
    <3> QED
      BY <1>2, <3>1
  <2>4. g[Len(q)] = f[Len(q)]
    <3>1. Len(q) \in Nat /\ Flattens(f, q) /\ Flattens(g, q)
      BY <1>2, <2>1, <2>2
    <3>2. \A i \in 1..Len(q) : f[i] = g[i]
      BY <3>1, FlattensAgree
    <3> QED
      BY <2>3, <3>2
  <2>5. g[Len(q) + 1] = g[Len(q)] \o m
    <3>1. Len(q) + 1 \in 1..Len(r) /\ Len(q) + 1 # 1 /\ (Len(q) + 1) - 1 = Len(q)
      BY <1>1, <1>2, <2>3
    <3> QED
      BY <1>1, <1>3, <3>1 DEF Flattens
  <2> QED
    BY <1>1, <1>3, <2>1, <2>3, <2>4, <2>5 DEF r
<1> QED
  BY <1>4, <1>5

\* What is put together of two lists of lists.
LEMMA FlattenConcat ==
  ASSUME NEW S, NEW q \in Seq(Seq(S)), NEW r \in Seq(Seq(S))
  PROVE  FlattenSeq(q \o r) = FlattenSeq(q) \o FlattenSeq(r)
<1> DEFINE Is(n) == \A s \in Seq(Seq(S)) : Len(s) = n => FlattenSeq(q \o s) = FlattenSeq(q) \o FlattenSeq(s)
           P == {n \in Nat : Is(n)}
<1>0. FlattenSeq(q) \in Seq(S)
  BY EmptySeq, FlattenAppend
<1>1. Is(0)
  <2> SUFFICES ASSUME NEW s \in Seq(Seq(S)), Len(s) = 0
               PROVE  FlattenSeq(q \o s) = FlattenSeq(q) \o FlattenSeq(s)
    OBVIOUS
  <2>1. s = <<>> /\ q \o s = q
    BY EmptySeq, ConcatEmptySeq
  <2>2. FlattenSeq(s) = <<>>
    BY <2>1 DEF FlattenSeq
  <2> QED
    BY <1>0, <2>1, <2>2, ConcatEmptySeq
<1>2. ASSUME NEW n \in Nat, Is(n) PROVE Is(n + 1)
  <2> SUFFICES ASSUME NEW s \in Seq(Seq(S)), Len(s) = n + 1
               PROVE  FlattenSeq(q \o s) = FlattenSeq(q) \o FlattenSeq(s)
    OBVIOUS
  <2> DEFINE t == SubSeq(s, 1, n)
             m == s[n + 1]
  <2>1. t \in Seq(Seq(S)) /\ m \in Seq(S) /\ Len(t) = n /\ s = Append(t, m)
    OBVIOUS
  <2> HIDE DEF t, m
  <2>2. FlattenSeq(q \o t) = FlattenSeq(q) \o FlattenSeq(t)
    BY <1>2, <2>1
  <2>3. q \o s = Append(q \o t, m) /\ q \o t \in Seq(Seq(S))
    BY <2>1
  <2>4. /\ FlattenSeq(q \o s) = FlattenSeq(q \o t) \o m
        /\ FlattenSeq(s) = FlattenSeq(t) \o m /\ FlattenSeq(t) \in Seq(S)
    BY <2>1, <2>3, FlattenAppend
  <2> QED
    BY <1>0, <2>1, <2>2, <2>4, ConcatAssociative
<1>3. \A n \in Nat : Is(n)
  <2> HIDE DEF Is
  <2>1. P \subseteq Nat /\ 0 \in P /\ \A n \in P : n + 1 \in P
    BY <1>1, <1>2
  <2> HIDE DEF P
  <2>2. P = Nat
    BY <2>1, Counting
  <2> QED
    BY <2>2 DEF P
<1> QED
  BY <1>3, LenProperties
-----------------------------------------------------------------------------
(* Finite sets.                                                            *)

\* What holds of a set when it holds of all its smaller parts holds of each part of
\* a finite set.
LEMMA SetInduction ==
  ASSUME NEW S, IsFiniteSet(S), NEW F,
         \A T \in SUBSET S : (\A U \in SUBSET T : U # T => U \in F) => T \in F
  PROVE  \A T \in SUBSET S : T \in F
<1> DEFINE Is(n) == \A T \in SUBSET S : Cardinality(T) <= n => T \in F
           P == {n \in Nat : Is(n)}
<1>0. \A T \in SUBSET S : IsFiniteSet(T) /\ Cardinality(T) \in Nat
  BY FS_Subset, FS_CardinalityType
<1>a. ASSUME NEW T \in SUBSET S, NEW U \in SUBSET T, U # T PROVE Cardinality(U) < Cardinality(T)
  <2>1. U \in SUBSET S /\ IsFiniteSet(T)
    BY <1>0
  <2>2. Cardinality(U) <= Cardinality(T) /\ Cardinality(U) # Cardinality(T)
    BY <1>a, <2>1, FS_Subset
  <2> QED
    BY <1>0, <2>1, <2>2
<1>1. Is(0)
  <2> SUFFICES ASSUME NEW T \in SUBSET S, Cardinality(T) <= 0 PROVE T \in F
    OBVIOUS
  <2>1. \A U \in SUBSET T : U # T => U \in F
    BY <1>0, <1>a
  <2> QED
    BY <2>1
<1>2. ASSUME NEW n \in Nat, Is(n) PROVE Is(n + 1)
  <2> SUFFICES ASSUME NEW T \in SUBSET S, Cardinality(T) <= n + 1 PROVE T \in F
    OBVIOUS
  <2>1. ASSUME NEW U \in SUBSET T, U # T PROVE U \in F
    <3>1. U \in SUBSET S /\ Cardinality(U) < Cardinality(T)
      BY <1>a, <2>1
    <3>2. Cardinality(U) <= n
      BY <1>0, <3>1
    <3> QED
      BY <1>2, <3>1, <3>2
  <2> QED
    BY <2>1
<1>3. \A n \in Nat : Is(n)
  <2> HIDE DEF Is
  <2>1. P \subseteq Nat /\ 0 \in P /\ \A n \in P : n + 1 \in P
    BY <1>1, <1>2
  <2> HIDE DEF P
  <2>2. P = Nat
    BY <2>1, Counting
  <2> QED
    BY <2>2 DEF P
<1> QED
  BY <1>0, <1>3

\* The element that a fold takes first.
First(T) == CHOOSE x \in T : TRUE

\* g is the fold of op over the parts of S, from base.
IsFold(g, S, base, op) ==
  \A T \in SUBSET S : g[T] = IF T = {} THEN base ELSE op[First(T)][g[T \ {First(T)}]]

\* A fold over a finite set is defined, and has the type of its operation.
LEMMA FoldExists ==
  ASSUME NEW S, IsFiniteSet(S), NEW V, NEW base \in V, NEW op \in [S -> [V -> V]]
  PROVE  \E g \in [SUBSET S -> V] : IsFold(g, S, base, op)
<1> DEFINE Body(g, T) == IF T = {} THEN base ELSE op[First(T)][g[T \ {First(T)}]]
           Upto(g, n) == \A T \in SUBSET S : Cardinality(T) <= n => g[T] = Body(g, T)
           Is(n) == \E g \in [SUBSET S -> V] : Upto(g, n)
           P == {n \in Nat : Is(n)}
<1>0. \A T \in SUBSET S : IsFiniteSet(T) /\ Cardinality(T) \in Nat /\ Cardinality(T) <= Cardinality(S)
  BY FS_Subset, FS_CardinalityType
<1>a. ASSUME NEW T \in SUBSET S, T # {}
      PROVE  /\ First(T) \in T /\ First(T) \in S /\ T \ {First(T)} \in SUBSET S
             /\ Cardinality(T \ {First(T)}) = Cardinality(T) - 1
  <2>1. First(T) \in T
    BY <1>a DEF First
  <2> QED
    BY <1>0, <2>1, FS_RemoveElement
<1>b. ASSUME NEW g \in [SUBSET S -> V], NEW T \in SUBSET S PROVE Body(g, T) \in V
  <2>1. CASE T = {}
    BY <2>1
  <2>2. CASE T # {}
    <3>1. First(T) \in S /\ T \ {First(T)} \in SUBSET S
      BY <1>a, <2>2
    <3>2. op[First(T)] \in [V -> V] /\ g[T \ {First(T)}] \in V
      BY <3>1
    <3> QED
      BY <2>2, <3>2
  <2> QED
    BY <2>1, <2>2
<1>1. Is(0)
  <2> DEFINE g == [T \in SUBSET S |-> base]
  <2>1. g \in [SUBSET S -> V]
    OBVIOUS
  <2>2. Upto(g, 0)
    <3> SUFFICES ASSUME NEW T \in SUBSET S, Cardinality(T) <= 0 PROVE g[T] = Body(g, T)
      OBVIOUS
    <3>1. T = {}
      BY <1>0, FS_EmptySet
    <3> QED
      BY <3>1
  <2> HIDE DEF g, Upto
  <2> QED
    BY <2>1, <2>2
<1>2. ASSUME NEW n \in Nat, Is(n) PROVE Is(n + 1)
  <2>1. PICK g \in [SUBSET S -> V] : Upto(g, n)
    <3> HIDE DEF Upto
    <3> QED
      BY <1>2
  <2> DEFINE h == [T \in SUBSET S |-> Body(g, T)]
  <2>2. h \in [SUBSET S -> V]
    <3> HIDE DEF Body
    <3> QED
      BY <1>b
  <2>3. ASSUME NEW T \in SUBSET S, Cardinality(T) <= n PROVE h[T] = g[T]
    <3> HIDE DEF Body
    <3> QED
      BY <2>1, <2>3
  <2>4. ASSUME NEW T \in SUBSET S, Cardinality(T) <= n + 1 PROVE h[T] = Body(h, T)
    <3>0. h[T] = Body(g, T)
      <4> HIDE DEF Body
      <4> QED
        OBVIOUS
    <3> HIDE DEF h
    <3>1. CASE T = {}
      BY <3>0, <3>1
    <3>2. CASE T # {}
      <4>1. T \ {First(T)} \in SUBSET S /\ Cardinality(T \ {First(T)}) <= n
        BY <1>0, <1>a, <2>4, <3>2
      <4>2. h[T \ {First(T)}] = g[T \ {First(T)}]
        BY <2>3, <4>1
      <4> QED
        BY <3>0, <3>2, <4>2
    <3> QED
      BY <3>1, <3>2
  <2>5. Upto(h, n + 1)
    <3> HIDE DEF h, Body
    <3> QED
      BY <2>4
  <2> HIDE DEF h, Upto
  <2> QED
    BY <2>2, <2>5
<1>3. \A n \in Nat : Is(n)
  <2> HIDE DEF Is
  <2>1. P \subseteq Nat /\ 0 \in P /\ \A n \in P : n + 1 \in P
    BY <1>1, <1>2
  <2> HIDE DEF P
  <2>2. P = Nat
    BY <2>1, Counting
  <2> QED
    BY <2>2 DEF P
<1>4. PICK g \in [SUBSET S -> V] : Upto(g, Cardinality(S))
  <2> HIDE DEF Upto
  <2> QED
    BY <1>0, <1>3
<1>5. \A T \in SUBSET S : g[T] = Body(g, T)
  BY <1>0, <1>4
<1> QED
  BY <1>5 DEF IsFold

\* There is one fold.
LEMMA FoldsAgree ==
  ASSUME NEW S, IsFiniteSet(S), NEW base, NEW op, NEW g, NEW h,
         IsFold(g, S, base, op), IsFold(h, S, base, op)
  PROVE  \A T \in SUBSET S : g[T] = h[T]
<1> DEFINE F == {T \in SUBSET S : g[T] = h[T]}
<1>1. ASSUME NEW T \in SUBSET S, \A U \in SUBSET T : U # T => U \in F
      PROVE  T \in F
  <2>1. CASE T = {}
    BY <2>1 DEF IsFold
  <2>2. CASE T # {}
    <3>1. First(T) \in T
      BY <2>2 DEF First
    <3>2. T \ {First(T)} \in SUBSET T /\ T \ {First(T)} # T
      BY <3>1
    <3>3. g[T \ {First(T)}] = h[T \ {First(T)}]
      BY <1>1, <3>2
    <3> QED
      BY <2>2, <3>3 DEF IsFold
  <2> QED
    BY <2>1, <2>2
<1>2. \A T \in SUBSET S : T \in F
  <2> HIDE DEF F
  <2> QED
    BY <1>1, SetInduction
<1> QED
  BY <1>2
-----------------------------------------------------------------------------
(* Sums.                                                                   *)

Adds(f) == [x \in DOMAIN f |-> [n \in Int |-> f[x] + n]]

\* g[T] is the sum of f over T, for each part T of its domain S.
IsSum(g, f, S) == g \in [SUBSET S -> Int] /\ IsFold(g, S, 0, Adds(f))

\* What a sum of integers is, one element after the other.
LEMMA SumUnfolds ==
  ASSUME NEW S, NEW f \in [S -> Int], NEW g, IsSum(g, f, S)
  PROVE  /\ g[{}] = 0
         /\ \A T \in SUBSET S : T # {} =>
              /\ First(T) \in T /\ T \ {First(T)} \in SUBSET S
              /\ g[T] = f[First(T)] + g[T \ {First(T)}]
<1>1. \A T \in SUBSET S : T # {} => First(T) \in T
  BY DEF First
<1>2. g[{}] = 0
  BY DEF IsSum, IsFold
<1>3. ASSUME NEW T \in SUBSET S, T # {} PROVE g[T] = f[First(T)] + g[T \ {First(T)}]
  <2>1. First(T) \in S /\ T \ {First(T)} \in SUBSET S
    BY <1>1, <1>3
  <2>2. g[T \ {First(T)}] \in Int
    BY <2>1 DEF IsSum
  <2>3. g[T] = Adds(f)[First(T)][g[T \ {First(T)}]]
    BY <1>3 DEF IsSum, IsFold
  <2> QED
    BY <2>1, <2>2, <2>3 DEF Adds
<1> QED
  BY <1>1, <1>2, <1>3

\* It does not matter which element is taken first.
LEMMA SumAnyOrder ==
  ASSUME NEW S, IsFiniteSet(S), NEW f \in [S -> Int], NEW g, IsSum(g, f, S)
  PROVE  \A T \in SUBSET S : \A x \in T : g[T] = f[x] + g[T \ {x}]
<1> DEFINE F == {T \in SUBSET S : \A x \in T : g[T] = f[x] + g[T \ {x}]}
<1>0. \A T \in SUBSET S : g[T] \in Int
  BY DEF IsSum
<1>1. ASSUME NEW T \in SUBSET S, \A U \in SUBSET T : U # T => U \in F
      PROVE  T \in F
  <2> SUFFICES ASSUME NEW x \in T PROVE g[T] = f[x] + g[T \ {x}]
    OBVIOUS
  <2> DEFINE c == First(T)
  <2>1. c \in T /\ g[T] = f[c] + g[T \ {c}]
    BY SumUnfolds
  <2> HIDE DEF c
  <2>2. CASE x = c
    BY <2>1, <2>2
  <2>3. CASE x # c
    <3>1. T \ {c} \in F /\ T \ {x} \in F /\ x \in T \ {c} /\ c \in T \ {x}
      <4>1. T \ {c} \in SUBSET T /\ T \ {x} \in SUBSET T /\ T \ {c} # T /\ T \ {x} # T
        BY <2>1
      <4> HIDE DEF F
      <4> QED
        BY <1>1, <2>1, <2>3, <4>1
    <3>2. /\ g[T \ {c}] = f[x] + g[(T \ {c}) \ {x}]
          /\ g[T \ {x}] = f[c] + g[(T \ {x}) \ {c}]
      BY <3>1
    <3>3. (T \ {c}) \ {x} = (T \ {x}) \ {c} /\ (T \ {x}) \ {c} \in SUBSET S
      OBVIOUS
    <3> DEFINE rest == g[(T \ {x}) \ {c}]
    <3>4. f[x] \in Int /\ f[c] \in Int /\ rest \in Int
      BY <1>0, <2>1, <3>3
    <3>5. g[T \ {c}] = f[x] + rest /\ g[T \ {x}] = f[c] + rest
      BY <3>2, <3>3
    <3> HIDE DEF rest
    <3> QED
      BY <2>1, <3>4, <3>5
  <2> QED
    BY <2>2, <2>3
<1>2. \A T \in SUBSET S : T \in F
  <2> HIDE DEF F
  <2> QED
    BY <1>1, SetInduction
<1> QED
  BY <1>2

\* SumFunction is such a sum.
LEMMA SumIs ==
  ASSUME NEW S, IsFiniteSet(S), NEW f \in [S -> Int]
  PROVE  \E g : IsSum(g, f, S) /\ SumFunction(f) = g[S]
<1>0. DOMAIN f = S /\ Adds(f) \in [S -> [Int -> Int]]
  BY DEF Adds
<1>1. PICK g \in [SUBSET S -> Int] : IsFold(g, S, 0, Adds(f))
  <2> DEFINE op == Adds(f)
             V == Int
  <2>1. op \in [S -> [V -> V]] /\ 0 \in V
    BY <1>0
  <2> HIDE DEF op, V
  <2>2. \E g \in [SUBSET S -> V] : IsFold(g, S, 0, op)
    BY <2>1, FoldExists
  <2> QED
    BY <2>2 DEF op, V
<1>2. IsSum(g, f, S)
  BY <1>1 DEF IsSum
<1> DEFINE Body(h, T) == IF T = {} THEN 0 ELSE f[First(T)] + h[T \ {First(T)}]
<1>3. g = [T \in SUBSET S |-> Body(g, T)]
  <2>0. /\ g[{}] = 0
        /\ \A T \in SUBSET S : T # {} => g[T] = f[First(T)] + g[T \ {First(T)}]
    <3> HIDE DEF Body
    <3> QED
      BY <1>2, SumUnfolds
  <2>1. \A T \in SUBSET S : g[T] = Body(g, T)
    BY <2>0
  <2> HIDE DEF Body
  <2> QED
    BY <1>1, <2>1
<1> DEFINE h == CHOOSE h : h = [T \in SUBSET S |-> Body(h, T)]
<1>4. h = [T \in SUBSET S |-> Body(h, T)]
  <2> HIDE DEF Body
  <2> QED
    BY <1>3
<1>5. SumFunction(f) = h[S]
  BY <1>0 DEF SumFunction, SumFunctionOnSet, FoldFunctionOnSet, MapThenFoldSet, First
<1> HIDE DEF h
<1> DEFINE F == {T \in SUBSET S : h[T] = g[T]}
<1>6. ASSUME NEW T \in SUBSET S, \A U \in SUBSET T : U # T => U \in F PROVE T \in F
  <2>0. h[T] = Body(h, T) /\ g[T] = Body(g, T)
    <3> HIDE DEF Body
    <3> QED
      BY <1>3, <1>4
  <2>1. CASE T = {}
    BY <2>0, <2>1
  <2>2. CASE T # {}
    <3>1. First(T) \in T
      BY <2>2 DEF First
    <3>2. T \ {First(T)} \in SUBSET T /\ T \ {First(T)} # T
      BY <3>1
    <3>3. h[T \ {First(T)}] = g[T \ {First(T)}]
      BY <1>6, <3>2
    <3> QED
      BY <2>0, <2>2, <3>3
  <2> QED
    BY <2>1, <2>2
<1>7. S \in F
  <2> HIDE DEF F
  <2>1. \A T \in SUBSET S : T \in F
    BY <1>6, SetInduction
  <2> QED
    BY <2>1
<1> QED
  BY <1>2, <1>5, <1>7

\* A sum of integers is one.
LEMMA SumIsInt ==
  ASSUME NEW S, IsFiniteSet(S), NEW f \in [S -> Int]
  PROVE  SumFunction(f) \in Int
<1>1. PICK g : IsSum(g, f, S) /\ SumFunction(f) = g[S]
  BY SumIs
<1> QED
  BY <1>1 DEF IsSum

\* A function that differs in one place has a sum that differs by as much.
LEMMA SumChanges ==
  ASSUME NEW S, IsFiniteSet(S), NEW f \in [S -> Int], NEW h \in [S -> Int],
         NEW x \in S, \A y \in S \ {x} : h[y] = f[y]
  PROVE  SumFunction(h) = SumFunction(f) + h[x] - f[x]
<1> DEFINE R == S \ {x}
<1>1. PICK g : IsSum(g, f, S) /\ SumFunction(f) = g[S]
  BY SumIs
<1>2. PICK k : IsSum(k, h, S) /\ SumFunction(h) = k[S]
  BY SumIs
<1>3. IsFold(g, R, 0, Adds(f)) /\ IsFold(k, R, 0, Adds(f))
  <2> SUFFICES ASSUME NEW T \in SUBSET R
               PROVE  /\ g[T] = IF T = {} THEN 0 ELSE Adds(f)[First(T)][g[T \ {First(T)}]]
                      /\ k[T] = IF T = {} THEN 0 ELSE Adds(f)[First(T)][k[T \ {First(T)}]]
    BY DEF IsFold
  <2>1. T \in SUBSET S
    OBVIOUS
  <2>2. /\ g[T] = IF T = {} THEN 0 ELSE Adds(f)[First(T)][g[T \ {First(T)}]]
        /\ k[T] = IF T = {} THEN 0 ELSE Adds(h)[First(T)][k[T \ {First(T)}]]
    BY <1>1, <1>2, <2>1 DEF IsSum, IsFold
  <2>3. T # {} => Adds(h)[First(T)] = Adds(f)[First(T)]
    <3> SUFFICES ASSUME T # {} PROVE Adds(h)[First(T)] = Adds(f)[First(T)]
      OBVIOUS
    <3>1. First(T) \in T
      BY DEF First
    <3> QED
      BY <3>1 DEF Adds
  <2> QED
    BY <2>2, <2>3
<1>4. g[R] = k[R]
  <2>1. IsFiniteSet(R)
    BY FS_Subset
  <2> HIDE DEF R
  <2>2. \A T \in SUBSET R : g[T] = k[T]
    BY <1>3, <2>1, FoldsAgree
  <2> QED
    BY <2>2
<1>5. g[S] = f[x] + g[R] /\ k[S] = h[x] + k[R] /\ g[R] \in Int
  <2>1. /\ \A T \in SUBSET S : \A y \in T : g[T] = f[y] + g[T \ {y}]
        /\ \A T \in SUBSET S : \A y \in T : k[T] = h[y] + k[T \ {y}]
    BY <1>1, <1>2, SumAnyOrder
  <2>2. R \in SUBSET S /\ g[R] \in Int
    BY <1>1 DEF IsSum
  <2> QED
    BY <2>1, <2>2
<1>6. f[x] \in Int /\ h[x] \in Int
  OBVIOUS
<1> HIDE DEF R
<1> QED
  BY <1>1, <1>2, <1>4, <1>5, <1>6

\* The same number everywhere.
LEMMA SumConst ==
  ASSUME NEW S, IsFiniteSet(S), NEW c \in Int, NEW f \in [S -> Int], \A x \in S : f[x] = c
  PROVE  SumFunction(f) = Cardinality(S) * c
<1> DEFINE F(g) == {T \in SUBSET S : g[T] = Cardinality(T) * c}
<1>0. \A T \in SUBSET S : IsFiniteSet(T) /\ Cardinality(T) \in Nat
  BY FS_Subset, FS_CardinalityType
<1>1. PICK g : IsSum(g, f, S) /\ SumFunction(f) = g[S]
  BY SumIs
<1>2. ASSUME NEW T \in SUBSET S, \A U \in SUBSET T : U # T => U \in F(g) PROVE T \in F(g)
  <2>0. /\ g[{}] = 0
        /\ \A U \in SUBSET S : U # {} =>
             First(U) \in U /\ g[U] = f[First(U)] + g[U \ {First(U)}]
    <3>1. f \in [S -> Int] /\ IsSum(g, f, S)
      BY <1>1
    <3> HIDE DEF F
    <3> QED
      BY <3>1, SumUnfolds
  <2>1. CASE T = {}
    BY <2>0, <2>1, FS_EmptySet
  <2>2. CASE T # {}
    <3> DEFINE U == T \ {First(T)}
    <3>1. First(T) \in T /\ g[T] = c + g[U]
      BY <2>0, <2>2
    <3>2. U \in SUBSET T /\ U # T /\ U \in SUBSET S
      BY <3>1
    <3>3. Cardinality(U) = Cardinality(T) - 1
      BY <1>0, <3>1, FS_RemoveElement
    <3> HIDE DEF U
    <3>4. g[U] = Cardinality(U) * c
      BY <1>2, <3>2
    <3> DEFINE n == Cardinality(T)
    <3>5. n \in Nat /\ g[T] = c + (n - 1) * c
      BY <1>0, <3>1, <3>3, <3>4
    <3>6. \A m \in Nat : c + (m - 1) * c = m * c
      OBVIOUS
    <3> HIDE DEF n
    <3>7. g[T] = n * c
      BY <3>5, <3>6
    <3> QED
      BY <3>7 DEF n
  <2> QED
    BY <2>1, <2>2
<1>3. S \in F(g)
  <2> DEFINE G == F(g)
  <2>1. \A T \in SUBSET S : (\A U \in SUBSET T : U # T => U \in G) => T \in G
    BY <1>2
  <2> HIDE DEF G
  <2>2. \A T \in SUBSET S : T \in G
    BY <2>1, SetInduction
  <2>3. S \in G
    BY <2>2
  <2> QED
    BY <2>3 DEF G
<1> QED
  BY <1>1, <1>3

\* The sum of f over a part of its domain.
SumOver(f, T) == SumFunction([x \in DOMAIN f |-> IF x \in T THEN f[x] ELSE 0])

\* It grows by what f gives for an element more.
LEMMA SumOneMore ==
  ASSUME NEW S, IsFiniteSet(S), NEW f \in [S -> Int], NEW T \in SUBSET S, NEW x \in T
  PROVE  /\ SumOver(f, T) = SumOver(f, T \ {x}) + f[x]
         /\ SumOver(f, T) \in Int /\ SumOver(f, T \ {x}) \in Int
<1> DEFINE g(U) == [y \in S |-> IF y \in U THEN f[y] ELSE 0]
           U == T \ {x}
<1>1. g(T) \in [S -> Int] /\ g(U) \in [S -> Int] /\ x \in S
  OBVIOUS
<1>2. \A y \in S \ {x} : g(T)[y] = g(U)[y]
  OBVIOUS
<1>3. g(T)[x] = f[x] /\ g(U)[x] = 0
  OBVIOUS
<1>4. SumOver(f, T) = SumFunction(g(T)) /\ SumOver(f, U) = SumFunction(g(U))
  BY DEF SumOver
<1>5. f[x] \in Int
  OBVIOUS
<1> HIDE DEF g
<1>6. SumFunction(g(T)) = SumFunction(g(U)) + g(T)[x] - g(U)[x]
  BY <1>1, <1>2, SumChanges
<1>7. SumFunction(g(T)) \in Int /\ SumFunction(g(U)) \in Int
  BY <1>1, SumIsInt
<1> HIDE DEF U
<1>8. SumFunction(g(T)) = SumFunction(g(U)) + f[x]
  BY <1>3, <1>5, <1>6, <1>7
<1> QED
  BY <1>4, <1>7, <1>8 DEF U

\* Over nothing it is 0.
LEMMA SumOfNone ==
  ASSUME NEW S, IsFiniteSet(S), NEW f \in [S -> Int]
  PROVE  SumOver(f, {}) = 0
<1> DEFINE z == [x \in S |-> 0]
<1>1. SumOver(f, {}) = SumFunction(z)
  BY DEF SumOver
<1>2. z \in [S -> Int] /\ \A x \in S : z[x] = 0
  OBVIOUS
<1> HIDE DEF z
<1>3. SumFunction(z) = Cardinality(S) * 0
  BY <1>2, SumConst
<1>4. Cardinality(S) \in Nat
  BY FS_CardinalityType
<1> QED
  BY <1>1, <1>3, <1>4

\* And over the whole domain it is the sum of f.
LEMMA SumOfAll ==
  ASSUME NEW S, NEW f \in [S -> Int], NEW T, \A x \in S \ T : f[x] = 0
  PROVE  SumOver(f, T) = SumFunction(f)
<1>1. [x \in DOMAIN f |-> IF x \in T THEN f[x] ELSE 0] = f
  OBVIOUS
<1> QED
  BY <1>1 DEF SumOver

\* The sum without one element.
LEMMA SumWithout ==
  ASSUME NEW S, IsFiniteSet(S), NEW f \in [S -> Int], NEW x \in S
  PROVE  /\ SumFunction(f) = SumFunction([y \in S \ {x} |-> f[y]]) + f[x]
         /\ SumFunction(f) \in Int /\ SumFunction([y \in S \ {x} |-> f[y]]) \in Int
<1> DEFINE T == S \ {x}
           e == [y \in T |-> f[y]]
<1>1. IsFiniteSet(T) /\ e \in [T -> Int] /\ T \in SUBSET S
  BY FS_Subset
<1>2. PICK g : IsSum(g, f, S) /\ SumFunction(f) = g[S]
  BY SumIs
<1> HIDE DEF T, e
<1>3. PICK h : IsSum(h, e, T) /\ SumFunction(e) = h[T]
  BY <1>1, SumIs
<1>4. g[S] = f[x] + g[T]
  BY <1>2, SumAnyOrder DEF T
<1>5. IsFold(h, T, 0, Adds(e)) /\ IsFold(g, T, 0, Adds(e))
  <2>1. IsFold(h, T, 0, Adds(e))
    BY <1>3 DEF IsSum
  <2>2. ASSUME NEW U \in SUBSET T
        PROVE  g[U] = IF U = {} THEN 0 ELSE Adds(e)[First(U)][g[U \ {First(U)}]]
    <3>1. g[U] = IF U = {} THEN 0 ELSE Adds(f)[First(U)][g[U \ {First(U)}]]
      BY <1>1, <1>2, <2>2 DEF IsSum, IsFold
    <3>2. U # {} => First(U) \in U
      BY DEF First
    <3>3. \A y \in T : Adds(f)[y] = Adds(e)[y]
      BY <1>1 DEF Adds, e
    <3> QED
      BY <3>1, <3>2, <3>3
  <2> QED
    BY <2>1, <2>2 DEF IsFold
<1>6. g[T] = h[T]
  BY <1>1, <1>5, FoldsAgree
<1>7. g[S] \in Int /\ h[T] \in Int /\ f[x] \in Int
  BY <1>2, <1>3 DEF IsSum
<1> QED
  BY <1>2, <1>3, <1>4, <1>6, <1>7 DEF e, T
-----------------------------------------------------------------------------
(* Sequences.                                                             *)

\* No element is there twice.
Different(q) == \A m, n \in DOMAIN q : q[m] = q[n] => m = n

\* RemoveFirst takes an element out of such a sequence, the others stay.
LEMMA RemoveFirstIs ==
  ASSUME NEW X, NEW q \in Seq(X), Different(q), NEW x
  PROVE  /\ RemoveFirst(q, x) \in Seq(X) /\ Different(RemoveFirst(q, x))
         /\ ToSet(RemoveFirst(q, x)) = ToSet(q) \ {x}
         /\ x \notin ToSet(q) => RemoveFirst(q, x) = q
<1>1. CASE \A n \in 1..Len(q) : q[n] # x
  <2>1. ~ \E n \in 1..Len(q) : q[n] = x
    BY <1>1
  <2>2. RemoveFirst(q, x) = q
    BY <2>1 DEF RemoveFirst
  <2>3. x \notin ToSet(q)
    BY <1>1 DEF ToSet
  <2> QED
    BY <2>2, <2>3
<1>2. CASE \E n \in 1..Len(q) : q[n] = x
  <2>1. PICK n \in 1..Len(q) : q[n] = x
    BY <1>2
  <2>2. {m \in 1..Len(q) : q[m] = x} = {n}
    BY <2>1 DEF Different
  <2>3. SelectInSeq(q, LAMBDA v : v = x) = n
    <3>1. SelectInSeq(q, LAMBDA v : v = x) = Min({n})
      BY <2>2 DEF SelectInSeq
    <3> QED
      BY <3>1 DEF Min
  <2>4. RemoveFirst(q, x) = RemoveAt(q, n)
    BY <1>2, <2>3 DEF RemoveFirst
  <2>5. PICK w : w = RemoveFirst(q, x)
    OBVIOUS
  <2>6. /\ w \in Seq(X) /\ Len(w) = Len(q) - 1
        /\ \A m \in 1..(Len(q) - 1) : w[m] = IF m < n THEN q[m] ELSE q[m + 1]
    <3>1. PICK a : a = SubSeq(q, 1, n - 1)
      OBVIOUS
    <3>2. PICK z : z = SubSeq(q, n + 1, Len(q))
      OBVIOUS
    <3>3. a \in Seq(X) /\ Len(a) = n - 1 /\ \A m \in 1..(n - 1) : a[m] = q[m]
      BY <2>1, <3>1
    <3>4. z \in Seq(X) /\ Len(z) = Len(q) - n /\ \A m \in 1..(Len(q) - n) : z[m] = q[n + m]
      BY <2>1, <3>2
    <3>5. w = a \o z
      BY <2>4, <2>5, <3>1, <3>2 DEF RemoveAt
    <3>6. w \in Seq(X) /\ Len(w) = Len(q) - 1
      BY <3>3, <3>4, <3>5
    <3>7. \A m \in 1..(n - 1) : w[m] = q[m]
      BY <3>3, <3>4, <3>5
    <3>8. ASSUME NEW m \in n..(Len(q) - 1) PROVE w[m] = q[m + 1]
      <4>1. w[m] = z[m - (n - 1)]
        BY <2>1, <3>3, <3>4, <3>5
      <4>2. m - (n - 1) \in 1..(Len(q) - n)
        BY <2>1
      <4> QED
        BY <2>1, <3>4, <4>1, <4>2
    <3> QED
      BY <2>1, <3>6, <3>7, <3>8
  <2>7. Different(w)
    <3> SUFFICES ASSUME NEW k \in DOMAIN w, NEW m \in DOMAIN w, w[k] = w[m] PROVE k = m
      BY DEF Different
    <3>1. k \in 1..(Len(q) - 1) /\ m \in 1..(Len(q) - 1)
      BY <2>6
    <3> QED
      BY <2>6, <3>1 DEF Different
  <2>8. ToSet(w) = ToSet(q) \ {x}
    <3>1. \A y \in ToSet(w) : y \in ToSet(q) \ {x}
      <4> TAKE y \in ToSet(w)
      <4>1. PICK m \in 1..(Len(q) - 1) : y = w[m]
        BY <2>6 DEF ToSet
      <4>2. m \in DOMAIN q /\ m + 1 \in DOMAIN q /\ n \in DOMAIN q
        BY <2>1, <4>1
      <4> QED
        BY <2>1, <2>6, <4>1, <4>2 DEF ToSet, Different
    <3>2. \A y \in ToSet(q) \ {x} : y \in ToSet(w)
      <4> TAKE y \in ToSet(q) \ {x}
      <4>1. PICK m \in 1..Len(q) : y = q[m]
        BY DEF ToSet
      <4>2. m # n
        BY <2>1, <4>1
      <4>3. CASE m < n
        <5>1. m \in DOMAIN w /\ w[m] = y
          BY <2>1, <2>6, <4>1, <4>3
        <5> QED
          BY <5>1 DEF ToSet
      <4>4. CASE m > n
        <5>1. m - 1 \in DOMAIN w /\ w[m - 1] = y
          BY <2>1, <2>6, <4>1, <4>4
        <5> QED
          BY <5>1 DEF ToSet
      <4> QED
        BY <4>2, <4>3, <4>4
    <3> QED
      BY <3>1, <3>2
  <2>9. x \in ToSet(q)
    BY <2>1 DEF ToSet
  <2> QED
    BY <2>5, <2>6, <2>7, <2>8, <2>9
<1> QED
  BY <1>1, <1>2
=============================================================================
