----------------------------- MODULE Induction -----------------------------
(***************************************************************************)
(* What the proofs about folds need: induction over the subsets of a       *)
(* finite set, over the natural numbers and over sequences, and the laws   *)
(* of a sum over a finite set.                                             *)
(*                                                                         *)
(* The library's induction takes a predicate as an operator.  Here it is   *)
(* the set "P" of what the predicate holds of, and the argument is that of *)
(* the least counterexample.                                               *)
(***************************************************************************)
EXTENDS Integers, FiniteSetsExt, FiniteSetTheorems, SequenceTheorems, TLAPS

\* The sum of f over S, as the models take it.
SumOf(f, S) == MapThenSumSet(LAMBDA x : f[x], S)

\* The element a sum over T takes first.
First(T) == CHOOSE x \in T : TRUE

\* "it" adds f up over every subset of S.
AddsUp(it, f, S) ==
    it = [T \in SUBSET S |-> IF T = {} THEN 0
                             ELSE f[First(T)] + it[T \ {First(T)}]]

-----------------------------------------------------------------------------

\* The members of B are subsets of S; one of B has none of the others below it.
\* (As definitions of their own, which the provers match better.)
FamilyOf(B, S) == B \subseteq SUBSET S
HasLeast(B) == \E T \in B : \A U \in B : U \subseteq T => U = T

\* Of subsets of a finite set, one has none of the others below it.
LEMMA LeastSet ==
    ASSUME NEW S, IsFiniteSet(S), NEW B, FamilyOf(B, S), B # {}
    PROVE  HasLeast(B)
<1>1. IsWellFoundedOn(StrictSubsetOrdering(S), FiniteSubsetsOf(S))
    BY FS_StrictSubsetOrderingWellFounded
<1>2. B \subseteq FiniteSubsetsOf(S)
    BY FS_Subset DEF FiniteSubsetsOf, FamilyOf
<1>3. PICK T \in B : \A U \in B : ~ (<<U, T>> \in StrictSubsetOrdering(S))
    BY <1>1, <1>2, WFMin
<1> QED
    BY <1>3 DEF StrictSubsetOrdering, FamilyOf, HasLeast

\* The first element of a set that has one is one of its elements.
LEMMA FirstIn == ASSUME NEW T, T # {} PROVE First(T) \in T
    BY DEF First

\* Two ways to add f up agree where both are defined.
LEMMA AddsUpAgree ==
    ASSUME NEW f, NEW R, NEW S, IsFiniteSet(S), NEW a, NEW b,
           AddsUp(a, f, R), AddsUp(b, f, S), NEW T, T \subseteq R, T \subseteq S
    PROVE  a[T] = b[T]
<1> DEFINE B == {U \in SUBSET S : U \subseteq R /\ a[U] # b[U]}
<1> SUFFICES ASSUME B # {} PROVE FALSE
    OBVIOUS
<1>1. PICK U \in B : \A V \in B : V \subseteq U => V = U
    <2>1. FamilyOf(B, S)
        BY DEF FamilyOf
    <2> HIDE DEF B
    <2>2. HasLeast(B)
        BY <2>1, LeastSet
    <2> QED
        BY <2>2 DEF HasLeast
<1>2. U # {}
    BY <1>1 DEF AddsUp
<1> DEFINE V == U \ {First(U)}
<1>3. First(U) \in U /\ V \subseteq U /\ V # U
    BY <1>2, FirstIn
<1>4. a[V] = b[V]
    BY <1>1, <1>3
<1>5. a[U] = f[First(U)] + a[V] /\ b[U] = f[First(U)] + b[V]
    BY <1>1, <1>2 DEF AddsUp
<1> QED
    BY <1>1, <1>4, <1>5

\* Every function can be added up over a finite set.
LEMMA AddsUpExists ==
    ASSUME NEW f, NEW S, IsFiniteSet(S)
    PROVE  \E it : AddsUp(it, f, S)
<1> DEFINE B == {T \in SUBSET S : ~ \E it : AddsUp(it, f, T)}
<1> SUFFICES ASSUME B # {} PROVE FALSE
    OBVIOUS
<1>1. PICK T \in B : \A U \in B : U \subseteq T => U = T
    <2>1. FamilyOf(B, S)
        BY DEF FamilyOf
    <2> HIDE DEF B
    <2>2. HasLeast(B)
        BY <2>1, LeastSet
    <2> QED
        BY <2>2 DEF HasLeast
<1> DEFINE by(U) == CHOOSE it : AddsUp(it, f, U)
           h == [U \in SUBSET T |-> IF U = {} THEN 0
                    ELSE f[First(U)] + by(U \ {First(U)})[U \ {First(U)}]]
<1>2. \A U \in SUBSET T : U # T => AddsUp(by(U), f, U) /\ IsFiniteSet(U)
    <2>1. \A U \in SUBSET T : U # T => \E it : AddsUp(it, f, U)
        BY <1>1
    <2> QED
        BY <2>1, FS_Subset
<1>3. ASSUME NEW U \in SUBSET T, U # {} PROVE h[U] = f[First(U)] + h[U \ {First(U)}]
    <2> DEFINE V == U \ {First(U)}
    <2>1. V \in SUBSET T /\ V # T
        BY <1>3, FirstIn
    <2>2. AddsUp(by(V), f, V)
        BY <1>2, <2>1
    <2>3. by(V)[V] = IF V = {} THEN 0 ELSE f[First(V)] + by(V)[V \ {First(V)}]
        <3> HIDE DEF by
        <3> QED
            BY <2>2 DEF AddsUp
    <2>4. CASE V = {}
        BY <1>3, <2>1, <2>3, <2>4
    <2>5. CASE V # {}
        <3> DEFINE W == V \ {First(V)}
        <3>1. W \in SUBSET T /\ W # T /\ W \subseteq V
            BY <2>1
        <3>2. by(V)[W] = by(W)[W]
            <4>1. AddsUp(by(W), f, W) /\ IsFiniteSet(W)
                BY <1>2, <3>1
            <4> HIDE DEF by, W, V
            <4> QED
                BY <2>2, <3>1, <4>1, AddsUpAgree
        <3>3. h[V] = f[First(V)] + by(W)[W]
            BY <2>1, <2>5
        <3>4. h[U] = f[First(U)] + by(V)[V]
            BY <1>3
        <3> QED
            BY <2>3, <2>5, <3>2, <3>3, <3>4
    <2> QED
        BY <2>4, <2>5
<1>4. AddsUp(h, f, T)
    <2>1. h[{}] = 0
        OBVIOUS
    <2>2. DOMAIN h = SUBSET T /\ h = [U \in SUBSET T |-> h[U]]
        OBVIOUS
    <2>3. \A U \in SUBSET T : h[U] = IF U = {} THEN 0 ELSE f[First(U)] + h[U \ {First(U)}]
        <3> HIDE DEF h
        <3> QED
            BY <1>3, <2>1
    <2> HIDE DEF h
    <2> QED
        BY <2>2, <2>3 DEF AddsUp
<1> QED
    BY <1>1, <1>4

\* The equation a sum over a finite set satisfies, in its two cases.
LEMMA SumEmpty == ASSUME NEW f PROVE SumOf(f, {}) = 0
<1>1. \E it : AddsUp(it, f, {})
    BY AddsUpExists, FS_EmptySet
<1>2. SumOf(f, {}) = (CHOOSE it : AddsUp(it, f, {}))[{}]
    BY DEF SumOf, MapThenSumSet, MapThenFoldSet, AddsUp, First
<1> DEFINE it == CHOOSE it : AddsUp(it, f, {})
<1>3. AddsUp(it, f, {})
    BY <1>1
<1> HIDE DEF it
<1> QED
    BY <1>2, <1>3 DEF AddsUp, it

\* Whatever adds f up gives the sum of f.
LEMMA SumChosen ==
    ASSUME NEW f, NEW S, IsFiniteSet(S), NEW it, AddsUp(it, f, S),
           NEW T \in SUBSET S
    PROVE  SumOf(f, T) = it[T]
<1> DEFINE sum == CHOOSE a : AddsUp(a, f, T)
<1>1. IsFiniteSet(T)
    BY FS_Subset
<1>2. AddsUp(sum, f, T)
    BY <1>1, AddsUpExists
<1>3. SumOf(f, T) = sum[T]
    BY DEF SumOf, MapThenSumSet, MapThenFoldSet, AddsUp, First
<1> HIDE DEF sum
<1>4. T \subseteq T /\ T \subseteq S
    OBVIOUS
<1>5. sum[T] = it[T]
    BY <1>2, <1>4, AddsUpAgree
<1> QED
    BY <1>3, <1>5

LEMMA SumRest ==
    ASSUME NEW f, NEW S, IsFiniteSet(S), S # {}
    PROVE  SumOf(f, S) = f[First(S)] + SumOf(f, S \ {First(S)})
<1>1. PICK it : AddsUp(it, f, S)
    BY AddsUpExists
<1>2. SumOf(f, S) = it[S] /\ SumOf(f, S \ {First(S)}) = it[S \ {First(S)}]
    BY <1>1, SumChosen
<1> QED
    BY <1>1, <1>2 DEF AddsUp

\* What holds of the empty set and of a set whose rest it holds of, holds of
\* every subset: "P" is the set of the subsets it holds of.
LEMMA SubsetsByRest ==
    ASSUME NEW S, IsFiniteSet(S), NEW P, {} \in P,
           \A T \in SUBSET S : T # {} /\ T \ {First(T)} \in P => T \in P
    PROVE  SUBSET S \subseteq P
<1> DEFINE B == (SUBSET S) \ P
<1> SUFFICES ASSUME B # {} PROVE FALSE
    OBVIOUS
<1>1. PICK T \in B : \A U \in B : U \subseteq T => U = T
    <2>1. FamilyOf(B, S)
        BY DEF FamilyOf
    <2> HIDE DEF B
    <2>2. HasLeast(B)
        BY <2>1, LeastSet
    <2> QED
        BY <2>2 DEF HasLeast
<1>2. T # {} /\ T \in SUBSET S
    BY <1>1
<1>3. T \ {First(T)} \subseteq T /\ T \ {First(T)} # T
    BY <1>2, FirstIn
<1>4. T \ {First(T)} \notin B
    BY <1>1, <1>3
<1> QED
    BY <1>1, <1>2, <1>3, <1>4

\* A sum of integers is an integer.
LEMMA SumType ==
    ASSUME NEW f, NEW S, IsFiniteSet(S), \A x \in S : f[x] \in Int
    PROVE  SumOf(f, S) \in Int
<1> DEFINE P == {T \in SUBSET S : SumOf(f, T) \in Int}
<1>1. {} \in P
    BY SumEmpty
<1>2. ASSUME NEW T \in SUBSET S, T # {}, T \ {First(T)} \in P PROVE T \in P
    <2>1. IsFiniteSet(T) /\ First(T) \in S
        BY <1>2, FS_Subset, FirstIn
    <2>2. SumOf(f, T) = f[First(T)] + SumOf(f, T \ {First(T)})
        BY <1>2, <2>1, SumRest
    <2> QED
        BY <1>2, <2>1, <2>2
<1>3. SUBSET S \subseteq P
    <2> HIDE DEF P
    <2> QED
        BY <1>1, <1>2, SubsetsByRest
<1> QED
    BY <1>3

\* A sum of equals.
LEMMA SumConst ==
    ASSUME NEW S, IsFiniteSet(S), NEW c \in Int, NEW f, \A x \in S : f[x] = c
    PROVE  SumOf(f, S) = c * Cardinality(S)
<1> DEFINE P == {T \in SUBSET S : SumOf(f, T) = c * Cardinality(T)}
<1>1. {} \in P
    BY SumEmpty, FS_EmptySet
<1>2. ASSUME NEW T \in SUBSET S, T # {}, T \ {First(T)} \in P PROVE T \in P
    <2> DEFINE U == T \ {First(T)}
    <2>1. IsFiniteSet(T) /\ First(T) \in T /\ f[First(T)] = c
        BY <1>2, FS_Subset, FirstIn
    <2>2. SumOf(f, T) = c + SumOf(f, U)
        BY <1>2, <2>1, SumRest
    <2>3. Cardinality(U) = Cardinality(T) - 1 /\ Cardinality(T) \in Nat
        BY <2>1, FS_RemoveElement, FS_CardinalityType
    <2>4. SumOf(f, U) = c * Cardinality(U)
        BY <1>2
    <2> DEFINE n == Cardinality(T)
    <2>5. SumOf(f, T) = c + c * (n - 1) /\ n \in Nat
        BY <2>2, <2>3, <2>4
    <2> HIDE DEF n
    <2>6. SumOf(f, T) = c * n
        BY <2>5
    <2> QED
        BY <2>6 DEF n
<1>3. SUBSET S \subseteq P
    <2> HIDE DEF P
    <2> QED
        BY <1>1, <1>2, SubsetsByRest
<1> QED
    BY <1>3

\* What one value changes by, the sum changes by.
LEMMA SumExcept ==
    ASSUME NEW S, IsFiniteSet(S), NEW f, NEW g, NEW x \in S,
           \A y \in S : f[y] \in Int /\ g[y] \in Int,
           \A y \in S : y # x => g[y] = f[y]
    PROVE  SumOf(g, S) = SumOf(f, S) + g[x] - f[x]
<1> DEFINE d == g[x] - f[x]
           P == {T \in SUBSET S :
                   SumOf(g, T) = SumOf(f, T) + (IF x \in T THEN d ELSE 0)}
<1>0. d \in Int /\ g[x] = f[x] + d
    OBVIOUS
<1> HIDE DEF d
<1>1. {} \in P
    BY SumEmpty
<1>2. ASSUME NEW T \in SUBSET S, T # {}, T \ {First(T)} \in P PROVE T \in P
    <2> DEFINE e == First(T)
               U == T \ {e}
    <2>1. IsFiniteSet(T) /\ IsFiniteSet(U) /\ e \in T /\ e \in S /\ U \subseteq S
        BY <1>2, FS_Subset, FirstIn
    <2>2. SumOf(f, T) = f[e] + SumOf(f, U) /\ SumOf(g, T) = g[e] + SumOf(g, U)
        BY <1>2, <2>1, SumRest
    <2>3. /\ SumOf(f, U) \in Int /\ SumOf(g, U) \in Int
          /\ f[e] \in Int /\ g[e] \in Int
        BY <2>1, SumType
    <2>4. SumOf(g, U) = SumOf(f, U) + (IF x \in U THEN d ELSE 0)
        BY <1>2
    <2>5. CASE e = x
        BY <1>0, <2>1, <2>2, <2>3, <2>4, <2>5
    <2>6. CASE e # x
        BY <1>0, <2>1, <2>2, <2>3, <2>4, <2>6
    <2> QED
        BY <2>5, <2>6
<1>3. SUBSET S \subseteq P
    <2> HIDE DEF P
    <2> QED
        BY <1>1, <1>2, SubsetsByRest
<1>4. SumOf(g, S) = SumOf(f, S) + d /\ SumOf(f, S) \in Int
    BY <1>3, SumType
<1> QED
    BY <1>0, <1>4 DEF d

-----------------------------------------------------------------------------
(* Numbers and sequences. *)

\* Of sets of places in a sequence, one has none of the others below it.
LEMMA LeastPlaces ==
    ASSUME NEW n \in Nat, NEW B, FamilyOf(B, 1 .. n), B # {}
    PROVE  HasLeast(B)
<1>1. IsFiniteSet(1 .. n)
    BY FS_Interval
<1> QED
    BY <1>1, LeastSet

\* A set of natural numbers with a member has a least one.
LEMMA LeastNat ==
    ASSUME NEW B, B \subseteq Nat, B # {}
    PROVE  \E n \in B : \A m \in B : n <= m
<1>1. PICK b \in B : TRUE
    OBVIOUS
<1> DEFINE I == {1 .. m : m \in {k \in B : k <= b}}
<1>2. b \in Nat /\ 1 .. b \in I /\ FamilyOf(I, 1 .. b)
    <2>1. \A m \in {k \in B : k <= b} : 1 .. m \subseteq 1 .. b
        OBVIOUS
    <2> QED
        BY <2>1 DEF FamilyOf
<1>3. PICK T \in I : \A U \in I : U \subseteq T => U = T
    <2> HIDE DEF I
    <2>1. HasLeast(I)
        BY <1>2, LeastPlaces
    <2> QED
        BY <2>1 DEF HasLeast
<1>4. PICK n \in B : n <= b /\ T = 1 .. n
    BY <1>3
<1>5. ASSUME NEW m \in B, ~ (n <= m) PROVE FALSE
    <2>1. m \in Nat /\ n \in Nat /\ m < n /\ m <= b
        BY <1>4, <1>5
    <2>2. 1 .. m \in I /\ 1 .. m \subseteq T
        BY <1>4, <2>1
    <2>3. 1 .. m = 1 .. n
        BY <1>3, <1>4, <2>2
    <2>4. n \in 1 .. n /\ n \notin 1 .. m
        BY <2>1
    <2> QED
        BY <2>3, <2>4
<1> QED
    BY <1>5

\* What holds of 0, and of n + 1 when of n, holds of every natural number: "P"
\* is the set of those it holds of.
LEMMA NatByNext ==
    ASSUME NEW P, 0 \in P, \A n \in Nat : n \in P => n + 1 \in P
    PROVE  Nat \subseteq P
<1> DEFINE B == Nat \ P
<1> SUFFICES ASSUME B # {} PROVE FALSE
    OBVIOUS
<1>0. B \subseteq Nat
    OBVIOUS
<1>1. PICK n \in B : \A m \in B : n <= m
    <2> HIDE DEF B
    <2> QED
        BY <1>0, LeastNat
<1>2. n # 0 /\ n - 1 \in Nat /\ n - 1 \notin B
    BY <1>1
<1> QED
    BY <1>1, <1>2

\* What holds of <<>>, and of Append(s, x) when of s, holds of every sequence.
LEMMA SeqByAppend ==
    ASSUME NEW T, NEW P, <<>> \in P,
           \A s \in Seq(T) : \A x \in T : s \in P => Append(s, x) \in P
    PROVE  Seq(T) \subseteq P
<1> DEFINE N == {n \in Nat : \A s \in Seq(T) : Len(s) = n => s \in P}
<1>1. 0 \in N
    OBVIOUS
<1>2. ASSUME NEW n \in Nat, n \in N PROVE n + 1 \in N
    <2> SUFFICES ASSUME NEW s \in Seq(T), Len(s) = n + 1 PROVE s \in P
        OBVIOUS
    <2> DEFINE t == SubSeq(s, 1, n)
    <2>1. t \in Seq(T) /\ Len(t) = n /\ s[n + 1] \in T
        OBVIOUS
    <2>2. s = Append(t, s[n + 1])
        OBVIOUS
    <2>3. t \in P
        BY <1>2, <2>1
    <2> HIDE DEF t
    <2> QED
        BY <2>1, <2>2, <2>3
<1>3. Nat \subseteq N
    <2> HIDE DEF N
    <2> QED
        BY <1>1, <1>2, NatByNext
<1> QED
    BY <1>3
=============================================================================
