----------------------------- MODULE DataLemmas -----------------------------
(***************************************************************************)
(* What the operators on data compute that the models take from the        *)
(* community modules, for all their arguments: least and greatest numbers  *)
(* of a set, sums of functions, folds over sequences.  An induction is     *)
(* stated with the set of what has the property, the folded operation as a *)
(* function.                                                               *)
(***************************************************************************)
EXTENDS Integers, SequencesExt, FiniteSetTheorems, TLAPS

-----------------------------------------------------------------------------
(* Induction.                                                              *)

NatOrder == {ss \in Nat \X Nat : ss[1] < ss[2]}

LEMMA NatOrdered == IsWellFoundedOn(NatOrder, Nat)
<1>1. IsWellFoundedOn(OpToRel(<, Nat), Nat)
  BY NatLessThanWellFounded
<1>2. OpToRel(<, Nat) = NatOrder
  BY Zenon DEF OpToRel, NatOrder
<1> QED
  BY <1>1, <1>2, Zenon

\* A set of natural numbers has a least one.
LEMMA LeastExists ==
  ASSUME NEW S \in SUBSET Nat, S # {}
  PROVE  \E x \in S : \A y \in S : x <= y
<1>1. \E x \in S : \A y \in S : ~(<<y, x>> \in NatOrder)
  <2> DEFINE R == NatOrder
  <2>1. IsWellFoundedOn(R, Nat)
    BY NatOrdered
  <2> HIDE DEF R
  <2> QED
    BY <2>1, WFMin, Zenon DEF R
<1>2. \A x, y \in Nat : ~(<<y, x>> \in NatOrder) => x <= y
  BY DEF NatOrder
<1> QED
  BY <1>1, <1>2

\* What holds of 0, and of a number whenever of the one before, holds of all.
LEMMA NaturalInduction ==
  ASSUME NEW P, 0 \in P, \A n \in Nat : n \in P => n + 1 \in P
  PROVE  Nat \subseteq P
<1> SUFFICES ASSUME Nat \ P # {} PROVE FALSE
  OBVIOUS
<1>1. PICK n \in Nat \ P : \A m \in Nat \ P : n <= m
  <2>1. Nat \ P \in SUBSET Nat
    OBVIOUS
  <2> QED
    BY <2>1, LeastExists
<1>2. n # 0 /\ n - 1 \in Nat /\ n - 1 \in P
  BY <1>1
<1> QED
  BY <1>1, <1>2

\* What holds of a part of a finite set whenever of all smaller parts of it
\* holds of every part.
LEMMA PartsInduction ==
  ASSUME NEW S, IsFiniteSet(S), NEW P,
         \A s \in SUBSET S : (\A t \in SUBSET s : t # s => t \in P) => s \in P
  PROVE  SUBSET S \subseteq P
<1> DEFINE Bad == (SUBSET S) \ P
           Sizes == {Cardinality(s) : s \in Bad}
<1> SUFFICES ASSUME NEW b \in Bad PROVE FALSE
  OBVIOUS
<1>1. \A s \in SUBSET S : IsFiniteSet(s) /\ Cardinality(s) \in Nat
  BY FS_Subset, FS_CardinalityType
<1>2. PICK s \in Bad : \A t \in Bad : Cardinality(s) <= Cardinality(t)
  <2>1. Sizes \in SUBSET Nat /\ Sizes # {}
    BY <1>1
  <2>2. PICK n \in Sizes : \A m \in Sizes : n <= m
    BY <2>1, LeastExists
  <2> QED
    BY <2>2
<1>3. ASSUME NEW t \in SUBSET s, t # s PROVE t \in P
  <2>1. IsFiniteSet(s) /\ Cardinality(s) \in Nat /\ Cardinality(t) \in Nat
    BY <1>1
  <2>2. Cardinality(t) < Cardinality(s)
    BY <1>3, <2>1, FS_Subset
  <2> QED
    BY <1>2, <2>1, <2>2
<1> QED
  BY <1>2, <1>3

-----------------------------------------------------------------------------
(* The least and the greatest number.                                      *)

LEMMA MinIsLeast ==
  ASSUME NEW S \in SUBSET Nat, S # {}
  PROVE  Min(S) \in S /\ \A y \in S : Min(S) <= y
  BY LeastExists DEF Min

\* The greatest is the one whose distance from a bound is the least.
LEMMA MaxIsGreatest ==
  ASSUME NEW bound \in Nat, NEW S \in SUBSET (0..bound), S # {}
  PROVE  Max(S) \in S /\ \A y \in S : Max(S) >= y
<1> DEFINE Distances == {bound - x : x \in S}
<1>1. Distances \in SUBSET Nat /\ Distances # {}
  <2>1. PICK x \in S : TRUE
    OBVIOUS
  <2>2. bound - x \in Distances
    BY <2>1
  <2>3. \A e \in Distances : e \in Nat
    OBVIOUS
  <2> QED
    BY <2>2, <2>3
<1>2. PICK d \in Distances : \A e \in Distances : d <= e
  BY <1>1, LeastExists
<1>3. PICK x \in S : d = bound - x
  BY <1>2
<1>4. \A y \in S : x >= y
  BY <1>2, <1>3
<1> QED
  BY <1>4 DEF Max

-----------------------------------------------------------------------------
(* Folds.                                                                  *)

\* One turn of a fold over the parts of S: take from s the element that
\* `pick' names and combine it with what the rest gives.
Turn(base, step, pick, it, s) ==
  IF s = {} THEN base ELSE step[<<pick[s], it[s \ {pick[s]}]>>]

Foldable(S, Type, base, step, pick) ==
  /\ IsFiniteSet(S) /\ base \in Type /\ step \in [S \X Type -> Type]
  /\ \A s \in SUBSET S : s # {} => pick[s] \in s

IsFold(it, S, Type, base, step, pick) ==
  /\ it \in [SUBSET S -> Type]
  /\ \A s \in SUBSET S : it[s] = Turn(base, step, pick, it, s)

\* A fold over a finite set is well defined.
LEMMA FoldExists ==
  ASSUME NEW S, NEW Type, NEW base, NEW step, NEW pick,
         Foldable(S, Type, base, step, pick)
  PROVE  \E it : IsFold(it, S, Type, base, step, pick)
<1> USE DEF Foldable
<1> DEFINE Good(it, n) ==
             \A s \in SUBSET S : Cardinality(s) < n => it[s] = Turn(base, step, pick, it, s)
           P == {n \in Nat : \E it \in [SUBSET S -> Type] : Good(it, n)}
<1>1. \A s \in SUBSET S : IsFiniteSet(s) /\ Cardinality(s) \in Nat
  BY FS_Subset, FS_CardinalityType
<1>2. ASSUME NEW s \in SUBSET S, s # {}
      PROVE  /\ s \ {pick[s]} \in SUBSET S
             /\ Cardinality(s \ {pick[s]}) = Cardinality(s) - 1
  BY <1>1, <1>2, FS_RemoveElement
<1>3. 0 \in P
  <2>1. [s \in SUBSET S |-> base] \in [SUBSET S -> Type]
    OBVIOUS
  <2>2. Good([s \in SUBSET S |-> base], 0)
    BY <1>1
  <2> QED
    BY <2>1, <2>2
<1>4. ASSUME NEW n \in Nat, n \in P PROVE n + 1 \in P
  <2>1. PICK it \in [SUBSET S -> Type] : Good(it, n)
    BY <1>4
  <2> DEFINE that == [s \in SUBSET S |-> Turn(base, step, pick, it, s)]
  <2>2. ASSUME NEW s \in SUBSET S PROVE Turn(base, step, pick, it, s) \in Type
    <3>1. CASE s = {}
      BY <3>1 DEF Turn
    <3>2. CASE s # {}
      <4>1. pick[s] \in S /\ it[s \ {pick[s]}] \in Type
        BY <1>2, <3>2
      <4> QED
        BY <3>2, <4>1 DEF Turn
    <3> QED
      BY <3>1, <3>2
  <2>3. that \in [SUBSET S -> Type]
    BY <2>2
  <2>4. ASSUME NEW s \in SUBSET S, Cardinality(s) < n + 1
        PROVE  that[s] = Turn(base, step, pick, that, s)
    <3>1. CASE s = {}
      BY <3>1 DEF Turn
    <3>2. CASE s # {}
      <4> DEFINE rest == s \ {pick[s]}
      <4>1. rest \in SUBSET S /\ Cardinality(rest) < n
        BY <1>1, <1>2, <2>4, <3>2
      <4>2. it[rest] = Turn(base, step, pick, it, rest)
        BY <2>1, <4>1
      <4>3. that[rest] = it[rest]
        BY <4>1, <4>2
      <4> QED
        BY <3>2, <4>3 DEF Turn
    <3> QED
      BY <3>1, <3>2
  <2>5. Good(that, n + 1)
    BY <2>4
  <2> HIDE DEF that, Good
  <2> QED
    BY <2>3, <2>5
<1>5. Nat \subseteq P
  <2> HIDE DEF P
  <2> QED
    BY <1>3, <1>4, NaturalInduction
<1>6. Cardinality(S) + 1 \in P
  <2>1. Cardinality(S) + 1 \in Nat
    BY <1>1
  <2> HIDE DEF P
  <2> QED
    BY <1>5, <2>1
<1>7. PICK it \in [SUBSET S -> Type] : Good(it, Cardinality(S) + 1)
  BY <1>6
<1>8. ASSUME NEW s \in SUBSET S PROVE it[s] = Turn(base, step, pick, it, s)
  <2>1. Cardinality(s) <= Cardinality(S) /\ Cardinality(s) \in Nat /\ Cardinality(S) \in Nat
    BY <1>1, FS_Subset
  <2> QED
    BY <1>7, <2>1
<1> QED
  BY <1>7, <1>8 DEF IsFold
-----------------------------------------------------------------------------
(* Sums.                                                                   *)

\* What `it' gives for the parts of D are sums of F.
SumsUp(it, D, F) ==
  /\ it \in [SUBSET D -> Int]
  /\ SumFunction(F) = it[D]
  /\ it[{}] = 0
  /\ \A s \in SUBSET D : s # {} => \E x \in s : it[s] = F[x] + it[s \ {x}]

\* A sum is taken one element at a time, each part from a smaller one.
LEMMA SumByParts ==
  ASSUME NEW D, IsFiniteSet(D), NEW F \in [D -> Int]
  PROVE  \E it : SumsUp(it, D, F)
<1> DEFINE pick == [s \in SUBSET D |-> CHOOSE x \in s : TRUE]
           step == [p \in D \X Int |-> F[p[1]] + p[2]]
           Solves(it) == it = [s \in SUBSET D |->
             IF s = {} THEN 0
             ELSE LET x == CHOOSE x \in s : TRUE IN F[x] + it[s \ {x}]]
<1>1. \A s \in SUBSET D : s # {} => pick[s] \in s
  OBVIOUS
<1>2. step \in [D \X Int -> Int]
  OBVIOUS
<1>3. PICK it : IsFold(it, D, Int, 0, step, pick)
  <2> HIDE DEF pick, step
  <2>1. Foldable(D, Int, 0, step, pick)
    BY <1>1, <1>2 DEF Foldable
  <2> QED
    BY <2>1, FoldExists, Zenon
<1>4. Solves(it)
  <2>1. ASSUME NEW s \in SUBSET D
        PROVE  it[s] = IF s = {} THEN 0
                       ELSE LET x == CHOOSE x \in s : TRUE IN F[x] + it[s \ {x}]
    <3>1. CASE s = {}
      BY <1>3, <3>1 DEF Turn, IsFold
    <3>2. CASE s # {}
      <4>1. pick[s] \in D /\ it[s \ {pick[s]}] \in Int
        BY <1>1, <1>3, <3>2 DEF IsFold
      <4>2. it[s] = step[<<pick[s], it[s \ {pick[s]}]>>]
        BY <1>3, <3>2 DEF Turn, IsFold
      <4>3. <<pick[s], it[s \ {pick[s]}]>> \in D \X Int
        <5> HIDE DEF pick
        <5> QED
          BY <4>1
      <4>4. it[s] = F[pick[s]] + it[s \ {pick[s]}]
        <5> HIDE DEF pick
        <5> QED
          BY <4>2, <4>3
      <4> QED
        BY <3>2, <4>4
    <3> QED
      BY <3>1, <3>2
  <2>2. it \in [SUBSET D -> Int]
    BY <1>3 DEF IsFold
  <2> QED
    BY <2>1, <2>2
<1> DEFINE sum == CHOOSE that : Solves(that)
<1>5. SumFunction(F) = sum[D]
  BY Zenon DEF SumFunction, SumFunctionOnSet, FoldFunctionOnSet, MapThenFoldSet
<1>6. Solves(sum)
  <2> HIDE DEF Solves
  <2> QED
    BY <1>4, Zenon
<1>7. sum \in [SUBSET D -> Int]
  <2> DEFINE P == {s \in SUBSET D : sum[s] \in Int}
  <2>1. ASSUME NEW s \in SUBSET D, \A t \in SUBSET s : t # s => t \in P
        PROVE  s \in P
    <3>1. CASE s = {}
      <4> HIDE DEF sum
      <4> QED
        BY <1>6, <3>1
    <3>2. CASE s # {}
      <4> DEFINE x == CHOOSE x \in s : TRUE
      <4>1. x \in s /\ x \in D
        BY <3>2
      <4>2. s \ {x} \in P
        BY <2>1, <4>1
      <4>3. sum[s] = F[x] + sum[s \ {x}]
        BY <1>6, <3>2
      <4> HIDE DEF x, sum
      <4> QED
        BY <4>1, <4>2, <4>3
    <3> QED
      BY <3>1, <3>2
  <2>2. SUBSET D \subseteq P
    <3> HIDE DEF P
    <3> QED
      BY <2>1, PartsInduction
  <2> QED
    BY <1>6, <2>2
<1>8. sum[{}] = 0
  BY <1>6
<1>9. ASSUME NEW s \in SUBSET D, s # {} PROVE \E x \in s : sum[s] = F[x] + sum[s \ {x}]
  BY <1>6, <1>9
<1> HIDE DEF sum
<1> QED
  BY <1>5, <1>7, <1>8, <1>9 DEF SumsUp

\* A sum of numbers between zero and a bound.
LEMMA SumBounded ==
  ASSUME NEW D, IsFiniteSet(D), NEW bound \in Nat, NEW F \in [D -> 0..bound]
  PROVE  SumFunction(F) \in 0..bound * Cardinality(D)
<1>1. PICK it : SumsUp(it, D, F)
  <2>1. F \in [D -> Int]
    OBVIOUS
  <2> QED
    BY <2>1, SumByParts, Zenon
<1> DEFINE P == {s \in SUBSET D : it[s] \in 0..bound * Cardinality(s)}
<1>2. ASSUME NEW s \in SUBSET D, \A t \in SUBSET s : t # s => t \in P
      PROVE  s \in P
  <2>1. CASE s = {}
    <3>1. Cardinality({}) = 0
      BY FS_EmptySet
    <3> QED
      BY <1>1, <2>1, <3>1 DEF SumsUp
  <2>2. CASE s # {}
    <3>1. PICK x \in s : it[s] = F[x] + it[s \ {x}]
      BY <1>1, <2>2 DEF SumsUp
    <3>2. it[s \ {x}] \in 0..bound * Cardinality(s \ {x})
      BY <1>2
    <3>3. IsFiniteSet(s) /\ Cardinality(s) \in Nat /\ Cardinality(s \ {x}) = Cardinality(s) - 1
      BY FS_Subset, FS_CardinalityType, FS_RemoveElement
    <3>4. bound * Cardinality(s) = bound * (Cardinality(s) - 1) + bound
      BY <3>3
    <3> QED
      BY <3>1, <3>2, <3>3, <3>4
  <2> QED
    BY <2>1, <2>2
<1>3. SUBSET D \subseteq P
  <2> HIDE DEF P
  <2> QED
    BY <1>2, PartsInduction
<1> QED
  BY <1>1, <1>3 DEF SumsUp

\* A sum of equal numbers.
LEMMA SumOfEqual ==
  ASSUME NEW D, IsFiniteSet(D), NEW c \in Nat, NEW F \in [D -> {c}]
  PROVE  SumFunction(F) = c * Cardinality(D)
<1>1. PICK it : SumsUp(it, D, F)
  <2>1. F \in [D -> Int]
    OBVIOUS
  <2> QED
    BY <2>1, SumByParts, Zenon
<1> DEFINE P == {s \in SUBSET D : it[s] = c * Cardinality(s)}
<1>2. ASSUME NEW s \in SUBSET D, \A t \in SUBSET s : t # s => t \in P
      PROVE  s \in P
  <2>1. CASE s = {}
    <3>1. Cardinality({}) = 0
      BY FS_EmptySet
    <3> QED
      BY <1>1, <2>1, <3>1 DEF SumsUp
  <2>2. CASE s # {}
    <3>1. PICK x \in s : it[s] = F[x] + it[s \ {x}]
      BY <1>1, <2>2 DEF SumsUp
    <3>2. it[s \ {x}] = c * Cardinality(s \ {x}) /\ F[x] = c
      BY <1>2
    <3>3. IsFiniteSet(s) /\ Cardinality(s) \in Nat /\ Cardinality(s \ {x}) = Cardinality(s) - 1
      BY FS_Subset, FS_CardinalityType, FS_RemoveElement
    <3>4. c * Cardinality(s) = c + c * (Cardinality(s) - 1)
      BY <3>3
    <3> QED
      BY <3>1, <3>2, <3>3, <3>4
  <2> QED
    BY <2>1, <2>2
<1>3. SUBSET D \subseteq P
  <2> HIDE DEF P
  <2> QED
    BY <1>2, PartsInduction
<1> QED
  BY <1>1, <1>3 DEF SumsUp

-----------------------------------------------------------------------------
(* Sequences: what FoldLeft has done after the first n elements is what it *)
(* gives for the part 1..n of the domain.                                  *)

\* A sequence one element longer.
LEMMA AppendElement ==
  ASSUME NEW S, NEW seq \in Seq(S), NEW elt \in S
  PROVE  /\ Append(seq, elt) \in Seq(S) /\ Len(Append(seq, elt)) = Len(seq) + 1
         /\ Append(seq, elt)[Len(seq) + 1] = elt
         /\ \A i \in 1..Len(seq) : Append(seq, elt)[i] = seq[i]
  OBVIOUS

\* A sequence after another.
LEMMA ConcatElements ==
  ASSUME NEW S, NEW one \in Seq(S), NEW other \in Seq(S)
  PROVE  /\ one \o other \in Seq(S) /\ Len(one \o other) = Len(one) + Len(other)
         /\ \A i \in 1..Len(one) : (one \o other)[i] = one[i]
         /\ \A i \in 1..Len(other) : (one \o other)[Len(one) + i] = other[i]
  OBVIOUS

LEMMA AppendRange ==
  ASSUME NEW S, NEW seq \in Seq(S), NEW elt \in S
  PROVE  {Append(seq, elt)[i] : i \in 1..Len(Append(seq, elt))}
           = {seq[i] : i \in 1..Len(seq)} \cup {elt}
<1> DEFINE longer == Append(seq, elt)
           new == {longer[i] : i \in 1..Len(longer)}
           old == {seq[i] : i \in 1..Len(seq)}
<1>1. /\ Len(seq) \in Nat /\ Len(longer) = Len(seq) + 1 /\ longer[Len(seq) + 1] = elt
      /\ \A i \in 1..Len(seq) : longer[i] = seq[i]
  BY AppendElement
<1> HIDE DEF longer
<1>2. \A i \in 1..Len(longer) : longer[i] \in old \cup {elt}
  BY <1>1
<1>3. \A i \in 1..Len(seq) : seq[i] \in new
  BY <1>1
<1>4. elt \in new
  BY <1>1
<1>5. new \subseteq old \cup {elt}
  <2> HIDE DEF old
  <2> QED
    BY <1>2
<1>6. old \subseteq new
  <2> HIDE DEF new
  <2> QED
    BY <1>3
<1>7. new = old \cup {elt}
  <2> HIDE DEF new, old
  <2> QED
    BY <1>4, <1>5, <1>6
<1> QED
  BY <1>7 DEF longer

Lasts(n) == [s \in SUBSET (1..n) |-> Max(s)]

LEMMA LastOfPart ==
  ASSUME NEW n \in Nat, NEW s \in SUBSET (1..n), s # {}
  PROVE  Max(s) \in s
<1>1. s \in SUBSET (0..n)
  OBVIOUS
<1> QED
  BY <1>1, MaxIsGreatest

LEMMA LastOfPrefix ==
  ASSUME NEW n \in Nat
  PROVE  Max(1..n + 1) = n + 1 /\ (1..n + 1) \ {n + 1} = 1..n
<1> DEFINE prefix == 1..n + 1
           last == n + 1
<1>1. last \in Nat /\ prefix \in SUBSET (0..last) /\ last \in prefix
  OBVIOUS
<1>2. Max(prefix) \in prefix /\ Max(prefix) >= last
  <2> HIDE DEF prefix, last
  <2> QED
    BY <1>1, MaxIsGreatest
<1> QED
  BY <1>2

\* Folding from the left over n elements.
LEMMA LeftFoldExists ==
  ASSUME NEW n \in Nat, NEW Type, NEW base \in Type,
         NEW step \in [(1..n) \X Type -> Type]
  PROVE  \E it : IsFold(it, 1..n, Type, base, step, Lasts(n))
<1>1. Foldable(1..n, Type, base, step, Lasts(n))
  <2>1. IsFiniteSet(1..n)
    BY FS_Interval
  <2>2. \A s \in SUBSET (1..n) : s # {} => Lasts(n)[s] \in s
    BY LastOfPart DEF Lasts
  <2> QED
    BY <2>1, <2>2 DEF Foldable
<1> QED
  BY <1>1, FoldExists
=============================================================================
