----------------------------- MODULE FoldLemmas ------------------------------
(***************************************************************************)
(* What the models need to know of folds over finite sets, and of sums     *)
(* above all.  A fold is CHOOSE of a function on the subsets of a set that *)
(* obeys the fold's equation; the lemmas are about such functions, with    *)
(* sets and functions for parameters and no operators, so that the proofs  *)
(* can cite them.  The induction is over the finite subsets, ordered by    *)
(* strict inclusion.                                                       *)
(***************************************************************************)
EXTENDS Integers, FiniteSetsExt, TLAPS, FiniteSetTheorems, WellFoundedInduction

\* Subsets of a finite set, one element more at a time: P holds all of them, if it holds every
\* one that is empty or has all of its subsets that lack one element in P.
LEMMA SubsetInduction ==
    ASSUME NEW S, IsFiniteSet(S), NEW P,
           \A T \in SUBSET S : (\A x \in T : T \ {x} \in P) => T \in P
    PROVE  \A T \in SUBSET S : T \in P
<1> SUFFICES ASSUME NEW T \in SUBSET S, T \notin P
             PROVE  FALSE
  OBVIOUS
<1> DEFINE Bad == {U \in SUBSET S : U \notin P}
           R == StrictSubsetOrdering(S)
<1>1. Bad # {} /\ Bad \subseteq FiniteSubsetsOf(S)
  BY FS_FiniteSubsetsOfFinite
<1>2. IsWellFoundedOn(R, FiniteSubsetsOf(S))
  BY FS_StrictSubsetOrderingWellFounded
<1>3. PICK U \in Bad : \A V \in Bad : ~(<<V, U>> \in R)
  <2> HIDE DEF Bad, R
  <2> QED
    BY <1>1, <1>2, WFMin
<1>4. ASSUME NEW x \in U, U \ {x} \notin P
      PROVE  FALSE
  <2>1. U \ {x} \in Bad
    BY <1>4
  <2>2. <<U \ {x}, U>> \in R
    BY DEF StrictSubsetOrdering
  <2> QED
    BY <1>3, <2>1, <2>2
<1> QED
  BY <1>4

\* The equation of a fold over the subsets of S: choose[T] is the element of T folded last.
IsFold(it, S, base, choose, op) ==
    it = [T \in SUBSET S |-> IF T = {} THEN base ELSE op[<<choose[T], it[T \ {choose[T]}]>>]]

Chooses(choose, S) == \A T \in SUBSET S : T # {} => choose[T] \in T

\* There is one, whatever is folded.
LEMMA FoldExists ==
    ASSUME NEW S, IsFiniteSet(S), NEW V, NEW base \in V, NEW choose, Chooses(choose, S),
           NEW op \in [S \X V -> V]
    PROVE  \E it \in [SUBSET S -> V] : IsFold(it, S, base, choose, op)
<1> DEFINE Small(n) == {T \in SUBSET S : Cardinality(T) <= n}
           Next(g, T) == IF T = {} THEN base ELSE op[<<choose[T], g[T \ {choose[T]}]>>]
           W == {n \in Nat : \E g \in [Small(n) -> V] : \A T \in Small(n) : g[T] = Next(g, T)}
<1>0. \A T \in SUBSET S : IsFiniteSet(T) /\ Cardinality(T) \in Nat /\ (Cardinality(T) = 0 <=> T = {})
  BY FS_Subset, FS_CardinalityType, FS_EmptySet
<1>1. 0 \in W
  <2> DEFINE g == [T \in Small(0) |-> base]
  <2>1. \A T \in Small(0) : T = {}
    BY <1>0
  <2>2. g \in [Small(0) -> V] /\ \A T \in Small(0) : g[T] = Next(g, T)
    BY <2>1
  <2> QED
    BY <2>2
<1>2. ASSUME NEW n \in W
      PROVE  n + 1 \in W
  <2>0. n \in Nat
    OBVIOUS
  <2>1. PICK g \in [Small(n) -> V] : \A T \in Small(n) : g[T] = Next(g, T)
    BY <1>2
  <2> HIDE DEF W
  <2> DEFINE h == [T \in Small(n + 1) |-> Next(g, T)]
  <2>2. ASSUME NEW T \in Small(n + 1), T # {}
        PROVE  choose[T] \in T /\ T \ {choose[T]} \in Small(n)
    <3>1. choose[T] \in T
      BY <2>2 DEF Chooses
    <3>2. IsFiniteSet(T) /\ Cardinality(T) \in Nat
      BY <1>0
    <3>3. Cardinality(T \ {choose[T]}) = Cardinality(T) - 1
      BY <3>1, <3>2, FS_RemoveElement
    <3> QED
      BY <2>0, <3>1, <3>2, <3>3
  <2>3. h \in [Small(n + 1) -> V]
    BY <2>1, <2>2
  <2>4. \A T \in Small(n) : T \in Small(n + 1) /\ h[T] = g[T]
    <3>1. \A T \in Small(n) : T \in Small(n + 1)
      BY <1>0, <2>0
    <3> QED
      BY <2>1, <3>1
  <2>5. \A T \in Small(n + 1) : h[T] = Next(h, T)
    BY <2>2, <2>4
  <2> HIDE DEF h, Small, Next
  <2> QED
    BY <2>0, <2>3, <2>5 DEF W
<1>3. Cardinality(S) \in W
  <2> HIDE DEF W
  <2> DEFINE Missed == Nat \ W
             R == OpToRel(<, Nat)
  <2> SUFFICES ASSUME Missed # {} PROVE FALSE
    BY FS_CardinalityType
  <2>1. PICK n \in Missed : \A m \in Missed : ~(<<m, n>> \in R)
    BY NatLessThanWellFounded, WFMin
  <2>2. \A m \in Missed : ~(m < n)
    BY <2>1 DEF OpToRel
  <2>3. n # 0
    BY <1>1
  <2>4. n - 1 \in Nat /\ n - 1 < n /\ n - 1 + 1 = n
    BY <2>3
  <2>5. n - 1 \in W
    BY <2>2, <2>4
  <2> QED
    BY <1>2, <2>4, <2>5
<1>4. Small(Cardinality(S)) = SUBSET S
  BY FS_Subset
<1>5. PICK it \in [SUBSET S -> V] : \A T \in SUBSET S : it[T] = Next(it, T)
  BY <1>3, <1>4
<1>6. it = [T \in SUBSET S |-> Next(it, T)]
  BY <1>5
<1> QED
  BY <1>6 DEF IsFold

\* A fold whose steps are those of op as long as it is in V.  The models write op as an
\* operator, which has values outside of V too.
FoldsIn(it, S, V, base, choose, op) ==
    /\ it[{}] = base
    /\ \A T \in SUBSET S : T # {} /\ it[T \ {choose[T]}] \in V
                           => it[T] = op[<<choose[T], it[T \ {choose[T]}]>>]

\* It stays in V.
LEMMA FoldStays ==
    ASSUME NEW S, IsFiniteSet(S), NEW V, NEW base \in V, NEW choose, Chooses(choose, S),
           NEW op \in [S \X V -> V], NEW it, FoldsIn(it, S, V, base, choose, op)
    PROVE  \A T \in SUBSET S : it[T] \in V
<1> DEFINE P == {T \in SUBSET S : it[T] \in V}
<1>1. ASSUME NEW T \in SUBSET S, \A x \in T : T \ {x} \in P
      PROVE  it[T] \in V
  <2>1. CASE T = {}
    BY <2>1 DEF FoldsIn
  <2>2. CASE T # {}
    <3>1. choose[T] \in T /\ choose[T] \in S
      BY <2>2 DEF Chooses
    <3>2. it[T \ {choose[T]}] \in V
      BY <1>1, <3>1
    <3>3. it[T] = op[<<choose[T], it[T \ {choose[T]}]>>]
      BY <2>2, <3>2 DEF FoldsIn
    <3> QED
      BY <3>1, <3>2, <3>3
  <2> QED
    BY <2>1, <2>2
<1>2. \A T \in SUBSET S : T \in P
  <2> HIDE DEF P
  <2>1. \A T \in SUBSET S : (\A x \in T : T \ {x} \in P) => T \in P
    BY <1>1 DEF P
  <2> QED
    BY <2>1, SubsetInduction
<1> QED
  BY <1>2

\* What R relates, the value folded so far and what was folded into it, it relates at the end
\* if every step keeps it so.
KeptBy(R, S, V, op) ==
    \A T \in SUBSET S, x \in S, v \in V :
        x \notin T /\ <<v, T>> \in R => op[<<x, v>>] \in V /\ <<op[<<x, v>>], T \cup {x}>> \in R

LEMMA FoldKeeps ==
    ASSUME NEW S, IsFiniteSet(S), NEW V, NEW base \in V, NEW choose, Chooses(choose, S),
           NEW op, NEW it, FoldsIn(it, S, V, base, choose, op),
           NEW R, <<base, {}>> \in R, KeptBy(R, S, V, op)
    PROVE  it[S] \in V /\ <<it[S], S>> \in R
<1> DEFINE P == {T \in SUBSET S : it[T] \in V /\ <<it[T], T>> \in R}
<1>1. ASSUME NEW T \in SUBSET S, \A x \in T : T \ {x} \in P
      PROVE  T \in P
  <2>1. CASE T = {}
    BY <2>1 DEF FoldsIn
  <2>2. CASE T # {}
    <3> DEFINE c == choose[T]
               U == T \ {c}
    <3>1. c \in T /\ c \in S /\ U \in SUBSET S /\ c \notin U /\ U \cup {c} = T
      BY <2>2 DEF Chooses
    <3>2. it[U] \in V /\ <<it[U], U>> \in R
      BY <1>1, <3>1
    <3>3. it[T] = op[<<c, it[U]>>]
      BY <2>2, <3>2 DEF FoldsIn
    <3> HIDE DEF c, U
    <3> QED
      BY <3>1, <3>2, <3>3 DEF KeptBy
  <2> QED
    BY <2>1, <2>2
<1> HIDE DEF P
<1>2. \A T \in SUBSET S : T \in P
  BY <1>1, SubsetInduction
<1> QED
  BY <1>2 DEF P

\* A bounded set of naturals has a greatest element: the one a fold over a sequence takes last.
LEMMA MaxOfNaturals ==
    ASSUME NEW S \in SUBSET Nat, S # {}, NEW n \in Nat, \A x \in S : x <= n
    PROVE  Max(S) \in S /\ \A x \in S : Max(S) >= x
<1> DEFINE T == {n - x : x \in S}
           R == OpToRel(<, Nat)
<1>0. \A x \in S : n - x \in Nat
  OBVIOUS
<1>1. T \subseteq Nat /\ T # {}
  BY <1>0
<1>2. PICK y \in T : \A z \in T : ~(<<z, y>> \in R)
  BY <1>1, NatLessThanWellFounded, WFMin
<1>3. \A z \in T : ~(z < y)
  BY <1>1, <1>2 DEF OpToRel
<1>4. PICK x \in S : y = n - x
  OBVIOUS
<1>5. \A z \in S : x >= z
  <2> SUFFICES ASSUME NEW z \in S PROVE x >= z
    OBVIOUS
  <2>1. n - z \in T
    OBVIOUS
  <2>2. ~(n - z < n - x)
    BY <1>3, <1>4, <2>1
  <2>3. x \in Nat /\ z \in Nat
    OBVIOUS
  <2> QED
    BY <2>2, <2>3, SMT
<1> QED
  BY <1>5 DEF Max

\* A fold over a sequence takes the last element last.
LEMMA LastIsThere ==
    ASSUME NEW n \in Nat, NEW T \in SUBSET (1..n), T # {}
    PROVE  Max(T) \in T
<1>1. T \subseteq Nat /\ \A x \in T : x <= n
  OBVIOUS
<1> QED
  BY <1>1, MaxOfNaturals

\* What a fold over a sequence takes last of each set of its places.
Greatest(n) == [T \in SUBSET (1..n) |-> Max(T)]

LEMMA GreatestChooses == \A n \in Nat : IsFiniteSet(1..n) /\ Chooses(Greatest(n), 1..n)
<1> TAKE n \in Nat
<1>1. IsFiniteSet(1..n)
  BY FS_Interval
<1>2. \A T \in SUBSET (1..n) : T # {} => Max(T) \in T
  BY LastIsThere
<1> QED
  BY <1>1, <1>2 DEF Chooses, Greatest

\* A function on the sets of places of a sequence that is the fold of it with op.
IsOrdered(it, n, base, op) ==
    it = [T \in SUBSET (1..n) |-> IF T = {} THEN base ELSE op[<<Max(T), it[T \ {Max(T)}]>>]]

LEMMA FoldInOrder ==
    ASSUME NEW n \in Nat, NEW V, NEW base \in V, NEW op \in [(1..n) \X V -> V]
    PROVE  \E it \in [SUBSET (1..n) -> V] : IsOrdered(it, n, base, op)
<1>1. PICK it \in [SUBSET (1..n) -> V] : IsFold(it, 1..n, base, Greatest(n), op)
  BY GreatestChooses, FoldExists
<1>2. \A T \in SUBSET (1..n) : Greatest(n)[T] = Max(T)
  BY DEF Greatest
<1>3. it = [T \in SUBSET (1..n) |->
              IF T = {} THEN base ELSE op[<<Greatest(n)[T], it[T \ {Greatest(n)[T]}]>>]]
  BY <1>1 DEF IsFold
<1>4. \A T \in SUBSET (1..n) : op[<<Greatest(n)[T], it[T \ {Greatest(n)[T]}]>>]
                                = op[<<Max(T), it[T \ {Max(T)}]>>]
  BY <1>2
<1>5. IsOrdered(it, n, base, op)
  BY <1>3, <1>4 DEF IsOrdered
<1> QED
  BY <1>5

\* One that obeys the fold's equation, where it has values in V.
Ordered(it, n, V, base, op) ==
    /\ it[{}] = base
    /\ \A T \in SUBSET (1..n) : T # {} /\ it[T \ {Max(T)}] \in V
                                => it[T] = op[<<Max(T), it[T \ {Max(T)}]>>]

\* A fold over a sequence goes through its places from the first to the last: run[i] is the
\* value after the first i of them.
Runs(run, n, V, base, op, end) ==
    /\ run \in [0..n -> V] /\ run[0] = base /\ run[n] = end
    /\ \A i \in 1..n : run[i - 1] \in V /\ run[i] = op[<<i, run[i - 1]>>]

LEMMA FoldRuns ==
    ASSUME NEW n \in Nat, NEW V, NEW base \in V, NEW op \in [(1..n) \X V -> V],
           NEW it, Ordered(it, n, V, base, op)
    PROVE  \E run : Runs(run, n, V, base, op, it[1..n])
<1> DEFINE run == [i \in 0..n |-> it[1..i]]
<1>1. \A T \in SUBSET (1..n) : it[T] \in V
  <2>1. \A T \in SUBSET (1..n) : Greatest(n)[T] = Max(T)
    BY DEF Greatest
  <2>2. FoldsIn(it, 1..n, V, base, Greatest(n), op)
    BY <2>1 DEF Ordered, FoldsIn
  <2> QED
    BY <2>2, GreatestChooses, FoldStays
<1>2. \A i \in 0..n : 1..i \in SUBSET (1..n)
  OBVIOUS
<1>3. run \in [0..n -> V]
  BY <1>1, <1>2
<1>4. run[0] = base
  <2>1. 1..0 = {} /\ 0 \in 0..n
    OBVIOUS
  <2> QED
    BY <2>1 DEF Ordered
<1>5. ASSUME NEW i \in 1..n
      PROVE  run[i] = op[<<i, run[i - 1]>>]
  <2>1. 1..i \in SUBSET (1..n) /\ 1..i # {} /\ i - 1 \in 0..n /\ i \in 0..n
    <3>1. i \in 1..i
      OBVIOUS
    <3>2. 1..i \in SUBSET (1..n)
      BY <1>2
    <3> QED
      BY <3>1, <3>2
  <2>2. (1..i) \ {i} = 1..(i - 1)
    OBVIOUS
  <2>3. Max(1..i) = i
    <3>1. \E m \in 1..i : \A x \in 1..i : m >= x
      OBVIOUS
    <3>2. \A m \in 1..i : (\A x \in 1..i : m >= x) => m = i
      OBVIOUS
    <3> QED
      BY <3>1, <3>2 DEF Max
  <2>5. it[(1..i) \ {i}] \in V
    BY <1>1, <2>1, <2>2
  <2>6. it[1..i] = op[<<i, it[(1..i) \ {i}]>>]
    BY <2>1, <2>3, <2>5 DEF Ordered
  <2> QED
    BY <2>1, <2>2, <2>6
<1>6. run[n] = it[1..n]
  OBVIOUS
<1> HIDE DEF run
<1>7. \A i \in 1..n : run[i - 1] \in V
  BY <1>3
<1> QED
  BY <1>3, <1>4, <1>5, <1>6, <1>7 DEF Runs

\* Induction over places.
LEMMA Stepwise ==
    ASSUME NEW n \in Nat, NEW P, 0 \in P, \A i \in 1..n : i - 1 \in P => i \in P
    PROVE  \A i \in 0..n : i \in P
<1> SUFFICES ASSUME NEW i \in 0..n, i \notin P
             PROVE  FALSE
  OBVIOUS
<1> DEFINE Bad == {k \in 0..n : k \notin P}
           R == OpToRel(<, Nat)
<1>1. PICK k \in Bad : \A m \in Bad : ~(<<m, k>> \in R)
  <2>1. Bad # {} /\ Bad \subseteq Nat
    OBVIOUS
  <2> HIDE DEF Bad, R
  <2> QED
    BY <2>1, NatLessThanWellFounded, WFMin DEF R
<1>2. \A m \in Bad : ~(m < k)
  <2>1. Bad \subseteq Nat
    OBVIOUS
  <2> HIDE DEF Bad
  <2> QED
    BY <1>1, <2>1 DEF OpToRel
<1>3. k \in 1..n /\ k - 1 \notin P
  OBVIOUS
<1>4. k - 1 \in Bad /\ k - 1 < k
  BY <1>3
<1> QED
  BY <1>2, <1>4

\* The element of a set that a fold over it takes last.
Pick(T) == CHOOSE x \in T : TRUE

LEMMA PickIsThere == \A T : T # {} => Pick(T) \in T
  BY DEF Pick

---------------------------------------------------------------------------
(* Sums.  The prover knows + of two numbers and not of a set of them.      *)

\* The sum of f over S, as the models write it.
SumOf(f, S) == MapThenSumSet(LAMBDA x : f[x], S)

Numbers(f, S) == \A x \in S : f[x] \in Int

\* A function on the subsets of S that adds up f.
Adds(it, f, S) ==
    it = [T \in SUBSET S |-> IF T = {} THEN 0 ELSE f[Pick(T)] + it[T \ {Pick(T)}]]

LEMMA SumIterates == \A f, S : SumOf(f, S) = (CHOOSE it : Adds(it, f, S))[S]
  BY DEF SumOf, MapThenSumSet, MapThenFoldSet, Adds, Pick

LEMMA AddsExists ==
    ASSUME NEW S, IsFiniteSet(S), NEW f, Numbers(f, S)
    PROVE  \E it : Adds(it, f, S)
<1> DEFINE choose == [T \in SUBSET S |-> Pick(T)]
           op == [p \in S \X Int |-> f[p[1]] + p[2]]
<1>1. Chooses(choose, S)
  BY PickIsThere DEF Chooses
<1>2. op \in [S \X Int -> Int]
  BY DEF Numbers
<1>3. \A x \in S, n \in Int : op[<<x, n>>] = f[x] + n
  OBVIOUS
<1>4. \A T \in SUBSET S : choose[T] = Pick(T)
  OBVIOUS
<1> HIDE DEF choose, op
<1>5. 0 \in Int
  OBVIOUS
<1>6. PICK it \in [SUBSET S -> Int] : IsFold(it, S, 0, choose, op)
  BY <1>1, <1>2, <1>5, FoldExists
<1>7. it = [T \in SUBSET S |-> IF T = {} THEN 0 ELSE op[<<choose[T], it[T \ {choose[T]}]>>]]
  BY <1>6 DEF IsFold
<1>8. ASSUME NEW T \in SUBSET S, T # {}
      PROVE  op[<<choose[T], it[T \ {choose[T]}]>>] = f[Pick(T)] + it[T \ {Pick(T)}]
  <2>1. Pick(T) \in S /\ T \ {Pick(T)} \in SUBSET S
    BY <1>8, PickIsThere
  <2>2. it[T \ {Pick(T)}] \in Int
    BY <2>1, <1>6
  <2> QED
    BY <1>3, <1>4, <2>1, <2>2
<1>9. it = [T \in SUBSET S |-> IF T = {} THEN 0 ELSE f[Pick(T)] + it[T \ {Pick(T)}]]
  BY <1>7, <1>8
<1> QED
  BY <1>9 DEF Adds

\* The sums of f over the subsets of S are numbers, and obey the equation.
LEMMA SumsAdd ==
    ASSUME NEW S, IsFiniteSet(S), NEW f, Numbers(f, S)
    PROVE  \A T \in SUBSET S :
              /\ SumOf(f, T) \in Int
              /\ T = {} => SumOf(f, T) = 0
              /\ T # {} => SumOf(f, T) = f[Pick(T)] + SumOf(f, T \ {Pick(T)})
<1> DEFINE Its(T) == CHOOSE it : Adds(it, f, T)
<1>1. \A T \in SUBSET S : Adds(Its(T), f, T)
  BY AddsExists, FS_Subset DEF Numbers
<1>2. \A T \in SUBSET S : SumOf(f, T) = Its(T)[T]
  BY SumIterates
<1> HIDE DEF Its
<1>3. \A T \in SUBSET S : \A U \in SUBSET T :
         Its(T)[U] = IF U = {} THEN 0 ELSE f[Pick(U)] + Its(T)[U \ {Pick(U)}]
  <2> TAKE T \in SUBSET S
  <2>1. Its(T) = [U \in SUBSET T |-> IF U = {} THEN 0
                                     ELSE f[Pick(U)] + Its(T)[U \ {Pick(U)}]]
    BY <1>1 DEF Adds
  <2> QED
    BY <2>1
<1> DEFINE Q == {U \in SUBSET S : /\ SumOf(f, U) \in Int
                                  /\ \A T \in SUBSET S : U \subseteq T => Its(T)[U] = SumOf(f, U)}
<1>5. ASSUME NEW U \in SUBSET S, \A x \in U : U \ {x} \in Q
      PROVE  U \in Q /\ (U # {} => SumOf(f, U) = f[Pick(U)] + SumOf(f, U \ {Pick(U)}))
  <2>1. CASE U = {}
    <3>1. \A T \in SUBSET S : Its(T)[{}] = 0
      BY <1>3
    <3>2. SumOf(f, {}) = 0
      BY <1>2, <3>1
    <3> QED
      BY <2>1, <3>1, <3>2
  <2>2. CASE U # {}
    <3>1. Pick(U) \in U /\ U \ {Pick(U)} \in SUBSET S
      BY <2>2, PickIsThere
    <3>2. U \ {Pick(U)} \in Q
      BY <3>1, <1>5
    <3>3. ASSUME NEW T \in SUBSET S, U \subseteq T
          PROVE  Its(T)[U] = f[Pick(U)] + SumOf(f, U \ {Pick(U)})
      <4>1. Its(T)[U \ {Pick(U)}] = SumOf(f, U \ {Pick(U)})
        BY <3>2, <3>3
      <4> QED
        BY <1>3, <2>2, <3>3, <4>1
    <3>4. SumOf(f, U) = f[Pick(U)] + SumOf(f, U \ {Pick(U)})
      BY <1>2, <3>3
    <3>5. SumOf(f, U) \in Int
      BY <3>1, <3>2, <3>4 DEF Numbers
    <3> QED
      BY <3>3, <3>4, <3>5
  <2> QED
    BY <2>1, <2>2
<1>6. \A U \in SUBSET S : U \in Q
  <2> HIDE DEF Q
  <2> QED
    BY <1>5, SubsetInduction
<1>7. \A U \in SUBSET S : U # {} => SumOf(f, U) = f[Pick(U)] + SumOf(f, U \ {Pick(U)})
  <2> HIDE DEF Q
  <2> QED
    BY <1>5, <1>6
<1> QED
  BY <1>2, <1>3, <1>6, <1>7

LEMMA SumOfNone == \A f : SumOf(f, {}) = 0
  BY SumsAdd, FS_EmptySet DEF Numbers

LEMMA SumIsNumber ==
    ASSUME NEW S, IsFiniteSet(S), NEW f, Numbers(f, S)
    PROVE  SumOf(f, S) \in Int
  BY SumsAdd

\* It does not matter which element is added last.
LEMMA SumRemove ==
    ASSUME NEW S, IsFiniteSet(S), NEW f, Numbers(f, S), NEW a \in S
    PROVE  SumOf(f, S) = f[a] + SumOf(f, S \ {a})
<1> DEFINE P == {T \in SUBSET S : \A x \in T : SumOf(f, T) = f[x] + SumOf(f, T \ {x})}
<1>1. ASSUME NEW T \in SUBSET S, \A x \in T : T \ {x} \in P, NEW x \in T
      PROVE  SumOf(f, T) = f[x] + SumOf(f, T \ {x})
  <2> DEFINE c == Pick(T)
  <2>1. c \in T /\ SumOf(f, T) = f[c] + SumOf(f, T \ {c})
    BY SumsAdd, PickIsThere
  <2> HIDE DEF c
  <2>2. CASE x = c
    BY <2>1, <2>2
  <2>3. CASE x # c
    <3>1. SumOf(f, T \ {c}) = f[x] + SumOf(f, (T \ {c}) \ {x})
      BY <1>1, <2>1, <2>3
    <3>2. SumOf(f, T \ {x}) = f[c] + SumOf(f, (T \ {x}) \ {c})
      BY <1>1, <2>1, <2>3
    <3>3. (T \ {c}) \ {x} = (T \ {x}) \ {c}
      OBVIOUS
    <3>4. f[c] \in Int /\ f[x] \in Int
      BY <2>1 DEF Numbers
    <3>5. SumOf(f, (T \ {x}) \ {c}) \in Int
      BY SumsAdd
    <3> DEFINE rest == SumOf(f, (T \ {x}) \ {c})
    <3>6. SumOf(f, T) = f[c] + (f[x] + rest) /\ SumOf(f, T \ {x}) = f[c] + rest
      BY <2>1, <3>1, <3>2, <3>3
    <3> HIDE DEF rest, P
    <3>7. rest \in Int
      BY <3>5 DEF rest
    <3> QED
      BY <3>4, <3>6, <3>7
  <2> QED
    BY <2>2, <2>3
<1>2. \A T \in SUBSET S : (\A x \in T : T \ {x} \in P) => T \in P
  BY <1>1
<1>3. S \in P
  <2> HIDE DEF P
  <2> QED
    BY <1>2, SubsetInduction
<1> QED
  BY <1>3

\* A sum depends on what f is on S, and no more.
LEMMA SumSame ==
    ASSUME NEW S, IsFiniteSet(S), NEW f, NEW g, Numbers(f, S), \A x \in S : g[x] = f[x]
    PROVE  SumOf(g, S) = SumOf(f, S)
<1> DEFINE P == {T \in SUBSET S : SumOf(g, T) = SumOf(f, T)}
<1>0. Numbers(g, S)
  BY DEF Numbers
<1>1. ASSUME NEW T \in SUBSET S, \A x \in T : T \ {x} \in P
      PROVE  T \in P
  <2>1. CASE T = {}
    BY <2>1, SumOfNone
  <2>2. CASE T # {}
    <3>1. PICK x \in T : TRUE
      BY <2>2
    <3>2. SumOf(g, T \ {x}) = SumOf(f, T \ {x})
      BY <1>1
    <3>3. IsFiniteSet(T) /\ Numbers(f, T) /\ Numbers(g, T)
      BY <1>0, FS_Subset DEF Numbers
    <3>4. SumOf(f, T) = f[x] + SumOf(f, T \ {x}) /\ SumOf(g, T) = g[x] + SumOf(g, T \ {x})
      BY <3>3, SumRemove
    <3> QED
      BY <3>2, <3>4
  <2> QED
    BY <2>1, <2>2
<1>2. S \in P
  <2> HIDE DEF P
  <2> QED
    BY <1>1, SubsetInduction
<1> QED
  BY <1>2

\* Changing f at one element changes the sum by as much.
LEMMA SumChange ==
    ASSUME NEW S, IsFiniteSet(S), NEW f, NEW g, Numbers(f, S), NEW a \in S, g[a] \in Int,
           \A x \in S \ {a} : g[x] = f[x]
    PROVE  SumOf(g, S) = SumOf(f, S) + (g[a] - f[a])
<1>1. IsFiniteSet(S \ {a}) /\ Numbers(f, S \ {a}) /\ Numbers(g, S) /\ f[a] \in Int
  BY FS_RemoveElement DEF Numbers
<1>2. SumOf(g, S) = g[a] + SumOf(g, S \ {a}) /\ SumOf(f, S) = f[a] + SumOf(f, S \ {a})
  BY <1>1, SumRemove
<1>3. SumOf(g, S \ {a}) = SumOf(f, S \ {a}) /\ SumOf(f, S \ {a}) \in Int
  BY <1>1, SumSame, SumIsNumber
<1> QED
  BY <1>1, <1>2, <1>3

\* What one gives and another gets does not change the sum.
Between(f, g, S, a, b) ==
    /\ a # b /\ g[a] + g[b] = f[a] + f[b]
    /\ \A y \in S : y # a /\ y # b => g[y] = f[y]

LEMMA SumMoved ==
    ASSUME NEW S, IsFiniteSet(S), NEW f, NEW g, Numbers(f, S), Numbers(g, S),
           NEW a \in S, NEW b \in S, Between(f, g, S, a, b)
    PROVE  SumOf(g, S) = SumOf(f, S)
<1> USE DEF Between
<1> DEFINE T == S \ {a}
           U == T \ {b}
<1>1. IsFiniteSet(T) /\ IsFiniteSet(U) /\ b \in T
  BY FS_Subset
<1>2. \A y \in S : f[y] \in Int /\ g[y] \in Int
  BY DEF Numbers
<1>3. Numbers(f, S) /\ Numbers(g, S) /\ Numbers(f, T) /\ Numbers(g, T) /\ Numbers(f, U)
  BY <1>2 DEF Numbers
<1>4. \A y \in U : g[y] = f[y]
  OBVIOUS
<1> HIDE DEF U
<1>5. SumOf(f, T) = f[b] + SumOf(f, U) /\ SumOf(g, T) = g[b] + SumOf(g, U)
  <2> HIDE DEF T
  <2> QED
    BY <1>1, <1>3, SumRemove DEF U
<1>6. SumOf(f, S) = f[a] + SumOf(f, T) /\ SumOf(g, S) = g[a] + SumOf(g, T)
  BY <1>3, SumRemove
<1> HIDE DEF T
<1>7. SumOf(g, U) = SumOf(f, U)
  BY <1>1, <1>3, <1>4, SumSame
<1>8. SumOf(f, U) \in Int
  BY <1>1, <1>3, SumIsNumber
<1>9. f[a] \in Int /\ f[b] \in Int /\ g[a] \in Int /\ g[b] \in Int
  BY <1>2
<1> QED
  BY <1>5, <1>6, <1>7, <1>8, <1>9

\* Elements that are not negative add nothing negative.
LEMMA SumGrows ==
    ASSUME NEW S, IsFiniteSet(S), NEW f, Numbers(f, S), NEW T \in SUBSET S,
           \A x \in S \ T : f[x] >= 0
    PROVE  SumOf(f, T) <= SumOf(f, S)
<1> DEFINE P == {U \in SUBSET S : T \subseteq U => SumOf(f, T) <= SumOf(f, U)}
<1>1. ASSUME NEW U \in SUBSET S, \A x \in U : U \ {x} \in P, T \subseteq U
      PROVE  SumOf(f, T) <= SumOf(f, U)
  <2>0. SumOf(f, T) \in Int
    BY SumsAdd
  <2>1. CASE U = T
    BY <2>0, <2>1
  <2>2. CASE U # T
    <3>1. PICK x \in U \ T : TRUE
      BY <1>1, <2>2
    <3>2. T \subseteq U \ {x}
      BY <1>1, <3>1
    <3>3. SumOf(f, T) <= SumOf(f, U \ {x})
      BY <1>1, <3>1, <3>2
    <3>4. IsFiniteSet(U) /\ Numbers(f, U)
      BY FS_Subset DEF Numbers
    <3>5. SumOf(f, U) = f[x] + SumOf(f, U \ {x})
      BY <3>1, <3>4, SumRemove
    <3>6. f[x] \in Int /\ f[x] >= 0 /\ SumOf(f, U \ {x}) \in Int
      BY <3>1, SumsAdd DEF Numbers
    <3> QED
      BY <2>0, <3>3, <3>5, <3>6
  <2> QED
    BY <2>1, <2>2
<1>2. \A U \in SUBSET S : (\A x \in U : U \ {x} \in P) => U \in P
  BY <1>1
<1>3. S \in P
  <2> HIDE DEF P
  <2> QED
    BY <1>2, SubsetInduction
<1> QED
  BY <1>3

LEMMA SumOfZeros ==
    ASSUME NEW S, IsFiniteSet(S), NEW f, NEW T \in SUBSET S, Numbers(f, T),
           \A x \in S \ T : f[x] = 0
    PROVE  SumOf(f, S) = SumOf(f, T)
<1> DEFINE P == {U \in SUBSET S : T \subseteq U => SumOf(f, U) = SumOf(f, T)}
<1>1. ASSUME NEW U \in SUBSET S, \A x \in U : U \ {x} \in P, T \subseteq U, U # T
      PROVE  SumOf(f, U) = SumOf(f, T)
  <2>1. PICK x \in U \ T : TRUE
    BY <1>1
  <2>2. SumOf(f, U \ {x}) = SumOf(f, T)
    BY <1>1, <2>1
  <2>3. IsFiniteSet(U) /\ Numbers(f, U) /\ IsFiniteSet(T)
    BY FS_Subset DEF Numbers
  <2>4. SumOf(f, U) = f[x] + SumOf(f, U \ {x})
    BY <2>1, <2>3, SumRemove
  <2>5. SumOf(f, T) \in Int
    BY <2>3, SumIsNumber
  <2> QED
    BY <2>1, <2>2, <2>4, <2>5
<1>2. \A U \in SUBSET S : (\A x \in U : U \ {x} \in P) => U \in P
  BY <1>1
<1>3. S \in P
  <2> HIDE DEF P
  <2> QED
    BY <1>2, SubsetInduction
<1> QED
  BY <1>3

\* What is the same at every element.
LEMMA SumOfSame ==
    ASSUME NEW S, IsFiniteSet(S), NEW f, NEW c \in Int, \A x \in S : f[x] = c
    PROVE  SumOf(f, S) = Cardinality(S) * c
<1> DEFINE P == {U \in SUBSET S : SumOf(f, U) = Cardinality(U) * c}
<1>1. ASSUME NEW U \in SUBSET S, \A x \in U : U \ {x} \in P
      PROVE  SumOf(f, U) = Cardinality(U) * c
  <2>1. CASE U = {}
    <3>1. Cardinality(U) = 0 /\ 0 * c = 0
      BY <2>1, FS_EmptySet
    <3> QED
      BY <2>1, <3>1, SumOfNone
  <2>2. CASE U # {}
    <3>1. PICK x \in U : TRUE
      BY <2>2
    <3>2. IsFiniteSet(U) /\ Numbers(f, U)
      BY FS_Subset DEF Numbers
    <3>3. SumOf(f, U) = f[x] + SumOf(f, U \ {x})
      BY <3>1, <3>2, SumRemove
    <3>4. f[x] = c /\ SumOf(f, U \ {x}) = Cardinality(U \ {x}) * c
      BY <1>1, <3>1
    <3> DEFINE k == Cardinality(U \ {x})
    <3>5. k \in Nat /\ Cardinality(U) = k + 1
      <4>1. IsFiniteSet(U \ {x}) /\ Cardinality(U \ {x}) = Cardinality(U) - 1
        BY <3>1, <3>2, FS_RemoveElement
      <4> QED
        BY <3>2, <4>1, FS_CardinalityType
    <3> HIDE DEF k
    <3>6. c + k * c = (k + 1) * c
      BY <3>5
    <3>7. SumOf(f, U) = c + k * c
      BY <3>3, <3>4 DEF k
    <3> QED
      BY <3>5, <3>6, <3>7
  <2> QED BY <2>1, <2>2
<1>2. \A U \in SUBSET S : (\A x \in U : U \ {x} \in P) => U \in P
  BY <1>1
<1>3. S \in P
  <2>1. IsFiniteSet(S) /\ S \in SUBSET S
    OBVIOUS
  <2> HIDE DEF P
  <2> QED
    BY ONLY <1>2, <2>1, SubsetInduction
<1> QED
  BY <1>3

\* Sums over two sets that have nothing in common.
LEMMA SumOfBoth ==
    ASSUME NEW S, IsFiniteSet(S), NEW f, Numbers(f, S), NEW T \in SUBSET S
    PROVE  SumOf(f, S) = SumOf(f, T) + SumOf(f, S \ T)
<1> DEFINE P == {U \in SUBSET S : SumOf(f, U) = SumOf(f, U \cap T) + SumOf(f, U \ T)}
<1>1. ASSUME NEW U \in SUBSET S, \A x \in U : U \ {x} \in P
      PROVE  SumOf(f, U) = SumOf(f, U \cap T) + SumOf(f, U \ T)
  <2>0. \A W \in SUBSET S : IsFiniteSet(W) /\ Numbers(f, W) /\ SumOf(f, W) \in Int
    BY FS_Subset, SumsAdd DEF Numbers
  <2>1. CASE U = {}
    <3>1. U \cap T = {} /\ U \ T = {}
      BY <2>1
    <3> QED
      BY <2>1, <3>1, SumOfNone
  <2>2. CASE U # {}
    <3>1. PICK x \in U : TRUE
      BY <2>2
    <3> DEFINE A == U \cap T
               B == U \ T
               D == U \ {x}
    <3>2. SumOf(f, U) = f[x] + SumOf(f, D) /\ SumOf(f, D) = SumOf(f, D \cap T) + SumOf(f, D \ T)
      BY <1>1, <2>0, <3>1, SumRemove
    <3>3. f[x] \in Int /\ SumOf(f, D \cap T) \in Int /\ SumOf(f, D \ T) \in Int
      BY <2>0, <3>1 DEF Numbers
    <3>4. CASE x \in T
      <4>1. D \cap T = A \ {x} /\ D \ T = B /\ x \in A
        BY <3>1, <3>4
      <4>2. SumOf(f, A) = f[x] + SumOf(f, A \ {x})
        <5> HIDE DEF A
        <5>1. A \in SUBSET S
          BY DEF A
        <5> QED
          BY <2>0, <4>1, <5>1, SumRemove
      <4> HIDE DEF A, B, D, P
      <4>3. SumOf(f, D \cap T) = SumOf(f, A \ {x}) /\ SumOf(f, D \ T) = SumOf(f, B)
        BY <4>1
      <4>4. SumOf(f, U) = SumOf(f, A) + SumOf(f, B)
        BY <3>2, <3>3, <4>2, <4>3
      <4> QED
        BY <4>4 DEF A, B
    <3>5. CASE x \notin T
      <4>1. D \cap T = A /\ D \ T = B \ {x} /\ x \in B
        BY <3>1, <3>5
      <4>2. SumOf(f, B) = f[x] + SumOf(f, B \ {x})
        <5> HIDE DEF B
        <5>1. B \in SUBSET S
          BY DEF B
        <5> QED
          BY <2>0, <4>1, <5>1, SumRemove
      <4> HIDE DEF A, B, D, P
      <4>3. SumOf(f, D \cap T) = SumOf(f, A) /\ SumOf(f, D \ T) = SumOf(f, B \ {x})
        BY <4>1
      <4>4. SumOf(f, U) = SumOf(f, A) + SumOf(f, B)
        BY <3>2, <3>3, <4>2, <4>3
      <4> QED
        BY <4>4 DEF A, B
    <3> QED
      BY <3>4, <3>5
  <2> QED
    BY <2>1, <2>2
<1>2. \A U \in SUBSET S : (\A x \in U : U \ {x} \in P) => U \in P
  BY <1>1
<1>3. S \in P
  <2> HIDE DEF P
  <2> QED
    BY <1>2, SubsetInduction
<1>4. S \cap T = T
  OBVIOUS
<1> QED
  BY <1>3, <1>4

\* The new names of the elements of S, and a sum under them.
Image(b, S) == {b[x] : x \in S}

LEMMA SumRenamed ==
    ASSUME NEW S, IsFiniteSet(S), NEW f, NEW g, Numbers(f, S), NEW b,
           \A x, y \in S : b[x] = b[y] => x = y, \A x \in S : g[b[x]] = f[x]
    PROVE  SumOf(g, Image(b, S)) = SumOf(f, S)
<1> DEFINE Im(U) == {b[x] : x \in U}
           P == {U \in SUBSET S : SumOf(g, Im(U)) = SumOf(f, U)}
<1>1. ASSUME NEW U \in SUBSET S, \A x \in U : U \ {x} \in P
      PROVE  SumOf(g, Im(U)) = SumOf(f, U)
  <2>1. CASE U = {}
    <3>1. Im(U) = {}
      BY <2>1
    <3> QED
      BY <2>1, <3>1, SumOfNone
  <2>2. CASE U # {}
    <3>1. PICK x \in U : TRUE
      BY <2>2
    <3>2. IsFiniteSet(U) /\ Numbers(f, U)
      BY FS_Subset DEF Numbers
    <3>3. IsFiniteSet(Im(U)) /\ Numbers(g, Im(U)) /\ b[x] \in Im(U)
      <4>1. IsFiniteSet(Im(U))
        <5> DEFINE h == [y \in U |-> b[y]]
        <5>1. h \in Surjection(U, Im(U))
          BY DEF Surjection
        <5> HIDE DEF h, Im
        <5> QED
          BY <3>2, <5>1, FS_Surjection
      <4> QED
        BY <3>1, <3>2, <4>1 DEF Numbers
    <3>4. Im(U) \ {b[x]} = Im(U \ {x})
      BY <3>1
    <3>5. SumOf(f, U) = f[x] + SumOf(f, U \ {x})
      BY <3>1, <3>2, SumRemove
    <3>6. SumOf(g, Im(U \ {x})) = SumOf(f, U \ {x})
      BY <1>1, <3>1
    <3> HIDE DEF Im, P
    <3>7. SumOf(g, Im(U)) = g[b[x]] + SumOf(g, Im(U) \ {b[x]})
      BY <3>3, SumRemove
    <3> QED
      BY <3>1, <3>4, <3>5, <3>6, <3>7
  <2> QED
    BY <2>1, <2>2
<1>2. \A U \in SUBSET S : (\A x \in U : U \ {x} \in P) => U \in P
  BY <1>1
<1>3. S \in P
  <2> HIDE DEF P, Im
  <2>1. IsFiniteSet(S)
    OBVIOUS
  <2> QED
    BY ONLY <2>1, <1>2, SubsetInduction
<1> QED
  BY <1>3 DEF Image

\* What is not more at any element is not more in sum.
LEMMA SumWithin ==
    ASSUME NEW S, IsFiniteSet(S), NEW f, NEW g, Numbers(f, S), Numbers(g, S),
           \A x \in S : f[x] <= g[x]
    PROVE  SumOf(f, S) <= SumOf(g, S)
<1> DEFINE P == {U \in SUBSET S : SumOf(f, U) <= SumOf(g, U)}
<1>1. ASSUME NEW U \in SUBSET S, \A x \in U : U \ {x} \in P
      PROVE  SumOf(f, U) <= SumOf(g, U)
  <2>1. CASE U = {}
    BY <2>1, SumOfNone
  <2>2. CASE U # {}
    <3>1. PICK x \in U : TRUE
      BY <2>2
    <3>2. IsFiniteSet(U) /\ Numbers(f, U) /\ Numbers(g, U)
      BY FS_Subset DEF Numbers
    <3>3. SumOf(f, U) = f[x] + SumOf(f, U \ {x}) /\ SumOf(g, U) = g[x] + SumOf(g, U \ {x})
      BY <3>1, <3>2, SumRemove
    <3>4. SumOf(f, U \ {x}) <= SumOf(g, U \ {x})
      BY <1>1, <3>1
    <3>5. SumOf(f, U \ {x}) \in Int /\ SumOf(g, U \ {x}) \in Int
      BY SumsAdd
    <3>6. f[x] \in Int /\ g[x] \in Int /\ f[x] <= g[x]
      BY <3>1 DEF Numbers
    <3> QED
      BY <3>3, <3>4, <3>5, <3>6
  <2> QED
    BY <2>1, <2>2
<1>2. \A U \in SUBSET S : (\A x \in U : U \ {x} \in P) => U \in P
  BY <1>1
<1>3. S \in P
  <2> HIDE DEF P
  <2> QED
    BY <1>2, SubsetInduction
<1> QED
  BY <1>3
=============================================================================
