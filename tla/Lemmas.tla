-------------------------------- MODULE Lemmas --------------------------------
(***************************************************************************)
(* Lemmas that the proofs of several components rest on: induction as a    *)
(* fact about sets of numbers; the iteration of a function, from which the *)
(* functions that the modules define by recursion are shown to exist; sums *)
(* over finite sets; the elements of a sequence.                           *)
(***************************************************************************)
EXTENDS Integers, Sequences, Functions, FiniteSetsExt, SequenceTheorems,
        FiniteSetTheorems, FunctionTheorems, WellFoundedInduction, TLAPS

-----------------------------------------------------------------------------
(* numbers *)

\* A non-empty set of naturals has a smallest member.
LEMMA SmallestOf ==
    ASSUME NEW S, S \subseteq Nat, S # {}
    PROVE  \E x \in S : \A y \in S : x <= y
<1> DEFINE R == {ss \in Nat \X Nat : ss[1] < ss[2]}
<1>1. OpToRel(<, Nat) = R
  BY DEF OpToRel
<1>2. IsWellFoundedOn(OpToRel(<, Nat), Nat)
  BY NatLessThanWellFounded
<1>3. IsWellFoundedOn(R, Nat)
  BY <1>1, <1>2
<1> HIDE DEF R
<1>4. PICK x \in S : \A y \in S : ~(<<y, x>> \in R)
  BY <1>3, WFMin
<1>5. \A y \in S : (y < x) => <<y, x>> \in R
  BY DEF R
<1>6. \A y \in S : ~(y < x)
  BY <1>4, <1>5
<1>7. \A y \in S : y \in Nat /\ x \in Nat
  OBVIOUS
<1> QED
  BY <1>6, <1>7

\* A set that has 0, and with a number the next one, has all of them.
LEMMA SetInduction ==
    ASSUME NEW S, 0 \in S, \A n \in Nat : n \in S => n + 1 \in S
    PROVE  Nat \subseteq S
<1> SUFFICES ASSUME Nat \ S # {} PROVE FALSE
  OBVIOUS
<1>1. PICK x \in Nat \ S : \A y \in Nat \ S : x <= y
  BY SmallestOf
<1>2. x # 0 /\ x - 1 \in Nat /\ ~(x <= x - 1) /\ x = (x - 1) + 1
  BY <1>1
<1>3. x - 1 \in S
  BY <1>1, <1>2
<1> QED
  BY <1>1, <1>2, <1>3

\* f[n] is what step makes of base in n steps.
Iterates(f, V, step, base) ==
    f \in [Nat -> V] /\ f[0] = base /\ \A n \in Nat : f[n + 1] = step[f[n]]

\* Any function may be iterated.
LEMMA Iteration ==
    ASSUME NEW V, NEW step, NEW base, step \in [V -> V], base \in V
    PROVE  \E f : Iterates(f, V, step, base)
<1> DEFINE Starts(g, n) == g[0] = base /\ \A i \in 0..n - 1 : g[i + 1] = step[g[i]]
<1> DEFINE Done == {n \in Nat : \E g \in [0..n -> V] : Starts(g, n)}
<1>1. 0 \in Done
  <2> DEFINE g == [i \in 0..0 |-> base]
  <2>1. g \in [0..0 -> V] /\ g[0] = base
    OBVIOUS
  <2>2. Starts(g, 0)
    BY <2>1
  <2> QED
    BY <2>1, <2>2
<1>2. ASSUME NEW n \in Nat, n \in Done
      PROVE  n + 1 \in Done
  <2>1. PICK g \in [0..n -> V] : Starts(g, n)
    BY <1>2
  <2> DEFINE h == [i \in 0..n + 1 |-> IF i = n + 1 THEN step[g[n]] ELSE g[i]]
  <2>2. h \in [0..n + 1 -> V]
    OBVIOUS
  <2>3. \A i \in 0..n : h[i] = g[i]
    OBVIOUS
  <2>4. h[n + 1] = step[g[n]]
    OBVIOUS
  <2> HIDE DEF h
  <2>5. h[0] = base
    BY <2>1, <2>3
  <2>6. \A i \in 0..(n + 1) - 1 : h[i + 1] = step[h[i]]
    <3> TAKE i \in 0..(n + 1) - 1
    <3>1. CASE i = n
      BY <3>1, <2>3, <2>4
    <3>2. CASE i \in 0..n - 1
      BY <3>2, <2>1, <2>3
    <3> QED
      BY <3>1, <3>2
  <2>7. Starts(h, n + 1)
    BY <2>5, <2>6
  <2> QED
    BY <2>2, <2>7
<1>3. Nat \subseteq Done
  <2> HIDE DEF Done
  <2> QED
    BY <1>1, <1>2, SetInduction
\* Two of them agree where both are defined.
<1>4. ASSUME NEW m \in Nat, NEW n \in Nat, m <= n,
             NEW g \in [0..m -> V], Starts(g, m), NEW h \in [0..n -> V], Starts(h, n)
      PROVE  \A i \in 0..m : g[i] = h[i]
  <2> DEFINE Same == {i \in Nat : i <= m => g[i] = h[i]}
  <2>1. 0 \in Same
    BY <1>4
  <2>2. ASSUME NEW i \in Nat, i \in Same
        PROVE  i + 1 \in Same
    <3>1. CASE i + 1 <= m
      <4>1. i \in 0..m - 1 /\ i \in 0..n - 1
        BY <3>1, <1>4
      <4>2. g[i + 1] = step[g[i]] /\ h[i + 1] = step[h[i]]
        BY <4>1, <1>4
      <4>3. g[i] = h[i]
        BY <2>2, <3>1
      <4> QED
        BY <4>2, <4>3
    <3>2. CASE ~(i + 1 <= m)
      BY <3>2
    <3> QED
      BY <3>1, <3>2
  <2>3. Nat \subseteq Same
    <3> HIDE DEF Same
    <3> QED
      BY <2>1, <2>2, SetInduction
  <2> QED
    BY <2>3
<1> DEFINE P(n) == CHOOSE g \in [0..n -> V] : Starts(g, n)
<1>5. \A n \in Nat : P(n) \in [0..n -> V] /\ Starts(P(n), n)
  <2> TAKE n \in Nat
  <2>1. \E g \in [0..n -> V] : Starts(g, n)
    BY <1>3
  <2> HIDE DEF Starts
  <2> QED
    BY <2>1
<1> DEFINE f == [n \in Nat |-> P(n)[n]]
<1> HIDE DEF P
<1>6. f \in [Nat -> V]
  BY <1>5
<1>7. f[0] = base
  BY <1>5
<1>8. \A n \in Nat : f[n + 1] = step[f[n]]
  <2> TAKE n \in Nat
  <2> DEFINE g == P(n)
             h == P(n + 1)
  <2>1. g \in [0..n -> V] /\ Starts(g, n) /\ h \in [0..n + 1 -> V] /\ Starts(h, n + 1)
    BY <1>5
  <2>2. f[n] = g[n] /\ f[n + 1] = h[n + 1]
    OBVIOUS
  <2> HIDE DEF g, h, f
  <2>3. \A i \in 0..n : g[i] = h[i]
    <3>1. n + 1 \in Nat /\ n <= n + 1
      OBVIOUS
    <3> HIDE DEF Starts
    <3> QED
      BY <3>1, <2>1, <1>4
  <2>4. g[n] = h[n]
    BY <2>3
  <2>5. h[n + 1] = step[h[n]]
    BY <2>1
  <2> QED
    BY <2>2, <2>4, <2>5
<1> QED
  BY <1>6, <1>7, <1>8 DEF Iterates

-----------------------------------------------------------------------------
(* sums over finite sets *)

\* The member that MapThenSumSet takes next.
AnyOf(s) == CHOOSE x \in s : TRUE

\* One more level of the recursion by which MapThenSumSet adds w up.
AddLevel(iter, S, w) ==
    [s \in SUBSET S |-> IF s = {} THEN 0 ELSE w[AnyOf(s)] + iter[s \ {AnyOf(s)}]]

\* iter adds w up over the subsets of S.
AddsUp(iter, S, w) == iter = AddLevel(iter, S, w)

\* The sum of w over S.
Total(S, w) == (CHOOSE iter : AddsUp(iter, S, w))[S]

\* Sizes of the subsets of a finite set.
LEMMA SubsetSizes ==
    ASSUME NEW S, IsFiniteSet(S)
    PROVE  /\ Cardinality(S) \in Nat /\ (Cardinality(S) = 0 <=> S = {})
           /\ \A s \in SUBSET S : /\ IsFiniteSet(s) /\ Cardinality(s) \in Nat
                                  /\ Cardinality(s) <= Cardinality(S)
                                  /\ (Cardinality(s) = 0 <=> s = {})
           /\ \A s \in SUBSET S : \A x \in s :
                 s \ {x} \in SUBSET S /\ Cardinality(s \ {x}) = Cardinality(s) - 1
<1>1. Cardinality(S) \in Nat /\ (Cardinality(S) = 0 <=> S = {})
  BY FS_CardinalityType, FS_EmptySet
<1>2. \A s \in SUBSET S : IsFiniteSet(s) /\ Cardinality(s) <= Cardinality(S)
  BY FS_Subset
<1>3. \A s \in SUBSET S : Cardinality(s) \in Nat /\ (Cardinality(s) = 0 <=> s = {})
  BY <1>2, FS_CardinalityType, FS_EmptySet
<1>4. \A s \in SUBSET S : \A x \in s : Cardinality(s \ {x}) = Cardinality(s) - 1
  BY <1>2, FS_RemoveElement
<1> QED
  BY <1>1, <1>2, <1>3, <1>4

\* A finite set of integers that is not empty has a largest member.
LEMMA GreatestOf ==
    ASSUME NEW S, S \subseteq Int, IsFiniteSet(S), S # {}
    PROVE  \E x \in S : \A y \in S : y <= x
<1> DEFINE Fine == {n \in Nat : \A T \in SUBSET S :
                       (T # {} /\ Cardinality(T) <= n) => \E x \in T : \A y \in T : y <= x}
<1>0. \A T \in SUBSET S : /\ Cardinality(T) \in Nat /\ (Cardinality(T) = 0 <=> T = {})
                         /\ \A a \in T : Cardinality(T \ {a}) = Cardinality(T) - 1
  BY SubsetSizes
<1>1. 0 \in Fine
  <2>1. ASSUME NEW T \in SUBSET S, Cardinality(T) <= 0 PROVE T = {}
    BY <2>1, <1>0
  <2> QED
    BY <2>1
<1>2. ASSUME NEW n \in Nat, n \in Fine PROVE n + 1 \in Fine
  <2>1. ASSUME NEW T \in SUBSET S, T # {}, Cardinality(T) <= n + 1
        PROVE  \E x \in T : \A y \in T : y <= x
    <3>1. PICK a \in T : TRUE
      BY <2>1
    <3>2. CASE T \ {a} = {}
      BY <3>1, <3>2
    <3>3. CASE T \ {a} # {}
      <4>1. T \ {a} \in SUBSET S /\ Cardinality(T \ {a}) <= n
        <5>1. Cardinality(T \ {a}) = Cardinality(T) - 1 /\ Cardinality(T) \in Nat
          BY <3>1, <1>0
        <5> QED
          BY <2>1, <5>1
      <4>2. PICK x \in T \ {a} : \A y \in T \ {a} : y <= x
        BY <1>2, <3>3, <4>1
      <4>3. CASE a <= x
        BY <4>2, <4>3
      <4>4. CASE ~(a <= x)
        <5>1. a \in Int /\ x \in Int /\ \A y \in T : y \in Int
          OBVIOUS
        <5>2. \A y \in T : y <= a
          BY <4>2, <4>4, <5>1
        <5> QED
          BY <3>1, <5>2
      <4> QED
        BY <4>3, <4>4
    <3> QED
      BY <3>2, <3>3
  <2> QED
    BY <2>1
<1>3. Nat \subseteq Fine
  <2> HIDE DEF Fine
  <2> QED
    BY <1>1, <1>2, SetInduction
<1>4. S \in SUBSET S /\ Cardinality(S) \in Nat /\ Cardinality(S) <= Cardinality(S)
  BY FS_CardinalityType
<1> QED
  BY <1>3, <1>4

\* A finite set stays finite under a function.
LEMMA ImageFinite ==
    ASSUME NEW S, IsFiniteSet(S), NEW f, NEW T, \A y \in T : \E x \in S : f[x] = y, f \in [S -> T]
    PROVE  IsFiniteSet(T) /\ Cardinality(T) <= Cardinality(S)
<1>1. f \in Surjection(S, T)
  BY Fun_IsSurj
<1> QED
  BY <1>1, FS_Surjection

\* And a smallest one.
LEMMA LeastOf ==
    ASSUME NEW S, S \subseteq Int, IsFiniteSet(S), S # {}
    PROVE  \E x \in S : \A y \in S : x <= y
<1> DEFINE T == {0 - x : x \in S}
           f == [x \in S |-> 0 - x]
<1>1. T \subseteq Int /\ T # {}
  <2>1. \A x \in S : 0 - x \in Int
    OBVIOUS
  <2>2. PICK x \in S : TRUE
    OBVIOUS
  <2>3. 0 - x \in T
    OBVIOUS
  <2> QED
    BY <2>1, <2>3
<1>2. IsFiniteSet(T)
  <2>1. f \in [S -> T] /\ \A y \in T : \E x \in S : f[x] = y
    OBVIOUS
  <2> HIDE DEF T, f
  <2> QED
    BY <2>1, ImageFinite
<1>3. PICK m \in T : \A y \in T : y <= m
  <2> HIDE DEF T
  <2> QED
    BY <1>1, <1>2, GreatestOf
<1>4. PICK x \in S : m = 0 - x
  BY <1>3
<1>5. \A y \in S : y \in Int /\ 0 - y <= 0 - x
  BY <1>3, <1>4
<1>6. \A y \in S : x <= y
  BY <1>4, <1>5
<1> QED
  BY <1>4, <1>6

\* The largest of naturals.
LEMMA LargestOf ==
    ASSUME NEW S, S \subseteq Nat, IsFiniteSet(S), S # {}
    PROVE  \E x \in S : \A y \in S : y <= x
<1>1. S \subseteq Int
  OBVIOUS
<1> QED
  BY <1>1, GreatestOf

\* Max and Min of a set of naturals.
LEMMA Bounds ==
    ASSUME NEW S, S \subseteq Nat, IsFiniteSet(S), S # {}
    PROVE  /\ Max(S) \in S /\ Min(S) \in S /\ Max(S) \in Nat /\ Min(S) \in Nat
           /\ \A x \in S : x <= Max(S) /\ Min(S) <= x
<1>1. Max(S) \in S /\ \A x \in S : Max(S) >= x
  <2>1. PICK m \in S : \A y \in S : y <= m
    BY LargestOf
  <2>2. \A y \in S : m >= y
    BY <2>1
  <2> QED
    BY <2>2 DEF Max
<1>2. Min(S) \in S /\ \A x \in S : Min(S) <= x
  BY SmallestOf DEF Min
<1> QED
  BY <1>1, <1>2

\* It is a member.
LEMMA AnyOfIn == ASSUME NEW s, s # {} PROVE AnyOf(s) \in s
BY DEF AnyOf

\* The recursion has a solution.
LEMMA SumExists ==
    ASSUME NEW U, NEW w \in [U -> Int], NEW S \in SUBSET U, IsFiniteSet(S)
    PROVE  \E iter \in [SUBSET S -> Int] : AddsUp(iter, S, w)
<1> DEFINE V == [SUBSET S -> Int]
           zero == [s \in SUBSET S |-> 0]
           step == [iter \in V |-> AddLevel(iter, S, w)]
<1>1. \A iter \in V : AddLevel(iter, S, w) \in V
  <2> TAKE iter \in V
  <2>1. ASSUME NEW s \in SUBSET S, s # {}
        PROVE  w[AnyOf(s)] + iter[s \ {AnyOf(s)}] \in Int
    <3>1. AnyOf(s) \in U /\ s \ {AnyOf(s)} \in SUBSET S
      BY <2>1, AnyOfIn
    <3>2. w[AnyOf(s)] \in Int /\ iter[s \ {AnyOf(s)}] \in Int
      BY <3>1
    <3> QED
      BY <3>2
  <2> QED
    BY <2>1 DEF AddLevel
<1>2. step \in [V -> V] /\ zero \in V
  <2>1. zero \in V
    OBVIOUS
  <2> HIDE DEF V
  <2> QED
    BY <1>1, <2>1
<1>3. PICK h : Iterates(h, V, step, zero)
  <2> HIDE DEF V, step, zero
  <2> QED
    BY <1>2, Iteration
<1>4. h \in [Nat -> V] /\ \A n \in Nat : h[n + 1] = AddLevel(h[n], S, w)
  <2>1. h \in [Nat -> V] /\ \A n \in Nat : h[n + 1] = step[h[n]]
    BY <1>3 DEF Iterates
  <2> HIDE DEF V
  <2> QED
    BY <2>1
<1> HIDE DEF V
<1> DEFINE Stable == {n \in Nat : \A s \in SUBSET S :
                         Cardinality(s) <= n => h[n + 1][s] = h[n + 2][s]}
<1>5. \A n \in Nat : \A s \in SUBSET S :
         h[n + 1][s] = IF s = {} THEN 0 ELSE w[AnyOf(s)] + h[n][s \ {AnyOf(s)}]
  BY <1>4 DEF AddLevel
<1>6. 0 \in Stable
  <2>1. ASSUME NEW s \in SUBSET S, Cardinality(s) <= 0 PROVE h[0 + 1][s] = h[0 + 2][s]
    <3>1. s = {}
      BY <2>1, SubsetSizes
    <3>2. h[0 + 1][s] = 0 /\ h[1 + 1][s] = 0
      BY <3>1, <1>5
    <3> QED
      BY <3>2
  <2> QED
    BY <2>1
<1>7. ASSUME NEW n \in Nat, n \in Stable PROVE n + 1 \in Stable
  <2>1. ASSUME NEW s \in SUBSET S, Cardinality(s) <= n + 1
        PROVE  h[(n + 1) + 1][s] = h[(n + 1) + 2][s]
    <3> DEFINE x == AnyOf(s)
    <3>1. CASE s = {}
      <4>1. n + 1 \in Nat /\ n + 2 \in Nat /\ (n + 1) + 2 = (n + 2) + 1
        OBVIOUS
      <4>2. h[(n + 1) + 1][s] = 0
        BY <3>1, <4>1, <1>5
      <4>3. h[(n + 2) + 1][s] = 0
        BY <3>1, <4>1, <1>5
      <4> QED
        BY <4>1, <4>2, <4>3
    <3>2. CASE s # {}
      <4>1. x \in s /\ s \ {x} \in SUBSET S
        BY <3>2, AnyOfIn
      <4>2. Cardinality(s \ {x}) = Cardinality(s) - 1 /\ Cardinality(s) \in Nat
        BY <4>1, SubsetSizes
      <4>3. Cardinality(s \ {x}) <= n
        BY <2>1, <4>2
      <4> HIDE DEF x
      <4>4. h[n + 1][s \ {x}] = h[n + 2][s \ {x}]
        BY <4>1, <4>3, <1>7
      <4>5. h[(n + 1) + 1][s] = w[x] + h[n + 1][s \ {x}]
        BY <3>2, <1>5 DEF x
      <4>6. h[(n + 2) + 1][s] = w[x] + h[n + 2][s \ {x}]
        BY <3>2, <1>5 DEF x
      <4>7. (n + 2) + 1 = (n + 1) + 2
        OBVIOUS
      <4> QED
        BY <4>4, <4>5, <4>6, <4>7
    <3> QED
      BY <3>1, <3>2
  <2> QED
    BY <2>1
<1> DEFINE N == Cardinality(S)
           it == h[N + 1]
<1>8. N \in Nat /\ N \in Stable
  <2>1. N \in Nat
    BY SubsetSizes
  <2> HIDE DEF Stable, N
  <2> QED
    BY <2>1, <1>6, <1>7, SetInduction
<1>9. \A s \in SUBSET S : h[N + 2][s] = it[s]
  BY <1>8, SubsetSizes
<1> HIDE DEF N
<1>10. it \in V /\ h[N + 2] \in V
  BY <1>4, <1>8
<1>11. h[N + 2] = it
  BY <1>9, <1>10 DEF V
<1>12. h[(N + 1) + 1] = AddLevel(it, S, w)
  BY <1>4, <1>8
<1>13. (N + 1) + 1 = N + 2
  BY <1>8
<1>14. AddsUp(it, S, w)
  BY <1>11, <1>12, <1>13 DEF AddsUp
<1> QED
  BY <1>10, <1>14 DEF V

\* What a solution says of each set.
LEMMA AddsUpAt ==
    ASSUME NEW U, NEW w \in [U -> Int], NEW S \in SUBSET U, IsFiniteSet(S),
           NEW iter, AddsUp(iter, S, w)
    PROVE  \A s \in SUBSET S :
              iter[s] = IF s = {} THEN 0 ELSE w[AnyOf(s)] + iter[s \ {AnyOf(s)}]
<1>1. iter = [s \in SUBSET S |-> IF s = {} THEN 0 ELSE w[AnyOf(s)] + iter[s \ {AnyOf(s)}]]
  BY DEF AddsUp, AddLevel
<1> QED
  BY <1>1

\* Two solutions agree, also those for different sets.
LEMMA SumsAgree ==
    ASSUME NEW U, NEW w \in [U -> Int],
           NEW S \in SUBSET U, IsFiniteSet(S), NEW T \in SUBSET U, IsFiniteSet(T),
           NEW i, AddsUp(i, S, w), NEW j, AddsUp(j, T, w)
    PROVE  \A s \in (SUBSET S) \cap (SUBSET T) : i[s] = j[s]
<1> DEFINE Both == (SUBSET S) \cap (SUBSET T)
           Same == {n \in Nat : \A s \in Both : Cardinality(s) <= n => i[s] = j[s]}
<1>1. \A s \in Both : /\ i[s] = IF s = {} THEN 0 ELSE w[AnyOf(s)] + i[s \ {AnyOf(s)}]
                      /\ j[s] = IF s = {} THEN 0 ELSE w[AnyOf(s)] + j[s \ {AnyOf(s)}]
  BY AddsUpAt
<1>2. 0 \in Same
  <2>1. ASSUME NEW s \in Both, Cardinality(s) <= 0 PROVE i[s] = j[s]
    <3>1. s = {}
      BY <2>1, SubsetSizes
    <3> QED
      BY <3>1, <1>1
  <2> QED
    BY <2>1
<1>3. ASSUME NEW n \in Nat, n \in Same PROVE n + 1 \in Same
  <2>1. ASSUME NEW s \in Both, Cardinality(s) <= n + 1 PROVE i[s] = j[s]
    <3> DEFINE x == AnyOf(s)
    <3>1. CASE s = {}
      BY <3>1, <1>1
    <3>2. CASE s # {}
      <4>1. x \in s /\ s \ {x} \in Both
        BY <3>2, AnyOfIn
      <4>2. Cardinality(s \ {x}) = Cardinality(s) - 1 /\ Cardinality(s) \in Nat
        BY <4>1, SubsetSizes
      <4>3. Cardinality(s \ {x}) <= n
        BY <2>1, <4>2
      <4>4. i[s] = w[x] + i[s \ {x}] /\ j[s] = w[x] + j[s \ {x}]
        BY <3>2, <1>1
      <4> HIDE DEF x
      <4>5. i[s \ {x}] = j[s \ {x}]
        BY <4>1, <4>3, <1>3
      <4> QED
        BY <4>4, <4>5
    <3> QED
      BY <3>1, <3>2
  <2> QED
    BY <2>1
<1>4. Nat \subseteq Same
  <2> HIDE DEF Same
  <2> QED
    BY <1>2, <1>3, SetInduction
<1>5. \A s \in Both : Cardinality(s) \in Nat /\ Cardinality(s) <= Cardinality(s)
  BY SubsetSizes
<1> QED
  BY <1>4, <1>5

\* In what iter adds up any member may be the last.
Splits(iter, S, w) == \A s \in SUBSET S : \A x \in s : iter[s] = w[x] + iter[s \ {x}]

\* The order in which members are picked makes no difference.
LEMMA SumSplit ==
    ASSUME NEW U, NEW w \in [U -> Int], NEW S \in SUBSET U, IsFiniteSet(S),
           NEW i \in [SUBSET S -> Int], AddsUp(i, S, w)
    PROVE  Splits(i, S, w)
<1> DEFINE Fine == {n \in Nat : \A s \in SUBSET S : Cardinality(s) <= n =>
                                   \A x \in s : i[s] = w[x] + i[s \ {x}]}
<1>1. \A s \in SUBSET S : i[s] = IF s = {} THEN 0 ELSE w[AnyOf(s)] + i[s \ {AnyOf(s)}]
  BY AddsUpAt
<1>2. 0 \in Fine
  <2>1. ASSUME NEW s \in SUBSET S, Cardinality(s) <= 0 PROVE s = {}
    BY <2>1, SubsetSizes
  <2> QED
    BY <2>1
<1>3. ASSUME NEW n \in Nat, n \in Fine PROVE n + 1 \in Fine
  <2>1. ASSUME NEW s \in SUBSET S, Cardinality(s) <= n + 1, NEW x \in s
        PROVE  i[s] = w[x] + i[s \ {x}]
    <3> DEFINE c == AnyOf(s)
    <3>1. c \in s
      BY AnyOfIn
    <3>2. i[s] = w[c] + i[s \ {c}]
      BY <1>1
    <3> HIDE DEF c
    <3>3. CASE x = c
      BY <3>2, <3>3
    <3>4. CASE x # c
      <4>1. /\ s \ {c} \in SUBSET S /\ s \ {x} \in SUBSET S /\ (s \ {c}) \ {x} \in SUBSET S
            /\ x \in s \ {c} /\ c \in s \ {x} /\ (s \ {c}) \ {x} = (s \ {x}) \ {c}
        BY <3>1, <3>4
      <4>2. Cardinality(s \ {c}) <= n /\ Cardinality(s \ {x}) <= n
        <5>1. /\ Cardinality(s \ {c}) = Cardinality(s) - 1
              /\ Cardinality(s \ {x}) = Cardinality(s) - 1
              /\ Cardinality(s) \in Nat
          BY <3>1, SubsetSizes
        <5> QED
          BY <2>1, <5>1
      <4>3. i[s \ {c}] = w[x] + i[(s \ {c}) \ {x}]
        BY <4>1, <4>2, <1>3
      <4>4. i[s \ {x}] = w[c] + i[(s \ {x}) \ {c}]
        BY <4>1, <4>2, <1>3
      <4>5. w[x] \in Int /\ w[c] \in Int /\ i[(s \ {c}) \ {x}] \in Int
        BY <3>1, <4>1
      <4> DEFINE rest == i[(s \ {c}) \ {x}]
      <4>6. i[s \ {x}] = w[c] + rest
        BY <4>1, <4>4
      <4>7. i[s] = w[c] + (w[x] + rest)
        BY <3>2, <4>3
      <4> HIDE DEF rest
      <4>8. w[c] + (w[x] + rest) = w[x] + (w[c] + rest)
        BY <4>5 DEF rest
      <4> QED
        BY <4>6, <4>7, <4>8
    <3> QED
      BY <3>3, <3>4
  <2> QED
    BY <2>1
<1>4. Nat \subseteq Fine
  <2> HIDE DEF Fine
  <2> QED
    BY <1>2, <1>3, SetInduction
<1>5. \A s \in SUBSET S : Cardinality(s) \in Nat /\ Cardinality(s) <= Cardinality(s)
  BY SubsetSizes
<1> QED
  BY <1>4, <1>5 DEF Splits

\* Every solution gives the sum.
LEMMA TotalOf ==
    ASSUME NEW U, NEW w \in [U -> Int], NEW S \in SUBSET U, IsFiniteSet(S),
           NEW iter, AddsUp(iter, S, w)
    PROVE  Total(S, w) = iter[S] /\ Total(S, w) \in Int
<1>1. PICK i \in [SUBSET S -> Int] : AddsUp(i, S, w)
  BY SumExists
<1> DEFINE j == CHOOSE k : AddsUp(k, S, w)
<1>2. AddsUp(j, S, w)
  BY <1>1
<1>3. Total(S, w) = j[S]
  BY DEF Total
<1> HIDE DEF j
<1>4. S \in (SUBSET S) \cap (SUBSET S)
  OBVIOUS
<1>5. j[S] = iter[S]
  BY <1>2, <1>4, SumsAgree
<1>6. j[S] = i[S]
  BY <1>1, <1>2, <1>4, SumsAgree
<1>7. i[S] \in Int
  BY <1>4
<1> QED
  BY <1>3, <1>5, <1>6, <1>7

\* The sum over nothing is 0; the next member adds its weight.
LEMMA TotalAdd ==
    ASSUME NEW U, NEW w \in [U -> Int], NEW S \in SUBSET U, IsFiniteSet(S)
    PROVE  /\ Total({}, w) = 0
           /\ Total(S, w) \in Int
           /\ \A x \in U \ S : Total(S \cup {x}, w) = w[x] + Total(S, w)
           /\ \A x \in S : Total(S \ {x}, w) = Total(S, w) - w[x]
<1>1. \E i \in [SUBSET {} -> Int] : AddsUp(i, {}, w)
  BY FS_EmptySet, SumExists
<1>2. PICK i0 \in [SUBSET {} -> Int] : AddsUp(i0, {}, w)
  BY <1>1
<1>3. i0[{}] = 0
  BY <1>2, FS_EmptySet, AddsUpAt
<1>4. Total({}, w) = 0
  BY <1>2, <1>3, FS_EmptySet, TotalOf
<1>5. PICK i \in [SUBSET S -> Int] : AddsUp(i, S, w)
  BY SumExists
<1>6. Total(S, w) = i[S] /\ Total(S, w) \in Int
  BY <1>5, TotalOf
<1>7. ASSUME NEW x \in U \ S PROVE Total(S \cup {x}, w) = w[x] + Total(S, w)
  <2> DEFINE T == S \cup {x}
  <2>1. T \in SUBSET U /\ IsFiniteSet(T) /\ x \in T /\ T \ {x} = S /\ S \in (SUBSET T) \cap (SUBSET S)
        /\ T \in SUBSET T
    BY <1>7, FS_AddElement
  <2> HIDE DEF T
  <2>2. PICK j \in [SUBSET T -> Int] : AddsUp(j, T, w)
    BY <2>1, SumExists
  <2>3. Total(T, w) = j[T]
    BY <2>1, <2>2, TotalOf
  <2>4. j[T] = w[x] + j[T \ {x}]
    <3>1. Splits(j, T, w)
      BY <2>1, <2>2, SumSplit
    <3> QED
      BY <2>1, <3>1 DEF Splits
  <2>5. j[S] = i[S]
    BY <2>1, <2>2, <1>5, SumsAgree
  <2> QED
    BY <2>1, <2>3, <2>4, <2>5, <1>6 DEF T
<1>8. ASSUME NEW x \in S PROVE Total(S \ {x}, w) = Total(S, w) - w[x]
  <2> DEFINE T == S \ {x}
  <2>1. T \in SUBSET U /\ IsFiniteSet(T) /\ T \in (SUBSET T) \cap (SUBSET S) /\ S \in SUBSET S
    BY FS_RemoveElement
  <2> HIDE DEF T
  <2>2. PICK j \in [SUBSET T -> Int] : AddsUp(j, T, w)
    BY <2>1, SumExists
  <2>3. Total(T, w) = j[T] /\ Total(T, w) \in Int
    BY <2>1, <2>2, TotalOf
  <2>4. i[S] = w[x] + i[S \ {x}]
    <3>1. Splits(i, S, w)
      BY <1>5, SumSplit
    <3> QED
      BY <2>1, <3>1 DEF Splits
  <2>5. j[T] = i[T]
    BY <2>1, <2>2, <1>5, SumsAgree
  <2>6. w[x] \in Int
    OBVIOUS
  <2>7. Total(S, w) = w[x] + Total(T, w)
    BY <2>3, <2>4, <2>5, <1>6 DEF T
  <2> QED
    BY <2>3, <2>6, <2>7 DEF T
<1> QED
  BY <1>4, <1>6, <1>7, <1>8

\* A finite set is counted by the parts that a function on it makes.
LEMMA TotalCounts ==
    ASSUME NEW U, IsFiniteSet(U), NEW w \in [U -> Int],
           NEW P, IsFiniteSet(P), NEW g \in [P -> U],
           \A x \in U : w[x] = Cardinality({p \in P : g[p] = x})
    PROVE  Total(U, w) = Cardinality(P)
<1> DEFINE Part(A) == {p \in P : g[p] \in A}
           Fine == {n \in Nat : \A A \in SUBSET U : Cardinality(A) <= n =>
                                   Total(A, w) = Cardinality(Part(A))}
<1>1. 0 \in Fine
  <2>1. ASSUME NEW A \in SUBSET U, Cardinality(A) <= 0
        PROVE  Total(A, w) = Cardinality(Part(A))
    <3>1. A = {} /\ Part(A) = {}
      BY <2>1, SubsetSizes
    <3> HIDE DEF Part
    <3>2. Total({}, w) = 0
      BY FS_EmptySet, TotalAdd
    <3> QED
      BY <3>1, <3>2, FS_EmptySet
  <2> QED
    BY <2>1
<1>2. ASSUME NEW n \in Nat, n \in Fine PROVE n + 1 \in Fine
  <2>1. ASSUME NEW A \in SUBSET U, Cardinality(A) <= n + 1, NEW x \in A
        PROVE  Total(A, w) = Cardinality(Part(A))
    <3> DEFINE B == A \ {x}
    <3>1. B \in SUBSET U /\ IsFiniteSet(A) /\ IsFiniteSet(B) /\ Cardinality(B) <= n
      <4>1. /\ Cardinality(A \ {x}) = Cardinality(A) - 1 /\ Cardinality(A) \in Nat
            /\ IsFiniteSet(A)
        BY SubsetSizes
      <4>2. IsFiniteSet(B)
        BY <4>1, FS_RemoveElement
      <4> QED
        BY <2>1, <4>1, <4>2
    <3>2. Total(B, w) = Cardinality(Part(B))
      <4> HIDE DEF B, Part
      <4> QED
        BY <3>1, <1>2
    <3>3. Total(B, w) = Total(A, w) - w[x] /\ Total(A, w) \in Int /\ w[x] \in Int
      BY <3>1, TotalAdd
    <3> DEFINE Q == {p \in P : g[p] = x}
    <3>4. Part(A) = Part(B) \cup Q /\ Part(B) \cap Q = {}
      OBVIOUS
    <3>5. IsFiniteSet(Part(B)) /\ IsFiniteSet(Q)
      BY FS_Subset
    <3>6. Cardinality(Part(A)) = Cardinality(Part(B)) + Cardinality(Q)
      <4> HIDE DEF Part, Q
      <4>1. Cardinality(Part(B) \cup Q)
              = Cardinality(Part(B)) + Cardinality(Q) - Cardinality(Part(B) \cap Q)
        BY <3>5, FS_Union
      <4>2. Cardinality(Part(B)) \in Nat /\ Cardinality(Q) \in Nat /\ Cardinality({}) = 0
        BY <3>5, FS_CardinalityType, FS_EmptySet
      <4>3. Cardinality(Part(A))
              = Cardinality(Part(B)) + Cardinality(Q) - Cardinality({})
        BY <3>4, <4>1
      <4> QED
        BY <4>2, <4>3
    <3>7. w[x] = Cardinality(Q) /\ Cardinality(Part(B)) \in Nat
      BY <3>5, FS_CardinalityType
    <3> HIDE DEF B, Q, Part
    <3>8. Cardinality(Part(A)) = Total(B, w) + w[x]
      BY <3>2, <3>6, <3>7
    <3> QED
      BY <3>3, <3>8
  <2>2. ASSUME NEW A \in SUBSET U, A = {}
        PROVE  Total(A, w) = Cardinality(Part(A))
    <3>1. Part(A) = {}
      BY <2>2
    <3>2. Total({}, w) = 0
      BY FS_EmptySet, TotalAdd
    <3> HIDE DEF Part
    <3> QED
      BY <2>2, <3>1, <3>2, FS_EmptySet
  <2> HIDE DEF Part
  <2> QED
    BY <2>1, <2>2
<1>3. Nat \subseteq Fine
  <2> HIDE DEF Fine
  <2> QED
    BY <1>1, <1>2, SetInduction
<1>4. Cardinality(U) \in Nat /\ Cardinality(U) <= Cardinality(U) /\ U \in SUBSET U
  BY FS_CardinalityType
<1>5. Total(U, w) = Cardinality(Part(U))
  <2> HIDE DEF Part
  <2> QED
    BY <1>3, <1>4
<1>6. Part(U) = P
  OBVIOUS
<1> QED
  BY <1>5, <1>6

-----------------------------------------------------------------------------
(* the elements of a sequence *)

\* The range of a sequence: what stands at one of its places.
LEMMA RangeOf ==
  ASSUME NEW S, NEW s \in Seq(S), NEW x
  PROVE  x \in Range(s) <=> \E i \in 1 .. Len(s) : s[i] = x
<1>1. DOMAIN s = 1 .. Len(s)
  BY LenProperties
<1>2. QED
  BY <1>1 DEF Range

\* A sequence over S has its members in S.
LEMMA RangeInSet ==
  ASSUME NEW S, NEW s \in Seq(S)
  PROVE  Range(s) \subseteq S
<1>1. \A i \in 1 .. Len(s) : s[i] \in S
  BY ElementOfSeq
<1>2. QED
  BY <1>1, RangeOf

\* The empty sequence has none.
LEMMA RangeEmpty == Range(<<>>) = {}
  BY DEF Range

\* Append adds one member, at the end.
LEMMA RangeAppend ==
  ASSUME NEW S, NEW s \in Seq(S), NEW e \in S
  PROVE  /\ Append(s, e) \in Seq(S)
         /\ Len(Append(s, e)) = Len(s) + 1
         /\ \A i \in 1 .. Len(s) : Append(s, e)[i] = s[i]
         /\ Append(s, e)[Len(s) + 1] = e
         /\ Range(Append(s, e)) = Range(s) \cup {e}
<1>1. /\ Append(s, e) \in Seq(S) /\ Len(Append(s, e)) = Len(s) + 1
      /\ \A i \in 1 .. Len(s) : Append(s, e)[i] = s[i]
      /\ Append(s, e)[Len(s) + 1] = e
      /\ Len(s) \in Nat
  OBVIOUS
<1>2. ASSUME NEW x
      PROVE  x \in Range(Append(s, e)) <=> x \in Range(s) \cup {e}
  <2>1. x \in Range(Append(s, e))
          <=> \E i \in 1 .. Len(s) + 1 : Append(s, e)[i] = x
    <3> DEFINE t == Append(s, e)
    <3> HIDE DEF t
    <3>1. t \in Seq(S) /\ Len(t) = Len(s) + 1
      BY <1>1 DEF t
    <3>2. x \in Range(t) <=> \E i \in 1 .. Len(t) : t[i] = x
      BY <3>1, RangeOf
    <3>3. QED
      BY <3>1, <3>2 DEF t
  <2>2. x \in Range(s) <=> \E i \in 1 .. Len(s) : s[i] = x
    BY RangeOf
  <2>3. QED
    BY <1>1, <2>1, <2>2
<1>3. QED
  BY <1>1, <1>2

\* The head and the tail have the members between them.
LEMMA RangeHeadTail ==
  ASSUME NEW S, NEW s \in Seq(S), s # <<>>
  PROVE  /\ Tail(s) \in Seq(S) /\ Head(s) \in S /\ Head(s) = s[1]
         /\ Len(s) \in Nat \ {0} /\ Len(Tail(s)) = Len(s) - 1
         /\ \A i \in 1 .. Len(s) - 1 : Tail(s)[i] = s[i + 1]
         /\ Range(s) = {Head(s)} \cup Range(Tail(s))
<1>1. /\ Tail(s) \in Seq(S) /\ Head(s) \in S /\ Head(s) = s[1]
      /\ Len(Tail(s)) = Len(s) - 1 /\ Len(s) \in Nat \ {0}
  BY HeadTailProperties, EmptySeq
<1>2. \A i \in 1 .. Len(s) - 1 : Tail(s)[i] = s[i + 1]
  BY <1>1, HeadTailProperties
<1>3. ASSUME NEW x
      PROVE  x \in Range(s) <=> x \in {Head(s)} \cup Range(Tail(s))
  <2>1. x \in Range(Tail(s)) <=> \E i \in 1 .. Len(s) - 1 : Tail(s)[i] = x
    <3> DEFINE t == Tail(s)
    <3> HIDE DEF t
    <3>1. t \in Seq(S) /\ Len(t) = Len(s) - 1
      BY <1>1 DEF t
    <3>2. x \in Range(t) <=> \E i \in 1 .. Len(t) : t[i] = x
      BY <3>1, RangeOf
    <3>3. QED
      BY <3>1, <3>2 DEF t
  <2>2. x \in Range(s) <=> \E i \in 1 .. Len(s) : s[i] = x
    BY RangeOf
  <2>3. ASSUME NEW i \in 1 .. Len(s), s[i] = x, i # 1
        PROVE  x \in Range(Tail(s))
    <3>1. i - 1 \in 1 .. Len(s) - 1 /\ (i - 1) + 1 = i
      BY <2>3, <1>1
    <3>2. Tail(s)[i - 1] = x
      BY <3>1, <1>2, <2>3
    <3>3. QED
      BY <3>1, <3>2, <2>1
  <2>4. x \in Range(s) => x = Head(s) \/ x \in Range(Tail(s))
    BY <1>1, <2>2, <2>3
  <2>5. x \in Range(Tail(s)) => x \in Range(s)
    <3>1. ASSUME NEW i \in 1 .. Len(s) - 1, Tail(s)[i] = x
          PROVE  i + 1 \in 1 .. Len(s) /\ s[i + 1] = x
      BY <3>1, <1>1, <1>2
    <3>2. QED
      BY <3>1, <2>1, <2>2
  <2>6. Head(s) \in Range(s)
    <3>1. 1 \in 1 .. Len(s)
      BY <1>1
    <3>2. QED
      BY <3>1, <1>1, RangeOf
  <2>7. QED
    BY <2>4, <2>5, <2>6
<1>4. QED
  BY <1>1, <1>2, <1>3
=============================================================================
