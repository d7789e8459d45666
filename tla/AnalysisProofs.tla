---------------------------- MODULE AnalysisProofs ----------------------------
(***************************************************************************)
(* Theorems about the analyzer's batch work on a window.                   *)
(*                                                                         *)
(* First, of the reassembly of a trace, for any set of spans and any       *)
(* parents: the classes, the completeness and the depth that are written   *)
(* are those of the chains of parents; every row is counted once by edges  *)
(* and by services; the offline evaluation charges reassembly with nothing *)
(* that was lost before it; the clock offsets estimated are the true ones. *)
(* All of it rests on one fact about the ancestors of a span: they are the *)
(* smallest set of rows that holds the span and, with a span, its parent   *)
(* (AncestorsLeast). The recursions of the model run for as many rounds as *)
(* there are rows or services; that this is enough is shown each time by   *)
(* counting: a round either adds a member or there is none left to add.    *)
(*                                                                         *)
(* Then, of the statistics, the baselines and the detectors, for any loads *)
(* and any number of windows: each row holds the statistics of calls of    *)
(* its window, each baseline those of its lookback (DetectionInv). What a  *)
(* detector says follows from what sums, ranks and medians of such         *)
(* multisets can be (NthIs, MedianIs, TotalGrows).                         *)
(***************************************************************************)
EXTENDS ClockSkew, TraceScore, Detection, Lemmas, FunctionTheorems

\* A chain of n parent links from a root or an orphan down to s.
IsChain(f, n, s) ==
    /\ f \in [0..n -> rows]
    /\ f[0] \in Roots \cup Orphans
    /\ f[n] = s
    /\ \A i \in 1..n : parent[f[i]] = f[i - 1]

HasChain(s) == \E n \in Nat : \E f \in [0..n -> rows] : IsChain(f, n, s)

\* The parents of A that are in the rows.
ParentsOf(A) == {parent[a] : a \in {b \in A : parent[b] \in rows}}

\* A set of rows that holds, with a span, its parent in the rows.
Upward(A) == A \subseteq rows /\ ParentsOf(A) \subseteq A

\* Seeds are waiting, queued or visited; the children of what was visited are
\* queued or visited; nothing is queued or visited without a chain.
Searching ==
    /\ Seeds \subseteq seeds \cup frontier \cup visited
    /\ \A s \in visited : Children(s) \subseteq visited \cup frontier
    /\ \A s \in visited \cup frontier : s \in Seeds \/ parent[s] \in visited
    /\ \A s \in seeds : s \in Seeds /\ HasChain(s)
    /\ \A s \in visited \cup frontier : HasChain(s)

\* From the classification on, the search is over and the classes are its
\* outcome.
Searched ==
    pc # "mark" => /\ frontier = {} /\ seeds = {}
                   /\ class = [s \in rows |-> ClassOf(s)]

\* The spans of r's tree at the end of chains of n spans.
Level(r, n) == {t \in rows : r \in Ancestors(t) /\ Cardinality(Ancestors(t)) = n}

\* _subtree_depth has a full level at hand, and stops at the last.
Measuring ==
    /\ pc \in {"mark", "canonical"} => canonical = NoParent
    /\ pc = "depth" => /\ canonical \in Roots /\ depth >= 1
                       /\ layer = Level(canonical, depth) /\ layer # {}
    /\ (pc = "done" /\ canonical # NoParent) =>
          /\ canonical \in Roots /\ depth >= 1
          /\ Level(canonical, depth) # {} /\ Level(canonical, depth + 1) = {}

IInv == TypeOK /\ Searching /\ Searched /\ Measuring

-----------------------------------------------------------------------------
(* chains *)

\* A root or an orphan is a chain of its own.
LEMMA SeedHasChain ==
    ASSUME NEW s \in Roots \cup Orphans
    PROVE  HasChain(s)
<1> DEFINE f == [i \in 0..0 |-> s]
<1>1. s \in rows
  BY DEF Roots, Orphans
<1>2. f \in [0..0 -> rows]
  BY <1>1
<1>3. f[0] = s
  OBVIOUS
<1>4. IsChain(f, 0, s)
  BY <1>2, <1>3, SMT DEF IsChain
<1> QED
  BY <1>2, <1>4 DEF HasChain

\* A child of a span that has a chain has one.
LEMMA ChildHasChain ==
    ASSUME NEW s, HasChain(s), NEW c \in Children(s)
    PROVE  HasChain(c)
<1>0. PICK n \in Nat : \E f \in [0..n -> rows] : IsChain(f, n, s)
  BY DEF HasChain
<1>1. PICK f \in [0..n -> rows] : IsChain(f, n, s)
  BY <1>0
<1> DEFINE g == [i \in 0..n + 1 |-> IF i = n + 1 THEN c ELSE f[i]]
<1>2. c \in rows /\ parent[c] = s
  BY DEF Children
<1>3. g \in [0..n + 1 -> rows]
  BY <1>2
<1>4. \A i \in 0..n : g[i] = f[i]
  OBVIOUS
<1>5. g[n + 1] = c
  OBVIOUS
<1>6. \A i \in 1..n + 1 : parent[g[i]] = g[i - 1]
  <2> TAKE i \in 1..n + 1
  <2>1. CASE i = n + 1
    <3>1. g[i - 1] = f[n]
      BY <2>1, <1>4
    <3> QED
      BY <2>1, <3>1, <1>1, <1>2, <1>5 DEF IsChain
  <2>2. CASE i \in 1..n
    <3>1. g[i] = f[i] /\ g[i - 1] = f[i - 1]
      BY <2>2, <1>4
    <3> QED
      BY <2>2, <3>1, <1>1 DEF IsChain
  <2> QED
    BY <2>1, <2>2
<1>7. g[0] \in Roots \cup Orphans
  BY <1>1, <1>4 DEF IsChain
<1> HIDE DEF g
<1>8. IsChain(g, n + 1, c)
  BY <1>3, <1>5, <1>6, <1>7 DEF IsChain
<1> QED
  BY <1>3, <1>8 DEF HasChain

\* The input never changes, and with it roots, orphans, children and chains.
LEMMA InputFixed ==
    ASSUME UNCHANGED input
    PROVE  /\ Roots' = Roots /\ Orphans' = Orphans /\ Seeds' = Seeds
           /\ \A s : Children(s)' = Children(s)
           /\ \A s : HasChain(s)' = HasChain(s)
BY DEF input, Roots, Orphans, Seeds, Children, HasChain, IsChain

-----------------------------------------------------------------------------
(* ancestors *)

\* up is the recursion of Ancestors: A(n) are the ancestors at most n links up.
IsClimb(up, s) ==
    /\ up \in [0..Cardinality(rows) -> SUBSET rows]
    /\ up[0] = {s}
    /\ \A n \in 1..Cardinality(rows) : up[n] = up[n - 1] \cup ParentsOf(up[n - 1])

\* Finite sets of rows.
LEMMA RowsFinite ==
    ASSUME TypeOK
    PROVE  /\ IsFiniteSet(rows) /\ Cardinality(rows) \in Nat /\ NoParent \notin rows
           /\ \A A \in SUBSET rows : /\ IsFiniteSet(A) /\ Cardinality(A) \in Nat
                                     /\ Cardinality(A) <= Cardinality(rows)
<1>1. IsFiniteSet(rows) /\ NoParent \notin rows
  BY ReassemblyAssumption, FS_Subset DEF TypeOK
<1>2. \A A \in SUBSET rows : IsFiniteSet(A) /\ Cardinality(A) <= Cardinality(rows)
  BY <1>1, FS_Subset
<1> QED
  BY <1>1, <1>2, FS_CardinalityType

\* Ancestors is computed by a climb.
LEMMA AncestorsClimb ==
    ASSUME TypeOK, NEW s \in rows
    PROVE  \E up : IsClimb(up, s) /\ Ancestors(s) = up[Cardinality(rows)]
<1> DEFINE C == Cardinality(rows)
           V == SUBSET rows
           advance == [A \in V |-> A \cup ParentsOf(A)]
           Unfolds(up) == up = [n \in 0..C |->
                                  IF n = 0 THEN {s} ELSE up[n - 1] \cup ParentsOf(up[n - 1])]
<1>0. C \in Nat
  BY RowsFinite
<1>1. \A A \in V : ParentsOf(A) \in V
  BY DEF ParentsOf
<1>2. advance \in [V -> V] /\ {s} \in V
  BY <1>1
<1>3. \E h : Iterates(h, V, advance, {s})
  <2> HIDE DEF V, advance
  <2> QED
    BY <1>2, Iteration
<1>4. PICK h : Iterates(h, V, advance, {s})
  BY <1>3
<1>5. h \in [Nat -> V] /\ h[0] = {s} /\ \A n \in Nat : h[n + 1] = h[n] \cup ParentsOf(h[n])
  BY <1>4 DEF Iterates
<1> DEFINE up0 == [n \in 0..C |-> h[n]]
<1>6. Unfolds(up0)
  <2>1. \A n \in 0..C : up0[n] = IF n = 0 THEN {s} ELSE up0[n - 1] \cup ParentsOf(up0[n - 1])
    <3> TAKE n \in 0..C
    <3>1. CASE n = 0
      BY <3>1, <1>5
    <3>2. CASE n # 0
      <4>1. n - 1 \in 0..C /\ n - 1 \in Nat /\ (n - 1) + 1 = n
        BY <3>2, <1>0
      <4>2. up0[n] = h[n] /\ up0[n - 1] = h[n - 1]
        BY <4>1
      <4>3. h[(n - 1) + 1] = h[n - 1] \cup ParentsOf(h[n - 1])
        BY <4>1, <1>5
      <4> QED
        BY <3>2, <4>1, <4>2, <4>3
    <3> QED
      BY <3>1, <3>2
  <2>2. DOMAIN up0 = 0..C /\ up0 = [n \in 0..C |-> up0[n]]
    OBVIOUS
  <2> HIDE DEF up0, C
  <2> QED
    BY <2>1, <2>2
<1> DEFINE up1 == CHOOSE up : Unfolds(up)
<1>7. Unfolds(up1)
  <2> HIDE DEF Unfolds, up0
  <2> QED
    BY <1>6
<1>8. Ancestors(s) = up1[C]
  BY DEF Ancestors, ParentsOf
<1> HIDE DEF up1
<1>9. up1[0] = {s} /\ \A n \in 1..C : up1[n] = up1[n - 1] \cup ParentsOf(up1[n - 1])
  <2>0. \A n \in 0..C : up1[n] = IF n = 0 THEN {s} ELSE up1[n - 1] \cup ParentsOf(up1[n - 1])
    BY <1>7
  <2>1. 0 \in 0..C /\ \A n \in 1..C : n \in 0..C /\ n # 0
    BY <1>0
  <2> HIDE DEF Unfolds, C
  <2>2. up1[0] = {s}
    BY <2>0, <2>1
  <2>3. \A n \in 1..C : up1[n] = up1[n - 1] \cup ParentsOf(up1[n - 1])
    BY <2>0, <2>1
  <2> QED
    BY <2>2, <2>3
<1>10. \A n \in 0..C : up1[n] = h[n]
  <2> DEFINE Same == {n \in Nat : n <= C => up1[n] = h[n]}
  <2>1. 0 \in Same
    BY <1>5, <1>9
  <2>2. ASSUME NEW n \in Nat, n \in Same PROVE n + 1 \in Same
    <3>1. CASE n + 1 <= C
      <4>1. n + 1 \in 1..C /\ n <= C /\ (n + 1) - 1 = n
        BY <3>1, <1>0
      <4>2. up1[n] = h[n]
        BY <2>2, <4>1
      <4>3. up1[n + 1] = up1[n] \cup ParentsOf(up1[n])
        BY <4>1, <1>9
      <4>4. h[n + 1] = h[n] \cup ParentsOf(h[n])
        BY <1>5
      <4>5. up1[n + 1] = h[n + 1]
        BY <4>2, <4>3, <4>4
      <4> QED
        BY <4>5
    <3>2. CASE ~(n + 1 <= C)
      BY <3>2
    <3> QED
      BY <3>1, <3>2
  <2>3. Nat \subseteq Same
    <3> HIDE DEF Same
    <3> QED
      BY <2>1, <2>2, SetInduction
  <2> QED
    BY <2>3
<1>11. up1 \in [0..C -> V]
  <2>1. DOMAIN up1 = 0..C /\ up1 = [n \in 0..C |-> up1[n]]
    BY <1>7
  <2>2. \A n \in 0..C : h[n] \in V
    BY <1>5, <1>0
  <2> HIDE DEF Unfolds
  <2> QED
    BY <2>1, <2>2, <1>10
<1> QED
  BY <1>8, <1>9, <1>11 DEF IsClimb

\* The ancestors of a span are the smallest set of rows that holds it and, with
\* a span, its parent: as many links as there are rows reach them all.
LEMMA AncestorsLeast ==
    ASSUME TypeOK, NEW s \in rows
    PROVE  /\ s \in Ancestors(s) /\ Upward(Ancestors(s))
           /\ \A A : Upward(A) /\ s \in A => Ancestors(s) \subseteq A
<1> DEFINE C == Cardinality(rows)
<1>0. C \in Nat
  BY RowsFinite
<1>1. PICK up : IsClimb(up, s) /\ Ancestors(s) = up[C]
  BY AncestorsClimb
<1>2. /\ up \in [0..C -> SUBSET rows] /\ up[0] = {s}
      /\ \A n \in 1..C : up[n] = up[n - 1] \cup ParentsOf(up[n - 1])
  BY <1>1 DEF IsClimb
<1> HIDE DEF C
<1>3. \A n \in Nat : n + 1 <= C =>
         /\ n \in 0..C /\ n + 1 \in 0..C /\ up[n] \in SUBSET rows /\ up[n + 1] \in SUBSET rows
         /\ up[n + 1] = up[n] \cup ParentsOf(up[n])
  <2> TAKE n \in Nat
  <2> HAVE n + 1 <= C
  <2>1. n \in 0..C /\ n + 1 \in 1..C /\ n + 1 \in 0..C /\ (n + 1) - 1 = n
    BY <1>0
  <2> QED
    BY <2>1, <1>2
<1> DEFINE Grows == {n \in Nat : n <= C =>
                       s \in up[n] /\ (ParentsOf(up[n]) \subseteq up[n] \/ Cardinality(up[n]) > n)}
<1>4. 0 \in Grows
  <2>1. Cardinality({s}) = 1
    BY FS_Singleton
  <2>2. s \in up[0] /\ Cardinality(up[0]) > 0
    BY <2>1, <1>2
  <2> QED
    BY <2>2
<1>5. ASSUME NEW n \in Nat, n \in Grows PROVE n + 1 \in Grows
  <2>1. CASE n + 1 <= C
    <3>1. up[n] \in SUBSET rows /\ up[n + 1] \in SUBSET rows /\ n <= C
          /\ up[n + 1] = up[n] \cup ParentsOf(up[n])
      BY <2>1, <1>3, <1>0
    <3>2. CASE ParentsOf(up[n]) \subseteq up[n]
      <4>1. up[n + 1] = up[n]
        BY <3>1, <3>2
      <4>2. s \in up[n + 1] /\ ParentsOf(up[n + 1]) \subseteq up[n + 1]
        BY <4>1, <3>1, <3>2, <1>5
      <4> QED
        BY <4>2
    <3>3. CASE ~(ParentsOf(up[n]) \subseteq up[n])
      <4>1. Cardinality(up[n]) > n /\ s \in up[n]
        BY <3>1, <3>3, <1>5
      <4>2. up[n] \subseteq up[n + 1] /\ up[n] # up[n + 1]
        BY <3>1, <3>3
      <4>3. IsFiniteSet(up[n]) /\ IsFiniteSet(up[n + 1])
        BY <3>1, RowsFinite
      <4>4. Cardinality(up[n]) <= Cardinality(up[n + 1]) /\ Cardinality(up[n]) # Cardinality(up[n + 1])
        BY <4>2, <4>3, FS_Subset
      <4>5. Cardinality(up[n]) \in Nat /\ Cardinality(up[n + 1]) \in Nat
        BY <4>3, FS_CardinalityType
      <4>6. Cardinality(up[n + 1]) > n + 1
        BY <4>1, <4>4, <4>5
      <4>7. s \in up[n + 1]
        BY <4>1, <4>2
      <4> QED
        BY <4>6, <4>7
    <3> QED
      BY <3>2, <3>3
  <2>2. CASE ~(n + 1 <= C)
    BY <2>2
  <2> QED
    BY <2>1, <2>2
<1>6. C \in Grows
  <2> HIDE DEF Grows
  <2> QED
    BY <1>0, <1>4, <1>5, SetInduction
<1>7. s \in up[C] /\ up[C] \in SUBSET rows
  BY <1>6, <1>2, <1>0
<1>8. ParentsOf(up[C]) \subseteq up[C]
  <2>1. Cardinality(up[C]) <= C /\ Cardinality(up[C]) \in Nat
    BY <1>7, RowsFinite DEF C
  <2> QED
    BY <1>0, <1>6, <2>1
<1>9. ASSUME NEW A, Upward(A), s \in A PROVE up[C] \subseteq A
  <2> DEFINE Inside == {n \in Nat : n <= C => up[n] \subseteq A}
  <2>1. 0 \in Inside
    BY <1>9, <1>2
  <2>2. ASSUME NEW n \in Nat, n \in Inside PROVE n + 1 \in Inside
    <3>1. CASE n + 1 <= C
      <4>1. up[n + 1] = up[n] \cup ParentsOf(up[n]) /\ n <= C
        BY <3>1, <1>3, <1>0
      <4>2. up[n] \subseteq A
        BY <4>1, <2>2
      <4>3. ParentsOf(up[n]) \subseteq ParentsOf(A)
        BY <4>2 DEF ParentsOf
      <4> QED
        BY <4>1, <4>2, <4>3, <1>9 DEF Upward
    <3>2. CASE ~(n + 1 <= C)
      BY <3>2
    <3> QED
      BY <3>1, <3>2
  <2>3. C \in Inside
    <3> HIDE DEF Inside
    <3> QED
      BY <1>0, <2>1, <2>2, SetInduction
  <2> QED
    BY <2>3, <1>0
<1> QED
  BY <1>1, <1>7, <1>8, <1>9 DEF Upward

\* A span whose parent is in the rows has itself and its parent's ancestors; any
\* other is its only ancestor.
LEMMA AncestorsOfChild ==
    ASSUME TypeOK, NEW s \in rows
    PROVE  Ancestors(s) = IF parent[s] \in rows THEN {s} \cup Ancestors(parent[s]) ELSE {s}
<1>1. s \in Ancestors(s) /\ Upward(Ancestors(s))
  BY AncestorsLeast
<1>2. CASE parent[s] \in rows
  <2> DEFINE B == Ancestors(parent[s])
  <2>1. parent[s] \in B /\ Upward(B)
    BY <1>2, AncestorsLeast
  <2>2. Upward({s} \cup B)
    BY <2>1 DEF Upward, ParentsOf
  <2>3. Ancestors(s) \subseteq {s} \cup B
    BY <2>2, AncestorsLeast
  <2>4. parent[s] \in Ancestors(s)
    BY <1>1, <1>2 DEF Upward, ParentsOf
  <2>5. B \subseteq Ancestors(s)
    BY <1>1, <1>2, <2>4, AncestorsLeast
  <2> QED
    BY <1>1, <1>2, <2>3, <2>5
<1>3. CASE parent[s] \notin rows
  <2>1. Upward({s})
    BY <1>3 DEF Upward, ParentsOf
  <2> QED
    BY <1>1, <1>3, <2>1, AncestorsLeast
<1> QED
  BY <1>2, <1>3

\* A root or an orphan is its only ancestor.
LEMMA SeedIsAlone ==
    ASSUME TypeOK, NEW s \in Roots \cup Orphans
    PROVE  s \in rows /\ Ancestors(s) = {s}
<1>1. s \in rows /\ parent[s] \notin rows
  BY RowsFinite DEF Roots, Orphans
<1> QED
  BY <1>1, AncestorsOfChild

\* A span at the end of a chain bottoms out.
LEMMA ChainBottomsOut ==
    ASSUME TypeOK, NEW s \in rows, HasChain(s)
    PROVE  BottomsOut(s)
<1>1. PICK n \in Nat : \E f \in [0..n -> rows] : IsChain(f, n, s)
  BY DEF HasChain
<1>2. PICK f \in [0..n -> rows] : IsChain(f, n, s)
  BY <1>1
<1> DEFINE Good == {i \in Nat : i <= n => BottomsOut(f[i])}
<1>3. 0 \in Good
  BY <1>2, SeedIsAlone DEF IsChain, BottomsOut
<1>4. ASSUME NEW i \in Nat, i \in Good PROVE i + 1 \in Good
  <2>1. CASE i + 1 <= n
    <3>1. i + 1 \in 1..n /\ i + 1 \in 0..n /\ i \in 0..n /\ (i + 1) - 1 = i
      BY <2>1
    <3>2. parent[f[i + 1]] = f[i]
      BY <3>1, <1>2 DEF IsChain
    <3>3. f[i + 1] \in rows /\ f[i] \in rows
      BY <3>1
    <3>4. Ancestors(f[i]) \subseteq Ancestors(f[i + 1])
      BY <3>2, <3>3, AncestorsOfChild
    <3>5. BottomsOut(f[i])
      BY <3>1, <1>4
    <3>6. BottomsOut(f[i + 1])
      BY <3>4, <3>5 DEF BottomsOut
    <3> QED
      BY <3>6
  <2>2. CASE ~(i + 1 <= n)
    BY <2>2
  <2> QED
    BY <2>1, <2>2
<1>5. n \in Good
  <2> HIDE DEF Good
  <2> QED
    BY <1>3, <1>4, SetInduction
<1> QED
  BY <1>2, <1>5 DEF IsChain

\* Nor do ancestors and levels.
LEMMA AncestorsFixed ==
    ASSUME UNCHANGED input, NEW s
    PROVE  Ancestors(s)' = Ancestors(s)
<1>1. rows' = rows /\ parent' = parent
  BY DEF input
<1> QED
  BY <1>1 DEF Ancestors

\* The levels of a tree are fixed too.
LEMMA LevelFixed ==
    ASSUME UNCHANGED input
    PROVE  \A r, n : Level(r, n)' = Level(r, n)
<1> SUFFICES ASSUME NEW r, NEW n PROVE Level(r, n)' = Level(r, n)
  OBVIOUS
<1>1. rows' = rows
  BY DEF input
<1> QED
  BY <1>1, AncestorsFixed DEF Level

-----------------------------------------------------------------------------
(* the levels of a tree *)

\* A chain that ends at a root holds no span twice.
LEMMA NoReturn ==
    ASSUME TypeOK, NEW r \in Roots \cup Orphans, NEW s \in rows,
           r \in Ancestors(s), parent[s] \in rows
    PROVE  s \notin Ancestors(parent[s])
<1> SUFFICES ASSUME s \in Ancestors(parent[s]) PROVE FALSE
  OBVIOUS
<1> DEFINE B == {t \in Ancestors(s) : s \in Ancestors(t)}
<1>1. s \in Ancestors(s) /\ Upward(Ancestors(s))
  BY AncestorsLeast
<1>2. ASSUME NEW t \in B, parent[t] \in rows PROVE parent[t] \in B
  <2>1. t \in rows /\ parent[t] \in Ancestors(s)
    BY <1>1, <1>2 DEF Upward, ParentsOf
  <2>2. Ancestors(t) = {t} \cup Ancestors(parent[t])
    BY <1>2, <2>1, AncestorsOfChild
  <2>3. s \in Ancestors(parent[t])
    BY <2>2
  <2> QED
    BY <2>1, <2>3
<1>3. Upward(B)
  BY <1>1, <1>2 DEF Upward, ParentsOf
<1>4. r \in B
  BY <1>1, <1>3, AncestorsLeast
<1>5. s = r
  BY <1>4, SeedIsAlone
<1> QED
  BY <1>5, RowsFinite DEF Roots, Orphans

\* Below a root every chain is one span longer than that of the parent.
LEMMA OneLonger ==
    ASSUME TypeOK, NEW r \in Roots \cup Orphans, NEW s \in rows, r \in Ancestors(s)
    PROVE  /\ s = r => Cardinality(Ancestors(s)) = 1
           /\ s # r => /\ parent[s] \in rows /\ r \in Ancestors(parent[s])
                       /\ Cardinality(Ancestors(s)) = Cardinality(Ancestors(parent[s])) + 1
           /\ Cardinality(Ancestors(s)) \in Nat /\ Cardinality(Ancestors(s)) >= 1
<1>1. ASSUME s = r PROVE Cardinality(Ancestors(s)) = 1
  BY <1>1, SeedIsAlone, FS_Singleton
<1>2. ASSUME s # r
      PROVE  /\ parent[s] \in rows /\ r \in Ancestors(parent[s])
             /\ Cardinality(Ancestors(parent[s])) \in Nat
             /\ Cardinality(Ancestors(s)) = Cardinality(Ancestors(parent[s])) + 1
  <2>1. parent[s] \in rows /\ Ancestors(s) = {s} \cup Ancestors(parent[s])
    BY <1>2, AncestorsOfChild
  <2>2. s \notin Ancestors(parent[s])
    BY <2>1, NoReturn
  <2>3. Ancestors(parent[s]) \in SUBSET rows
    BY <2>1, AncestorsLeast DEF Upward
  <2>4. IsFiniteSet(Ancestors(parent[s])) /\ Cardinality(Ancestors(parent[s])) \in Nat
    BY <2>3, RowsFinite
  <2>5. Cardinality(Ancestors(parent[s]) \cup {s}) = Cardinality(Ancestors(parent[s])) + 1
    BY <2>2, <2>4, FS_AddElement
  <2>6. Ancestors(s) = Ancestors(parent[s]) \cup {s}
    BY <2>1
  <2> QED
    BY <1>2, <2>1, <2>4, <2>5, <2>6
<1>3. Cardinality(Ancestors(s)) \in Nat /\ Cardinality(Ancestors(s)) >= 1
  <2>1. CASE s = r
    BY <2>1, <1>1
  <2>2. CASE s # r
    BY <2>2, <1>2
  <2> QED
    BY <2>1, <2>2
<1> QED
  BY <1>1, <1>2, <1>3

\* The first level is the root, the next one the children of a level.
LEMMA Levels ==
    ASSUME TypeOK, NEW r \in Roots
    PROVE  /\ Level(r, 1) = {r}
           /\ \A n \in Nat \ {0} : Level(r, n + 1) = UNION {Children(s) : s \in Level(r, n)}
<1>1. r \in rows /\ Ancestors(r) = {r}
  BY SeedIsAlone
<1>2. ASSUME NEW t \in rows, r \in Ancestors(t), Cardinality(Ancestors(t)) = 1
      PROVE  t = r
  <2> SUFFICES ASSUME t # r PROVE FALSE
    OBVIOUS
  <2>1. /\ parent[t] \in rows /\ r \in Ancestors(parent[t])
        /\ Cardinality(Ancestors(t)) = Cardinality(Ancestors(parent[t])) + 1
    BY <1>2, OneLonger
  <2>2. Cardinality(Ancestors(parent[t])) >= 1 /\ Cardinality(Ancestors(parent[t])) \in Nat
    BY <2>1, OneLonger
  <2> QED
    BY <1>2, <2>1, <2>2
<1>3. r \in Level(r, 1)
  BY <1>1, OneLonger DEF Level
<1>4. Level(r, 1) = {r}
  BY <1>2, <1>3 DEF Level
<1>5. ASSUME NEW n \in Nat \ {0}
      PROVE  Level(r, n + 1) = UNION {Children(s) : s \in Level(r, n)}
  <2>1. ASSUME NEW t \in Level(r, n + 1) PROVE t \in UNION {Children(s) : s \in Level(r, n)}
    <3>1. t \in rows /\ r \in Ancestors(t) /\ Cardinality(Ancestors(t)) = n + 1
      BY <2>1 DEF Level
    <3>2. t # r
      <4>1. n + 1 # 1
        OBVIOUS
      <4> QED
        BY <3>1, <4>1, OneLonger
    <3>3. /\ parent[t] \in rows /\ r \in Ancestors(parent[t])
          /\ Cardinality(Ancestors(t)) = Cardinality(Ancestors(parent[t])) + 1
      BY <3>1, <3>2, OneLonger
    <3>4. Cardinality(Ancestors(parent[t])) \in Nat
      BY <3>3, OneLonger
    <3>5. Cardinality(Ancestors(parent[t])) = n
      BY <3>1, <3>3, <3>4
    <3>6. parent[t] \in Level(r, n) /\ t \in Children(parent[t])
      BY <3>1, <3>3, <3>5 DEF Level, Children
    <3> QED
      BY <3>6
  <2>2. ASSUME NEW s \in Level(r, n), NEW t \in Children(s) PROVE t \in Level(r, n + 1)
    <3>1. t \in rows /\ parent[t] = s /\ s \in rows /\ r \in Ancestors(s)
          /\ Cardinality(Ancestors(s)) = n
      BY <2>2 DEF Level, Children
    <3>2. r \in Ancestors(t)
      BY <3>1, AncestorsOfChild
    <3>3. t # r
      BY <3>1, RowsFinite DEF Roots
    <3>4. Cardinality(Ancestors(t)) = Cardinality(Ancestors(s)) + 1
      BY <3>1, <3>2, <3>3, OneLonger
    <3> QED
      BY <3>1, <3>2, <3>4 DEF Level
  <2> QED
    BY <2>1, <2>2
<1> QED
  BY <1>4, <1>5

\* A step of the summary measures one more level.
LEMMA MeasuringStep ==
    ASSUME TypeOK, Measuring, Next
    PROVE  Measuring'
<1>1. UNCHANGED input
  BY DEF Next, NextSeed, Visit, ChooseCanonical, Classify, NoCanonical, Deepen
<1>2. CASE \E s \in rows : NextSeed(s) \/ Visit(s)
  BY <1>2 DEF Measuring, NextSeed, Visit
<1>3. CASE Classify \/ NoCanonical
  BY <1>3 DEF Measuring, Classify, NoCanonical
<1>4. ASSUME NEW r \in rows, ChooseCanonical(r) PROVE Measuring'
  <2>1. r \in Roots /\ canonical' = r /\ layer' = {r} /\ depth' = 1 /\ pc' = "depth"
    BY <1>4 DEF ChooseCanonical
  <2>2. Roots' = Roots
    BY <1>1, InputFixed
  <2>3. Level(r, 1)' = {r}
    BY <1>1, <2>1, Levels, LevelFixed
  <2>4. layer' = Level(canonical, depth)'
    BY <2>1, <2>3 DEF Level
  <2> QED
    BY <2>1, <2>2, <2>4 DEF Measuring
<1>5. CASE Deepen
  <2>1. /\ pc = "depth" /\ canonical' = canonical /\ depth \in Nat
        /\ layer' = UNION {Children(s) : s \in layer}
        /\ \/ layer' # {} /\ depth' = depth + 1 /\ pc' = "depth"
           \/ layer' = {} /\ pc' = "done" /\ depth' = depth
    BY <1>5 DEF Deepen, TypeOK
  <2>2. canonical \in Roots /\ depth >= 1 /\ layer = Level(canonical, depth) /\ layer # {}
    BY <2>1 DEF Measuring
  <2>3. depth \in Nat \ {0}
    BY <2>1, <2>2
  <2>4. layer' = Level(canonical, depth + 1)
    BY <2>1, <2>2, <2>3, Levels
  <2>5. Roots' = Roots /\ \A r, n : Level(r, n)' = Level(r, n)
    BY <1>1, InputFixed, LevelFixed
  <2>6. CASE layer' # {} /\ depth' = depth + 1 /\ pc' = "depth"
    <3>1. Level(canonical, depth)' = Level(canonical, depth + 1)
      BY <1>1, <2>1, <2>6, AncestorsFixed DEF Level, input
    <3>2. canonical' \in Roots' /\ depth' >= 1
      BY <2>1, <2>2, <2>3, <2>5, <2>6
    <3>3. pc' # "mark" /\ pc' # "canonical" /\ pc' # "done" /\ layer' = Level(canonical, depth)' /\ layer' # {}
      BY <2>4, <2>6, <3>1
    <3> QED
      BY <3>2, <3>3 DEF Measuring
  <2>7. CASE layer' = {} /\ pc' = "done" /\ depth' = depth
    <3>1. Level(canonical, depth)' = Level(canonical, depth) /\ Level(canonical, depth + 1)' = Level(canonical, depth + 1)
      BY <1>1, <2>1, <2>7, AncestorsFixed DEF Level, input
    <3>2. canonical' \in Roots' /\ depth' >= 1
      BY <2>1, <2>2, <2>5, <2>7
    <3>3. pc' # "mark" /\ pc' # "canonical" /\ pc' # "depth"
          /\ Level(canonical, depth)' # {} /\ Level(canonical, depth + 1)' = {}
      BY <2>2, <2>4, <2>7, <3>1
    <3> QED
      BY <3>2, <3>3 DEF Measuring
  <2> QED
    BY <2>1, <2>6, <2>7
<1> QED
  BY <1>2, <1>3, <1>4, <1>5 DEF Next

-----------------------------------------------------------------------------
(* the invariant *)

\* The initial states satisfy the invariant.
LEMMA InitInv == Init => IInv
<1> SUFFICES ASSUME Init PROVE IInv
  OBVIOUS
<1>1. TypeOK
  BY DEF Init, TypeOK, Seeds, Roots, Orphans
<1>2. Searching
  BY SeedHasChain DEF Init, Searching, Seeds
<1>3. Searched
  BY DEF Init, Searched
<1>4. Measuring
  BY DEF Init, Measuring
<1> QED
  BY <1>1, <1>2, <1>3, <1>4 DEF IInv

\* A step of the search preserves the invariant.
LEMMA SearchStep ==
    ASSUME IInv, NEW s \in rows, NextSeed(s) \/ Visit(s)
    PROVE  IInv'
<1>1. UNCHANGED input
  BY DEF NextSeed, Visit
<1>2. TypeOK'
  <2>1. CASE NextSeed(s)
    BY <2>1 DEF IInv, TypeOK, NextSeed, input
  <2>2. CASE Visit(s)
    BY <2>2 DEF IInv, TypeOK, Visit, input, Children
  <2> QED
    BY <2>1, <2>2
<1>3. Searching'
  <2>1. CASE NextSeed(s)
    BY <2>1, <1>1, InputFixed DEF IInv, Searching, NextSeed, input
  <2>2. CASE Visit(s)
    <3>1. Seeds' \subseteq seeds' \cup frontier' \cup visited'
      BY <2>2, <1>1, InputFixed DEF IInv, Searching, Visit
    <3>2. \A t \in visited' : Children(t)' \subseteq visited' \cup frontier'
      <4> TAKE t \in visited'
      <4>1. Children(t)' = Children(t)
        BY <1>1, InputFixed
      <4>2. CASE t \in visited
        BY <4>1, <4>2, <2>2 DEF IInv, Searching, Visit
      <4>3. CASE t \notin visited
        BY <4>1, <4>3, <2>2 DEF Visit
      <4> QED
        BY <4>2, <4>3
    <3>3. \A t \in visited \cup frontier' : HasChain(t)
      BY <2>2, ChildHasChain DEF IInv, Searching, Visit
    <3>4. \A t \in visited' \cup frontier' : HasChain(t)'
      BY <2>2, <3>3, <1>1, InputFixed DEF IInv, Searching, Visit
    <3>5. \A t \in seeds' : t \in Seeds' /\ HasChain(t)'
      BY <2>2, <1>1, InputFixed DEF IInv, Searching, Visit
    <3>6. \A t \in visited' \cup frontier' : t \in Seeds' \/ parent'[t] \in visited'
      BY <2>2, <1>1, InputFixed DEF IInv, Searching, Visit, Children, input
    <3> QED
      BY <3>1, <3>2, <3>4, <3>5, <3>6 DEF Searching
  <2> QED
    BY <2>1, <2>2
<1>4. Searched'
  BY DEF NextSeed, Visit, Searched
<1>5. Measuring'
  BY MeasuringStep DEF IInv, Next
<1> QED
  BY <1>2, <1>3, <1>4, <1>5 DEF IInv

\* A step after the search preserves the invariant.
LEMMA SummaryStep ==
    ASSUME IInv,
           Classify \/ NoCanonical \/ Deepen \/ (\E s \in rows : ChooseCanonical(s))
    PROVE  IInv'
<1>1. UNCHANGED <<input, seeds, frontier, visited>>
  BY DEF Classify, NoCanonical, Deepen, ChooseCanonical
<1>2. TypeOK'
  <2>1. CASE Classify
    BY <2>1 DEF IInv, TypeOK, Classify, ClassOf, Classes, input
  <2>2. CASE NoCanonical
    BY <2>2 DEF IInv, TypeOK, NoCanonical, input
  <2>3. CASE Deepen
    BY <2>3 DEF IInv, TypeOK, Deepen, Children, input
  <2>4. CASE \E s \in rows : ChooseCanonical(s)
    BY <2>4 DEF IInv, TypeOK, ChooseCanonical, input
  <2> QED
    BY <2>1, <2>2, <2>3, <2>4
<1>3. Searching'
  BY <1>1, InputFixed DEF IInv, Searching, input
<1>4. \A s : ClassOf(s)' = ClassOf(s)
  BY <1>1, InputFixed DEF ClassOf
<1>5. Searched'
  <2>1. CASE Classify
    BY <2>1, <1>4 DEF Classify, Searched, input
  <2>2. CASE ~Classify
    BY <2>2, <1>1, <1>4
       DEF IInv, NoCanonical, Deepen, ChooseCanonical, Searched, input
  <2> QED
    BY <2>1, <2>2
<1>6. Measuring'
  BY MeasuringStep DEF IInv, Next
<1> QED
  BY <1>2, <1>3, <1>5, <1>6 DEF IInv

\* The invariant is inductive, and holds in every reachable state.
THEOREM Inductive == Spec => []IInv
<1>1. IInv /\ [Next]_vars => IInv'
  <2> SUFFICES ASSUME IInv, [Next]_vars PROVE IInv'
    OBVIOUS
  <2>1. CASE Next
    BY <2>1, SearchStep, SummaryStep DEF Next
  <2>2. CASE UNCHANGED vars
    <3>1. UNCHANGED <<input, pc, seeds, frontier, visited, canonical, layer, depth, class>>
      BY <2>2 DEF vars, input
    <3>2. TypeOK'
      BY <3>1 DEF IInv, TypeOK, input
    <3>3. Searching'
      BY <3>1, InputFixed DEF IInv, Searching, input
    <3>4. Searched'
      BY <3>1, InputFixed DEF IInv, Searched, ClassOf, input
    <3>5. Measuring'
      BY <3>1, InputFixed, LevelFixed DEF IInv, Measuring
    <3> QED
      BY <3>2, <3>3, <3>4, <3>5 DEF IInv
  <2> QED
    BY <2>1, <2>2
<1> QED
  BY InitInv, <1>1, PTL DEF Spec

\* Every variable has its type.
THEOREM TypeCorrect == Spec => []TypeOK
<1>1. IInv => TypeOK
  BY DEF IInv
<1> QED
  BY <1>1, Inductive, PTL

-----------------------------------------------------------------------------
(* the classification *)

\* A rejected span hangs on a rejected span, and an accepted one is a root or
\* hangs on one that is not rejected.
LEMMA RejectedRight == IInv => RejectedHaveNoEnd
<1> SUFFICES ASSUME IInv, pc # "mark", NEW s \in rows
             PROVE  /\ class[s] = "cycle_rejected" =>
                         parent[s] \in rows /\ class[parent[s]] = "cycle_rejected"
                    /\ class[s] = "ok" =>
                         s \in Roots \/ (parent[s] \in rows /\ class[parent[s]] # "cycle_rejected")
  BY DEF RejectedHaveNoEnd
<1>1. \A t \in rows : class[t] = ClassOf(t)
  BY DEF IInv, Searched
<1>2. Seeds \subseteq visited
  BY DEF IInv, Searching, Searched
<1>3. \A t \in visited : Children(t) \subseteq visited
  BY DEF IInv, Searching, Searched
<1>4. ASSUME class[s] = "cycle_rejected"
      PROVE  parent[s] \in rows /\ class[parent[s]] = "cycle_rejected"
  <2>1. s \notin visited /\ s \notin Seeds
    BY <1>1, <1>2, <1>4 DEF ClassOf
  <2>2. parent[s] \in rows
    BY <2>1 DEF Seeds, Roots, Orphans
  <2>3. s \in Children(parent[s])
    BY DEF Children
  <2>4. parent[s] \notin visited
    BY <2>1, <2>3, <1>3
  <2>5. parent[s] \notin Orphans
    BY <2>4, <1>2 DEF Seeds
  <2> QED
    BY <2>2, <2>4, <2>5, <1>1 DEF ClassOf
<1>5. ASSUME class[s] = "ok", s \notin Roots
      PROVE  parent[s] \in rows /\ class[parent[s]] # "cycle_rejected"
  <2>1. s \in visited /\ s \notin Orphans
    BY <1>1, <1>5 DEF ClassOf
  <2>2. parent[s] \in visited /\ parent[s] \in rows
    BY <2>1, <1>5 DEF IInv, Searching, TypeOK, Seeds
  <2> QED
    BY <2>2, <1>1 DEF ClassOf
<1> QED
  BY <1>4, <1>5

\* So the chain of parents of a rejected span never leaves the rejected ones and
\* has no end.
THEOREM RejectionIsForever == Spec => []RejectedHaveNoEnd
BY RejectedRight, Inductive, PTL

\* An accepted span has a finite chain of parents that ends at a root or at an
\* orphan.
THEOREM AcceptedHaveChain ==
    Spec => [](pc # "mark" => \A s \in rows : class[s] = "ok" => HasChain(s))
<1> DEFINE Accepted == pc # "mark" => \A s \in rows : class[s] = "ok" => HasChain(s)
<1>1. IInv => Accepted
  BY DEF IInv, Searching, Searched, ClassOf
<1>2. Spec => []Accepted
  BY <1>1, Inductive, PTL
<1> QED
  BY <1>2

\* Once the search is over the visited spans are those that bottom out.
LEMMA VisitedBottomOut ==
    ASSUME IInv, pc # "mark", NEW s \in rows
    PROVE  s \in visited <=> BottomsOut(s)
<1>1. TypeOK /\ visited \subseteq rows
  BY DEF IInv, TypeOK
<1>2. /\ Seeds \subseteq visited
      /\ \A t \in visited : Children(t) \subseteq visited
      /\ \A t \in visited : HasChain(t)
  BY DEF IInv, Searching, Searched
<1>3. ASSUME s \in visited PROVE BottomsOut(s)
  BY <1>1, <1>2, <1>3, ChainBottomsOut
<1>4. ASSUME s \notin visited PROVE ~BottomsOut(s)
  <2>1. ASSUME NEW t \in rows \ visited, parent[t] \in rows
        PROVE  parent[t] \notin visited
    BY <1>2, <2>1 DEF Children
  <2>2. Upward(rows \ visited)
    BY <2>1 DEF Upward, ParentsOf
  <2>3. Ancestors(s) \subseteq rows \ visited
    BY <1>1, <1>4, <2>2, AncestorsLeast
  <2> QED
    BY <2>3, <1>2 DEF BottomsOut, Seeds
<1> QED
  BY <1>3, <1>4

\* The classes written are those of the chains of parents.
LEMMA Classified == IInv => ClassifiedByChain
<1> SUFFICES ASSUME IInv, pc # "mark", NEW s \in rows
             PROVE  class[s] = IF s \in Orphans THEN "orphan_missing_parent"
                               ELSE IF BottomsOut(s) THEN "ok" ELSE "cycle_rejected"
  BY DEF ClassifiedByChain
<1>1. class[s] = ClassOf(s)
  BY DEF IInv, Searched
<1> QED
  BY <1>1, VisitedBottomOut DEF ClassOf

\* The reason is empty when there is one root, no orphan and nothing rejected.
LEMMA OneTree == IInv => CompleteIsOneTree
<1> SUFFICES ASSUME IInv, pc = "done"
             PROVE  Complete <=> \E r \in Roots : \A s \in rows : r \in Ancestors(s)
  BY DEF CompleteIsOneTree
<1>1. TypeOK /\ \A s \in rows : class[s] = IF s \in Orphans THEN "orphan_missing_parent"
                                         ELSE IF BottomsOut(s) THEN "ok" ELSE "cycle_rejected"
  BY Classified DEF IInv, ClassifiedByChain
<1>2. Roots \in SUBSET rows /\ Roots \cap Orphans = {}
  BY DEF Roots, Orphans
<1>3. IsFiniteSet(Roots) /\ Cardinality(Roots) \in Nat
  BY <1>1, <1>2, RowsFinite
<1>4. Complete <=> /\ Roots # {} /\ ~(Cardinality(Roots) > 1) /\ Orphans = {}
                   /\ \A s \in rows : class[s] # "cycle_rejected"
  BY DEF Complete, Reason
<1>5. (Roots # {} /\ ~(Cardinality(Roots) > 1)) <=> \E r : Roots = {r}
  <2>1. Cardinality(Roots) = 0 <=> Roots = {}
    BY <1>3, FS_EmptySet
  <2>2. Cardinality(Roots) = 1 <=> \E r : Roots = {r}
    BY <1>3, FS_Singleton
  <2>3. (Roots # {} /\ ~(Cardinality(Roots) > 1)) <=> Cardinality(Roots) = 1
    <3> HIDE DEF Roots
    <3> QED
      BY <1>3, <2>1
  <2> QED
    BY <2>2, <2>3
<1>6. ASSUME Complete PROVE \E r \in Roots : \A s \in rows : r \in Ancestors(s)
  <2>1. PICK r : Roots = {r}
    BY <1>4, <1>5, <1>6
  <2>2. Orphans = {} /\ \A s \in rows : class[s] # "cycle_rejected"
    BY <1>4, <1>6
  <2>3. \A s \in rows : BottomsOut(s)
    BY <1>1, <2>2
  <2> QED
    BY <2>1, <2>2, <2>3 DEF BottomsOut
<1>7. ASSUME NEW r \in Roots, \A s \in rows : r \in Ancestors(s) PROVE Complete
  <2>1. \A q \in Roots \cup Orphans : q = r
    BY <1>1, <1>7, SeedIsAlone
  <2>2. Roots = {r} /\ Orphans = {}
    BY <1>2, <2>1
  <2>3. \A s \in rows : BottomsOut(s)
    BY <1>7 DEF BottomsOut
  <2>4. \A s \in rows : class[s] # "cycle_rejected"
    BY <1>1, <2>3
  <2> QED
    BY <1>4, <1>5, <2>2, <2>4
<1> QED
  BY <1>6, <1>7

\* What the last level leaves out has no longer chain.
LEMMA DepthIsRight == TypeOK /\ Measuring => DepthIsLongestChain
<1> SUFFICES ASSUME TypeOK, Measuring, pc = "done", canonical # NoParent
             PROVE  depth = Max({Cardinality(Ancestors(s)) :
                                   s \in {t \in rows : canonical \in Ancestors(t)}})
  BY DEF DepthIsLongestChain
<1> DEFINE Lengths == {Cardinality(Ancestors(s)) : s \in {t \in rows : canonical \in Ancestors(t)}}
<1>1. /\ canonical \in Roots /\ depth >= 1 /\ depth \in Nat
      /\ Level(canonical, depth) # {} /\ Level(canonical, depth + 1) = {}
  BY DEF Measuring, TypeOK
<1>2. depth \in Lengths
  BY <1>1 DEF Level
<1>3. \A n \in Lengths : n \in Nat
  BY <1>1, OneLonger
<1> DEFINE Empty == {n \in Nat : Level(canonical, depth + 1 + n) = {}}
<1>4. 0 \in Empty
  <2>1. depth + 1 + 0 = depth + 1
    BY <1>1
  <2> QED
    BY <1>1, <2>1
<1>5. ASSUME NEW n \in Nat, n \in Empty PROVE n + 1 \in Empty
  <2>1. depth + 1 + n \in Nat \ {0} /\ depth + 1 + (n + 1) = (depth + 1 + n) + 1
    BY <1>1
  <2>2. Level(canonical, depth + 1 + n) = {}
    BY <1>5
  <2>3. Level(canonical, (depth + 1 + n) + 1) = {}
    BY <1>1, <2>1, <2>2, Levels
  <2> QED
    BY <2>1, <2>3
<1>6. Nat \subseteq Empty
  <2> HIDE DEF Empty
  <2> QED
    BY <1>4, <1>5, SetInduction
<1>7. ASSUME NEW n \in Lengths PROVE depth >= n
  <2>1. PICK t \in rows : canonical \in Ancestors(t) /\ n = Cardinality(Ancestors(t))
    OBVIOUS
  <2>2. t \in Level(canonical, n) /\ n \in Nat
    BY <2>1, <1>3 DEF Level
  <2> SUFFICES ASSUME ~(depth >= n) PROVE FALSE
    OBVIOUS
  <2>3. n - (depth + 1) \in Nat /\ n = depth + 1 + (n - (depth + 1))
    BY <1>1, <2>2
  <2>4. Level(canonical, depth + 1 + (n - (depth + 1))) = {}
    BY <1>6, <2>3
  <2> QED
    BY <2>2, <2>3, <2>4
<1> HIDE DEF Lengths
<1>8. Max(Lengths) \in Lengths /\ \A n \in Lengths : Max(Lengths) >= n
  BY <1>2, <1>7 DEF Max
<1>9. depth = Max(Lengths)
  <2>1. Max(Lengths) \in Nat /\ Max(Lengths) >= depth /\ depth >= Max(Lengths)
    BY <1>2, <1>3, <1>7, <1>8
  <2> QED
    BY <1>1, <2>1
<1> QED
  BY <1>9 DEF Lengths

-----------------------------------------------------------------------------
(* edges and services *)

\* The calls of all services are added up by Total.
LEMMA ServiceSum ==
    ASSUME TypeOK
    PROVE  MapThenSumSet(ServiceCalls, Services) = Cardinality(rows)
<1> DEFINE w == [s \in Services |-> ServiceCalls(s)]
           Level0(i) == [s \in SUBSET Services |->
                           IF s = {} THEN 0 ELSE ServiceCalls(AnyOf(s)) + i[s \ {AnyOf(s)}]]
           it == CHOOSE i : i = Level0(i)
<1>0. IsFiniteSet(rows) /\ IsFiniteSet(Services) /\ Services \in SUBSET Services
  BY RowsFinite, ReassemblyAssumption
<1>1. \A s \in Services : ServiceCalls(s) \in Nat
  <2> TAKE s \in Services
  <2>1. {r \in rows : service[r] = s} \in SUBSET rows
    OBVIOUS
  <2> QED
    BY <2>1, RowsFinite DEF ServiceCalls
<1>2. w \in [Services -> Int]
  BY <1>1
<1>3. MapThenSumSet(ServiceCalls, Services) = it[Services]
  BY DEF MapThenSumSet, MapThenFoldSet, AnyOf
<1>4. \A i : Level0(i) = AddLevel(i, Services, w)
  <2> TAKE i
  <2>1. \A s \in SUBSET Services : s # {} => w[AnyOf(s)] = ServiceCalls(AnyOf(s))
    BY AnyOfIn
  <2> HIDE DEF w
  <2> QED
    BY <2>1 DEF AddLevel
<1> HIDE DEF Level0, w
<1>5. PICK i \in [SUBSET Services -> Int] : AddsUp(i, Services, w)
  BY <1>0, <1>2, SumExists
<1>6. i = Level0(i)
  BY <1>4, <1>5 DEF AddsUp
<1>7. it = Level0(it)
  BY <1>6
<1> HIDE DEF it
<1>8. AddsUp(it, Services, w)
  BY <1>4, <1>7 DEF AddsUp
<1>9. Total(Services, w) = it[Services]
  BY <1>0, <1>2, <1>8, TotalOf
<1>10. service \in [rows -> Services]
  BY DEF TypeOK
<1>11. \A x \in Services : w[x] = Cardinality({r \in rows : service[r] = x})
  BY DEF w, ServiceCalls
<1>12. Total(Services, w) = Cardinality(rows)
  BY <1>0, <1>2, <1>10, <1>11, TotalCounts
<1> QED
  BY <1>3, <1>9, <1>12

\* The calls of all edges are the pairs.
LEMMA EdgeSum ==
    ASSUME TypeOK, IsFiniteSet(Pairs)
    PROVE  MapThenSumSet(LAMBDA e : EdgeCalls(e[1], e[2]), Services \X Services)
             = Cardinality(Pairs)
<1> DEFINE U == Services \X Services
           w == [e \in U |-> EdgeCalls(e[1], e[2])]
           Level0(i) == [s \in SUBSET U |->
                           IF s = {} THEN 0
                           ELSE EdgeCalls(AnyOf(s)[1], AnyOf(s)[2]) + i[s \ {AnyOf(s)}]]
           it == CHOOSE i : i = Level0(i)
           g == [p \in Pairs |-> <<service[p[1]], service[p[2]]>>]
<1>0. IsFiniteSet(U) /\ U \in SUBSET U
  BY ReassemblyAssumption, FS_Product
<1>1. \A a, b \in Services : EdgeCalls(a, b) \in Nat
  <2> TAKE a, b \in Services
  <2> DEFINE Q == {p \in Pairs : service[p[1]] = a /\ service[p[2]] = b}
  <2>1. Q \in SUBSET Pairs
    OBVIOUS
  <2> HIDE DEF Q
  <2>2. Cardinality(Q) \in Nat
    BY <2>1, FS_Subset, FS_CardinalityType
  <2> QED
    BY <2>2 DEF EdgeCalls, Q
<1>2. w \in [U -> Int]
  BY <1>1
<1>3. MapThenSumSet(LAMBDA e : EdgeCalls(e[1], e[2]), U) = it[U]
  BY DEF MapThenSumSet, MapThenFoldSet, AnyOf
<1>4. \A i : Level0(i) = AddLevel(i, U, w)
  <2> TAKE i
  <2>1. \A s \in SUBSET U : s # {} => w[AnyOf(s)] = EdgeCalls(AnyOf(s)[1], AnyOf(s)[2])
    <3> TAKE s \in SUBSET U
    <3> HAVE s # {}
    <3>1. AnyOf(s) \in U
      BY AnyOfIn
    <3> HIDE DEF U
    <3> QED
      BY <3>1
  <2> HIDE DEF w, U
  <2> QED
    BY <2>1 DEF AddLevel
<1>10. g \in [Pairs -> U]
  BY DEF TypeOK, Pairs
<1>11. \A x \in U : w[x] = Cardinality({p \in Pairs : g[p] = x})
  <2> TAKE x \in U
  <2>1. {p \in Pairs : g[p] = x} = {p \in Pairs : service[p[1]] = x[1] /\ service[p[2]] = x[2]}
    OBVIOUS
  <2>2. w[x] = EdgeCalls(x[1], x[2])
    OBVIOUS
  <2> QED
    BY <2>1, <2>2 DEF EdgeCalls
<1> HIDE DEF Level0, w, U, g
<1>5. PICK i \in [SUBSET U -> Int] : AddsUp(i, U, w)
  BY <1>0, <1>2, SumExists
<1>6. i = Level0(i)
  BY <1>4, <1>5 DEF AddsUp
<1>7. it = Level0(it)
  BY <1>6
<1> HIDE DEF it
<1>8. AddsUp(it, U, w)
  BY <1>4, <1>7 DEF AddsUp
<1>9. Total(U, w) = it[U]
  BY <1>0, <1>2, <1>8, TotalOf
<1>12. Total(U, w) = Cardinality(Pairs)
  BY <1>0, <1>2, <1>10, <1>11, TotalCounts
<1> QED
  BY <1>3, <1>9, <1>12 DEF U

\* Every row is a root, an orphan or the callee of one pair.
LEMMA PairsAreTheRest ==
    ASSUME TypeOK
    PROVE  /\ IsFiniteSet(Pairs)
           /\ Cardinality(Pairs) = Cardinality(rows) - Cardinality(Roots) - Cardinality(Orphans)
<1> DEFINE Attached == {d \in rows : parent[d] \in rows}
           f == [d \in Attached |-> <<parent[d], d>>]
<1>1. IsFiniteSet(rows) /\ NoParent \notin rows
  BY RowsFinite
<1>2. /\ IsFiniteSet(Attached) /\ Cardinality(Attached) \in Nat
      /\ IsFiniteSet(Roots) /\ Cardinality(Roots) \in Nat
      /\ IsFiniteSet(Orphans) /\ Cardinality(Orphans) \in Nat
  <2>1. Attached \in SUBSET rows /\ Roots \in SUBSET rows /\ Orphans \in SUBSET rows
    BY DEF Roots, Orphans
  <2> QED
    BY <1>1, <2>1, RowsFinite
<1>3. f \in Bijection(Attached, Pairs)
  <2>1. f \in [Attached -> Pairs]
    BY DEF Pairs
  <2>2. \A a, b \in Attached : f[a] = f[b] => a = b
    OBVIOUS
  <2>3. \A p \in Pairs : \E a \in Attached : f[a] = p
    BY DEF Pairs
  <2> HIDE DEF f, Attached
  <2> QED
    BY <2>1, <2>2, <2>3, Fun_IsBij
<1>4. ExistsBijection(Attached, Pairs)
  BY <1>3 DEF ExistsBijection
<1>5. IsFiniteSet(Pairs) /\ Cardinality(Pairs) = Cardinality(Attached)
  <2> HIDE DEF Attached
  <2> QED
    BY <1>2, <1>4, FS_Bijection
<1>6. /\ rows = (Roots \cup Orphans) \cup Attached
      /\ Roots \cap Orphans = {} /\ (Roots \cup Orphans) \cap Attached = {}
  BY <1>1 DEF Roots, Orphans
<1> HIDE DEF Attached
<1>7. Cardinality(Roots \cup Orphans) = Cardinality(Roots) + Cardinality(Orphans)
      /\ IsFiniteSet(Roots \cup Orphans)
  <2>1. Cardinality(Roots \cup Orphans)
          = Cardinality(Roots) + Cardinality(Orphans) - Cardinality({})
        /\ IsFiniteSet(Roots \cup Orphans)
    BY <1>2, <1>6, FS_Union
  <2> QED
    BY <1>2, <2>1, FS_EmptySet
<1>8. Cardinality(rows) = Cardinality(Roots \cup Orphans) + Cardinality(Attached)
  <2>1. Cardinality(rows)
          = Cardinality(Roots \cup Orphans) + Cardinality(Attached) - Cardinality({})
    BY <1>2, <1>6, <1>7, FS_Union
  <2> QED
    BY <1>2, <1>7, <2>1, FS_EmptySet
<1> QED
  BY <1>2, <1>5, <1>7, <1>8

\* Edges count every call once, services every row.
LEMMA CallsRight == TypeOK => CallsConserved
<1> SUFFICES ASSUME TypeOK PROVE CallsConserved
  OBVIOUS
<1>1. IsFiniteSet(Pairs)
      /\ Cardinality(Pairs) = Cardinality(rows) - Cardinality(Roots) - Cardinality(Orphans)
  BY PairsAreTheRest
<1>2. MapThenSumSet(ServiceCalls, Services) = Cardinality(rows)
  BY ServiceSum
<1>3. MapThenSumSet(LAMBDA e : EdgeCalls(e[1], e[2]), Services \X Services)
        = Cardinality(Pairs)
  BY <1>1, EdgeSum
<1> QED
  BY <1>1, <1>2, <1>3 DEF CallsConserved

-----------------------------------------------------------------------------
(* the depths of the evaluation *)

\* Depths known of some of the services.
Depths == UNION {[known -> Nat] : known \in SUBSET Services}

\* The services called from some.
Beyond(edges, known) == {e[2] : e \in {f \in edges : f[1] \in known}}

\* One more hop: the callees of the services known are n away, unless known.
Farther(edges, f, n) ==
    [s \in DOMAIN f \cup Beyond(edges, DOMAIN f) |-> IF s \in DOMAIN f THEN f[s] ELSE n]

\* The recursion of ComputeDepths.
IsWave(w, edges) ==
    /\ w \in [0..Cardinality(Services) -> Depths]
    /\ w[0] = [s \in Sources(edges) |-> 0]
    /\ \A n \in 1..Cardinality(Services) : w[n] = Farther(edges, w[n - 1], n)

\* A further round gives depths to services.
LEMMA FartherType ==
    ASSUME NEW edges \in SUBSET (Services \X Services), NEW f \in Depths, NEW n \in Nat
    PROVE  Farther(edges, f, n) \in Depths
<1>1. PICK known \in SUBSET Services : f \in [known -> Nat]
  BY DEF Depths
<1>2. known \cup Beyond(edges, known) \in SUBSET Services
  BY DEF Beyond
<1>3. Farther(edges, f, n) \in [known \cup Beyond(edges, known) -> Nat]
  BY <1>1, <1>2 DEF Farther
<1> QED
  BY <1>2, <1>3 DEF Depths

\* compute_depths is such a wave.
LEMMA DepthsWave ==
    ASSUME NEW edges \in SUBSET (Services \X Services)
    PROVE  \E w : IsWave(w, edges) /\ ComputeDepths(edges) = w[Cardinality(Services)]
<1> DEFINE C == Cardinality(Services)
           zero == [s \in Sources(edges) |-> 0]
           V == Nat \X Depths
           advance == [x \in V |-> <<x[1] + 1, Farther(edges, x[2], x[1] + 1)>>]
           Unfolds(w) == w = [n \in 0..C |-> IF n = 0 THEN zero ELSE Farther(edges, w[n - 1], n)]
<1>0. C \in Nat
  BY ReassemblyAssumption, FS_CardinalityType
<1>1. zero \in Depths
  <2>1. Sources(edges) \in SUBSET Services
    BY DEF Sources, Callers, Called
  <2>2. zero \in [Sources(edges) -> Nat]
    OBVIOUS
  <2> QED
    BY <2>1, <2>2 DEF Depths
<1>2. \A x \in V : <<x[1] + 1, Farther(edges, x[2], x[1] + 1)>> \in V
  <2> TAKE x \in V
  <2>1. x[1] + 1 \in Nat /\ x[2] \in Depths
    OBVIOUS
  <2>2. Farther(edges, x[2], x[1] + 1) \in Depths
    BY <2>1, FartherType
  <2> QED
    BY <2>1, <2>2
<1>3. advance \in [V -> V] /\ <<0, zero>> \in V
  <2>1. <<0, zero>> \in V
    BY <1>1
  <2> HIDE DEF V
  <2> QED
    BY <2>1, <1>2
<1>4. PICK h : Iterates(h, V, advance, <<0, zero>>)
  <2> HIDE DEF V, advance, zero
  <2> QED
    BY <1>3, Iteration
<1>5. h \in [Nat -> V] /\ h[0] = <<0, zero>> /\ \A n \in Nat : h[n + 1] = advance[h[n]]
  BY <1>4 DEF Iterates
<1>6. \A n \in Nat : h[n] \in V /\ h[n + 1] = <<h[n][1] + 1, Farther(edges, h[n][2], h[n][1] + 1)>>
  <2> TAKE n \in Nat
  <2>1. h[n] \in V
    BY <1>5
  <2>2. h[n + 1] = advance[h[n]]
    BY <1>5
  <2>3. advance[h[n]] = <<h[n][1] + 1, Farther(edges, h[n][2], h[n][1] + 1)>>
    <3> HIDE DEF V
    <3> QED
      BY <2>1
  <2> HIDE DEF advance, V
  <2> QED
    BY <2>1, <2>2, <2>3
<1>7. \A n \in Nat : h[n][1] = n
  <2> DEFINE Counted == {n \in Nat : h[n][1] = n}
  <2>1. 0 \in Counted
    BY <1>5
  <2>2. ASSUME NEW n \in Nat, n \in Counted PROVE n + 1 \in Counted
    <3>1. h[n + 1][1] = h[n][1] + 1
      BY <1>6
    <3> QED
      BY <2>2, <3>1
  <2>3. Nat \subseteq Counted
    <3> HIDE DEF Counted
    <3> QED
      BY <2>1, <2>2, SetInduction
  <2> QED
    BY <2>3
<1>8. \A n \in Nat : h[n][2] \in Depths /\ h[n + 1][2] = Farther(edges, h[n][2], n + 1)
  BY <1>6, <1>7
<1>9. h[0][2] = zero
  BY <1>5
<1> DEFINE w0 == [n \in 0..C |-> h[n][2]]
<1>10. Unfolds(w0)
  <2>1. \A n \in 0..C : w0[n] = IF n = 0 THEN zero ELSE Farther(edges, w0[n - 1], n)
    <3> TAKE n \in 0..C
    <3>1. CASE n = 0
      BY <3>1, <1>9
    <3>2. CASE n # 0
      <4>1. n - 1 \in 0..C /\ n - 1 \in Nat /\ (n - 1) + 1 = n
        BY <3>2, <1>0
      <4>2. w0[n] = h[n][2] /\ w0[n - 1] = h[n - 1][2]
        BY <4>1
      <4>3. h[(n - 1) + 1][2] = Farther(edges, h[n - 1][2], (n - 1) + 1)
        BY <4>1, <1>8
      <4> HIDE DEF w0, zero
      <4> QED
        BY <3>2, <4>1, <4>2, <4>3
    <3> QED
      BY <3>1, <3>2
  <2>2. w0 = [n \in 0..C |-> w0[n]]
    OBVIOUS
  <2> HIDE DEF w0, C, zero
  <2> QED
    BY <2>1, <2>2
<1> DEFINE w1 == CHOOSE w : Unfolds(w)
<1>11. Unfolds(w1)
  <2> HIDE DEF Unfolds, w0
  <2> QED
    BY <1>10
<1>12. ComputeDepths(edges) = w1[C]
  BY DEF ComputeDepths, Farther, Beyond
<1> HIDE DEF w1
<1>13. w1[0] = zero /\ \A n \in 1..C : w1[n] = Farther(edges, w1[n - 1], n)
  <2>0. \A n \in 0..C : w1[n] = IF n = 0 THEN zero ELSE Farther(edges, w1[n - 1], n)
    <3> HIDE DEF zero
    <3> QED
      BY <1>11
  <2>1. 0 \in 0..C /\ \A n \in 1..C : n \in 0..C /\ n # 0
    BY <1>0
  <2> HIDE DEF Unfolds, C, zero
  <2>2. w1[0] = zero
    BY <2>0, <2>1
  <2>3. \A n \in 1..C : w1[n] = Farther(edges, w1[n - 1], n)
    BY <2>0, <2>1
  <2> QED
    BY <2>2, <2>3
<1>14. \A n \in 0..C : w1[n] = h[n][2]
  <2> DEFINE Same == {n \in Nat : n <= C => w1[n] = h[n][2]}
  <2>1. 0 \in Same
    <3>1. w1[0] = h[0][2]
      BY <1>9, <1>13
    <3> QED
      BY <3>1
  <2>2. ASSUME NEW n \in Nat, n \in Same PROVE n + 1 \in Same
    <3>1. CASE n + 1 <= C
      <4>1. n + 1 \in 1..C /\ n <= C /\ (n + 1) - 1 = n
        BY <3>1, <1>0
      <4>2. w1[n] = h[n][2]
        BY <2>2, <4>1
      <4>3. w1[n + 1] = Farther(edges, w1[n], n + 1)
        BY <4>1, <1>13
      <4>4. h[n + 1][2] = Farther(edges, h[n][2], n + 1)
        BY <1>8
      <4>5. w1[n + 1] = h[n + 1][2]
        BY <4>2, <4>3, <4>4
      <4> QED
        BY <4>5
    <3>2. CASE ~(n + 1 <= C)
      BY <3>2
    <3> QED
      BY <3>1, <3>2
  <2>3. Nat \subseteq Same
    <3> HIDE DEF Same
    <3> QED
      BY <2>1, <2>2, SetInduction
  <2> QED
    BY <2>3
<1>15. w1 \in [0..C -> Depths]
  <2>1. w1 = [n \in 0..C |-> w1[n]]
    <3> HIDE DEF zero
    <3>1. DOMAIN w1 = 0..C
      BY <1>11
    <3> QED
      BY <1>11, <3>1
  <2>2. \A n \in 0..C : w1[n] \in Depths
    BY <1>8, <1>14, <1>0
  <2> HIDE DEF Unfolds
  <2> QED
    BY <2>1, <2>2
<1> QED
  BY <1>12, <1>13, <1>15 DEF IsWave

\* After n hops every service known has its distance, if that is at most n, and
\* every service nearer than that is known; each hop has found one more service
\* or none is left to find.
Layered(f, edges, n) ==
    /\ f \in Depths /\ Sources(edges) \subseteq DOMAIN f
    /\ \A s \in DOMAIN f : f[s] \in Nat /\ f[s] <= n
    /\ \A s \in Sources(edges) : f[s] = 0
    /\ \A s \in DOMAIN f \ Sources(edges) :
          \E e \in edges : e[2] = s /\ e[1] \in DOMAIN f /\ f[s] = f[e[1]] + 1
    /\ \A e \in edges : e[1] \in DOMAIN f /\ e[2] \in DOMAIN f => f[e[2]] <= f[e[1]] + 1
    /\ \A e \in edges : e[1] \in DOMAIN f /\ f[e[1]] < n => e[2] \in DOMAIN f
    /\ Beyond(edges, DOMAIN f) \subseteq DOMAIN f \/ Cardinality(DOMAIN f) > n

\* The services that have a depth are finitely many.
LEMMA DepthsDomain ==
    ASSUME NEW f \in Depths
    PROVE  /\ DOMAIN f \in SUBSET Services /\ IsFiniteSet(DOMAIN f)
           /\ Cardinality(DOMAIN f) \in Nat
           /\ Cardinality(DOMAIN f) <= Cardinality(Services)
           /\ \A s \in DOMAIN f : f[s] \in Nat
<1>1. DOMAIN f \in SUBSET Services /\ \A s \in DOMAIN f : f[s] \in Nat
  BY DEF Depths
<1> QED
  BY <1>1, ReassemblyAssumption, FS_Subset, FS_CardinalityType

\* Before the first round only the sources have a depth, and it is 0.
LEMMA LayeredStart ==
    ASSUME NEW edges \in SUBSET (Services \X Services)
    PROVE  Layered([s \in Sources(edges) |-> 0], edges, 0)
<1> DEFINE f == [s \in Sources(edges) |-> 0]
<1>1. Sources(edges) \in SUBSET Services
  BY DEF Sources, Callers, Called
<1>2. f \in [Sources(edges) -> Nat] /\ DOMAIN f = Sources(edges) /\ \A s \in Sources(edges) : f[s] = 0
  OBVIOUS
<1>3. f \in Depths
  BY <1>1, <1>2 DEF Depths
<1> HIDE DEF f
<1>4. \A e \in edges : ~(e[2] \in Sources(edges))
  BY DEF Sources, Called
<1>5. Beyond(edges, DOMAIN f) \subseteq DOMAIN f \/ Cardinality(DOMAIN f) > 0
  <2>1. CASE DOMAIN f = {}
    BY <2>1 DEF Beyond
  <2>2. CASE DOMAIN f # {}
    <3>1. IsFiniteSet(DOMAIN f) /\ Cardinality(DOMAIN f) \in Nat
      BY <1>3, DepthsDomain
    <3>2. Cardinality(DOMAIN f) # 0
      BY <2>2, <3>1, FS_EmptySet
    <3> QED
      BY <3>1, <3>2
  <2> QED
    BY <2>1, <2>2
<1>6. \A s \in DOMAIN f : f[s] \in Nat /\ f[s] <= 0 /\ ~(f[s] < 0)
  BY <1>2
<1>7. Layered(f, edges, 0)
  BY <1>2, <1>3, <1>4, <1>5, <1>6 DEF Layered
<1> QED
  BY <1>7 DEF f

\* A round gives the next depth to the services one call away.
LEMMA LayeredStep ==
    ASSUME NEW edges \in SUBSET (Services \X Services), NEW n \in Nat, NEW m \in Nat, m = n + 1,
           NEW f \in Depths, Layered(f, edges, n)
    PROVE  Layered(Farther(edges, f, m), edges, m)
<1> DEFINE D == DOMAIN f
           N == Beyond(edges, D) \ D
           g == Farther(edges, f, m)
<1>1. g \in Depths
  BY FartherType
<1>2. /\ DOMAIN g = D \cup N /\ D \cap N = {}
      /\ \A s \in D : g[s] = f[s]
      /\ \A s \in N : g[s] = m
  BY DEF Farther
<1>3. \A s \in D : f[s] \in Nat /\ f[s] <= n
  BY DEF Layered
<1>4. ASSUME NEW s \in N PROVE s \notin Sources(edges)
  BY DEF Beyond, Sources, Called
<1>5. Sources(edges) \subseteq D /\ \A s \in Sources(edges) : f[s] = 0
  BY DEF Layered
<1>6. ASSUME NEW e \in edges, e[1] \in D, e[2] \in N PROVE f[e[1]] = n
  <2>1. ~(f[e[1]] < n)
    BY <1>2, <1>6 DEF Layered
  <2> QED
    BY <1>3, <1>6, <2>1
<1>7. ASSUME NEW e \in edges, e[1] \in D PROVE e[2] \in D \cup N
  BY <1>7 DEF Beyond
<1> HIDE DEF g, N
<1>8. \A s \in DOMAIN g : g[s] \in Nat /\ g[s] <= m
  <2>1. \A s \in D : g[s] \in Nat /\ g[s] <= m
    BY <1>2, <1>3
  <2>2. \A s \in N : g[s] \in Nat /\ g[s] <= m
    BY <1>2
  <2> QED
    BY <1>2, <2>1, <2>2
<1>9. Sources(edges) \subseteq DOMAIN g /\ \A s \in Sources(edges) : g[s] = 0
  BY <1>2, <1>5
<1>10. ASSUME NEW s \in DOMAIN g \ Sources(edges)
       PROVE  \E e \in edges : e[2] = s /\ e[1] \in DOMAIN g /\ g[s] = g[e[1]] + 1
  <2>1. CASE s \in D
    <3>1. PICK e \in edges : e[2] = s /\ e[1] \in D /\ f[s] = f[e[1]] + 1
      BY <2>1, <1>10 DEF Layered
    <3> QED
      BY <2>1, <3>1, <1>2
  <2>2. CASE s \in N
    <3>1. PICK e \in edges : e[2] = s /\ e[1] \in D
      BY <2>2 DEF N, Beyond
    <3>2. f[e[1]] = n
      BY <2>2, <3>1, <1>6
    <3>3. e[1] \in DOMAIN g /\ g[s] = g[e[1]] + 1
      BY <2>2, <3>1, <3>2, <1>2
    <3> QED
      BY <3>1, <3>3
  <2> QED
    BY <1>2, <2>1, <2>2
<1>11. ASSUME NEW e \in edges, e[1] \in DOMAIN g, e[2] \in DOMAIN g
       PROVE  g[e[2]] <= g[e[1]] + 1
  <2>1. CASE e[1] \in N
    <3>1. g[e[1]] = m /\ g[e[2]] \in Nat /\ g[e[2]] <= m
      BY <2>1, <1>2, <1>8, <1>11
    <3> QED
      BY <3>1
  <2>2. CASE e[1] \in D /\ e[2] \in D
    <3>1. f[e[2]] <= f[e[1]] + 1
      BY <2>2 DEF Layered
    <3> QED
      BY <2>2, <3>1, <1>2
  <2>3. CASE e[1] \in D /\ e[2] \in N
    <3>1. f[e[1]] = n
      BY <2>3, <1>6
    <3>2. g[e[1]] = n /\ g[e[2]] = m
      BY <2>3, <3>1, <1>2
    <3> QED
      BY <3>2
  <2> QED
    BY <1>2, <1>11, <2>1, <2>2, <2>3
<1>12. ASSUME NEW e \in edges, e[1] \in DOMAIN g, g[e[1]] < m
       PROVE  e[2] \in DOMAIN g
  <2>1. e[1] \notin N
    <3> SUFFICES ASSUME e[1] \in N PROVE FALSE
      OBVIOUS
    <3>1. g[e[1]] = m
      BY <1>2
    <3> QED
      BY <3>1, <1>12
  <2> QED
    BY <2>1, <1>2, <1>7, <1>12
<1>13. Beyond(edges, DOMAIN g) \subseteq DOMAIN g \/ Cardinality(DOMAIN g) > m
  <2>1. CASE N = {}
    <3>1. DOMAIN g = D /\ \A e \in edges : e[1] \in D => e[2] \in D
      BY <2>1, <1>2, <1>7
    <3> QED
      BY <3>1 DEF Beyond
  <2>2. CASE N # {}
    <3>1. Cardinality(D) > n
      BY <2>2 DEF Layered, N
    <3>2. D \subseteq DOMAIN g /\ D # DOMAIN g
      BY <2>2, <1>2
    <3>3. IsFiniteSet(DOMAIN g) /\ Cardinality(DOMAIN g) \in Nat /\ Cardinality(D) \in Nat
      BY <1>1, DepthsDomain
    <3>4. Cardinality(D) <= Cardinality(DOMAIN g) /\ Cardinality(D) # Cardinality(DOMAIN g)
      BY <3>2, <3>3, FS_Subset
    <3> QED
      BY <3>1, <3>3, <3>4
  <2> QED
    BY <2>1, <2>2
<1>14. Layered(g, edges, m)
  BY <1>1, <1>8, <1>9, <1>10, <1>11, <1>12, <1>13 DEF Layered
<1> QED
  BY <1>14 DEF g

\* As many hops as there are services find all that can be found.
LEMMA DepthsLayered ==
    ASSUME NEW edges \in SUBSET (Services \X Services)
    PROVE  /\ Layered(ComputeDepths(edges), edges, Cardinality(Services))
           /\ Beyond(edges, DOMAIN ComputeDepths(edges)) \subseteq DOMAIN ComputeDepths(edges)
<1> DEFINE C == Cardinality(Services)
<1>0. C \in Nat
  BY ReassemblyAssumption, FS_CardinalityType
<1>1. PICK w : IsWave(w, edges) /\ ComputeDepths(edges) = w[C]
  BY DepthsWave
<1>2. /\ w \in [0..C -> Depths] /\ w[0] = [s \in Sources(edges) |-> 0]
      /\ \A n \in 1..C : w[n] = Farther(edges, w[n - 1], n)
  BY <1>1 DEF IsWave
<1> DEFINE Fine == {n \in Nat : n <= C => Layered(w[n], edges, n)}
<1> HIDE DEF C
<1>3. 0 \in Fine
  <2>1. Layered(w[0], edges, 0)
    BY <1>2, LayeredStart
  <2> QED
    BY <2>1
<1>4. ASSUME NEW n \in Nat, n \in Fine PROVE n + 1 \in Fine
  <2>1. CASE n + 1 <= C
    <3>1. n + 1 \in 1..C /\ n \in 0..C /\ n <= C /\ (n + 1) - 1 = n
      BY <2>1, <1>0
    <3>2. w[n] \in Depths /\ Layered(w[n], edges, n)
      BY <3>1, <1>2, <1>4
    <3>3. w[n + 1] = Farther(edges, w[n], n + 1)
      BY <3>1, <1>2
    <3>4. Layered(w[n + 1], edges, n + 1)
      <4>1. n + 1 \in Nat
        OBVIOUS
      <4> QED
        BY <3>2, <3>3, <4>1, LayeredStep
    <3> QED
      BY <3>4
  <2>2. CASE ~(n + 1 <= C)
    BY <2>2
  <2> QED
    BY <2>1, <2>2
<1>5. C \in Fine
  <2> HIDE DEF Fine
  <2> QED
    BY <1>0, <1>3, <1>4, SetInduction
<1>6. Layered(w[C], edges, C) /\ w[C] \in Depths
  BY <1>5, <1>0, <1>2
<1>7. Beyond(edges, DOMAIN w[C]) \subseteq DOMAIN w[C]
  <2>1. Cardinality(DOMAIN w[C]) \in Nat /\ Cardinality(DOMAIN w[C]) <= C
    BY <1>6, DepthsDomain DEF C
  <2>2. ~(Cardinality(DOMAIN w[C]) > C)
    BY <1>0, <2>1
  <2> QED
    BY <1>6, <2>2 DEF Layered
<1> QED
  BY <1>1, <1>6, <1>7 DEF C

\* The depths of the evaluation are distances.
LEMMA DepthsRight == TypeOK => DepthsAreDistances
<1> SUFFICES ASSUME TypeOK PROVE DepthsAreDistances
  OBVIOUS
<1> DEFINE E == CallGraph
           f == ComputeDepths(E)
           D == DOMAIN f
<1>1. E \in SUBSET (Services \X Services)
  BY DEF CallGraph, Pairs, TypeOK
<1> HIDE DEF E
<1>2. Layered(f, E, Cardinality(Services)) /\ Beyond(E, D) \subseteq D
  BY <1>1, DepthsLayered
<1> HIDE DEF f
<1>3. Sources(E) \subseteq D
  BY <1>2 DEF Layered
<1>4. \A e \in E : e[1] \in D => e[2] \in D
  BY <1>2 DEF Beyond
<1>5. ASSUME NEW s \in D, s \in Sources(E) PROVE f[s] = 0
  BY <1>2, <1>5 DEF Layered
<1>6. ASSUME NEW s \in D, s \notin Sources(E),
             NEW callers, callers = {e[1] : e \in {x \in E : x[2] = s}} \cap D
      PROVE  callers # {} /\ f[s] = 1 + Min({f[c] : c \in callers})
  <2>1. PICK e \in E : e[2] = s /\ e[1] \in D /\ f[s] = f[e[1]] + 1
    BY <1>2, <1>6 DEF Layered
  <2>2. e[1] \in callers
    BY <2>1, <1>6
  <2>3. \A c \in callers : f[c] \in Nat /\ f[s] <= f[c] + 1
    <3> TAKE c \in callers
    <3>1. PICK x \in E : x[2] = s /\ c = x[1] /\ c \in D
      BY <1>6
    <3> QED
      BY <1>2, <3>1 DEF Layered
  <2> DEFINE S == {f[c] : c \in callers}
  <2>4. f[e[1]] \in S /\ f[e[1]] \in Nat /\ \A x \in S : x \in Nat
    BY <2>2, <2>3
  <2>5. \A x \in S : f[e[1]] <= x
    <3> TAKE x \in S
    <3>1. PICK c \in callers : x = f[c]
      OBVIOUS
    <3> QED
      BY <2>1, <2>3, <2>4, <3>1
  <2> HIDE DEF S
  <2>6. Min(S) \in S /\ \A x \in S : Min(S) <= x
    BY <2>4, <2>5 DEF Min
  <2>7. Min(S) = f[e[1]]
    <3>1. Min(S) \in Nat /\ Min(S) <= f[e[1]] /\ f[e[1]] <= Min(S)
      BY <2>4, <2>5, <2>6
    <3> QED
      BY <2>4, <3>1
  <2>8. f[s] = 1 + Min(S)
    BY <2>1, <2>4, <2>7
  <2> QED
    BY <2>2, <2>8 DEF S
<1>7. \A s \in D : IF s \in Sources(E) THEN f[s] = 0
                   ELSE LET callers == {e[1] : e \in {x \in E : x[2] = s}} \cap D
                        IN callers # {} /\ f[s] = 1 + Min({f[c] : c \in callers})
  BY <1>5, <1>6
<1> QED
  BY <1>3, <1>4, <1>7 DEF DepthsAreDistances, E, f

\* Where every chain of parents ends no row is rejected.
LEMMA NoneRejected ==
    ASSUME IInv, pc = "done", NEW truth \in Truths, NEW s \in rows
    PROVE  class[s] = IF truth[s] # NoParent /\ truth[s] \notin rows
                      THEN "orphan_missing_parent" ELSE "ok"
<1> DEFINE Rejected == {t \in rows : class[t] = "cycle_rejected"}
<1>1. rows \subseteq Spans /\ \A t \in rows : truth[t] = parent[t]
  BY DEF IInv, TypeOK, Truths
<1>2. \A t \in Rejected : parent[t] \in Rejected
  BY RejectedRight DEF RejectedHaveNoEnd
<1>3. Rejected = {}
  <2> SUFFICES ASSUME Rejected # {} PROVE FALSE
    OBVIOUS
  <2>1. Rejected \in SUBSET Spans /\ \A t \in Rejected : truth[t] = parent[t]
    BY <1>1
  <2> HIDE DEF Rejected
  <2>2. \E t \in Rejected : truth[t] \notin Rejected
    BY <2>1 DEF Truths
  <2> QED
    BY <1>2, <2>1, <2>2
<1>4. class[s] = IF s \in Orphans THEN "orphan_missing_parent" ELSE "ok"
  <2>1. class[s] # "cycle_rejected"
    BY <1>3
  <2> QED
    BY <2>1, Classified DEF ClassifiedByChain
<1> QED
  BY <1>1, <1>4 DEF Orphans

\* The class of any landed span: what its window could see of its parent.
LEMMA ClassifiedAnywhere ==
    ASSUME IInv, pc = "done", NEW truth \in Truths, NEW fate \in Fates, NEW s \in Landed(fate)
    PROVE  Classification(truth, fate, s) =
             IF ReadIn(fate, s) = "unread" THEN "none"
             ELSE IF \/ truth[s] = NoParent
                     \/ truth[s] \in Landed(fate) /\ ReadIn(fate, truth[s]) = ReadIn(fate, s)
                  THEN "ok" ELSE "orphan_missing_parent"
<1>1. rows \subseteq Landed(fate) /\ Landed(fate) \subseteq Spans
  BY DEF Landed, IInv, TypeOK
<1>2. \A t \in Landed(fate) : ReadIn(fate, t) = "this" <=> t \in rows
  BY TraceScoreAssumption DEF ReadIn, Landed, Fates
<1>3. CASE s \in rows
  <2>1. ReadIn(fate, s) = "this"
    BY <1>3 DEF ReadIn
  <2>2. truth[s] \in rows <=> truth[s] \in Landed(fate) /\ ReadIn(fate, truth[s]) = "this"
    BY <1>1, <1>2
  <2> QED
    BY <1>3, <2>1, <2>2, NoneRejected DEF Classification
<1>4. CASE s \notin rows
  BY <1>4 DEF Classification, ReadIn
<1> QED
  BY <1>3, <1>4

\* Only spans that were not read, or not with their parent, cost accuracy.
LEMMA ScoreRight == IInv => ScoreChargesOnlyReading
<1> SUFFICES ASSUME IInv, pc = "done", NEW truth \in Truths, NEW fate \in Fates
             PROVE  /\ Orphaned(truth, fate) \ OrphanCorrect(truth, fate)
                         = {s \in Spans \ rows : /\ fate[s] = "unread"
                                                /\ truth[s] \in Spans \ Landed(fate)}
                    /\ Attachable(truth, fate) \ AttachmentCorrect(truth, fate)
                         = {s \in Landed(fate) :
                              /\ truth[s] \in Landed(fate)
                              /\ \/ ReadIn(fate, s) = "unread"
                                 \/ ReadIn(fate, s) # ReadIn(fate, truth[s])}
  BY DEF ScoreChargesOnlyReading
<1>1. /\ rows \subseteq Landed(fate) /\ Landed(fate) \subseteq Spans /\ NoParent \notin Spans
      /\ \A s \in Spans : truth[s] \in Spans \cup {NoParent}
  BY ReassemblyAssumption DEF Landed, IInv, TypeOK, Truths
<1>2. \A s \in Landed(fate) :
        Classification(truth, fate, s) =
          IF ReadIn(fate, s) = "unread" THEN "none"
          ELSE IF \/ truth[s] = NoParent
                  \/ truth[s] \in Landed(fate) /\ ReadIn(fate, truth[s]) = ReadIn(fate, s)
               THEN "ok" ELSE "orphan_missing_parent"
  BY ClassifiedAnywhere
<1>3. Orphaned(truth, fate) \ OrphanCorrect(truth, fate)
        = {s \in Landed(fate) : ReadIn(fate, s) = "unread" /\ truth[s] \in Spans \ Landed(fate)}
  BY <1>1, <1>2 DEF Orphaned, OrphanCorrect, Attachable, Judged
<1>4. \A s \in Spans : /\ s \in Landed(fate) /\ ReadIn(fate, s) = "unread"
                       <=> s \notin rows /\ fate[s] = "unread"
  BY DEF Landed, ReadIn
<1>5. Orphaned(truth, fate) \ OrphanCorrect(truth, fate)
        = {s \in Spans \ rows : fate[s] = "unread" /\ truth[s] \in Spans \ Landed(fate)}
  BY <1>1, <1>3, <1>4
<1>6. Attachable(truth, fate) \ AttachmentCorrect(truth, fate)
        = {s \in Landed(fate) : /\ truth[s] \in Landed(fate)
                               /\ \/ ReadIn(fate, s) = "unread"
                                  \/ ReadIn(fate, s) # ReadIn(fate, truth[s])}
  BY <1>1, <1>2 DEF AttachmentCorrect, Attachable, Judged
<1> QED
  BY <1>5, <1>6

-----------------------------------------------------------------------------
(* clock skew *)

\* By how much a callee's clock is ahead of its caller's.
Off(skew, a, b) == skew[b] - skew[a]

\* What is recorded of a call: its own gaps, and the difference of the clocks.
LEMMA RecordedGaps ==
    ASSUME TypeOK, Resolved, NEW skew \in [Services -> Int], NEW p \in Pairs,
           NEW d, d = Off(skew, service[p[1]], service[p[2]])
    PROVE  /\ d \in Int
           /\ Start(p[2], skew) - Start(p[1], skew) = 1 + d
           /\ Start(p[2], skew) < Start(p[1], skew) <=> d < -1
           /\ End(p[2], skew) > End(p[1], skew) <=> d > 1
<1>1. PICK s \in rows : parent[s] \in rows /\ p = <<parent[s], s>>
  BY DEF Pairs
<1>2. PICK r \in Roots \cup Orphans : r \in Ancestors(s)
  BY <1>1 DEF Resolved, BottomsOut
<1>3. s # r
  BY <1>1, <1>2, RowsFinite DEF Roots, Orphans
<1>4. /\ Cardinality(Ancestors(s)) = Cardinality(Ancestors(parent[s])) + 1
      /\ r \in Ancestors(parent[s])
  BY <1>1, <1>2, <1>3, OneLonger
<1>5. Cardinality(Ancestors(parent[s])) \in Nat
  BY <1>1, <1>2, <1>4, OneLonger
<1>6. skew[service[s]] \in Int /\ skew[service[parent[s]]] \in Int
  BY <1>1 DEF TypeOK
<1>7. Cardinality(Spans) \in Nat
  BY ReassemblyAssumption, FS_CardinalityType
<1>8. ASSUME NEW k \in Nat, k = Cardinality(Ancestors(parent[s])),
             NEW x \in Int, x = skew[service[s]], NEW y \in Int, y = skew[service[parent[s]]],
             NEW c \in Nat, c = Cardinality(Spans)
      PROVE  /\ d = x - y /\ Start(p[2], skew) = (k + 1) + x /\ Start(p[1], skew) = k + y
             /\ End(p[2], skew) = 2 * c - (k + 1) + x /\ End(p[1], skew) = 2 * c - k + y
  BY <1>1, <1>4, <1>8 DEF Start, End, Off
<1> QED
  BY <1>5, <1>6, <1>7, <1>8

\* The median of equal values.
LEMMA ConstantMedian ==
    ASSUME NEW D, IsFiniteSet(D), D # {}, NEW m \in Int, NEW f \in [D -> Int],
           \A d \in D : f[d] = m
    PROVE  Median2(f) = 2 * m
<1>1. DOMAIN f = D /\ {f[i] : i \in DOMAIN f} = {m}
  OBVIOUS
<1>2. Cardinality(D) \in Nat /\ Cardinality(D) # 0
  BY FS_CardinalityType, FS_EmptySet
<1>3. {i \in DOMAIN f : f[i] < m} = {} /\ {i \in DOMAIN f : f[i] <= m} = D
  BY <1>1
<1>4. ASSUME NEW k \in Int, 0 < k, k <= Cardinality(D) PROVE Nth(f, k) = m
  <2> DEFINE Ranked(v) == /\ Cardinality({i \in DOMAIN f : f[i] < v}) < k
                          /\ k <= Cardinality({i \in DOMAIN f : f[i] <= v})
  <2>1. Cardinality({}) = 0
    BY FS_EmptySet
  <2>2. Ranked(m)
    BY <1>3, <1>4, <2>1
  <2>3. Nth(f, k) = CHOOSE v \in {m} : Ranked(v)
    BY <1>1 DEF Nth
  <2> HIDE DEF Ranked
  <2> QED
    BY <2>2, <2>3
<1>5. Median2(f) = Nth(f, (Cardinality(D) + 1) \div 2) + Nth(f, Cardinality(D) \div 2 + 1)
  BY <1>1 DEF Median2, Count
<1>6. ASSUME NEW n \in Nat, n # 0
      PROVE  /\ (n + 1) \div 2 \in Int /\ 0 < (n + 1) \div 2 /\ (n + 1) \div 2 <= n
             /\ n \div 2 + 1 \in Int /\ 0 < n \div 2 + 1 /\ n \div 2 + 1 <= n
  BY <1>6
<1>7. Nth(f, (Cardinality(D) + 1) \div 2) = m /\ Nth(f, Cardinality(D) \div 2 + 1) = m
  BY <1>2, <1>4, <1>6
<1> QED
  BY <1>5, <1>7

\* The median of a calling pair is its own gap and the difference of the clocks.
LEMMA EdgeMedians ==
    ASSUME TypeOK, Resolved, NEW skew \in [Services -> Int], NEW e \in ServiceEdges
    PROVE  /\ e \in Services \X Services /\ Off(skew, e[1], e[2]) \in Int
           /\ EdgeMedian2(e, skew) = 2 * (1 + Off(skew, e[1], e[2]))
<1> DEFINE D == {q \in Pairs : service[q[1]] = e[1] /\ service[q[2]] = e[2]}
           f == Gaps(e, skew)
           d == Off(skew, e[1], e[2])
<1>1. e \in Services \X Services
  BY DEF ServiceEdges, Pairs, TypeOK
<1>2. d \in Int
  BY <1>1 DEF Off
<1>3. D # {}
  BY DEF ServiceEdges
<1>4. IsFiniteSet(D)
  <2>1. IsFiniteSet(Pairs) /\ D \in SUBSET Pairs
    BY PairsAreTheRest
  <2> QED
    BY <2>1, FS_Subset
<1>5. \A p \in D : Start(p[2], skew) - Start(p[1], skew) = 1 + d
  BY RecordedGaps
<1>6. f = [p \in D |-> Start(p[2], skew) - Start(p[1], skew)]
  BY DEF Gaps
<1>7. 1 + d \in Int
  BY <1>2
<1> HIDE DEF D, d
<1>8. f \in [D -> Int] /\ \A p \in D : f[p] = 1 + d
  BY <1>5, <1>6, <1>7
<1> HIDE DEF f
<1>9. Median2(f) = 2 * (1 + d)
  BY <1>3, <1>4, <1>7, <1>8, ConstantMedian
<1> QED
  BY <1>1, <1>2, <1>9 DEF EdgeMedian2, f, d

\* No clock is off by what would hide in the gaps of a call.
ClearClocks == \A skew \in Skews : \A a, b \in Services : Off(skew, a, b) \notin {-1, -2}

\* As soon as two clocks agree, the gap closest to zero is that of a call.
LEMMA TypicalGapIsRight ==
    ASSUME TypeOK, Resolved, ClearClocks, NEW skew \in Skews, skew \in [Services -> Int],
           \E e \in ServiceEdges : skew[e[1]] = skew[e[2]]
    PROVE  \A gap2 \in TypicalGap2(skew) : gap2 = 2
<1> DEFINE medians == {EdgeMedian2(e, skew) : e \in ServiceEdges}
<1>1. PICK e0 \in ServiceEdges : skew[e0[1]] = skew[e0[2]]
  OBVIOUS
<1>2. Off(skew, e0[1], e0[2]) = 0
  <2>1. e0 \in Services \X Services
    BY EdgeMedians
  <2>2. skew[e0[1]] \in Int /\ skew[e0[2]] \in Int
    BY <2>1
  <2> QED
    BY <1>1, <2>2 DEF Off
<1>3. EdgeMedian2(e0, skew) = 2
  BY <1>2, EdgeMedians
<1>4. ASSUME NEW gap2 \in TypicalGap2(skew) PROVE gap2 = 2
  <2>1. gap2 \in medians /\ \A n \in medians : Abs(gap2) <= Abs(n)
    BY DEF TypicalGap2
  <2>2. PICK e \in ServiceEdges : gap2 = EdgeMedian2(e, skew)
    BY <2>1
  <2>3. 2 \in medians
    BY <1>3
  <2>4. Abs(gap2) <= Abs(2)
    BY <2>1, <2>3
  <2>5. /\ e \in Services \X Services
        /\ Off(skew, e[1], e[2]) \in Int
        /\ gap2 = 2 * (1 + Off(skew, e[1], e[2]))
    BY <2>2, EdgeMedians
  <2>6. Off(skew, e[1], e[2]) # -1 /\ Off(skew, e[1], e[2]) # -2
    BY <2>5 DEF ClearClocks
  <2>7. ASSUME NEW d \in Int, d # -1, d # -2, NEW g, g = 2 * (1 + d), Abs(g) <= Abs(2)
        PROVE  g = 2
    BY <2>7 DEF Abs
  <2> HIDE DEF medians
  <2> QED
    BY <2>4, <2>5, <2>6, <2>7
<1> QED
  BY <1>4

\* Offsets known of some of the services.
Offsets == UNION {[known -> Int] : known \in SUBSET Services}

\* The callees whose primary caller is known.
Reached(primary, known) == {c \in DOMAIN primary : primary[c] \in known}

\* One more round outward.
Outward(skew, gap2, primary, known) ==
    [s \in DOMAIN known \cup Reached(primary, DOMAIN known) |->
        IF s \in DOMAIN known THEN known[s]
        ELSE Round2(2 * known[primary[s]] + EdgeMedian2(<<primary[s], s>>, skew) - gap2)]

\* The offsets known are the true ones, those of the root among them; each round
\* has added a service, or there is none to add.
Sound(skew, primary, known, n) ==
    /\ RootService \in DOMAIN known
    /\ \A s \in DOMAIN known : known[s] = Off(skew, RootService, s)
    /\ Reached(primary, DOMAIN known) \subseteq DOMAIN known \/ Cardinality(DOMAIN known) > n

\* primary is a choice of a calling pair for each callee, and the typical gap is
\* that of a call.
Chosen(skew, gap2, primary) ==
    /\ skew \in [Services -> Int]
    /\ gap2 = 2
    /\ primary \in [Callees -> Services]
    /\ Callees \subseteq Services
    /\ \A c \in Callees : EdgeMedian2(<<primary[c], c>>, skew) = 2 * (1 + Off(skew, primary[c], c))

\* A whole number of ticks is not rounded.
LEMMA HalvesExact ==
    ASSUME NEW x \in Int
    PROVE  Round2(2 * x) = x
<1>1. (2 * x) % 2 = 0 /\ (2 * x) \div 2 = x
  OBVIOUS
<1> QED
  BY <1>1 DEF Round2

\* The services that have an estimate are finitely many.
LEMMA OffsetsDomain ==
    ASSUME NEW f \in Offsets
    PROVE  /\ DOMAIN f \in SUBSET Services /\ IsFiniteSet(DOMAIN f)
           /\ Cardinality(DOMAIN f) \in Nat
           /\ Cardinality(DOMAIN f) <= Cardinality(Services)
           /\ \A s \in DOMAIN f : f[s] \in Int
<1>1. DOMAIN f \in SUBSET Services /\ \A s \in DOMAIN f : f[s] \in Int
  BY DEF Offsets
<1> QED
  BY <1>1, ReassemblyAssumption, FS_Subset, FS_CardinalityType

\* A round gives numbers to services.
LEMMA OutwardType ==
    ASSUME NEW skew, NEW gap2, NEW primary, Chosen(skew, gap2, primary), NEW f \in Offsets
    PROVE  Outward(skew, gap2, primary, f) \in Offsets
<1> DEFINE D == DOMAIN f
           N == Reached(primary, D) \ D
           g == Outward(skew, gap2, primary, f)
<1>0. /\ skew \in [Services -> Int] /\ gap2 = 2 /\ primary \in [Callees -> Services]
      /\ Callees \subseteq Services
  BY DEF Chosen
<1>1. D \in SUBSET Services /\ \A s \in D : f[s] \in Int
  BY OffsetsDomain
<1>2. D \cup N \in SUBSET Services /\ DOMAIN g = D \cup N
  BY <1>0, <1>1 DEF Outward, Reached
<1>3. ASSUME NEW s \in N PROVE g[s] \in Int
  <2>1. s \in Callees /\ primary[s] \in D
    BY <1>0 DEF Reached
  <2>2. g[s] = Round2(2 * f[primary[s]] + EdgeMedian2(<<primary[s], s>>, skew) - gap2)
    BY DEF Outward
  <2>3. EdgeMedian2(<<primary[s], s>>, skew) = 2 * (1 + Off(skew, primary[s], s))
    BY <2>1 DEF Chosen
  <2>4. Off(skew, primary[s], s) \in Int /\ f[primary[s]] \in Int
    BY <1>0, <1>1, <2>1 DEF Off
  <2>5. ASSUME NEW x \in Int, x = f[primary[s]], NEW y \in Int, y = Off(skew, primary[s], s)
        PROVE  g[s] = x + y
    <3>1. 2 * f[primary[s]] + EdgeMedian2(<<primary[s], s>>, skew) - gap2 = 2 * (x + y)
          /\ x + y \in Int
      BY <2>3, <2>5, <1>0
    <3>2. Round2(2 * (x + y)) = x + y
      BY <3>1, HalvesExact
    <3> HIDE DEF g
    <3> QED
      BY <2>2, <3>1, <3>2
  <2>6. \A x, y \in Int : x + y \in Int
    OBVIOUS
  <2> HIDE DEF g
  <2> QED
    BY <2>4, <2>5, <2>6
<1>4. \A s \in D : g[s] = f[s]
  BY DEF Outward
<1>5. g = [s \in D \cup N |-> g[s]]
  BY <1>2 DEF Outward
<1> HIDE DEF g, N
<1>6. g \in [D \cup N -> Int]
  BY <1>1, <1>3, <1>4, <1>5
<1> QED
  BY <1>2, <1>6 DEF Offsets, g

\* A round adds nothing but true offsets.
LEMMA OutwardSound ==
    ASSUME NEW skew, NEW gap2, NEW primary, Chosen(skew, gap2, primary), NEW n \in Nat,
           NEW known \in Offsets, Sound(skew, primary, known, n)
    PROVE  /\ Outward(skew, gap2, primary, known) \in Offsets
           /\ Sound(skew, primary, Outward(skew, gap2, primary, known), n + 1)
<1> DEFINE D == DOMAIN known
           N == Reached(primary, D) \ D
           g == Outward(skew, gap2, primary, known)
<1>0. /\ skew \in [Services -> Int] /\ gap2 = 2 /\ primary \in [Callees -> Services]
      /\ Callees \subseteq Services
  BY DEF Chosen
<1>1. /\ D \in SUBSET Services /\ IsFiniteSet(D) /\ Cardinality(D) \in Nat
      /\ \A s \in D : known[s] \in Int
  BY OffsetsDomain
<1>2. /\ DOMAIN g = D \cup N /\ D \cap N = {}
      /\ \A s \in D : g[s] = known[s]
      /\ \A s \in N : g[s] = Round2(2 * known[primary[s]]
                                      + EdgeMedian2(<<primary[s], s>>, skew) - gap2)
  BY DEF Outward
<1>3. N \subseteq Callees /\ \A s \in N : primary[s] \in D
  BY <1>0 DEF Reached
<1>4. ASSUME NEW s \in N PROVE g[s] = Off(skew, RootService, s)
  <2>1. known[primary[s]] = Off(skew, RootService, primary[s])
    BY <1>3 DEF Sound
  <2>2. EdgeMedian2(<<primary[s], s>>, skew) = 2 * (1 + Off(skew, primary[s], s))
    BY <1>3 DEF Chosen
  <2>3. s \in Services /\ primary[s] \in Services /\ RootService \in Services
    BY <1>0, <1>1, <1>3, ClockSkewAssumption
  <2>4. skew[s] \in Int /\ skew[primary[s]] \in Int /\ skew[RootService] \in Int
    BY <2>3, <1>0
  <2>5. ASSUME NEW x \in Int, x = skew[s], NEW y \in Int, y = skew[primary[s]],
               NEW z \in Int, z = skew[RootService]
        PROVE  g[s] = x - z
    <3>1. 2 * known[primary[s]] + EdgeMedian2(<<primary[s], s>>, skew) - gap2
            = 2 * (y - z) + 2 * (1 + (x - y)) - 2
      BY <2>1, <2>2, <2>5, <1>0 DEF Off
    <3>2. 2 * (y - z) + 2 * (1 + (x - y)) - 2 = 2 * (x - z) /\ x - z \in Int
      OBVIOUS
    <3>3. Round2(2 * (x - z)) = x - z
      BY <3>2, HalvesExact
    <3> HIDE DEF g
    <3> QED
      BY <3>1, <3>2, <3>3, <1>2
  <2> QED
    BY <2>4, <2>5 DEF Off
<1> HIDE DEF g
<1>5. \A s \in DOMAIN g : g[s] = Off(skew, RootService, s)
  BY <1>2, <1>4 DEF Sound
<1>7. g \in Offsets
  BY OutwardType DEF g
<1>8. Reached(primary, DOMAIN g) \subseteq DOMAIN g \/ Cardinality(DOMAIN g) > n + 1
  <2>1. CASE N = {}
    <3>1. DOMAIN g = D /\ Reached(primary, D) \subseteq D
      BY <2>1, <1>2
    <3> QED
      BY <3>1
  <2>2. CASE N # {}
    <3>1. Cardinality(D) > n
      BY <2>2 DEF Sound
    <3>2. D \subseteq DOMAIN g /\ D # DOMAIN g
      BY <2>2, <1>2
    <3>3. IsFiniteSet(DOMAIN g) /\ Cardinality(DOMAIN g) \in Nat
      BY <1>7, OffsetsDomain
    <3>4. Cardinality(D) <= Cardinality(DOMAIN g) /\ Cardinality(D) # Cardinality(DOMAIN g)
      BY <3>2, <3>3, FS_Subset
    <3> QED
      BY <3>1, <3>3, <3>4, <1>1
  <2> QED
    BY <2>1, <2>2
<1>9. RootService \in DOMAIN g
  BY <1>2 DEF Sound
<1> QED
  BY <1>5, <1>7, <1>8, <1>9 DEF Sound, g

\* The estimates of estimate_offsets are sound after as many rounds as services.
LEMMA EstimatesSound ==
    ASSUME NEW skew, NEW gap2, NEW primary, Chosen(skew, gap2, primary)
    PROVE  /\ EstimateOffsets(skew, gap2, primary) \in Offsets
           /\ Sound(skew, primary, EstimateOffsets(skew, gap2, primary), Cardinality(Services))
<1> DEFINE C == Cardinality(Services)
           start0 == [s \in {RootService} |-> 0]
           advance == [f \in Offsets |-> Outward(skew, gap2, primary, f)]
           Unfolds(r) == r = [n \in 0..C |-> IF n = 0 THEN start0
                                           ELSE Outward(skew, gap2, primary, r[n - 1])]
<1>0. C \in Nat /\ RootService \in Services
  BY ReassemblyAssumption, FS_CardinalityType, ClockSkewAssumption
<1>1. start0 \in Offsets
  <2>1. start0 \in [{RootService} -> Int] /\ {RootService} \in SUBSET Services
    BY <1>0
  <2> QED
    BY <2>1 DEF Offsets
<1>2. Sound(skew, primary, start0, 0)
  <2>1. DOMAIN start0 = {RootService} /\ start0[RootService] = 0
    OBVIOUS
  <2>2. Off(skew, RootService, RootService) = 0
    <3>1. skew[RootService] \in Int
      BY <1>0 DEF Chosen
    <3> QED
      BY <3>1 DEF Off
  <2>3. Cardinality({RootService}) = 1
    BY FS_Singleton
  <2> HIDE DEF start0
  <2>4. Cardinality(DOMAIN start0) > 0
    BY <2>1, <2>3
  <2> QED
    BY <2>1, <2>2, <2>4 DEF Sound
<1>3. \A f \in Offsets : Outward(skew, gap2, primary, f) \in Offsets
  BY OutwardType
<1>4. PICK h : Iterates(h, Offsets, advance, start0)
  <2>1. advance \in [Offsets -> Offsets]
    BY <1>3
  <2> HIDE DEF advance, start0
  <2> QED
    BY <1>1, <2>1, Iteration
<1>5. h \in [Nat -> Offsets] /\ h[0] = start0 /\ \A n \in Nat : h[n + 1] = Outward(skew, gap2, primary, h[n])
  <2>1. h \in [Nat -> Offsets] /\ h[0] = start0 /\ \A n \in Nat : h[n + 1] = advance[h[n]]
    BY <1>4 DEF Iterates
  <2> HIDE DEF start0
  <2> QED
    BY <2>1
<1> DEFINE r0 == [n \in 0..C |-> h[n]]
<1>6. Unfolds(r0)
  <2>1. \A n \in 0..C : r0[n] = IF n = 0 THEN start0 ELSE Outward(skew, gap2, primary, r0[n - 1])
    <3> TAKE n \in 0..C
    <3>1. CASE n = 0
      BY <3>1, <1>5
    <3>2. CASE n # 0
      <4>1. n - 1 \in 0..C /\ n - 1 \in Nat /\ (n - 1) + 1 = n
        BY <3>2, <1>0
      <4>2. r0[n] = h[n] /\ r0[n - 1] = h[n - 1]
        BY <4>1
      <4>3. h[(n - 1) + 1] = Outward(skew, gap2, primary, h[n - 1])
        BY <4>1, <1>5
      <4> HIDE DEF r0, start0
      <4> QED
        BY <3>2, <4>1, <4>2, <4>3
    <3> QED
      BY <3>1, <3>2
  <2>2. r0 = [n \in 0..C |-> r0[n]]
    OBVIOUS
  <2> HIDE DEF r0, C, start0
  <2> QED
    BY <2>1, <2>2
<1> DEFINE r1 == CHOOSE r : Unfolds(r)
<1>7. Unfolds(r1)
  <2> HIDE DEF Unfolds, r0
  <2> QED
    BY <1>6
<1>8. EstimateOffsets(skew, gap2, primary) = r1[C]
  BY DEF EstimateOffsets, Outward, Reached
<1> HIDE DEF r1
<1>9. r1[0] = start0 /\ \A n \in 1..C : r1[n] = Outward(skew, gap2, primary, r1[n - 1])
  <2>0. \A n \in 0..C : r1[n] = IF n = 0 THEN start0 ELSE Outward(skew, gap2, primary, r1[n - 1])
    <3> HIDE DEF start0
    <3> QED
      BY <1>7
  <2>1. 0 \in 0..C /\ \A n \in 1..C : n \in 0..C /\ n # 0
    BY <1>0
  <2> HIDE DEF Unfolds, C, start0
  <2>2. r1[0] = start0
    BY <2>0, <2>1
  <2>3. \A n \in 1..C : r1[n] = Outward(skew, gap2, primary, r1[n - 1])
    BY <2>0, <2>1
  <2> QED
    BY <2>2, <2>3
<1> HIDE DEF start0, C
<1> DEFINE Fine == {n \in Nat : n <= C => r1[n] \in Offsets /\ Sound(skew, primary, r1[n], n)}
<1>10. 0 \in Fine
  BY <1>1, <1>2, <1>9
<1>11. ASSUME NEW n \in Nat, n \in Fine PROVE n + 1 \in Fine
  <2>1. CASE n + 1 <= C
    <3>1. n + 1 \in 1..C /\ n <= C /\ (n + 1) - 1 = n
      BY <2>1, <1>0
    <3>2. r1[n] \in Offsets /\ Sound(skew, primary, r1[n], n)
      BY <3>1, <1>11
    <3>3. r1[n + 1] = Outward(skew, gap2, primary, r1[n])
      BY <3>1, <1>9
    <3>4. r1[n + 1] \in Offsets /\ Sound(skew, primary, r1[n + 1], n + 1)
      BY <3>2, <3>3, OutwardSound
    <3> QED
      BY <3>4
  <2>2. CASE ~(n + 1 <= C)
    BY <2>2
  <2> QED
    BY <2>1, <2>2
<1>12. C \in Fine
  <2> HIDE DEF Fine
  <2> QED
    BY <1>0, <1>10, <1>11, SetInduction
<1>13. r1[C] \in Offsets /\ Sound(skew, primary, r1[C], C)
  BY <1>0, <1>12
<1> QED
  BY <1>8, <1>13 DEF C

\* What estimate_offsets and detect_violations say is right.
LEMMA SkewRight == TypeOK /\ ClearClocks => SkewIsRecovered
<1> SUFFICES ASSUME TypeOK, ClearClocks, Resolved, NEW skew \in Skews
    PROVE  /\ StartsBeforeParent(skew) = {p \in Pairs : skew[service[p[2]]] - skew[service[p[1]]] < -1}
           /\ EndsAfterParent(skew) = {p \in Pairs : skew[service[p[2]]] - skew[service[p[1]]] > 1}
           /\ (\E e \in ServiceEdges : skew[e[1]] = skew[e[2]]) =>
                \A gap2 \in TypicalGap2(skew) :
                \A primary \in {f \in [Callees -> Services] :
                                   \A c \in Callees : f[c] \in PrimaryCaller(c)} :
                   /\ \A s \in DOMAIN EstimateOffsets(skew, gap2, primary) :
                        EstimateOffsets(skew, gap2, primary)[s] = skew[s] - skew[RootService]
                   /\ \A c \in Callees : primary[c] \in DOMAIN EstimateOffsets(skew, gap2, primary)
                        => c \in DOMAIN EstimateOffsets(skew, gap2, primary)
  BY DEF SkewIsRecovered
<1>0. skew \in [Services -> Int]
  BY ClockSkewAssumption
<1> DEFINE off(p) == Off(skew, service[p[1]], service[p[2]])
<1>1. \A p \in Pairs : /\ off(p) \in Int
                       /\ Start(p[2], skew) < Start(p[1], skew) <=> off(p) < -1
                       /\ End(p[2], skew) > End(p[1], skew) <=> off(p) > 1
  BY <1>0, RecordedGaps
<1>2. StartsBeforeParent(skew) = {p \in Pairs : off(p) < -1}
  <2> HIDE DEF off
  <2> QED
    BY <1>1 DEF StartsBeforeParent
<1>3. EndsAfterParent(skew) = {p \in Pairs : off(p) > 1}
  <2>1. \A p \in Pairs : off(p) > 1 => ~(off(p) < -1)
    BY <1>1
  <2> HIDE DEF off
  <2> QED
    BY <1>1, <1>2, <2>1 DEF EndsAfterParent
<1>4. ASSUME \E e \in ServiceEdges : skew[e[1]] = skew[e[2]],
             NEW gap2 \in TypicalGap2(skew),
             NEW primary \in [Callees -> Services],
             \A c \in Callees : primary[c] \in PrimaryCaller(c)
      PROVE  LET estimate == EstimateOffsets(skew, gap2, primary)
             IN  /\ \A s \in DOMAIN estimate : estimate[s] = Off(skew, RootService, s)
                 /\ \A c \in Callees : primary[c] \in DOMAIN estimate => c \in DOMAIN estimate
  <2>1. gap2 = 2
    BY <1>0, <1>4, TypicalGapIsRight
  <2>2. \A c \in Callees : <<primary[c], c>> \in ServiceEdges
    <3> TAKE c \in Callees
    <3>1. primary[c] \in AnyCaller(c)
      BY <1>4 DEF PrimaryCaller
    <3>2. PICK e \in ServiceEdges : e[2] = c /\ e[1] = primary[c]
      BY <3>1 DEF AnyCaller
    <3>3. e \in Services \X Services
      BY <1>0, EdgeMedians
    <3>4. e = <<primary[c], c>>
      BY <3>2, <3>3
    <3> QED
      BY <3>2, <3>4
  <2>3. \A c \in Callees : EdgeMedian2(<<primary[c], c>>, skew) = 2 * (1 + Off(skew, primary[c], c))
    <3> TAKE c \in Callees
    <3>1. <<primary[c], c>> \in ServiceEdges
      BY <2>2
    <3>2. EdgeMedian2(<<primary[c], c>>, skew)
            = 2 * (1 + Off(skew, <<primary[c], c>>[1], <<primary[c], c>>[2]))
      BY <1>0, <3>1, EdgeMedians
    <3> QED
      BY <3>2
  <2>4. Callees \subseteq Services
    <3>1. \A e \in ServiceEdges : e[2] \in Services
      BY <1>0, EdgeMedians
    <3> QED
      BY <3>1 DEF Callees
  <2>5. Chosen(skew, gap2, primary)
    BY <1>0, <1>4, <2>1, <2>3, <2>4 DEF Chosen
  <2> DEFINE estimate == EstimateOffsets(skew, gap2, primary)
  <2>6. estimate \in Offsets /\ Sound(skew, primary, estimate, Cardinality(Services))
    BY <2>5, EstimatesSound
  <2> HIDE DEF estimate
  <2>7. Cardinality(DOMAIN estimate) <= Cardinality(Services) /\ Cardinality(DOMAIN estimate) \in Nat
    BY <2>6, OffsetsDomain
  <2>8. Cardinality(Services) \in Nat
    BY ReassemblyAssumption, FS_CardinalityType
  <2>9. Reached(primary, DOMAIN estimate) \subseteq DOMAIN estimate
    BY <2>6, <2>7, <2>8 DEF Sound
  <2>10. \A s \in DOMAIN estimate : estimate[s] = Off(skew, RootService, s)
    BY <2>6 DEF Sound
  <2>11. \A c \in Callees : primary[c] \in DOMAIN estimate => c \in DOMAIN estimate
    BY <2>9, <1>4 DEF Reached
  <2> QED
    BY <2>10, <2>11 DEF estimate
<1> QED
  BY <1>2, <1>3, <1>4 DEF Off

-----------------------------------------------------------------------------
(* theorems *)

\* The shape of a trace is told right: every span has the class of its chain of
\* parents, a trace is complete when it is one tree, and its depth is the
\* longest chain that ends at the root chosen.
THEOREM TreeAlwaysRight == Spec => []TreeIsRight
<1>1. IInv => TreeIsRight
  BY Classified, OneTree, DepthIsRight DEF IInv, TreeIsRight
<1> QED
  BY <1>1, Inductive, PTL

\* Every row is a call of one service, and of one edge unless it is a root or an
\* orphan.
THEOREM CallsAlwaysConserved == Spec => []CallsConserved
<1>1. IInv => CallsConserved
  BY CallsRight DEF IInv
<1> QED
  BY <1>1, Inductive, PTL

\* A landed span costs accuracy just when it landed too late for any window, or
\* was not read together with a parent that landed; and the depths are distances
\* from the services nobody calls.
THEOREM EvaluationAlwaysFair == Spec => []EvaluationIsFair
<1>1. IInv => EvaluationIsFair
  BY ScoreRight, DepthsRight DEF IInv, EvaluationIsFair
<1> QED
  BY <1>1, Inductive, PTL

\* As long as two clocks of a calling pair agree, and no two differ by so little
\* that the gaps of a call hide it, the offsets estimated are the true ones; a
\* violation is recorded of the calls whose clocks differ by more than the gaps.
THEOREM SkewAlwaysRecovered ==
    ASSUME ClearClocks
    PROVE  Spec => []SkewIsRecovered
<1>1. IInv => SkewIsRecovered
  BY SkewRight DEF IInv
<1> QED
  BY <1>1, Inductive, PTL

-----------------------------------------------------------------------------
(* Statistics, baselines and detectors. *)

\* A sum that covers more, of greater numbers, is greater.
LEMMA TotalGrows ==
    ASSUME NEW U, IsFiniteSet(U), NEW A \in SUBSET U, NEW B \in SUBSET U,
           NEW f \in [A -> Int], NEW g \in [B -> Int],
           \A x \in A \cap B : f[x] <= g[x],
           \A x \in A \ B : f[x] <= 0, \A x \in B \ A : 0 <= g[x]
    PROVE  Total(A, f) <= Total(B, g)
<1> DEFINE Fine == {n \in Nat : \A S \in SUBSET U : Cardinality(S) <= n =>
                                   Total(A \cap S, f) <= Total(B \cap S, g)}
<1>1. \A S \in SUBSET U : /\ Cardinality(S) \in Nat /\ (Cardinality(S) = 0 <=> S = {})
                         /\ \A x \in S : S \ {x} \in SUBSET U /\ Cardinality(S \ {x}) = Cardinality(S) - 1
  BY SubsetSizes
<1>2. \A S \in SUBSET U : /\ Total(A \cap S, f) \in Int /\ Total({}, f) = 0
                         /\ \A x \in A \cap S : Total((A \cap S) \ {x}, f) = Total(A \cap S, f) - f[x]
  <2> TAKE S \in SUBSET U
  <2>1. A \cap S \in SUBSET A /\ IsFiniteSet(A \cap S)
    BY FS_Subset
  <2> QED
    BY <2>1, TotalAdd
<1>3. \A S \in SUBSET U : /\ Total(B \cap S, g) \in Int /\ Total({}, g) = 0
                         /\ \A x \in B \cap S : Total((B \cap S) \ {x}, g) = Total(B \cap S, g) - g[x]
  <2> TAKE S \in SUBSET U
  <2>1. B \cap S \in SUBSET B /\ IsFiniteSet(B \cap S)
    BY FS_Subset
  <2> QED
    BY <2>1, TotalAdd
<1>4. ASSUME NEW S \in SUBSET U, S = {}
      PROVE  Total(A \cap S, f) <= Total(B \cap S, g)
  <2>1. A \cap S = {} /\ B \cap S = {}
    BY <1>4
  <2>2. Total({}, f) = 0 /\ Total({}, g) = 0
    BY <1>2, <1>3
  <2> QED
    BY <2>1, <2>2
<1>5. 0 \in Fine
  <2>1. ASSUME NEW S \in SUBSET U, Cardinality(S) <= 0 PROVE S = {}
    BY <2>1, <1>1
  <2> QED
    BY <1>4, <2>1
<1>6. ASSUME NEW n \in Nat, n \in Fine PROVE n + 1 \in Fine
  <2>1. ASSUME NEW S \in SUBSET U, Cardinality(S) <= n + 1, NEW x \in S
        PROVE  Total(A \cap S, f) <= Total(B \cap S, g)
    <3> DEFINE T == S \ {x}
    <3>1. T \in SUBSET U /\ Cardinality(T) <= n
      BY <2>1, <1>1
    <3>2. Total(A \cap T, f) <= Total(B \cap T, g)
      BY <1>6, <3>1
    <3>3. (A \cap S) \ {x} = A \cap T /\ (B \cap S) \ {x} = B \cap T
      OBVIOUS
    <3>4. /\ x \in A => Total(A \cap T, f) = Total(A \cap S, f) - f[x]
          /\ x \in B => Total(B \cap T, g) = Total(B \cap S, g) - g[x]
      BY <3>3, <2>1, <1>2, <1>3
    <3>5. (x \notin A => A \cap T = A \cap S) /\ (x \notin B => B \cap T = B \cap S)
      OBVIOUS
    <3>6. /\ Total(A \cap S, f) \in Int /\ Total(B \cap S, g) \in Int
          /\ Total(A \cap T, f) \in Int /\ Total(B \cap T, g) \in Int
      BY <3>1, <1>2, <1>3
    <3>7. (x \in A => f[x] \in Int) /\ (x \in B => g[x] \in Int)
      OBVIOUS
    <3> HIDE DEF T
    <3>8. CASE x \in A /\ x \in B
      BY <3>2, <3>4, <3>6, <3>7, <3>8
    <3>9. CASE x \in A /\ x \notin B
      BY <3>2, <3>4, <3>5, <3>6, <3>7, <3>9
    <3>10. CASE x \notin A /\ x \in B
      BY <3>2, <3>4, <3>5, <3>6, <3>7, <3>10
    <3>11. CASE x \notin A /\ x \notin B
      BY <3>2, <3>5, <3>11
    <3> QED
      BY <3>8, <3>9, <3>10, <3>11
  <2> QED
    BY <1>4, <2>1
<1>7. Nat \subseteq Fine
  <2> HIDE DEF Fine
  <2> QED
    BY <1>5, <1>6, SetInduction
<1>8. U \in SUBSET U /\ Cardinality(U) \in Nat /\ Cardinality(U) <= Cardinality(U)
  BY FS_CardinalityType
<1>9. A \cap U = A /\ B \cap U = B
  OBVIOUS
<1>10. Total(A \cap U, f) <= Total(B \cap U, g)
  BY <1>7, <1>8
<1> QED
  BY <1>9, <1>10

\* The sum that MapThenSumSet takes over a function.
LEMMA SumIsTotal ==
    ASSUME NEW D, IsFiniteSet(D), NEW f \in [D -> Int]
    PROVE  SumOf(f) = Total(D, f)
<1> DEFINE Level0(i) == [s \in SUBSET D |->
                           IF s = {} THEN 0 ELSE f[AnyOf(s)] + i[s \ {AnyOf(s)}]]
           it == CHOOSE i : i = Level0(i)
<1>1. DOMAIN f = D /\ D \in SUBSET D
  OBVIOUS
<1>2. SumOf(f) = it[D]
  BY <1>1 DEF SumOf, MapThenSumSet, MapThenFoldSet, AnyOf
<1>3. \A i : Level0(i) = AddLevel(i, D, f)
  BY DEF AddLevel
<1> HIDE DEF Level0
<1>4. PICK i \in [SUBSET D -> Int] : AddsUp(i, D, f)
  BY <1>1, SumExists
<1>5. i = Level0(i)
  BY <1>3, <1>4 DEF AddsUp
<1>6. it = Level0(it)
  BY <1>5
<1> HIDE DEF it
<1>7. AddsUp(it, D, f)
  BY <1>3, <1>6 DEF AddsUp
<1> QED
  BY <1>1, <1>2, <1>7, TotalOf

\* There is a k-th smallest of finitely many integers, and it is one of them.
LEMMA NthIs ==
    ASSUME NEW D, IsFiniteSet(D), NEW f \in [D -> Int],
           NEW k \in Nat, 0 < k, k <= Cardinality(D)
    PROVE  \E d \in D : Nth(f, k) = f[d]
<1> DEFINE R == {f[i] : i \in D}
           Below(v) == {i \in D : f[i] < v}
           AtMost(v) == {i \in D : f[i] <= v}
           G == {v \in R : k <= Cardinality(AtMost(v))}
<1>0. /\ Cardinality(D) \in Nat
      /\ \A A \in SUBSET D : /\ IsFiniteSet(A) /\ Cardinality(A) \in Nat
                             /\ (Cardinality(A) = 0 <=> A = {})
  BY SubsetSizes
<1>1. R \subseteq Int /\ IsFiniteSet(R)
  <2>1. f \in [D -> R] /\ \A y \in R : \E x \in D : f[x] = y
    OBVIOUS
  <2> HIDE DEF R
  <2>2. IsFiniteSet(R)
    BY <2>1, ImageFinite
  <2> QED
    BY <2>2 DEF R
<1>2. G # {}
  <2>1. D # {}
    BY <1>0
  <2>2. R # {}
    BY <2>1
  <2>3. PICK m \in R : \A y \in R : y <= m
    <3> HIDE DEF R
    <3> QED
      BY <1>1, <2>2, GreatestOf
  <2>4. AtMost(m) = D
    BY <2>3
  <2> QED
    BY <2>3, <2>4
<1>3. G \subseteq R /\ G \subseteq Int /\ IsFiniteSet(G)
  <2>1. G \subseteq R
    OBVIOUS
  <2> HIDE DEF G, R
  <2> QED
    BY <1>1, <2>1, FS_Subset
<1>4. PICK v \in G : \A y \in G : v <= y
  <2> HIDE DEF G
  <2> QED
    BY <1>2, <1>3, LeastOf
<1>5. Cardinality(Below(v)) < k
  <2> SUFFICES ASSUME k <= Cardinality(Below(v)) PROVE FALSE
    BY <1>0
  <2> DEFINE L == {f[i] : i \in Below(v)}
  <2>1. Below(v) # {} /\ Below(v) \in SUBSET D
    BY <1>0
  <2>2. L # {} /\ L \subseteq R /\ L \subseteq Int
    BY <2>1
  <2>3. IsFiniteSet(L)
    <3> HIDE DEF L, R
    <3> QED
      BY <1>1, <2>2, FS_Subset
  <2>4. PICK u \in L : \A y \in L : y <= u
    <3> HIDE DEF L, R
    <3> QED
      BY <2>2, <2>3, GreatestOf
  <2>5. u \in Int /\ u < v /\ v \in Int
    BY <1>1, <2>4
  <2>6. AtMost(u) = Below(v)
    BY <2>4, <2>5
  <2>7. u \in G
    BY <2>2, <2>4, <2>6
  <2> QED
    BY <2>5, <2>7, <1>4
<1>6. DOMAIN f = D
  OBVIOUS
<1>7. Nth(f, k) = CHOOSE x \in R : Cardinality(Below(x)) < k /\ k <= Cardinality(AtMost(x))
  BY <1>6 DEF Nth
<1>8. \E x \in R : Cardinality(Below(x)) < k /\ k <= Cardinality(AtMost(x))
  BY <1>4, <1>5
<1>9. Nth(f, k) \in R
  <2> HIDE DEF R, Below, AtMost
  <2> QED
    BY <1>7, <1>8
<1> QED
  BY <1>9

\* A median is as large as some value, and of naturals a natural.
LEMMA MedianIs ==
    ASSUME NEW D, IsFiniteSet(D), NEW f \in [D -> Int]
    PROVE  /\ Median2(f) \in Int
           /\ (\A d \in D : f[d] >= 0) => Median2(f) >= 0
           /\ \A n \in Nat : Median2(f) > 2 * n => \E d \in D : f[d] > n
<1>1. CASE D = {}
  <2>1. Median2(f) = 0
    BY <1>1 DEF Median2
  <2> QED
    BY <2>1
<1>2. CASE D # {}
  <2>1. Cardinality(D) \in Nat /\ Cardinality(D) # 0
    BY <1>2, FS_CardinalityType, FS_EmptySet
  <2>2. ASSUME NEW n \in Nat, n # 0
        PROVE  /\ (n + 1) \div 2 \in Nat /\ 0 < (n + 1) \div 2 /\ (n + 1) \div 2 <= n
               /\ n \div 2 + 1 \in Nat /\ 0 < n \div 2 + 1 /\ n \div 2 + 1 <= n
    BY <2>2
  <2>3. PICK a \in D : Nth(f, (Cardinality(D) + 1) \div 2) = f[a]
    BY <2>1, <2>2, NthIs
  <2>4. PICK b \in D : Nth(f, Cardinality(D) \div 2 + 1) = f[b]
    BY <2>1, <2>2, NthIs
  <2>5. DOMAIN f = D
    OBVIOUS
  <2>6. Median2(f) = f[a] + f[b]
    BY <1>2, <2>3, <2>4, <2>5 DEF Median2, Count
  <2>7. f[a] \in Int /\ f[b] \in Int
    OBVIOUS
  <2>8. ASSUME NEW n \in Nat, Median2(f) > 2 * n PROVE f[a] > n \/ f[b] > n
    BY <2>6, <2>7, <2>8
  <2> QED
    BY <2>6, <2>7, <2>8
<1> QED
  BY <1>1, <1>2

\* A median deviation is a natural.
LEMMA MadIs ==
    ASSUME NEW D, IsFiniteSet(D), NEW f \in [D -> Int]
    PROVE  Mad4(f) \in Nat
<1> DEFINE g == [i \in D |-> Abs(2 * f[i] - Median2(f))]
<1>1. Median2(f) \in Int
  BY MedianIs
<1>2. \A i \in D : Abs(2 * f[i] - Median2(f)) \in Nat
  <2> TAKE i \in D
  <2>1. f[i] \in Int
    OBVIOUS
  <2>2. \A x \in Int : Abs(x) \in Nat
    BY DEF Abs
  <2> QED
    BY <1>1, <2>1, <2>2
<1>3. g \in [D -> Int] /\ DOMAIN f = D /\ \A d \in D : g[d] >= 0
  BY <1>2
<1>4. Mad4(f) = Median2(g)
  BY <1>3 DEF Mad4
<1> HIDE DEF g
<1>5. Median2(g) \in Int /\ Median2(g) >= 0
  BY <1>3, MedianIs
<1> QED
  BY <1>4, <1>5

\* The sets between two sets.
Between(lo, hi) == {S \in SUBSET hi : lo \subseteq S}

\* What a query for the calls of w finds at this time.
Available(t, w) == Countable(t, w) \ (IF w \in landed THEN {} ELSE Late(w))

\* The windows of the lookback of w.
Back(w) == {v \in Windows : w - Lookback <= v /\ v < w}

\* The insert of the target's row of w is behind.
Counted(t, w) ==
    \/ w \in judged
    \/ w = window /\ (step \in {"baseline", "detect"} \/ (step = "stats" /\ t = Edge))

\* The row holds the statistics of all calls that were sure to be found, and of
\* none that cannot be found now.
RowRight(t, w) ==
    \E S \in Between(Certain(t, w), Available(t, w)) :
        S # {} /\ stats[<<t, w>>] = WindowStats(S)

\* A row is written once, in its turn; a window that has been counted and has
\* no row had nothing to count.
StatsInv ==
    /\ \A t \in Targets, w \in Windows : <<t, w>> \in DOMAIN stats =>
          /\ w <= window
          /\ w = window => step # "read" /\ (step = "stats" => t = Edge)
          /\ RowRight(t, w)
    /\ \A t \in Targets, w \in Windows :
          (Counted(t, w) /\ <<t, w>> \notin DOMAIN stats) => Certain(t, w) = {}
    /\ step # "read" =>
          /\ window <= MaxWindow
          /\ fetched \in Between(Certain(Service, window), Available(Service, window))
    /\ \A w \in judged : w < window

\* The baseline of t for w is made of B: of calls of the lookback, of all that
\* were sure to be found, and of all that are counted in the lookback's rows.
MadeOf(t, w, B) ==
    /\ B # {} /\ baselines[<<t, w>>] = ComputeBaseline(B, History(t, w - Lookback, w))
    /\ B \subseteq UNION {Calls(v) : v \in Back(w)}
    /\ \A v \in Back(w) : Certain(t, v) \subseteq B
    /\ \A v \in Back(w) : <<t, v>> \in DOMAIN stats =>
          \E S \in Between(Certain(t, v), B \cap Countable(t, v)) :
             stats[<<t, v>>] = WindowStats(S)

BaselineRight(t, w) == \E B : MadeOf(t, w, B)

\* A baseline is made of its lookback, which nothing changes later; the window
\* in progress has one for every target that was sure to be seen before.
BaselineInv ==
    /\ \A t \in Targets, w \in Windows : <<t, w>> \in DOMAIN baselines =>
          /\ w <= window
          /\ w = window => step = "detect"
          /\ BaselineRight(t, w)
    /\ step = "detect" =>
          \A t \in Targets : (\E v \in Back(window) : Certain(t, v) # {})
                                => <<t, window>> \in DOMAIN baselines

-----------------------------------------------------------------------------

\* The calls of a window.
LEMMA CallsOf ==
    ASSUME load \in [Windows -> Loads], NEW w \in Windows
    PROVE  /\ Calls(w) = {w} \X DOMAIN load[w].lat
           /\ IsFiniteSet(Calls(w)) /\ Cardinality(Calls(w)) \in Nat
           /\ IsFiniteSet(DOMAIN load[w].lat)
           /\ \A c \in Calls(w) : c[1] = w /\ c[2] \in Nat /\ Latency(c) \in Int
           /\ load[w] \in Loads /\ load[w].late \in Nat /\ load[w].split \in Nat
           /\ load[w].errors \in Nat
<1> DEFINE lat == load[w].lat
<1>1. /\ load[w] \in [lat : Seq(Int), errors : Nat, late : Nat, split : Nat]
      /\ load[w] \in Loads
  BY DetectionAssumption
<1>2. lat \in Seq(Int) /\ load[w].late \in Nat /\ load[w].split \in Nat /\ load[w].errors \in Nat
  BY <1>1
<1>3. DOMAIN lat = 1..Len(lat) /\ Len(lat) \in Nat /\ \A i \in DOMAIN lat : lat[i] \in Int /\ i \in Nat
  <2> HIDE DEF lat
  <2> QED
    BY <1>2
<1>4. IsFiniteSet(DOMAIN lat)
  BY <1>3, FS_Interval
<1>5. Calls(w) = {w} \X DOMAIN lat
  BY DEF Calls
<1>6. IsFiniteSet({w} \X DOMAIN lat)
  <2>1. IsFiniteSet({w})
    BY FS_Singleton
  <2> HIDE DEF lat
  <2> QED
    BY <1>4, <2>1, FS_Product
<1>7. \A c \in Calls(w) : c[1] = w /\ c[2] \in DOMAIN lat
  BY <1>5
<1>8. \A c \in Calls(w) : Latency(c) = lat[c[2]]
  BY <1>7 DEF Latency
<1> HIDE DEF lat
<1> QED
  BY <1>1, <1>2, <1>3, <1>4, <1>5, <1>6, <1>7, <1>8, FS_CardinalityType DEF lat

\* What may be counted of a window, and what will be.
LEMMA Nested ==
    ASSUME NEW t \in Targets, NEW w \in Windows
    PROVE  /\ Certain(t, w) \subseteq Available(t, w)
           /\ Available(t, w) \subseteq Countable(t, w)
           /\ Countable(t, w) \subseteq Calls(w)
           /\ Available(Service, w) \subseteq Calls(w)
           /\ Available(Edge, w) = Available(Service, w) \ Split(w)
           /\ Certain(Edge, w) = Certain(Service, w) \ Split(w)
BY DEF Certain, Available, Countable, Service, Edge, Targets

\* What is counted is a finite number of calls, of failed ones no more.
LEMMA StatsAre ==
    ASSUME NEW S, IsFiniteSet(S)
    PROVE  /\ WindowStats(S).calls = Cardinality(S) /\ Cardinality(S) \in Nat
           /\ WindowStats(S).errors = Errors(S) /\ Errors(S) \in Nat
           /\ Errors(S) <= Cardinality(S)
<1>1. {c \in S : Failed(c)} \in SUBSET S
  OBVIOUS
<1>2. Cardinality(S) \in Nat /\ Errors(S) \in Nat /\ Errors(S) <= Cardinality(S)
  BY <1>1, SubsetSizes DEF Errors
<1> QED
  BY <1>2 DEF WindowStats

\* Whatever is counted of a window is finite, and no more than its calls.
LEMMA CountedFinite ==
    ASSUME load \in [Windows -> Loads], NEW t \in Targets, NEW w \in Windows,
           NEW S \in SUBSET Countable(t, w)
    PROVE  /\ IsFiniteSet(S) /\ Cardinality(S) \in Nat /\ S \in SUBSET Calls(w)
           /\ Cardinality(S) <= Cardinality(Calls(w))
           /\ Cardinality(S) <= Cardinality(Countable(t, w))
           /\ \A A \in SUBSET S : Cardinality(A) <= Cardinality(S)
<1>1. S \in SUBSET Calls(w) /\ Countable(t, w) \in SUBSET Calls(w)
  BY Nested
<1>2. IsFiniteSet(Calls(w)) /\ IsFiniteSet(Countable(t, w))
  BY <1>1, CallsOf, FS_Subset
<1>3. IsFiniteSet(S) /\ Cardinality(S) <= Cardinality(Countable(t, w))
  BY <1>2, FS_Subset
<1>4. Cardinality(S) <= Cardinality(Calls(w))
  BY <1>1, <1>2, FS_Subset
<1>5. \A A \in SUBSET S : Cardinality(A) <= Cardinality(S)
  BY <1>3, FS_Subset
<1> QED
  BY <1>1, <1>3, <1>4, <1>5, FS_CardinalityType

\* Windows are numbers.
LEMMA WindowsAre == \A w \in Windows : w \in Int /\ 0 <= w /\ w <= MaxWindow
BY DetectionAssumption DEF Windows

\* A window as it is read.
LEMMA Reads ==
    ASSUME NEW w \in Windows
    PROVE  /\ FetchSpans(w, w + 1) = Available(Service, w)
           /\ \A found \in SUBSET Calls(w) : ResolvedPairs(found, w) = found \ Split(w)
<1>1. {v \in Windows : w <= v /\ v < w + 1} = {w}
  BY WindowsAre
<1>2. FetchSpans(w, w + 1) = Calls(w) \ (IF w \in landed THEN {} ELSE Late(w))
  BY <1>1 DEF FetchSpans
<1>3. ASSUME NEW found \in SUBSET Calls(w) PROVE ResolvedPairs(found, w) = found \ Split(w)
  <2>1. \A c \in found : c[1] = w
    BY DEF Calls
  <2>2. w \in Int
    BY WindowsAre
  <2>3. \A c \in found : (c \in Split(c[1]) => c[1] > w) <=> c \notin Split(w)
    BY <2>1, <2>2
  <2> QED
    BY <2>3 DEF ResolvedPairs
<1> QED
  BY <1>2, <1>3 DEF Available, Countable

\* A lookback as it is read for the baseline of w.
LookbackCalls(t, w) ==
    IF t = Service THEN FetchSpans(w - Lookback, w)
    ELSE ResolvedPairs(FetchSpans(w - Lookback, w), w - Lookback)

LEMMA LooksBack ==
    ASSUME NEW t \in Targets, NEW w \in Windows
    PROVE  /\ LookbackCalls(t, w) \subseteq UNION {Calls(v) : v \in Back(w)}
           /\ \A v \in Back(w) : Available(t, v) \subseteq LookbackCalls(t, w)
<1> DEFINE lo == w - Lookback
           Fetched(v) == Calls(v) \ (IF v \in landed THEN {} ELSE Late(v))
<1>1. FetchSpans(lo, w) = UNION {Fetched(v) : v \in Back(w)}
  BY DEF FetchSpans, Back
<1>2. FetchSpans(lo, w) \subseteq UNION {Calls(v) : v \in Back(w)}
  BY <1>1
<1>3. LookbackCalls(t, w) \subseteq FetchSpans(lo, w)
  BY DEF LookbackCalls, ResolvedPairs
<1>4. ASSUME NEW v \in Back(w), NEW c \in Available(t, v) PROVE c \in LookbackCalls(t, w)
  <2>1. c \in Fetched(v) /\ c \in Calls(v) /\ v \in Windows
    BY <1>4, Nested DEF Available, Countable, Back
  <2>2. c \in FetchSpans(lo, w)
    BY <1>1, <2>1
  <2>3. c[1] = v
    BY <2>1 DEF Calls
  <2>4. CASE t = Service
    BY <2>2, <2>4 DEF LookbackCalls
  <2>5. CASE t # Service
    <3>1. c \notin Split(v)
      BY <1>4, <2>5 DEF Available, Countable
    <3>2. c \in ResolvedPairs(FetchSpans(lo, w), lo)
      BY <2>2, <2>3, <3>1 DEF ResolvedPairs
    <3> QED
      BY <2>5, <3>2 DEF LookbackCalls
  <2> QED
    BY <2>4, <2>5
<1> QED
  BY <1>2, <1>3, <1>4

\* The row of a group-by, inserted.
LEMMA RowInserted ==
    ASSUME NEW t, NEW w, NEW S, NEW table, NEW after,
           after = Inserted(StatsOf(t, w, S), table)
    PROVE  /\ DOMAIN after = DOMAIN table \cup (IF S = {} THEN {} ELSE {<<t, w>>})
           /\ S # {} => after[<<t, w>>] = WindowStats(S)
           /\ \A k \in DOMAIN table : k # <<t, w>> => after[k] = table[k]
<1>1. DOMAIN StatsOf(t, w, S) = IF S = {} THEN {} ELSE {<<t, w>>}
  BY DEF StatsOf
<1>2. S # {} => StatsOf(t, w, S)[<<t, w>>] = WindowStats(S)
  BY DEF StatsOf
<1> QED
  BY <1>1, <1>2 DEF Inserted

\* What a window carries is fixed, and what has landed stays.
LEMMA LoadFixed ==
    ASSUME [DetectionNext]_detectionVars
    PROVE  /\ load' = load /\ landed \subseteq landed' /\ judged \subseteq judged'
           /\ detections \subseteq detections'
BY DEF DetectionNext, detectionVars, ReadWindow, AggregateWindow, Refresh, Detect, Land, Crash,
       WriteDetections

LEMMA CallsFixed ==
    ASSUME load' = load, landed \subseteq landed'
    PROVE  /\ \A w : Calls(w)' = Calls(w)
           /\ \A t, w : Countable(t, w)' = Countable(t, w) /\ Certain(t, w)' = Certain(t, w)
           /\ \A t, w : Available(t, w) \subseteq Available(t, w)'
<1>1. \A w : Calls(w)' = Calls(w)
  BY DEF Calls
<1>2. \A w : Late(w)' = Late(w)
  BY <1>1 DEF Late
<1>3. \A w : Split(w)' = Split(w)
  BY <1>1 DEF Split
<1>4. \A t, w : Countable(t, w)' = Countable(t, w)
  BY <1>1, <1>3 DEF Countable
<1>5. \A t, w : Certain(t, w)' = Certain(t, w)
  BY <1>2, <1>4 DEF Certain
<1>6. \A t, w : Available(t, w) \subseteq Available(t, w)'
  BY <1>2, <1>4 DEF Available
<1> QED
  BY <1>1, <1>4, <1>5, <1>6

LEMMA StatsFixed ==
    ASSUME load' = load
    PROVE  /\ \A S : WindowStats(S)' = WindowStats(S)
           /\ \A S, h : ComputeBaseline(S, h)' = ComputeBaseline(S, h)
<1>1. \A S : Latencies(S)' = Latencies(S)
  BY DEF Latencies, Latency
<1>2. \A S : Errors(S)' = Errors(S)
  BY DEF Errors, Failed
<1>3. \A S : WindowStats(S)' = WindowStats(S)
  BY <1>1, <1>2 DEF WindowStats
<1>4. \A S, h : ComputeBaseline(S, h)' = ComputeBaseline(S, h)
  BY <1>1, <1>2 DEF ComputeBaseline
<1> QED
  BY <1>3, <1>4

\* A row stays right.
LEMMA RowKept ==
    ASSUME [DetectionNext]_detectionVars, NEW t, NEW w, RowRight(t, w),
           stats'[<<t, w>>] = stats[<<t, w>>]
    PROVE  RowRight(t, w)'
<1>1. PICK S \in Between(Certain(t, w), Available(t, w)) : S # {} /\ stats[<<t, w>>] = WindowStats(S)
  BY DEF RowRight
<1>2. WindowStats(S)' = WindowStats(S)
  BY LoadFixed, StatsFixed
<1>3. Certain(t, w)' = Certain(t, w) /\ Available(t, w) \subseteq Available(t, w)'
  BY LoadFixed, CallsFixed
<1>4. S \in Between(Certain(t, w)', Available(t, w)')
  BY <1>1, <1>3 DEF Between
<1>5. stats'[<<t, w>>] = WindowStats(S)'
  BY <1>1, <1>2
<1> QED
  BY <1>1, <1>4, <1>5 DEF RowRight

\* A row that has just been written is right.
LEMMA RowWritten ==
    ASSUME [DetectionNext]_detectionVars, NEW t \in Targets, NEW w \in Windows,
           NEW S \in Between(Certain(t, w), Available(t, w)), S # {},
           stats'[<<t, w>>] = WindowStats(S)
    PROVE  RowRight(t, w)'
<1>1. WindowStats(S)' = WindowStats(S)
  BY LoadFixed, StatsFixed
<1>2. Certain(t, w)' = Certain(t, w) /\ Available(t, w) \subseteq Available(t, w)'
  BY LoadFixed, CallsFixed
<1>3. S \in Between(Certain(t, w)', Available(t, w)')
  BY <1>2 DEF Between
<1>4. stats'[<<t, w>>] = WindowStats(S)'
  BY <1>1
<1> QED
  BY <1>3, <1>4 DEF RowRight

\* The insert of a row of what was found of w.
Writes(t, w, S) ==
    /\ S \in Between(Certain(t, w), Available(t, w))
    /\ stats' = Inserted(StatsOf(t, w, S), stats)

LEMMA RowWrites ==
    ASSUME NEW t, NEW w, NEW S, Writes(t, w, S)
    PROVE  /\ DOMAIN stats' = DOMAIN stats \cup (IF S = {} THEN {} ELSE {<<t, w>>})
           /\ S # {} => stats'[<<t, w>>] = WindowStats(S)
           /\ \A k \in DOMAIN stats : k # <<t, w>> => stats'[k] = stats[k]
<1> DEFINE after == stats'
<1>1. after = Inserted(StatsOf(t, w, S), stats)
  BY DEF Writes
<1> HIDE DEF after
<1>2. /\ DOMAIN after = DOMAIN stats \cup (IF S = {} THEN {} ELSE {<<t, w>>})
      /\ S # {} => after[<<t, w>>] = WindowStats(S)
      /\ \A k \in DOMAIN stats : k # <<t, w>> => after[k] = stats[k]
  BY <1>1, RowInserted
<1> QED
  BY <1>2 DEF after

\* Only the row in turn is written, and every other one is kept.
RowsKept ==
    /\ \A k \in DOMAIN stats : k \in DOMAIN stats' /\ stats'[k] = stats[k]
    /\ \A t \in Targets, w \in Windows :
          (<<t, w>> \in DOMAIN stats' /\ <<t, w>> \notin DOMAIN stats) =>
             /\ w = window /\ window' = window
             /\ (t = Edge => step = "read") /\ (t = Service => step = "stats")
             /\ step' = (IF t = Edge THEN "stats" ELSE "baseline")

LEMMA ReadStep ==
    ASSUME DetectionTypeOK, StatsInv, ReadWindow
    PROVE  /\ window \in Windows /\ fetched' = Available(Service, window)
           /\ Writes(Edge, window, Available(Edge, window))
           /\ <<Edge, window>> \notin DOMAIN stats
<1>1. window \in Windows
  BY DetectionAssumption DEF DetectionTypeOK, ReadWindow, Windows
<1>2. fetched' = Available(Service, window)
  BY <1>1, Reads DEF ReadWindow
<1>3. /\ Available(Service, window) \subseteq Calls(window)
      /\ Available(Edge, window) = Available(Service, window) \ Split(window)
      /\ Certain(Edge, window) \subseteq Available(Edge, window)
  BY <1>1, Nested DEF Targets
<1>4. ResolvedPairs(Available(Service, window), window) = Available(Edge, window)
  BY <1>1, <1>3, Reads
<1>5. stats' = Inserted(AggregateEdges(fetched', window), stats)
  BY DEF ReadWindow, WriteServiceEdges
<1>6. stats' = Inserted(StatsOf(Edge, window, Available(Edge, window)), stats)
  BY <1>2, <1>4, <1>5 DEF AggregateEdges
<1>7. <<Edge, window>> \notin DOMAIN stats
  BY <1>1 DEF StatsInv, ReadWindow, Targets
<1> QED
  BY <1>1, <1>2, <1>3, <1>6, <1>7 DEF Writes, Between

LEMMA AggregateStep ==
    ASSUME DetectionTypeOK, StatsInv, AggregateWindow
    PROVE  /\ window \in Windows /\ Writes(Service, window, fetched)
           /\ <<Service, window>> \notin DOMAIN stats
<1>1. step = "stats"
  BY DEF AggregateWindow
<1>2. window \in Windows /\ fetched \in Between(Certain(Service, window), Available(Service, window))
  BY <1>1, DetectionAssumption DEF DetectionTypeOK, StatsInv, Windows
<1>3. stats' = Inserted(StatsOf(Service, window, fetched), stats)
  BY DEF AggregateWindow, WriteServiceStats, AggregateServices
<1>4. <<Service, window>> \notin DOMAIN stats
  BY <1>1, <1>2 DEF StatsInv, Targets, Service, Edge
<1> QED
  BY <1>2, <1>3, <1>4 DEF Writes

LEMMA KeepsRows ==
    ASSUME DetectionTypeOK, StatsInv, [DetectionNext]_detectionVars
    PROVE  RowsKept
<1>1. CASE ReadWindow
  <2>1. DOMAIN stats' \subseteq DOMAIN stats \cup {<<Edge, window>>}
    BY <1>1, ReadStep, RowWrites
  <2>2. \A k \in DOMAIN stats : k \in DOMAIN stats' /\ stats'[k] = stats[k]
    BY <1>1, ReadStep, RowWrites
  <2>3. Edge # Service /\ step = "read" /\ step' = "stats" /\ window' = window
    BY <1>1 DEF ReadWindow, Edge, Service
  <2> QED
    BY <2>1, <2>2, <2>3 DEF RowsKept
<1>2. CASE AggregateWindow
  <2>1. DOMAIN stats' \subseteq DOMAIN stats \cup {<<Service, window>>}
    BY <1>2, AggregateStep, RowWrites
  <2>2. \A k \in DOMAIN stats : k \in DOMAIN stats' /\ stats'[k] = stats[k]
    BY <1>2, AggregateStep, RowWrites
  <2>3. Edge # Service /\ step = "stats" /\ step' = "baseline" /\ window' = window
    BY <1>2 DEF AggregateWindow, Edge, Service
  <2> QED
    BY <2>1, <2>2, <2>3 DEF RowsKept
<1>3. ASSUME stats' = stats PROVE RowsKept
  BY <1>3 DEF RowsKept
<1> QED
  BY <1>1, <1>2, <1>3 DEF DetectionNext, detectionVars, Refresh, Detect, Land, Crash

\* Each row there was, and each that is new, is right.
LEMMA RightRows ==
    ASSUME DetectionTypeOK, StatsInv, [DetectionNext]_detectionVars,
           NEW t \in Targets, NEW w \in Windows, <<t, w>> \in DOMAIN stats'
    PROVE  RowRight(t, w)'
<1>1. CASE <<t, w>> \in DOMAIN stats
  <2>1. stats'[<<t, w>>] = stats[<<t, w>>]
    BY <1>1, KeepsRows DEF RowsKept
  <2>2. RowRight(t, w)
    BY <1>1 DEF StatsInv
  <2> QED
    BY <2>1, <2>2, RowKept
<1>2. CASE <<t, w>> \notin DOMAIN stats
  <2>1. CASE ReadWindow
    <3>1. Writes(Edge, window, Available(Edge, window)) /\ window \in Windows
      BY <2>1, ReadStep
    <3>2. t = Edge /\ w = window /\ Available(Edge, window) # {}
      <4>1. DOMAIN stats' = DOMAIN stats
                              \cup (IF Available(Edge, window) = {} THEN {} ELSE {<<Edge, window>>})
        BY <3>1, RowWrites
      <4> QED
        BY <1>2, <4>1
    <3>3. stats'[<<t, w>>] = WindowStats(Available(Edge, window))
      BY <3>1, <3>2, RowWrites
    <3> QED
      BY <3>1, <3>2, <3>3, RowWritten DEF Writes
  <2>2. CASE AggregateWindow
    <3>1. Writes(Service, window, fetched) /\ window \in Windows
      BY <2>2, AggregateStep
    <3>2. t = Service /\ w = window /\ fetched # {}
      <4>1. DOMAIN stats' = DOMAIN stats \cup (IF fetched = {} THEN {} ELSE {<<Service, window>>})
        BY <3>1, RowWrites
      <4> QED
        BY <1>2, <4>1
    <3>3. stats'[<<t, w>>] = WindowStats(fetched)
      BY <3>1, <3>2, RowWrites
    <3> QED
      BY <3>1, <3>2, <3>3, RowWritten DEF Writes
  <2>3. stats' # stats
    BY <1>2
  <2> QED
    BY <2>1, <2>2, <2>3 DEF DetectionNext, detectionVars, Refresh, Detect, Land, Crash
<1> QED
  BY <1>1, <1>2

\* The windows processed only move on.
LEMMA WindowMoves ==
    ASSUME DetectionTypeOK, [DetectionNext]_detectionVars
    PROVE  window \in Int /\ window <= window' /\ window' \in Int
BY DetectionAssumption DEF DetectionTypeOK, DetectionNext, detectionVars, ReadWindow,
   AggregateWindow, Refresh, Detect, Land, Crash

LEMMA StatsHold ==
    ASSUME DetectionTypeOK, StatsInv, [DetectionNext]_detectionVars
    PROVE  StatsInv'
<1>0. window \in Int /\ window <= window' /\ window' \in Int
  BY WindowMoves
<1>1. ASSUME NEW t \in Targets, NEW w \in Windows, <<t, w>> \in DOMAIN stats'
      PROVE  /\ w <= window' /\ RowRight(t, w)'
             /\ w = window' => step' # "read" /\ (step' = "stats" => t = Edge)
  <2>1. RowRight(t, w)'
    BY <1>1, RightRows
  <2>2. CASE <<t, w>> \in DOMAIN stats
    <3>1. w <= window /\ (w = window => step # "read" /\ (step = "stats" => t = Edge)) /\ w \in Int
      BY <2>2, WindowsAre DEF StatsInv
    <3>2. window' = window => \/ step' = step \/ step = "read" \/ step' \in {"baseline", "detect"}
      BY <1>0 DEF DetectionNext, detectionVars, ReadWindow, AggregateWindow, Refresh, Detect,
             Land, Crash
    <3> QED
      BY <1>0, <2>1, <3>1, <3>2
  <2>3. CASE <<t, w>> \notin DOMAIN stats
    <3>1. w = window /\ window' = window /\ step' = (IF t = Edge THEN "stats" ELSE "baseline")
      BY <1>1, <2>3, KeepsRows DEF RowsKept
    <3> QED
      BY <1>0, <2>1, <3>1
  <2> QED
    BY <2>2, <2>3
<1>2. ASSUME NEW t \in Targets, NEW w \in Windows, Counted(t, w)', <<t, w>> \notin DOMAIN stats'
      PROVE  Certain(t, w)' = {}
  <2>1. Certain(t, w)' = Certain(t, w)
    BY LoadFixed, CallsFixed
  <2>2. <<t, w>> \notin DOMAIN stats
    BY <1>2, KeepsRows DEF RowsKept
  <2>3. CASE Counted(t, w)
    BY <2>1, <2>2, <2>3 DEF StatsInv
  <2>4. CASE ~Counted(t, w)
    <3>1. CASE ReadWindow
      <4>1. t = Edge /\ w = window
        BY <1>2, <2>4, <3>1 DEF Counted, ReadWindow
      <4>2. Writes(Edge, window, Available(Edge, window))
        BY <3>1, ReadStep
      <4>3. DOMAIN stats' = DOMAIN stats
                              \cup (IF Available(Edge, window) = {} THEN {} ELSE {<<Edge, window>>})
        BY <4>2, RowWrites
      <4>4. Certain(Edge, window) \subseteq Available(Edge, window)
        BY <4>2 DEF Writes, Between
      <4> QED
        BY <1>2, <2>1, <4>1, <4>3, <4>4
    <3>2. CASE AggregateWindow
      <4>1. t = Service /\ w = window
        BY <1>2, <2>4, <3>2 DEF Counted, AggregateWindow, Targets
      <4>2. fetched = {} /\ Certain(Service, window) \subseteq fetched
        BY <1>2, <3>2, <4>1, AggregateStep, RowWrites DEF Writes, Between
      <4> QED
        BY <2>1, <4>1, <4>2
    <3>3. CASE Refresh \/ Detect \/ UNCHANGED detectionVars
      BY <1>2, <2>4, <3>3 DEF Counted, Refresh, Detect, detectionVars
    <3>4. ASSUME NEW v \in Windows, Land(v) PROVE FALSE
      BY <1>2, <2>4, <3>4 DEF Counted, Land
    <3>5. CASE Crash
      BY <1>2, <2>4, <3>5 DEF Counted, Crash
    <3> QED
      BY <3>1, <3>2, <3>3, <3>4, <3>5 DEF DetectionNext
  <2> QED
    BY <2>3, <2>4
<1>3. ASSUME step' # "read"
      PROVE  /\ window' <= MaxWindow
             /\ fetched' \in Between(Certain(Service, window)', Available(Service, window)')
  <2>1. window' = window
    BY <1>3 DEF DetectionNext, detectionVars, ReadWindow, AggregateWindow, Refresh, Detect, Land, Crash
  <2>2. \A t, w : Certain(t, w)' = Certain(t, w) /\ Available(t, w) \subseteq Available(t, w)'
    BY LoadFixed, CallsFixed
  <2>3. Certain(Service, window)' = Certain(Service, window)
        /\ Available(Service, window) \subseteq Available(Service, window)'
    BY <2>1, <2>2
  <2>4. CASE ReadWindow
    <3>1. fetched' = Available(Service, window) /\ window \in Windows
      BY <2>4, ReadStep
    <3>2. Certain(Service, window) \subseteq Available(Service, window)
      BY <3>1, Nested DEF Targets
    <3> QED
      BY <2>1, <2>3, <2>4, <3>1, <3>2 DEF Between, ReadWindow
  <2>5. CASE step # "read" /\ fetched' = fetched
    <3>1. /\ window <= MaxWindow
          /\ fetched \in Between(Certain(Service, window), Available(Service, window))
      BY <2>5 DEF StatsInv
    <3> QED
      BY <2>1, <2>3, <2>5, <3>1 DEF Between
  <2> QED
    BY <1>3, <2>4, <2>5 DEF DetectionNext, detectionVars, AggregateWindow, Refresh, Detect, Land, Crash
<1>4. \A w \in judged' : w < window'
  <2>1. ~Detect => judged' = judged
    BY DEF DetectionNext, detectionVars, ReadWindow, AggregateWindow, Refresh, Land, Crash
  <2>2. Detect => judged' = judged \cup {window} /\ window' = window + 1
    BY DEF Detect
  <2>3. \A w \in judged : w < window /\ w \in Int
    <3>1. \A w \in judged : w < window
      BY DEF StatsInv
    <3>2. \A w \in judged : w \in Windows
      BY DEF DetectionTypeOK
    <3> QED
      BY <3>1, <3>2, WindowsAre
  <2> QED
    BY <1>0, <2>1, <2>2, <2>3
<1> QED
  BY <1>1, <1>2, <1>3, <1>4 DEF StatsInv

\* The history of a window that has begun is complete.
LEMMA HistoryKept ==
    ASSUME DetectionTypeOK, StatsInv, [DetectionNext]_detectionVars,
           NEW t \in Targets, NEW w \in Windows, w <= window
    PROVE  /\ History(t, w - Lookback, w)' = History(t, w - Lookback, w)
           /\ \A v \in Back(w) : /\ <<t, v>> \in DOMAIN stats' <=> <<t, v>> \in DOMAIN stats
                                 /\ <<t, v>> \in DOMAIN stats => stats'[<<t, v>>] = stats[<<t, v>>]
<1>1. ASSUME NEW v \in Windows, v < w
      PROVE  /\ <<t, v>> \in DOMAIN stats' <=> <<t, v>> \in DOMAIN stats
             /\ <<t, v>> \in DOMAIN stats => stats'[<<t, v>>] = stats[<<t, v>>]
  <2>1. v \in Int /\ w \in Int /\ window \in Int
    BY WindowsAre, WindowMoves
  <2>2. v # window
    BY <1>1, <2>1
  <2> QED
    BY <2>2, KeepsRows DEF RowsKept
<1>2. History(t, w - Lookback, w)' = History(t, w - Lookback, w)
  <2> DEFINE lo == w - Lookback
             D == {v \in Windows : lo <= v /\ v < w /\ <<t, v>> \in DOMAIN stats}
             E == {v \in Windows : lo <= v /\ v < w /\ <<t, v>> \in DOMAIN stats'}
  <2>1. D = E
    BY <1>1
  <2>2. \A v \in D : stats'[<<t, v>>] = stats[<<t, v>>]
    BY <1>1
  <2>3. [v \in D |-> stats[<<t, v>>].calls] = [v \in E |-> stats'[<<t, v>>].calls]
    BY <2>1, <2>2
  <2> QED
    BY <2>3 DEF History
<1> QED
  BY <1>1, <1>2 DEF Back

\* What a set of calls says of a baseline of t for w is not changed by a step.
LEMMA MadeOfKept ==
    ASSUME NEW t, NEW w, NEW B,
           load' = load, landed \subseteq landed',
           History(t, w - Lookback, w)' = History(t, w - Lookback, w),
           \A v \in Back(w) : <<t, v>> \in DOMAIN stats' =>
               <<t, v>> \in DOMAIN stats /\ stats'[<<t, v>>] = stats[<<t, v>>],
           B # {}, B \subseteq UNION {Calls(v) : v \in Back(w)},
           baselines'[<<t, w>>] = ComputeBaseline(B, History(t, w - Lookback, w)),
           \A v \in Back(w) : Certain(t, v) \subseteq B,
           \A v \in Back(w) : <<t, v>> \in DOMAIN stats =>
              \E S \in Between(Certain(t, v), B \cap Countable(t, v)) :
                 stats[<<t, v>>] = WindowStats(S)
    PROVE  MadeOf(t, w, B)'
<1>1. /\ \A v : Calls(v)' = Calls(v)
      /\ \A v : Certain(t, v)' = Certain(t, v) /\ Countable(t, v)' = Countable(t, v)
      /\ \A S : WindowStats(S)' = WindowStats(S)
  BY CallsFixed, StatsFixed
<1>2. baselines'[<<t, w>>] = ComputeBaseline(B, History(t, w - Lookback, w))'
  <2>1. ComputeBaseline(B, History(t, w - Lookback, w)')
          = ComputeBaseline(B, History(t, w - Lookback, w))'
    BY DEF ComputeBaseline, Latencies, Latency, Errors, Failed
  <2> QED
    BY <2>1
<1>3. Back(w)' = Back(w)
  BY DEF Back
<1>4. ASSUME NEW v \in Back(w), <<t, v>> \in DOMAIN stats'
      PROVE  \E S \in Between(Certain(t, v)', B \cap Countable(t, v)') :
                stats'[<<t, v>>] = WindowStats(S)'
  <2>1. <<t, v>> \in DOMAIN stats /\ stats'[<<t, v>>] = stats[<<t, v>>]
    BY <1>4
  <2>2. PICK S \in Between(Certain(t, v), B \cap Countable(t, v)) : stats[<<t, v>>] = WindowStats(S)
    BY <2>1
  <2>3. Between(Certain(t, v), B \cap Countable(t, v)) = Between(Certain(t, v)', B \cap Countable(t, v)')
    BY <1>1
  <2>4. stats'[<<t, v>>] = WindowStats(S)'
    BY <1>1, <2>1, <2>2
  <2> QED
    BY <2>2, <2>3, <2>4
<1>5. /\ B # {} /\ B \subseteq UNION {Calls(v)' : v \in Back(w)}
      /\ \A v \in Back(w) : Certain(t, v)' \subseteq B
  BY <1>1
<1> QED
  BY <1>2, <1>3, <1>4, <1>5 DEF MadeOf

\* A baseline stays right.
LEMMA BaselineKept ==
    ASSUME DetectionTypeOK, StatsInv, [DetectionNext]_detectionVars,
           NEW t \in Targets, NEW w \in Windows, w <= window, BaselineRight(t, w),
           baselines'[<<t, w>>] = baselines[<<t, w>>]
    PROVE  BaselineRight(t, w)'
<1>1. PICK B : MadeOf(t, w, B)
  BY DEF BaselineRight
<1>2. /\ History(t, w - Lookback, w)' = History(t, w - Lookback, w)
      /\ \A v \in Back(w) : <<t, v>> \in DOMAIN stats' =>
            <<t, v>> \in DOMAIN stats /\ stats'[<<t, v>>] = stats[<<t, v>>]
  BY HistoryKept
<1>3. baselines'[<<t, w>>] = ComputeBaseline(B, History(t, w - Lookback, w))
  BY <1>1 DEF MadeOf
<1>4. /\ B # {} /\ B \subseteq UNION {Calls(v) : v \in Back(w)}
      /\ \A v \in Back(w) : Certain(t, v) \subseteq B
      /\ \A v \in Back(w) : <<t, v>> \in DOMAIN stats =>
            \E S \in Between(Certain(t, v), B \cap Countable(t, v)) :
               stats[<<t, v>>] = WindowStats(S)
  BY <1>1 DEF MadeOf
<1>5. MadeOf(t, w, B)'
  BY <1>2, <1>3, <1>4, LoadFixed, MadeOfKept
<1> QED
  BY <1>5 DEF BaselineRight

\* What a refresh computes and writes.
LEMMA Refreshed ==
    ASSUME BaselineInv, Refresh, window \in Windows
    PROVE  /\ \A t \in Targets :
                 /\ <<t, window>> \in DOMAIN baselines' <=> LookbackCalls(t, window) # {}
                 /\ LookbackCalls(t, window) # {} =>
                       baselines'[<<t, window>>] = ComputeBaseline(LookbackCalls(t, window),
                                                      History(t, window - Lookback, window))
           /\ \A k : k[2] # window =>
                 /\ k \in DOMAIN baselines' <=> k \in DOMAIN baselines
                 /\ k \in DOMAIN baselines => baselines'[k] = baselines[k]
           /\ DOMAIN baselines' \subseteq DOMAIN baselines \cup (Targets \X {window})
<1> DEFINE fresh == RefreshBaselines(window)
           row == [k \in {<<t, window>> : t \in DOMAIN fresh} |-> fresh[k[1]]]
           Baseline(t) == ComputeBaseline(LookbackCalls(t, window),
                                          History(t, window - Lookback, window))
<1>1. baselines' = Inserted(row, baselines)
  BY DEF Refresh, WriteBaselines
<1>2. fresh = [t \in {u \in Targets : LookbackCalls(u, window) # {}} |-> Baseline(t)]
  BY DEF RefreshBaselines, LookbackCalls, FetchServiceCallCountHistory, FetchEdgeCallCountHistory,
         Targets
<1>3. /\ DOMAIN fresh = {u \in Targets : LookbackCalls(u, window) # {}}
      /\ \A t \in DOMAIN fresh : fresh[t] = Baseline(t)
  BY <1>2
<1> HIDE DEF fresh, Baseline
<1>4. /\ DOMAIN row = {<<t, window>> : t \in DOMAIN fresh}
      /\ \A t \in DOMAIN fresh : row[<<t, window>>] = fresh[t]
  OBVIOUS
<1>5. \A t \in Targets : <<t, window>> \notin DOMAIN baselines
  BY DEF BaselineInv, Refresh
<1> HIDE DEF row
<1>6. /\ DOMAIN baselines' = DOMAIN row \cup DOMAIN baselines
      /\ \A k \in DOMAIN baselines' : baselines'[k] = IF k \in DOMAIN row THEN row[k] ELSE baselines[k]
  BY <1>1 DEF Inserted
<1>7. ASSUME NEW t \in Targets
      PROVE  /\ <<t, window>> \in DOMAIN baselines' <=> LookbackCalls(t, window) # {}
             /\ LookbackCalls(t, window) # {} => baselines'[<<t, window>>] = Baseline(t)
  <2>1. <<t, window>> \in DOMAIN row <=> t \in DOMAIN fresh
    BY <1>4
  <2>2. t \in DOMAIN fresh <=> LookbackCalls(t, window) # {}
    BY <1>3
  <2>3. <<t, window>> \in DOMAIN baselines' <=> <<t, window>> \in DOMAIN row
    BY <1>5, <1>6
  <2>4. t \in DOMAIN fresh => baselines'[<<t, window>>] = fresh[t]
    BY <1>4, <1>6, <2>1
  <2> QED
    BY <1>3, <2>1, <2>2, <2>3, <2>4
<1>8. ASSUME NEW k, k[2] # window
      PROVE  /\ k \in DOMAIN baselines' <=> k \in DOMAIN baselines
             /\ k \in DOMAIN baselines => baselines'[k] = baselines[k]
  <2>1. k \notin DOMAIN row
    BY <1>4, <1>8
  <2> QED
    BY <1>6, <2>1
<1>9. DOMAIN baselines' \subseteq DOMAIN baselines \cup (Targets \X {window})
  BY <1>3, <1>4, <1>6
<1> QED
  BY <1>7, <1>8, <1>9 DEF Baseline

\* A baseline that has just been written is right.
LEMMA BaselineWritten ==
    ASSUME DetectionTypeOK, StatsInv, BaselineInv, Refresh, window \in Windows,
           NEW t \in Targets, <<t, window>> \in DOMAIN baselines'
    PROVE  BaselineRight(t, window)'
<1> DEFINE B == LookbackCalls(t, window)
<1>1. B # {} /\ baselines'[<<t, window>>] = ComputeBaseline(B, History(t, window - Lookback, window))
  BY Refreshed
<1>2. /\ B \subseteq UNION {Calls(v) : v \in Back(window)}
      /\ \A v \in Back(window) : Available(t, v) \subseteq B
  BY LooksBack
<1> HIDE DEF B
<1>3. \A v \in Back(window) : v \in Windows
  BY DEF Back
<1>4. ASSUME NEW v \in Back(window)
      PROVE  /\ Certain(t, v) \subseteq B
             /\ <<t, v>> \in DOMAIN stats =>
                  \E S \in Between(Certain(t, v), B \cap Countable(t, v)) :
                     stats[<<t, v>>] = WindowStats(S)
  <2>1. /\ Certain(t, v) \subseteq Available(t, v) /\ Available(t, v) \subseteq Countable(t, v)
        /\ Available(t, v) \subseteq B
    BY <1>2, <1>3, Nested
  <2>2. ASSUME <<t, v>> \in DOMAIN stats
        PROVE  \E S \in Between(Certain(t, v), B \cap Countable(t, v)) : stats[<<t, v>>] = WindowStats(S)
    <3>1. PICK S \in Between(Certain(t, v), Available(t, v)) : stats[<<t, v>>] = WindowStats(S)
      BY <2>2, <1>3 DEF StatsInv, RowRight
    <3>2. S \in Between(Certain(t, v), B \cap Countable(t, v))
      BY <2>1, <3>1 DEF Between
    <3> QED
      BY <3>1, <3>2
  <2> QED
    BY <2>1, <2>2
<1>5. load' = load /\ stats' = stats /\ window' = window /\ landed' = landed
  BY DEF Refresh
<1>6. PICK w : w = window
  OBVIOUS
<1>7. History(t, w - Lookback, w)' = History(t, w - Lookback, w)
  BY <1>5 DEF History
<1>8. /\ B # {} /\ B \subseteq UNION {Calls(v) : v \in Back(w)}
      /\ baselines'[<<t, w>>] = ComputeBaseline(B, History(t, w - Lookback, w))
      /\ \A v \in Back(w) : Certain(t, v) \subseteq B
      /\ \A v \in Back(w) : <<t, v>> \in DOMAIN stats =>
            \E S \in Between(Certain(t, v), B \cap Countable(t, v)) :
               stats[<<t, v>>] = WindowStats(S)
  BY <1>1, <1>2, <1>4, <1>6
<1>9. PICK C : C = B
  OBVIOUS
<1>10. MadeOf(t, w, C)'
  <2>1. \A v \in Back(w) : <<t, v>> \in DOMAIN stats' =>
            <<t, v>> \in DOMAIN stats /\ stats'[<<t, v>>] = stats[<<t, v>>]
    BY <1>5
  <2>2. landed \subseteq landed'
    BY <1>5
  <2> QED
    BY <1>5, <1>7, <1>8, <1>9, <2>1, <2>2, MadeOfKept
<1>11. BaselineRight(t, w)'
  BY <1>10 DEF BaselineRight
<1> QED
  BY <1>5, <1>6, <1>11

LEMMA BaselinesHold ==
    ASSUME DetectionTypeOK, StatsInv, BaselineInv, [DetectionNext]_detectionVars
    PROVE  BaselineInv'
<1>0. window \in Int /\ window <= window' /\ window' \in Int
  BY WindowMoves
<1>1. CASE Refresh
  <2>0. window \in Windows /\ window' = window /\ step = "baseline" /\ step' = "detect" /\ load' = load
    BY <1>1, DetectionAssumption DEF DetectionTypeOK, StatsInv, Refresh, Windows
  <2>1. ASSUME NEW t \in Targets, NEW w \in Windows, <<t, w>> \in DOMAIN baselines'
        PROVE  w <= window' /\ (w = window' => step' = "detect") /\ BaselineRight(t, w)'
    <3>1. CASE w = window
      <4>1. BaselineRight(t, window)'
        BY <1>1, <2>0, <2>1, <3>1, BaselineWritten
      <4>2. BaselineRight(t, window)' => BaselineRight(t, w)'
        BY <2>0, <3>1
      <4> QED
        BY <1>0, <2>0, <3>1, <4>1, <4>2
    <3>2. CASE w # window
      <4>1. <<t, w>> \in DOMAIN baselines /\ baselines'[<<t, w>>] = baselines[<<t, w>>]
        BY <1>1, <2>0, <2>1, <3>2, Refreshed
      <4>2. w <= window /\ BaselineRight(t, w)
        BY <4>1 DEF BaselineInv
      <4> QED
        BY <2>0, <4>1, <4>2, BaselineKept
    <3> QED
      BY <3>1, <3>2
  <2>2. ASSUME NEW t \in Targets, NEW v \in Back(window), Certain(t, v) # {}
        PROVE  <<t, window>> \in DOMAIN baselines'
    <3>1. v \in Windows
      BY DEF Back
    <3>2. Certain(t, v) \subseteq LookbackCalls(t, window)
      BY <2>0, <3>1, LooksBack, Nested
    <3> QED
      BY <1>1, <2>0, <2>2, <3>2, Refreshed
  <2>3. Back(window)' = Back(window) /\ \A t, v : Certain(t, v)' = Certain(t, v)
    BY <2>0, LoadFixed, CallsFixed DEF Back
  <2> QED
    BY <2>0, <2>1, <2>2, <2>3 DEF BaselineInv
<1>2. CASE ~Refresh
  <2>0. /\ baselines' = baselines /\ load' = load
        /\ step' = "detect" => step = "detect" /\ window' = window
    BY <1>2 DEF DetectionNext, detectionVars, ReadWindow, AggregateWindow, Detect, Land, Crash
  <2>1. window' = window => (step = "detect" => step' = "detect")
    <3>1. CASE Detect
      BY <1>0, <3>1 DEF Detect
    <3>2. CASE Crash
      <4>1. PICK w \in window + 1 .. MaxWindow + 1 : window' = w
        BY <3>2 DEF Crash
      <4> QED
        BY <1>0, <4>1
    <3> QED
      BY <1>2, <3>1, <3>2 DEF DetectionNext, detectionVars, ReadWindow, AggregateWindow, Land
  <2>2. ASSUME NEW t \in Targets, NEW w \in Windows, <<t, w>> \in DOMAIN baselines'
        PROVE  w <= window' /\ (w = window' => step' = "detect") /\ BaselineRight(t, w)'
    <3>1. w <= window /\ BaselineRight(t, w) /\ (w = window => step = "detect") /\ w \in Int
      BY <2>0, <2>2, WindowsAre DEF BaselineInv
    <3>2. BaselineRight(t, w)'
      BY <2>0, <3>1, BaselineKept
    <3> QED
      BY <1>0, <2>1, <3>1, <3>2
  <2>3. ASSUME step' = "detect", NEW t \in Targets, NEW v \in Back(window), Certain(t, v) # {}
        PROVE  <<t, window>> \in DOMAIN baselines'
    BY <2>0, <2>3 DEF BaselineInv
  <2>4. step' = "detect" => Back(window)' = Back(window)
    BY <2>0 DEF Back
  <2>5. \A t, v : Certain(t, v)' = Certain(t, v)
    BY <2>0, LoadFixed, CallsFixed
  <2> QED
    BY <2>0, <2>2, <2>3, <2>4, <2>5 DEF BaselineInv
<1> QED
  BY <1>1, <1>2

\* A row counts every call that was sure to be found, none that may not be
\* counted, and of failed ones no more than of all.
LEMMA RowsCount ==
    ASSUME DetectionTypeOK, StatsInv, NEW t \in Targets, NEW w \in Windows, <<t, w>> \in DOMAIN stats
    PROVE  /\ stats[<<t, w>>].calls \in Nat /\ stats[<<t, w>>].calls # 0
           /\ stats[<<t, w>>].errors \in Nat /\ stats[<<t, w>>].errors <= stats[<<t, w>>].calls
           /\ Cardinality(Certain(t, w)) <= stats[<<t, w>>].calls
           /\ stats[<<t, w>>].calls <= Cardinality(Countable(t, w))
           /\ stats[<<t, w>>].calls <= Cardinality(Calls(w))
           /\ Countable(t, w) # {}
<1>1. PICK S \in Between(Certain(t, w), Available(t, w)) : S # {} /\ stats[<<t, w>>] = WindowStats(S)
  BY DEF StatsInv, RowRight
<1>2. Certain(t, w) \in SUBSET S /\ S \in SUBSET Countable(t, w)
  BY <1>1, Nested DEF Between
<1>3. load \in [Windows -> Loads]
  BY DEF DetectionTypeOK
<1>4. /\ IsFiniteSet(S) /\ Cardinality(S) \in Nat /\ Cardinality(S) <= Cardinality(Calls(w))
      /\ Cardinality(S) <= Cardinality(Countable(t, w))
      /\ Cardinality(Certain(t, w)) <= Cardinality(S)
  BY <1>2, <1>3, CountedFinite
<1>5. Cardinality(S) # 0
  BY <1>1, <1>4, FS_EmptySet
<1>6. /\ stats[<<t, w>>].calls = Cardinality(S) /\ stats[<<t, w>>].errors = Errors(S)
      /\ Errors(S) \in Nat /\ Errors(S) <= Cardinality(S)
  BY <1>1, <1>4, StatsAre
<1> QED
  BY <1>1, <1>2, <1>4, <1>5, <1>6

\* A percentile of some values is between two of them: its ranks never leave
\* the list (statutil.py:12-22).
LEMMA PercentileIs ==
    ASSUME NEW D, IsFiniteSet(D), D # {}, NEW f \in [D -> Int], NEW pct \in 0..100
    PROVE  \E a, b \in D : 100 * f[a] <= Percentile100(f, pct) /\ Percentile100(f, pct) <= 100 * f[b]
<1> DEFINE n == Cardinality(D)
           rank == pct * (n - 1)
           q == rank \div 100
           r == rank % 100
           up == IF r = 0 THEN q + 1 ELSE q + 2
<1>1. n \in Nat /\ n # 0
  BY FS_CardinalityType, FS_EmptySet
<1>2. rank \in Nat /\ rank <= 100 * (n - 1)
  <2>1. \A m \in Nat, p \in 0..100 : p * m \in Nat /\ p * m <= 100 * m
    OBVIOUS
  <2> QED
    BY <1>1, <2>1
<1> HIDE DEF rank
<1>3. q \in Nat /\ r \in 0..99 /\ rank = 100 * q + r
  BY <1>2
<1> HIDE DEF q, r
<1>4. /\ q + 1 \in Nat /\ 0 < q + 1 /\ q + 1 <= n
      /\ up \in Nat /\ 0 < up /\ up <= n
  BY <1>1, <1>2, <1>3
<1>5. PICK a \in D : Nth(f, q + 1) = f[a]
  BY <1>1, <1>4, NthIs
<1>6. PICK b \in D : Nth(f, up) = f[b]
  BY <1>1, <1>4, NthIs
<1>7. DOMAIN f = D /\ f[a] \in Int /\ f[b] \in Int
  OBVIOUS
<1>8. Percentile100(f, pct) = 100 * f[a] + (f[b] - f[a]) * r
  BY <1>5, <1>6, <1>7 DEF Percentile100, Count, rank, q, r
<1> HIDE DEF up
<1>9. \A x, y \in Int, s \in 0..99 :
         \/ 100 * x <= 100 * x + (y - x) * s /\ 100 * x + (y - x) * s <= 100 * y
         \/ 100 * y <= 100 * x + (y - x) * s /\ 100 * x + (y - x) * s <= 100 * x
  <2> TAKE x \in Int, y \in Int, s \in 0..99
  <2>1. \A m \in Nat : 0 <= m * s /\ m * s <= 100 * m
    OBVIOUS
  <2>2. CASE x <= y
    <3>1. 0 <= (y - x) * s /\ (y - x) * s <= 100 * (y - x)
      BY <2>1, <2>2
    <3>2. (y - x) * s \in Int
      OBVIOUS
    <3> QED
      BY <3>1, <3>2
  <2>3. CASE y < x
    <3>1. 0 <= (x - y) * s /\ (x - y) * s <= 100 * (x - y)
      BY <2>1, <2>3
    <3>2. (y - x) * s = 0 - (x - y) * s /\ (x - y) * s \in Int
      OBVIOUS
    <3> QED
      BY <3>1, <3>2
  <2> QED
    BY <2>2, <2>3
<1> QED
  BY <1>3, <1>7, <1>8, <1>9

\* The percentile of a row lies within the latencies of calls of its window.
LEMMA RowPercentile ==
    ASSUME DetectionTypeOK, StatsInv, NEW t \in Targets, NEW w \in Windows, <<t, w>> \in DOMAIN stats
    PROVE  \E a, b \in Countable(t, w) : /\ 100 * Latency(a) <= stats[<<t, w>>].p99
                                         /\ stats[<<t, w>>].p99 <= 100 * Latency(b)
<1>1. PICK S \in Between(Certain(t, w), Available(t, w)) : S # {} /\ stats[<<t, w>>] = WindowStats(S)
  BY DEF StatsInv, RowRight
<1>2. S \in SUBSET Countable(t, w) /\ load \in [Windows -> Loads]
  BY <1>1, Nested DEF Between, DetectionTypeOK
<1>3. IsFiniteSet(S) /\ S \in SUBSET Calls(w)
  BY <1>2, CountedFinite
<1>4. \A c \in S : Latency(c) \in Int
  BY <1>2, <1>3, CallsOf
<1>5. Latencies(S) \in [S -> Int] /\ \A c \in S : Latencies(S)[c] = Latency(c)
  BY <1>4 DEF Latencies
<1>6. stats[<<t, w>>].p99 = Percentile100(Latencies(S), 99)
  BY <1>1 DEF WindowStats
<1>7. 99 \in 0..100
  OBVIOUS
<1>8. PICK a, b \in S : /\ 100 * Latencies(S)[a] <= Percentile100(Latencies(S), 99)
                        /\ Percentile100(Latencies(S), 99) <= 100 * Latencies(S)[b]
  BY <1>1, <1>3, <1>5, <1>7, PercentileIs
<1> QED
  BY <1>2, <1>5, <1>6, <1>8

\* How many calls of a window may be counted, and are.
LEMMA SizesOf ==
    ASSUME DetectionTypeOK, NEW t \in Targets, NEW w \in Windows
    PROVE  /\ Cardinality(Certain(t, w)) \in Nat /\ Cardinality(Countable(t, w)) \in Nat
           /\ Cardinality(Certain(t, w)) <= Cardinality(Countable(t, w))
           /\ (Certain(t, w) = {} <=> Cardinality(Certain(t, w)) = 0)
<1>1. Certain(t, w) \in SUBSET Countable(t, w) /\ Countable(t, w) \in SUBSET Countable(t, w)
  BY Nested
<1>2. load \in [Windows -> Loads]
  BY DEF DetectionTypeOK
<1>3. /\ IsFiniteSet(Certain(t, w)) /\ Cardinality(Certain(t, w)) \in Nat
      /\ Cardinality(Certain(t, w)) <= Cardinality(Countable(t, w))
      /\ Cardinality(Countable(t, w)) \in Nat
  BY <1>1, <1>2, CountedFinite
<1> QED
  BY <1>3, FS_EmptySet

\* The history of a lookback is a function to numbers.
LEMMA HistoryIs ==
    ASSUME DetectionTypeOK, StatsInv, NEW t \in Targets, NEW w \in Windows
    PROVE  \E H : /\ IsFiniteSet(H)
                  /\ \A v \in H : v \in Back(w) /\ <<t, v>> \in DOMAIN stats
                  /\ \A v \in Back(w) : <<t, v>> \in DOMAIN stats => v \in H
                  /\ History(t, w - Lookback, w) \in [H -> Nat]
                  /\ \A v \in H : History(t, w - Lookback, w)[v] = stats[<<t, v>>].calls
<1> DEFINE lo == w - Lookback
           H == {v \in Windows : lo <= v /\ v < w /\ <<t, v>> \in DOMAIN stats}
<1>1. History(t, lo, w) = [v \in H |-> stats[<<t, v>>].calls]
  BY DEF History
<1>2. \A v \in H : stats[<<t, v>>].calls \in Nat
  BY RowsCount
<1>3. IsFiniteSet(H)
  <2>1. H \in SUBSET Windows
    OBVIOUS
  <2>2. IsFiniteSet(Windows)
    BY DetectionAssumption, FS_Interval DEF Windows
  <2> QED
    BY <2>1, <2>2, FS_Subset
<1>4. /\ \A v \in H : v \in Back(w) /\ <<t, v>> \in DOMAIN stats
      /\ \A v \in Back(w) : <<t, v>> \in DOMAIN stats => v \in H
  BY DEF Back
<1> HIDE DEF H
<1>5. History(t, lo, w) \in [H -> Nat] /\ \A v \in H : History(t, lo, w)[v] = stats[<<t, v>>].calls
  BY <1>1, <1>2
<1> QED
  BY <1>3, <1>4, <1>5

\* The calls of a lookback are finitely many.
LEMMA BackFinite ==
    ASSUME DetectionTypeOK, NEW w \in Windows, NEW B, B \subseteq UNION {Calls(v) : v \in Back(w)}
    PROVE  IsFiniteSet(B) /\ IsFiniteSet(Back(w)) /\ \A c \in B : c[1] \in Back(w) /\ c \in Calls(c[1])
<1> DEFINE T == {Calls(v) : v \in Back(w)}
           f == [v \in Back(w) |-> Calls(v)]
<1>1. load \in [Windows -> Loads] /\ \A v \in Back(w) : v \in Windows
  BY DEF DetectionTypeOK, Back
<1>2. IsFiniteSet(Back(w))
  <2>1. Back(w) \in SUBSET Windows
    BY <1>1
  <2>2. IsFiniteSet(Windows)
    BY DetectionAssumption, FS_Interval DEF Windows
  <2> QED
    BY <2>1, <2>2, FS_Subset
<1>3. f \in [Back(w) -> T] /\ \A y \in T : \E v \in Back(w) : f[v] = y
  OBVIOUS
<1>4. \A v \in Back(w) : IsFiniteSet(Calls(v))
  BY <1>1, CallsOf
<1>5. \A y \in T : IsFiniteSet(y)
  BY <1>4
<1>6. \A c \in B : c[1] \in Back(w) /\ c \in Calls(c[1])
  BY DEF Calls
<1>7. B \in SUBSET UNION T
  OBVIOUS
<1> HIDE DEF T, f
<1>8. IsFiniteSet(T)
  BY <1>2, <1>3, ImageFinite
<1>9. IsFiniteSet(UNION T)
  BY <1>5, <1>8, FS_UNION
<1>10. IsFiniteSet(B)
  BY <1>7, <1>9, FS_Subset
<1> QED
  BY <1>2, <1>6, <1>10

\* The rows of a baseline's lookback count no more than the baseline is made of.
LEMMA HistoryWithin ==
    ASSUME DetectionTypeOK, StatsInv, NEW t \in Targets, NEW w \in Windows, NEW B, MadeOf(t, w, B),
           NEW H, IsFiniteSet(H), \A v \in H : v \in Back(w) /\ <<t, v>> \in DOMAIN stats
    PROVE  SumOf([v \in H |-> stats[<<t, v>>].calls]) <= Cardinality(B)
<1> DEFINE calls == [v \in H |-> stats[<<t, v>>].calls]
           P == {c \in B : c[1] \in H}
           g == [c \in P |-> c[1]]
           Of(v) == {c \in P : g[c] = v}
           many == [v \in H |-> Cardinality(Of(v))]
<1>1. /\ B \subseteq UNION {Calls(v) : v \in Back(w)}
      /\ \A v \in Back(w) : <<t, v>> \in DOMAIN stats =>
            \E S \in Between(Certain(t, v), B \cap Countable(t, v)) :
               stats[<<t, v>>] = WindowStats(S)
  BY DEF MadeOf
<1>2. IsFiniteSet(B) /\ \A v \in Back(w) : v \in Windows
  BY <1>1, BackFinite DEF Back
<1>3. P \in SUBSET B /\ IsFiniteSet(P) /\ Cardinality(P) <= Cardinality(B) /\ Cardinality(P) \in Nat
  <2>1. P \in SUBSET B
    OBVIOUS
  <2> HIDE DEF P
  <2> QED
    BY <1>2, <2>1, SubsetSizes
<1>4. calls \in [H -> Int]
  BY <1>2, RowsCount
<1>5. \A v \in H : Of(v) \in SUBSET P
  OBVIOUS
<1>6. many \in [H -> Int] /\ \A v \in H : IsFiniteSet(Of(v)) /\ many[v] = Cardinality(Of(v))
  <2> HIDE DEF P, Of
  <2> QED
    BY <1>3, <1>5, SubsetSizes
<1>7. ASSUME NEW v \in H PROVE calls[v] <= many[v]
  <2>1. PICK S \in Between(Certain(t, v), B \cap Countable(t, v)) : stats[<<t, v>>] = WindowStats(S)
    BY <1>1
  <2>2. S \subseteq B /\ S \subseteq Calls(v)
    BY <1>2, <2>1, Nested DEF Between
  <2>3. S \in SUBSET Of(v)
    BY <2>2 DEF Calls
  <2>4. IsFiniteSet(S) /\ Cardinality(S) <= Cardinality(Of(v))
    <3> HIDE DEF Of
    <3> QED
      BY <1>6, <2>3, FS_Subset
  <2>5. calls[v] = Cardinality(S)
    BY <2>1, <2>4, StatsAre
  <2> QED
    BY <1>6, <2>4, <2>5
<1>8. g \in [P -> H]
  OBVIOUS
<1>9. \A v \in H : many[v] = Cardinality({c \in P : g[c] = v})
  OBVIOUS
<1> HIDE DEF calls, P, g, Of, many
<1>10. Total(H, many) = Cardinality(P)
  BY <1>3, <1>6, <1>8, <1>9, TotalCounts
<1>11. Total(H, calls) <= Total(H, many)
  <2>1. H \in SUBSET H /\ \A x \in H \cap H : calls[x] <= many[x]
    BY <1>7
  <2>2. (\A x \in H \ H : calls[x] <= 0) /\ (\A x \in H \ H : 0 <= many[x])
    OBVIOUS
  <2> QED
    BY <1>4, <1>6, <2>1, <2>2, TotalGrows
<1>12. SumOf(calls) = Total(H, calls) /\ Total(H, calls) \in Int
  BY <1>4, SumIsTotal, TotalAdd
<1>13. SumOf(calls) <= Cardinality(B)
  BY <1>2, <1>3, <1>10, <1>11, <1>12, FS_CardinalityType
<1> QED
  BY <1>13 DEF calls

\* Baselines look back.
LEMMA LookBackHolds ==
    ASSUME DetectionTypeOK, StatsInv, BaselineInv
    PROVE  BaselinesLookBack
<1>1. ASSUME NEW k \in DOMAIN baselines
      PROVE  /\ \A w \in baselines[k].history : k[2] - Lookback <= w /\ w < k[2]
             /\ SumOf([w \in baselines[k].history |-> stats[<<k[1], w>>].calls])
                  <= baselines[k].observed
  <2>1. PICK t \in Targets, w \in Windows : k = <<t, w>>
    BY <1>1 DEF DetectionTypeOK
  <2>2. PICK B : MadeOf(t, w, B)
    BY <1>1, <2>1 DEF BaselineInv, BaselineRight
  <2>3. PICK H : /\ IsFiniteSet(H)
                 /\ \A v \in H : v \in Back(w) /\ <<t, v>> \in DOMAIN stats
                 /\ History(t, w - Lookback, w) \in [H -> Nat]
    BY HistoryIs
  <2>4. baselines[k] = ComputeBaseline(B, History(t, w - Lookback, w))
    BY <2>1, <2>2 DEF MadeOf
  <2>5. baselines[k].history = H /\ baselines[k].observed = Cardinality(B)
    BY <2>3, <2>4 DEF ComputeBaseline
  <2>6. SumOf([v \in H |-> stats[<<t, v>>].calls]) <= Cardinality(B)
    BY <2>2, <2>3, HistoryWithin
  <2>7. k[1] = t /\ k[2] = w
    BY <2>1
  <2>8. \A v \in H : w - Lookback <= v /\ v < w
    BY <2>3 DEF Back
  <2> QED
    BY <2>5, <2>6, <2>7, <2>8
<1> QED
  BY <1>1 DEF BaselinesLookBack

\* A topology query adds up what the windows had.
LEMMA TopologyHolds ==
    ASSUME DetectionTypeOK, StatsInv
    PROVE  TopologyAddsUp
<1> SUFFICES ASSUME NEW lo \in Windows, NEW hi \in lo..MaxWindow,
                    \E w \in lo..hi : <<Edge, w>> \in DOMAIN stats
             PROVE  LET row == FetchTopology(lo, hi)
                    IN /\ row.calls <= SumOf([w \in lo..hi |-> Cardinality(Countable(Edge, w))])
                       /\ lo..hi \subseteq judged =>
                            row.calls >= SumOf([w \in lo..hi |-> Cardinality(Certain(Edge, w))])
                       /\ row.errors <= row.calls
                       /\ \A w \in judged \cap (row.latest + 1..hi) : Certain(Edge, w) = {}
                       /\ \E a, b \in Countable(Edge, row.latest) :
                            100 * Latency(a) <= row.p99 /\ row.p99 <= 100 * Latency(b)
  BY DEF TopologyAddsUp
<1> DEFINE U == lo..hi
           W == {w \in U : <<Edge, w>> \in DOMAIN stats}
           calls == [w \in W |-> stats[<<Edge, w>>].calls]
           errors == [w \in W |-> stats[<<Edge, w>>].errors]
           most == [w \in U |-> Cardinality(Countable(Edge, w))]
           least == [w \in U |-> Cardinality(Certain(Edge, w))]
           row == FetchTopology(lo, hi)
<1>1. /\ row.calls = SumOf(calls) /\ row.errors = SumOf(errors)
      /\ row.latest = Max(W) /\ row.p99 = stats[<<Edge, Max(W)>>].p99
  BY DEF FetchTopology
<1>2. lo \in Nat /\ hi \in Nat /\ U \subseteq Windows /\ U \subseteq Nat /\ Edge \in Targets
  BY DetectionAssumption DEF Windows, Targets
<1>3. W \in SUBSET U /\ U \in SUBSET U /\ W # {}
  OBVIOUS
<1>4. IsFiniteSet(U) /\ IsFiniteSet(W)
  <2>1. IsFiniteSet(U)
    BY <1>2, FS_Interval
  <2> HIDE DEF U, W
  <2> QED
    BY <1>3, <2>1, FS_Subset
<1>5. \A w \in W : /\ calls[w] \in Nat /\ errors[w] \in Nat /\ errors[w] <= calls[w]
                   /\ Cardinality(Certain(Edge, w)) <= calls[w]
                   /\ calls[w] <= Cardinality(Countable(Edge, w))
  BY <1>2, RowsCount
<1>6. \A w \in U : most[w] \in Nat /\ least[w] \in Nat
  BY <1>2, SizesOf
<1>7. /\ calls \in [W -> Int] /\ errors \in [W -> Int] /\ most \in [U -> Int] /\ least \in [U -> Int]
      /\ \A w \in W : calls[w] <= most[w] /\ least[w] <= calls[w] /\ errors[w] <= calls[w]
  BY <1>5, <1>6
<1>8. ASSUME NEW w \in judged, w \in U, w \notin W
      PROVE  Certain(Edge, w) = {} /\ least[w] = 0
  <2>1. Certain(Edge, w) = {}
    BY <1>2, <1>8 DEF StatsInv, Counted
  <2> QED
    BY <2>1, <1>8, FS_EmptySet
<1>9. Max(W) \in W /\ Max(W) \in Nat /\ \A x \in W : x <= Max(W)
  <2>1. W \subseteq Nat
    BY <1>2
  <2> HIDE DEF W
  <2> QED
    BY <1>3, <1>4, <2>1, Bounds
<1>10. ASSUME NEW w \in judged \cap (Max(W) + 1..hi) PROVE Certain(Edge, w) = {}
  <2>1. w \in U
    BY <1>2, <1>9
  <2>2. w \notin W
    <3> HIDE DEF W
    <3> QED
      BY <1>9
  <2> QED
    BY <1>8, <2>1, <2>2
<1> DEFINE sum == Total(W, calls)
<1>11. \A w \in U \ W : most[w] >= 0
  BY <1>6
<1>12. U \subseteq judged => \A w \in U \ W : least[w] <= 0
  <2>1. ASSUME U \subseteq judged, NEW w \in U \ W PROVE least[w] <= 0
    <3>1. w \in judged /\ w \in U /\ w \notin W
      BY <2>1
    <3>2. least[w] = 0
      BY <3>1, <1>8
    <3> QED
      BY <3>2
  <2> QED
    BY <2>1
<1> HIDE DEF U, W, calls, errors, most, least, row
<1>13. /\ SumOf(calls) = Total(W, calls) /\ SumOf(errors) = Total(W, errors)
       /\ SumOf(most) = Total(U, most) /\ SumOf(least) = Total(U, least)
  BY <1>4, <1>7, SumIsTotal
<1>14. Total(W, errors) <= Total(W, calls)
  <2>1. (\A x \in W \cap W : errors[x] <= calls[x]) /\ (\A x \in W \ W : errors[x] <= 0)
        /\ (\A x \in W \ W : 0 <= calls[x])
    BY <1>7
  <2> QED
    BY <1>3, <1>4, <1>7, <2>1, TotalGrows
<1>15. Total(W, calls) <= Total(U, most)
  <2>1. (\A x \in W \cap U : calls[x] <= most[x]) /\ (\A x \in W \ U : calls[x] <= 0)
        /\ (\A x \in U \ W : 0 <= most[x])
    BY <1>3, <1>7, <1>6, <1>11
  <2> QED
    BY <1>3, <1>4, <1>7, <2>1, TotalGrows
<1>16. ASSUME U \subseteq judged PROVE Total(U, least) <= Total(W, calls)
  <2>1. (\A x \in U \cap W : least[x] <= calls[x]) /\ (\A x \in U \ W : least[x] <= 0)
        /\ (\A x \in W \ U : 0 <= calls[x])
    BY <1>3, <1>7, <1>12, <1>16
  <2> QED
    BY <1>3, <1>4, <1>7, <2>1, TotalGrows
<1>17. Total(W, calls) \in Int /\ Total(U, least) \in Int
  BY <1>4, <1>7, TotalAdd, <1>3
<1>18. U \subseteq judged => SumOf(calls) >= SumOf(least)
  BY <1>13, <1>16, <1>17
<1>19. row.calls <= SumOf(most) /\ row.errors <= row.calls
  BY <1>1, <1>13, <1>14, <1>15
<1>20. /\ U \subseteq judged => row.calls >= SumOf(least)
       /\ \A w \in judged \cap (row.latest + 1..hi) : Certain(Edge, w) = {}
       /\ \E a, b \in Countable(Edge, row.latest) :
            100 * Latency(a) <= row.p99 /\ row.p99 <= 100 * Latency(b)
  <2>1. Max(W) \in Windows /\ <<Edge, Max(W)>> \in DOMAIN stats
    BY <1>2, <1>9 DEF W
  <2>2. \E a, b \in Countable(Edge, Max(W)) :
           /\ 100 * Latency(a) <= stats[<<Edge, Max(W)>>].p99
           /\ stats[<<Edge, Max(W)>>].p99 <= 100 * Latency(b)
    BY <1>2, <2>1, RowPercentile
  <2> QED
    BY <1>1, <1>10, <1>18, <2>2
<1> QED
  BY <1>19, <1>20 DEF U, most, least, row

\* The call rate of a baseline is a number.
LEMMA RateIs ==
    ASSUME DetectionTypeOK, StatsInv, BaselineInv, NEW t \in Targets, NEW w \in Windows
    PROVE  LatestReady(t, w).rate2 \in Int
<1> DEFINE W == {v \in 0..w : <<t, v>> \in DOMAIN baselines /\ baselines[<<t, v>>].ready}
<1>1. CASE W = {}
  BY <1>1 DEF LatestReady, NoBaseline
<1>2. CASE W # {}
  <2>1. W \in SUBSET (0..w) /\ W \subseteq Nat /\ w \in Nat
    BY WindowsAre
  <2>2. IsFiniteSet(W)
    <3>1. IsFiniteSet(0..w)
      BY <2>1, FS_Interval
    <3> HIDE DEF W
    <3> QED
      BY <2>1, <3>1, FS_Subset
  <2>3. Max(W) \in W
    <3> HIDE DEF W
    <3> QED
      BY <1>2, <2>1, <2>2, Bounds
  <2>4. PICK v \in W : v = Max(W)
    BY <2>3
  <2>5. v \in Windows /\ <<t, v>> \in DOMAIN baselines
    BY <2>4, DetectionAssumption DEF Windows
  <2>6. PICK B : MadeOf(t, v, B)
    BY <2>5 DEF BaselineInv, BaselineRight
  <2>7. PICK H : IsFiniteSet(H) /\ History(t, v - Lookback, v) \in [H -> Nat]
    BY <2>5, HistoryIs
  <2>8. Median2(History(t, v - Lookback, v)) \in Int
    <3>1. History(t, v - Lookback, v) \in [H -> Int]
      BY <2>7
    <3> QED
      BY <2>7, <3>1, MedianIs
  <2>9. baselines[<<t, v>>].rate2 = Median2(History(t, v - Lookback, v))
    BY <2>6 DEF MadeOf, ComputeBaseline
  <2>10. LatestReady(t, w) = baselines[<<t, v>>]
    BY <1>2, <2>4 DEF LatestReady
  <2> QED
    BY <2>8, <2>9, <2>10
<1> QED
  BY <1>1, <1>2

LEMMA MagnitudeHolds ==
    ASSUME DetectionTypeOK, StatsInv, BaselineInv
    PROVE  MagnitudeIsMeasured
<1> SUFFICES ASSUME NEW t \in Targets, NEW mid \in judged, NEW first \in 0..mid
             PROVE  LET drop  == ObservedMagnitude("drop", t, first, mid)
                        error == ObservedMagnitude("error", t, first, mid)
                    IN /\ drop # None =>
                            /\ 2 * Cardinality(Certain(t, mid)) <= drop[2] - drop[1]
                            /\ drop[2] - drop[1] <= 2 * Cardinality(Countable(t, mid))
                       /\ error # None => error[1] <= error[2] /\ Countable(t, mid) # {}
                       /\ Certain(t, mid) # {} => error # None
  BY DEF MagnitudeIsMeasured
<1> DEFINE now == StatAtOrBefore(t, mid)
           rate == CallRateBaselineAtOrBefore(t, first)
           drop == ObservedMagnitude("drop", t, first, mid)
           error == ObservedMagnitude("error", t, first, mid)
<1>1. mid \in Windows /\ first \in Windows
  <2>1. mid \in Windows
    BY DEF DetectionTypeOK
  <2>2. mid \in Int /\ mid <= MaxWindow
    BY <2>1, WindowsAre
  <2>3. first \in Windows
    BY <2>2, DetectionAssumption DEF Windows
  <2> QED
    BY <2>1, <2>3
<1>2. rate \in Int
  BY <1>1, RateIs DEF CallRateBaselineAtOrBefore
<1>3. /\ now.calls \in Nat /\ now.errors \in Nat /\ now.errors <= now.calls
      /\ Cardinality(Certain(t, mid)) <= now.calls /\ now.calls <= Cardinality(Countable(t, mid))
      /\ now.calls # 0 => Countable(t, mid) # {}
      /\ Certain(t, mid) # {} => now.calls # 0
  <2>1. CASE <<t, mid>> \in DOMAIN stats
    <3>1. now = stats[<<t, mid>>]
      BY <2>1 DEF StatAtOrBefore
    <3> HIDE DEF now
    <3> QED
      BY <1>1, <2>1, <3>1, RowsCount
  <2>2. CASE <<t, mid>> \notin DOMAIN stats
    <3>1. now.calls = 0 /\ now.errors = 0
      BY <2>2 DEF StatAtOrBefore, NoCalls
    <3>2. Certain(t, mid) = {}
      BY <1>1, <2>2 DEF StatsInv, Counted
    <3> HIDE DEF now
    <3> QED
      BY <1>1, <3>1, <3>2, SizesOf
  <2> QED
    BY <2>1, <2>2
<1>4. drop = IF rate = 0 THEN None ELSE <<rate - 2 * now.calls, rate>>
  BY DEF ObservedMagnitude
<1>5. error = IF now.calls = 0 THEN None ELSE <<now.errors, now.calls>>
  BY DEF ObservedMagnitude
<1>6. \A x, y : <<x, y>> # None
  BY DEF None
<1> HIDE DEF now, rate, drop, error
<1>7. ASSUME drop # None
      PROVE  /\ 2 * Cardinality(Certain(t, mid)) <= drop[2] - drop[1]
             /\ drop[2] - drop[1] <= 2 * Cardinality(Countable(t, mid))
  <2>1. drop[1] = rate - 2 * now.calls /\ drop[2] = rate
    BY <1>4, <1>7
  <2>2. drop[2] - drop[1] = 2 * now.calls
    BY <1>2, <1>3, <2>1
  <2>3. Cardinality(Certain(t, mid)) \in Nat /\ Cardinality(Countable(t, mid)) \in Nat
    BY <1>1, SizesOf
  <2> QED
    BY <1>3, <2>2, <2>3
<1>8. error # None => error[1] <= error[2] /\ Countable(t, mid) # {}
  BY <1>3, <1>5
<1>9. Certain(t, mid) # {} => error # None
  BY <1>3, <1>5, <1>6
<1> QED
  BY <1>7, <1>8, <1>9 DEF drop, error

Severities == {"warning", "critical"}

\* What a run of the detectors can add.
LEMMA NewDetections ==
    ASSUME Detect, NEW d \in detections', d \notin detections
    PROVE  \E t \in Ready, severity \in Severities :
              \/ d = Found(t, "percentile_deviation", severity)
              \/ /\ d = Found(t, "error_rate", severity)
                 /\ t \in DOMAIN CurrentStats
                 /\ ErrorRateExceeds(ErrorLimit, CurrentStats[t].errors, CurrentStats[t].calls,
                                     Baselines[t].errors, Baselines[t].observed)
              \/ d = Found(t, "call_rate", severity) /\ Fires(t)
<1>0. \A b : Severity(b) \in Severities
  BY DEF Severity, Severities
<1>1. detections' = detections \cup (DetectPercentileDeviation \cup DetectErrorRateChange
                                        \cup DetectCallRateDrop)
  BY DEF Detect, WriteDetections
<1>2. CASE d \in DetectPercentileDeviation
  <2>1. PICK t \in Ready : \E b : d = Found(t, "percentile_deviation", Severity(b))
    BY <1>2 DEF DetectPercentileDeviation
  <2> QED
    BY <1>0, <2>1
<1>3. CASE d \in DetectErrorRateChange
  <2>1. PICK t \in Ready : \E b :
           /\ d = Found(t, "error_rate", Severity(b))
           /\ t \in DOMAIN CurrentStats
           /\ ErrorRateExceeds(ErrorLimit, CurrentStats[t].errors, CurrentStats[t].calls,
                               Baselines[t].errors, Baselines[t].observed)
    BY <1>3 DEF DetectErrorRateChange
  <2> QED
    BY <1>0, <2>1
<1>4. CASE d \in DetectCallRateDrop
  <2>1. PICK t \in Ready : \E b : d = Found(t, "call_rate", Severity(b)) /\ Fires(t)
    BY <1>4 DEF DetectCallRateDrop, CallRateSeverity
  <2> QED
    BY <1>0, <2>1
<1> QED
  BY <1>1, <1>2, <1>3, <1>4

\* A target is ready when its baseline for the window is.
LEMMA ReadyIs ==
    ASSUME NEW t
    PROVE  t \in Ready <=> /\ t \in Targets /\ <<t, window>> \in DOMAIN baselines
                           /\ baselines[<<t, window>>].ready
BY DEF Ready, Baselines

LEMMA TypesHold ==
    ASSUME DetectionTypeOK, StatsInv, BaselineInv, [DetectionNext]_detectionVars
    PROVE  DetectionTypeOK'
<1>1. load' \in [Windows -> Loads]
  BY LoadFixed DEF DetectionTypeOK
<1>2. /\ landed' \subseteq Windows /\ judged' \subseteq Windows
      /\ window' \in 0..MaxWindow + 1
      /\ step' \in {"read", "stats", "baseline", "detect"}
      /\ crashes' \in 0..MaxCrashes
  <2>0. /\ landed \subseteq Windows /\ judged \subseteq Windows /\ window \in 0..MaxWindow + 1
        /\ step \in {"read", "stats", "baseline", "detect"} /\ crashes \in 0..MaxCrashes
        /\ MaxWindow \in Nat /\ MaxCrashes \in Nat
    BY DetectionAssumption DEF DetectionTypeOK
  <2>1. CASE Detect
    <3>1. window \in 0..MaxWindow
      BY <2>0, <2>1 DEF StatsInv, Detect
    <3> QED
      BY <2>0, <2>1, <3>1 DEF Detect, Windows
  <2>2. CASE Crash
    <3>1. PICK w \in window + 1 .. MaxWindow + 1 : window' = w
      BY <2>2 DEF Crash
    <3> QED
      BY <2>0, <2>2, <3>1 DEF Crash
  <2>3. ASSUME NEW w \in Windows, Land(w) PROVE landed' \subseteq Windows
    BY <2>0, <2>3 DEF Land
  <2>4. CASE ReadWindow \/ AggregateWindow \/ Refresh \/ UNCHANGED detectionVars
    BY <2>0, <2>4 DEF ReadWindow, AggregateWindow, Refresh, detectionVars
  <2>5. ASSUME NEW w \in Windows, Land(w)
        PROVE  judged' = judged /\ window' = window /\ step' = step /\ crashes' = crashes
    BY <2>5 DEF Land
  <2> QED
    BY <2>0, <2>1, <2>2, <2>3, <2>4, <2>5 DEF DetectionNext
<1>3. fetched' \subseteq UNION {Calls(w)' : w \in Windows}
  <2>1. \A w : Calls(w)' = Calls(w)
    BY LoadFixed, CallsFixed
  <2>2. CASE ReadWindow
    <3>1. window \in Windows /\ fetched' = Available(Service, window)
      BY <2>2, ReadStep
    <3>2. PICK w \in Windows : w = window
      BY <3>1
    <3>3. fetched' \subseteq Calls(w)
      BY <3>1, <3>2 DEF Available, Countable
    <3>4. fetched' \subseteq Calls(w)'
      BY <2>1, <3>3
    <3> QED
      BY <3>4
  <2>3. CASE fetched' = fetched \/ fetched' = {}
    <3>1. fetched \subseteq UNION {Calls(w) : w \in Windows}
      BY DEF DetectionTypeOK
    <3>2. {Calls(w) : w \in Windows} = {Calls(w)' : w \in Windows}
      BY <2>1
    <3> QED
      BY <2>3, <3>1, <3>2
  <2> QED
    BY <2>2, <2>3 DEF DetectionNext, detectionVars, AggregateWindow, Refresh, Detect, Land, Crash
<1>4. DOMAIN stats' \subseteq Targets \X Windows
  <2>0. DOMAIN stats \subseteq Targets \X Windows /\ Service \in Targets /\ Edge \in Targets
    BY DEF DetectionTypeOK, Targets
  <2>1. CASE ReadWindow
    <3>1. DOMAIN stats' \subseteq DOMAIN stats \cup {<<Edge, window>>}
      BY <2>1, ReadStep, RowWrites
    <3> QED
      BY <2>0, <2>1, <3>1, ReadStep
  <2>2. CASE AggregateWindow
    <3>1. DOMAIN stats' \subseteq DOMAIN stats \cup {<<Service, window>>}
      BY <2>2, AggregateStep, RowWrites
    <3> QED
      BY <2>0, <2>2, <3>1, AggregateStep
  <2>3. CASE stats' = stats
    BY <2>0, <2>3
  <2> QED
    BY <2>1, <2>2, <2>3 DEF DetectionNext, detectionVars, Refresh, Detect, Land, Crash
<1>5. DOMAIN baselines' \subseteq Targets \X Windows
  <2>0. DOMAIN baselines \subseteq Targets \X Windows
    BY DEF DetectionTypeOK
  <2>1. CASE Refresh
    <3>1. window \in Windows
      BY <2>1, DetectionAssumption DEF DetectionTypeOK, StatsInv, Refresh, Windows
    <3> QED
      BY <2>0, <2>1, <3>1, Refreshed
  <2>2. CASE baselines' = baselines
    BY <2>0, <2>2
  <2> QED
    BY <2>1, <2>2 DEF DetectionNext, detectionVars, ReadWindow, AggregateWindow, Detect, Land, Crash
<1>6. detections' \subseteq
         [window : Windows, target : Targets, severity : {"warning", "critical"},
          detector : {"percentile_deviation", "error_rate", "call_rate"}]
  <2>0. detections \subseteq
         [window : Windows, target : Targets, severity : {"warning", "critical"},
          detector : {"percentile_deviation", "error_rate", "call_rate"}]
    BY DEF DetectionTypeOK
  <2>1. CASE Detect
    <3>1. window \in Windows
      BY <2>1, DetectionAssumption DEF DetectionTypeOK, StatsInv, Detect, Windows
    <3>2. ASSUME NEW d \in detections', d \notin detections
          PROVE  \E t \in Targets, severity \in Severities :
                    \/ d = Found(t, "percentile_deviation", severity)
                    \/ d = Found(t, "error_rate", severity)
                    \/ d = Found(t, "call_rate", severity)
      BY <2>1, <3>2, NewDetections, ReadyIs
    <3> QED
      BY <2>0, <3>1, <3>2 DEF Found, Severities
  <2>2. CASE detections' = detections
    BY <2>0, <2>2
  <2> QED
    BY <2>1, <2>2 DEF DetectionNext, detectionVars, ReadWindow, AggregateWindow, Refresh, Land, Crash
<1> QED
  BY <1>1, <1>2, <1>3, <1>4, <1>5, <1>6 DEF DetectionTypeOK

\* The baseline of a target that is ready, and what is compared with it: the row
\* of the window, or no calls.
LEMMA Compared ==
    ASSUME DetectionTypeOK, StatsInv, BaselineInv, step = "detect",
           NEW t \in Targets, <<t, window>> \in DOMAIN baselines
    PROVE  /\ window \in Windows
           /\ \E B : /\ MadeOf(t, window, B)
                     /\ Baselines[t] = ComputeBaseline(B, History(t, window - Lookback, window))
           /\ <<t, window>> \in DOMAIN stats => /\ ObservedCalls(t) = stats[<<t, window>>].calls
                                               /\ CurrentStats[t] = stats[<<t, window>>]
           /\ <<t, window>> \notin DOMAIN stats =>
                 ObservedCalls(t) = 0 /\ t \notin DOMAIN CurrentStats /\ Certain(t, window) = {}
<1>1. window \in Windows
  BY DetectionAssumption DEF DetectionTypeOK, StatsInv, Windows
<1>2. PICK B : MadeOf(t, window, B)
  BY <1>1 DEF BaselineInv, BaselineRight
<1>3. Baselines[t] = baselines[<<t, window>>]
  BY DEF Baselines
<1>4. Baselines[t] = ComputeBaseline(B, History(t, window - Lookback, window))
  BY <1>2, <1>3 DEF MadeOf
<1>5. t \in DOMAIN CurrentStats <=> <<t, window>> \in DOMAIN stats
  BY DEF CurrentStats
<1>6. <<t, window>> \in DOMAIN stats => CurrentStats[t] = stats[<<t, window>>]
  BY DEF CurrentStats
<1>7. <<t, window>> \notin DOMAIN stats => Certain(t, window) = {}
  BY <1>1 DEF StatsInv, Counted
<1> QED
  BY <1>1, <1>2, <1>4, <1>5, <1>6, <1>7 DEF ObservedCalls

\* A drop that fires is one: some window of the history had more calls.
LEMMA FiresBelow ==
    ASSUME DetectionTypeOK, StatsInv, BaselineInv, step = "detect",
           NEW t \in Targets, <<t, window>> \in DOMAIN baselines, Fires(t)
    PROVE  \E v \in Back(window) : <<t, v>> \in DOMAIN stats
                                   /\ stats[<<t, v>>].calls > ObservedCalls(t)
<1> DEFINE n == ObservedCalls(t)
           rate == Baselines[t].rate2
           mad == Baselines[t].rateMad4
           history == History(t, window - Lookback, window)
<1>1. window \in Windows
  BY Compared
<1>2. PICK B : Baselines[t] = ComputeBaseline(B, history)
  BY Compared
<1>3. PICK H : /\ IsFiniteSet(H)
               /\ \A v \in H : v \in Back(window) /\ <<t, v>> \in DOMAIN stats
               /\ history \in [H -> Nat]
               /\ \A v \in H : history[v] = stats[<<t, v>>].calls
  BY <1>1, HistoryIs
<1>4. rate = Median2(history) /\ mad = Mad4(history)
  BY <1>2 DEF ComputeBaseline
<1>5. n \in Nat
  BY <1>1, Compared, RowsCount
<1>6. Fires(t) => IF 14826 * mad > 0
                  THEN 2000 * (2 * (100 * n) - 100 * rate) < -CallRateLimit * (14826 * mad)
                  ELSE 4 * n < rate
  BY DEF Fires, CallRateSpread, CallRateScore, Spread, Deviation
<1> HIDE DEF n, rate, mad, history
<1>7. history \in [H -> Int]
  BY <1>3
<1>8. rate \in Int /\ mad \in Nat
  BY <1>3, <1>4, <1>7, MedianIs, MadIs
<1>9. rate > 2 * n
  <2>1. CASE 14826 * mad > 0
    <3>1. \A a, b \in Nat : a * b \in Nat
      OBVIOUS
    <3>2. 14826 * mad \in Nat /\ CallRateLimit \in Nat
      BY <1>8, DetectionAssumption
    <3>3. CallRateLimit * (14826 * mad) \in Nat
      BY <3>1, <3>2
    <3>4. 2000 * (2 * (100 * n) - 100 * rate) < -(CallRateLimit * (14826 * mad))
      BY <1>6, <2>1
    <3> QED
      BY <1>5, <1>8, <3>3, <3>4
  <2>2. CASE ~(14826 * mad > 0)
    BY <1>5, <1>6, <1>8, <2>2
  <2> QED
    BY <2>1, <2>2
<1>10. PICK v \in H : history[v] > n
  BY <1>3, <1>4, <1>5, <1>7, <1>9, MedianIs
<1> QED
  BY <1>3, <1>10 DEF n

\* Drops are real.
LEMMA DropsHold ==
    ASSUME DetectionTypeOK, StatsInv, BaselineInv, DropsAreReal, [DetectionNext]_detectionVars
    PROVE  DropsAreReal'
<1> SUFFICES ASSUME NEW d \in detections', d.detector = "call_rate"
             PROVE  \/ (Calls(d.window) # Certain(d.target, d.window))'
                    \/ \E v \in Windows :
                          /\ d.window - Lookback <= v /\ v < d.window
                          /\ <<d.target, v>> \in DOMAIN stats'
                          /\ (Cardinality(Calls(v)) > Cardinality(Calls(d.window)))'
  BY DEF DropsAreReal
<1>1. /\ \A v : Calls(v)' = Calls(v)
      /\ \A t, v : Certain(t, v)' = Certain(t, v)
      /\ \A k \in DOMAIN stats : k \in DOMAIN stats'
  BY LoadFixed, CallsFixed, KeepsRows DEF RowsKept
<1>2. \/ Calls(d.window) # Certain(d.target, d.window)
      \/ \E v \in Windows :
            /\ d.window - Lookback <= v /\ v < d.window /\ <<d.target, v>> \in DOMAIN stats
            /\ Cardinality(Calls(v)) > Cardinality(Calls(d.window))
  <2>1. CASE d \in detections
    BY <2>1 DEF DropsAreReal
  <2>2. CASE d \notin detections
    <3>1. Detect
      BY <2>2 DEF DetectionNext, detectionVars, ReadWindow, AggregateWindow, Refresh, Land, Crash
    <3>2. PICK t \in Ready, severity \in Severities :
             \/ d = Found(t, "percentile_deviation", severity)
             \/ d = Found(t, "error_rate", severity)
             \/ d = Found(t, "call_rate", severity) /\ Fires(t)
      BY <2>2, <3>1, NewDetections
    <3>3. d.target = t /\ d.window = window /\ Fires(t)
      BY <3>2 DEF Found
    <3>4. step = "detect" /\ t \in Targets /\ <<t, window>> \in DOMAIN baselines
      BY <3>1, ReadyIs DEF Detect
    <3>5. PICK v \in Back(window) : <<t, v>> \in DOMAIN stats
                                    /\ stats[<<t, v>>].calls > ObservedCalls(t)
      BY <3>3, <3>4, FiresBelow
    <3>6. v \in Windows /\ window - Lookback <= v /\ v < window
      BY <3>5 DEF Back
    <3>7. ASSUME Calls(window) = Certain(t, window)
          PROVE  Cardinality(Calls(v)) > Cardinality(Calls(window))
      <4>1. window \in Windows /\ load \in [Windows -> Loads]
        BY <3>4, Compared DEF DetectionTypeOK
      <4>2. Cardinality(Calls(window)) \in Nat /\ Cardinality(Calls(v)) \in Nat
        BY <3>6, <4>1, CallsOf
      <4>3. stats[<<t, v>>].calls \in Nat /\ stats[<<t, v>>].calls <= Cardinality(Calls(v))
        BY <3>4, <3>5, <3>6, RowsCount
      <4>4. ObservedCalls(t) = Cardinality(Calls(window))
        <5>1. CASE <<t, window>> \in DOMAIN stats
          <6>1. /\ stats[<<t, window>>].calls \in Nat
                /\ Cardinality(Calls(window)) <= stats[<<t, window>>].calls
                /\ stats[<<t, window>>].calls <= Cardinality(Calls(window))
            BY <3>4, <3>7, <4>1, <5>1, RowsCount
          <6>2. ObservedCalls(t) = stats[<<t, window>>].calls
            BY <3>4, <5>1, Compared
          <6> QED
            BY <4>2, <6>1, <6>2
        <5>2. CASE <<t, window>> \notin DOMAIN stats
          BY <3>4, <3>7, <5>2, Compared, FS_EmptySet
        <5> QED
          BY <5>1, <5>2
      <4> QED
        BY <3>5, <4>2, <4>3, <4>4
    <3> QED
      BY <3>3, <3>5, <3>6, <3>7
  <2> QED
    BY <2>1, <2>2
<1> QED
  BY <1>1, <1>2

\* A window with nothing late and no parent elsewhere has all its calls counted.
LEMMA AllCounted ==
    ASSUME load \in [Windows -> Loads], NEW w \in Windows, load[w].late = 0, load[w].split = 0,
           NEW t \in Targets
    PROVE  /\ Certain(t, w) = Calls(w) /\ Available(t, w) = Calls(w) /\ Countable(t, w) = Calls(w)
           /\ Cardinality(Calls(w)) = Cardinality(DOMAIN load[w].lat)
           /\ \A i \in DOMAIN load[w].lat : i \in Nat /\ 1 <= i
<1> DEFINE lat == load[w].lat
           n == Cardinality(Calls(w))
<1>1. lat \in Seq(Int)
  BY DetectionAssumption
<1>2. DOMAIN lat = 1..Len(lat) /\ Len(lat) \in Nat
  <2> HIDE DEF lat
  <2> QED
    BY <1>1
<1>3. IsFiniteSet(DOMAIN lat) /\ Cardinality(DOMAIN lat) = Len(lat)
  BY <1>2, FS_Interval
<1>4. Calls(w) = {w} \X DOMAIN lat
  BY DEF Calls
<1>5. n = Len(lat)
  <2>1. IsFiniteSet({w}) /\ Cardinality({w}) = 1
    BY FS_Singleton
  <2>2. Cardinality({w} \X DOMAIN lat) = 1 * Len(lat)
    <3> HIDE DEF lat
    <3> QED
      BY <1>3, <2>1, FS_Product
  <2> QED
    BY <1>2, <1>4, <2>2
<1>6. \A c \in Calls(w) : c[2] \in 1..Len(lat)
  BY <1>2, <1>4
<1> HIDE DEF lat
<1>7. Late(w) = {}
  BY <1>2, <1>6 DEF Late
<1>8. Split(w) = {}
  <2>1. Split(w) = {c \in Calls(w) : c[2] > n - 0}
    BY DEF Split
  <2> HIDE DEF n
  <2> QED
    BY <1>2, <1>5, <1>6, <2>1
<1>9. Certain(t, w) = Calls(w) /\ Available(t, w) = Calls(w) /\ Countable(t, w) = Calls(w)
  BY <1>7, <1>8 DEF Certain, Available, Countable
<1> QED
  BY <1>2, <1>3, <1>5, <1>9 DEF lat

\* The calls of a load that fail.
FailedOf(l) == {i \in DOMAIN l.lat : i <= l.errors}

\* So many windows with the same load have so many calls, and failed ones.
LEMMA SameLoads ==
    ASSUME load \in [Windows -> Loads], NEW W \in SUBSET Windows, NEW l,
           \A w \in W : load[w] = l, W # {}
    PROVE  /\ UNION {Calls(w) : w \in W} = W \X DOMAIN l.lat
           /\ IsFiniteSet(DOMAIN l.lat) /\ IsFiniteSet(W \X DOMAIN l.lat)
           /\ Cardinality(W \X DOMAIN l.lat) = Cardinality(W) * Cardinality(DOMAIN l.lat)
           /\ Errors(W \X DOMAIN l.lat) = Cardinality(W) * Cardinality(FailedOf(l))
           /\ Cardinality(FailedOf(l)) \in Nat /\ Cardinality(W) \in Nat
           /\ Cardinality(DOMAIN l.lat) \in Nat
<1>1. \A w \in W : Calls(w) = {w} \X DOMAIN l.lat
  BY DEF Calls
<1>2. UNION {Calls(w) : w \in W} = W \X DOMAIN l.lat
  BY <1>1
<1>3. IsFiniteSet(DOMAIN l.lat)
  <2>1. PICK w \in W : TRUE
    OBVIOUS
  <2>2. IsFiniteSet(DOMAIN load[w].lat) /\ load[w] = l
    BY CallsOf
  <2> QED
    BY <2>2
<1>4. IsFiniteSet(W)
  <2>1. IsFiniteSet(Windows)
    BY DetectionAssumption, FS_Interval DEF Windows
  <2> QED
    BY <2>1, FS_Subset
<1>5. IsFiniteSet(FailedOf(l))
  <2>1. FailedOf(l) \in SUBSET DOMAIN l.lat
    BY DEF FailedOf
  <2> QED
    BY <1>3, <2>1, FS_Subset
<1>6. {c \in W \X DOMAIN l.lat : Failed(c)} = W \X FailedOf(l)
  <2>1. ASSUME NEW c \in W \X DOMAIN l.lat PROVE Failed(c) <=> c \in W \X FailedOf(l)
    <3>1. load[c[1]] = l /\ c[1] \in W /\ c[2] \in DOMAIN l.lat /\ c = <<c[1], c[2]>>
      OBVIOUS
    <3> QED
      BY <3>1 DEF Failed, FailedOf
  <2>2. W \X FailedOf(l) \subseteq W \X DOMAIN l.lat
    BY DEF FailedOf
  <2> QED
    BY <2>1, <2>2
<1>7. /\ IsFiniteSet(W \X DOMAIN l.lat)
      /\ Cardinality(W \X DOMAIN l.lat) = Cardinality(W) * Cardinality(DOMAIN l.lat)
  BY <1>3, <1>4, FS_Product
<1>8. Cardinality(W \X FailedOf(l)) = Cardinality(W) * Cardinality(FailedOf(l))
  BY <1>4, <1>5, FS_Product
<1>9. Errors(W \X DOMAIN l.lat) = Cardinality(W) * Cardinality(FailedOf(l))
  BY <1>6, <1>8 DEF Errors
<1> QED
  BY <1>2, <1>3, <1>4, <1>5, <1>7, <1>9, FS_CardinalityType

\* Of equal values no deviation is left.
LEMMA ConstantMad ==
    ASSUME NEW D, IsFiniteSet(D), D # {}, NEW m \in Int, NEW f \in [D -> Int],
           \A d \in D : f[d] = m
    PROVE  Mad4(f) = 0
<1> DEFINE g == [i \in D |-> Abs(2 * f[i] - Median2(f))]
<1>1. Median2(f) = 2 * m
  BY ConstantMedian
<1>2. \A i \in D : g[i] = 0
  BY <1>1 DEF Abs
<1>3. g \in [D -> Int] /\ DOMAIN f = D
  BY <1>2
<1>4. Mad4(f) = Median2(g)
  BY <1>3 DEF Mad4
<1> HIDE DEF g
<1>5. Median2(g) = 2 * 0
  BY <1>2, <1>3, ConstantMedian
<1> QED
  BY <1>4, <1>5

\* The lookback of a window in turn, after steady traffic.
LEMMA SteadyBack ==
    ASSUME DetectionTypeOK, window \in Windows, NEW l \in Loads, Steady(window, l)
    PROVE  /\ Back(window) = window - Lookback .. window - 1
           /\ Cardinality(Back(window)) = Lookback /\ Back(window) # {}
           /\ Back(window) \in SUBSET Windows
           /\ \A v \in Back(window) : v \in judged /\ load[v] = l
           /\ l.late = 0 /\ l.split = 0
<1>1. window \in Int /\ 0 <= window /\ window <= MaxWindow /\ Lookback \in Nat \ {0}
      /\ window >= Lookback /\ MaxWindow \in Nat
  BY WindowsAre, DetectionAssumption DEF Steady
<1>2. Back(window) = window - Lookback .. window - 1
  BY <1>1 DEF Back, Windows
<1>3. Cardinality(window - Lookback .. window - 1) = Lookback
  <2>1. window - Lookback \in Int /\ window - 1 \in Int /\ ~(window - Lookback > window - 1)
        /\ (window - 1) - (window - Lookback) + 1 = Lookback
    BY <1>1
  <2> QED
    BY <2>1, FS_Interval
<1>4. window - 1 \in window - Lookback .. window - 1
  BY <1>1
<1> QED
  BY <1>2, <1>3, <1>4 DEF Steady, Back

\* The baseline after steady traffic: as many calls and failed ones as the
\* lookback has, and a rate without spread.
LEMMA SteadyBaseline ==
    ASSUME DetectionTypeOK, StatsInv, BaselineInv, step = "detect",
           NEW l \in Loads, Steady(window, l), NEW t \in Targets,
           <<t, window>> \in DOMAIN baselines,
           NEW n, n = Cardinality(DOMAIN l.lat)
    PROVE  /\ n \in Nat /\ n # 0 /\ Cardinality(FailedOf(l)) \in Nat
           /\ Baselines[t].observed = Lookback * n
           /\ Baselines[t].errors = Lookback * Cardinality(FailedOf(l))
           /\ Baselines[t].rate2 = 2 * n /\ Baselines[t].rateMad4 = 0
           /\ Baselines[t].ready <=> Lookback * n >= MinSamples
<1> DEFINE W == Back(window)
           history == History(t, window - Lookback, window)
<1>1. window \in Windows /\ load \in [Windows -> Loads]
  BY Compared DEF DetectionTypeOK
<1>2. /\ Cardinality(W) = Lookback /\ W # {} /\ W \in SUBSET Windows
      /\ \A v \in W : v \in judged /\ load[v] = l
      /\ l.late = 0 /\ l.split = 0
  BY <1>1, SteadyBack
<1>3. PICK B : MadeOf(t, window, B) /\ Baselines[t] = ComputeBaseline(B, history)
  BY Compared
<1>4. \A v \in W : /\ Certain(t, v) = Calls(v) /\ Countable(t, v) = Calls(v)
                   /\ Cardinality(Calls(v)) = n
  <2> TAKE v \in W
  <2>1. v \in Windows /\ load[v].late = 0 /\ load[v].split = 0
    BY <1>2
  <2> QED
    BY <1>1, <1>2, <2>1, AllCounted
<1>5. /\ UNION {Calls(w) : w \in W} = W \X DOMAIN l.lat
      /\ Cardinality(W \X DOMAIN l.lat) = Cardinality(W) * Cardinality(DOMAIN l.lat)
      /\ Errors(W \X DOMAIN l.lat) = Cardinality(W) * Cardinality(FailedOf(l))
      /\ Cardinality(FailedOf(l)) \in Nat /\ Cardinality(DOMAIN l.lat) \in Nat
      /\ IsFiniteSet(DOMAIN l.lat)
  <2>1. \A w \in W : load[w] = l
    BY <1>2
  <2> QED
    BY <1>1, <1>2, <2>1, SameLoads
<1>6. B # {} /\ B = W \X DOMAIN l.lat
  <2>1. /\ B # {} /\ B \subseteq UNION {Calls(v) : v \in W}
        /\ \A v \in W : Certain(t, v) \subseteq B
    BY <1>3 DEF MadeOf
  <2>2. UNION {Calls(v) : v \in W} \subseteq B
    BY <1>4, <2>1
  <2> QED
    BY <1>5, <2>1, <2>2
<1>7. n # 0
  <2>1. DOMAIN l.lat # {}
    BY <1>6
  <2> QED
    BY <1>5, <2>1, FS_EmptySet
<1>8. PICK H : /\ IsFiniteSet(H)
               /\ \A v \in H : v \in W /\ <<t, v>> \in DOMAIN stats
               /\ \A v \in W : <<t, v>> \in DOMAIN stats => v \in H
               /\ history \in [H -> Nat]
               /\ \A v \in H : history[v] = stats[<<t, v>>].calls
  BY <1>1, HistoryIs
<1>9. ASSUME NEW v \in W PROVE v \in H /\ stats[<<t, v>>].calls = n
  <2>1. v \in Windows /\ v \in judged
    BY <1>2
  <2>2. <<t, v>> \in DOMAIN stats
    <3>1. Cardinality(Certain(t, v)) = n
      BY <1>4
    <3>2. Certain(t, v) # {}
      BY <3>1, <1>7, FS_EmptySet
    <3> QED
      BY <2>1, <3>2 DEF StatsInv, Counted
  <2>3. stats[<<t, v>>].calls \in Nat /\ n <= stats[<<t, v>>].calls /\ stats[<<t, v>>].calls <= n
    BY <1>4, <2>1, <2>2, RowsCount
  <2> QED
    BY <1>5, <1>8, <2>2, <2>3
<1>10. H = W /\ history \in [W -> Int] /\ \A v \in W : history[v] = n
  BY <1>8, <1>9
<1> HIDE DEF W, history
<1>11. Median2(history) = 2 * n /\ Mad4(history) = 0
  BY <1>2, <1>5, <1>8, <1>10, ConstantMedian, ConstantMad
<1>12. /\ Baselines[t].observed = Cardinality(B) /\ Baselines[t].errors = Errors(B)
       /\ Baselines[t].rate2 = Median2(history) /\ Baselines[t].rateMad4 = Mad4(history)
       /\ Baselines[t].ready <=> Cardinality(B) >= MinSamples
  <2>1. Baselines[t] = ComputeBaseline(B, history)
    BY <1>3
  <2>2. /\ Baselines[t].observed = Cardinality(B) /\ Baselines[t].errors = Errors(B)
        /\ Baselines[t].rate2 = Median2(history) /\ Baselines[t].rateMad4 = Mad4(history)
    BY <2>1 DEF ComputeBaseline
  <2>3. ComputeBaseline(B, history).ready = (Cardinality(B) >= MinSamples)
    BY Zenon DEF ComputeBaseline
  <2> QED
    BY <2>1, <2>2, <2>3
<1> QED
  BY <1>2, <1>5, <1>6, <1>7, <1>11, <1>12

\* What a steady window in turn is compared with it.
LEMMA SteadyRow ==
    ASSUME DetectionTypeOK, StatsInv, step = "detect",
           NEW l \in Loads, l.late = 0, l.split = 0, load[window] = l, window \in Windows,
           NEW t \in Targets,
           NEW n, n = Cardinality(DOMAIN l.lat), n # 0
    PROVE  /\ <<t, window>> \in DOMAIN stats
           /\ stats[<<t, window>>].calls = n
           /\ stats[<<t, window>>].errors = Cardinality(FailedOf(l))
<1>1. load \in [Windows -> Loads]
  BY DEF DetectionTypeOK
<1>2. /\ Certain(t, window) = Calls(window) /\ Available(t, window) = Calls(window)
      /\ Cardinality(Calls(window)) = n
  BY <1>1, AllCounted
<1>3. <<t, window>> \in DOMAIN stats
  <2>1. Certain(t, window) # {}
    BY <1>2, FS_EmptySet
  <2> QED
    BY <2>1 DEF StatsInv, Counted
<1>4. PICK S \in Between(Certain(t, window), Available(t, window)) : stats[<<t, window>>] = WindowStats(S)
  BY <1>3 DEF StatsInv, RowRight
<1>5. S = Calls(window)
  BY <1>2, <1>4 DEF Between
<1>6. UNION {Calls(w) : w \in {window}} = Calls(window)
  OBVIOUS
<1>7. Calls(window) = {window} \X DOMAIN l.lat
  BY DEF Calls
<1>8. /\ Errors({window} \X DOMAIN l.lat) = Cardinality({window}) * Cardinality(FailedOf(l))
      /\ Cardinality(FailedOf(l)) \in Nat
  <2>1. {window} \in SUBSET Windows /\ (\A w \in {window} : load[w] = l) /\ {window} # {}
    OBVIOUS
  <2> QED
    BY <1>1, <2>1, SameLoads
<1>9. Cardinality({window}) = 1
  BY FS_Singleton
<1>10. Errors(S) = Cardinality(FailedOf(l))
  BY <1>5, <1>7, <1>8, <1>9
<1>11. IsFiniteSet(S) /\ Cardinality(S) = n
  BY <1>1, <1>2, <1>5, CallsOf
<1>12. stats[<<t, window>>].calls = n /\ stats[<<t, window>>].errors = Errors(S)
  BY <1>4, <1>11, StatsAre
<1> QED
  BY <1>3, <1>10, <1>12

\* Only windows that are finished are reported on.
OnlyJudged == \A d \in detections : d.window \in judged

LEMMA OnlyJudgedHolds ==
    ASSUME OnlyJudged, [DetectionNext]_detectionVars
    PROVE  OnlyJudged'
<1>1. ASSUME NEW d \in detections' PROVE d.window \in judged'
  <2>1. CASE d \in detections
    BY <2>1, LoadFixed DEF OnlyJudged
  <2>2. CASE d \notin detections
    <3>1. Detect
      BY <2>2 DEF DetectionNext, detectionVars, ReadWindow, AggregateWindow, Refresh, Land, Crash
    <3>2. PICK t \in Ready, severity \in Severities :
             \/ d = Found(t, "percentile_deviation", severity)
             \/ d = Found(t, "error_rate", severity)
             \/ d = Found(t, "call_rate", severity)
      BY <2>2, <3>1, NewDetections
    <3>3. d.window = window
      BY <3>2 DEF Found
    <3> QED
      BY <3>1, <3>3 DEF Detect
  <2> QED
    BY <2>1, <2>2
<1> QED
  BY <1>1 DEF OnlyJudged

\* A window that is finished was steady, or not, before the last step.
LEMMA SteadyBefore ==
    ASSUME DetectionTypeOK, StatsInv, [DetectionNext]_detectionVars,
           NEW w \in judged', NEW l, Steady(w, l)'
    PROVE  Steady(w, l)
<1>1. judged' = judged \/ (Detect /\ judged' = judged \cup {window})
  BY DEF DetectionNext, detectionVars, ReadWindow, AggregateWindow, Refresh, Detect, Land, Crash
<1>2. load' = load
  BY LoadFixed
<1>3. /\ w >= Lookback /\ l.late = 0 /\ l.split = 0
      /\ \A v \in (w - Lookback)..(w - 1) : v \in judged' /\ load[v] = l
  BY <1>2 DEF Steady
<1>4. w \in Int /\ w <= window /\ window \in Int
  <2>1. window \in Int
    BY WindowMoves
  <2>2. \A v \in judged : v \in Int /\ v < window
    BY WindowsAre DEF DetectionTypeOK, StatsInv
  <2> QED
    BY <1>1, <2>1, <2>2
<1>5. ASSUME NEW v \in (w - Lookback)..(w - 1) PROVE v \in judged
  <2>1. v \in judged'
    BY <1>3
  <2>2. v # window
    BY <1>4, DetectionAssumption
  <2> QED
    BY <1>1, <2>1, <2>2
<1> QED
  BY <1>3, <1>5 DEF Steady

\* The detectors see that a steady target has fallen silent.
LEMMA SilenceFires ==
    ASSUME DetectionTypeOK, StatsInv, BaselineInv, Detect,
           NEW l \in Loads, Steady(window, l), Calls(window) = {},
           Cardinality(DOMAIN l.lat) * Lookback >= MinSamples, DOMAIN l.lat # {},
           NEW t \in Targets
    PROVE  Found(t, "call_rate", "critical") \in detections'
<1> DEFINE n == Cardinality(DOMAIN l.lat)
<1>1. step = "detect" /\ window \in Windows /\ load \in [Windows -> Loads]
  BY DetectionAssumption DEF Detect, DetectionTypeOK, StatsInv, Windows
<1>2. /\ Back(window) # {} /\ Back(window) \in SUBSET Windows
      /\ \A v \in Back(window) : load[v] = l
      /\ l.late = 0 /\ l.split = 0
  BY <1>1, SteadyBack
<1>3. PICK v \in Back(window) : v \in Windows /\ load[v] = l
  BY <1>2
<1>4. Certain(t, v) # {}
  <2>1. Certain(t, v) = Calls(v)
    BY <1>1, <1>2, <1>3, AllCounted
  <2>2. Calls(v) # {}
    BY <1>3 DEF Calls
  <2> QED
    BY <2>1, <2>2
<1>5. <<t, window>> \in DOMAIN baselines
  BY <1>1, <1>3, <1>4 DEF BaselineInv
<1>6. /\ n \in Nat /\ n # 0
      /\ Baselines[t].rate2 = 2 * n /\ Baselines[t].rateMad4 = 0
      /\ Baselines[t].ready <=> Lookback * n >= MinSamples
  BY <1>1, <1>5, SteadyBaseline
<1>7. t \in Ready
  <2>1. Lookback * n = n * Lookback
    BY <1>6, DetectionAssumption
  <2>2. Baselines[t].ready
    BY <1>6, <2>1
  <2>3. Baselines[t] = baselines[<<t, window>>]
    BY <1>5 DEF Baselines
  <2> QED
    BY <1>5, <2>2, <2>3, ReadyIs
<1>8. ObservedCalls(t) = 0
  <2>1. Cardinality(Calls(window)) = 0
    BY FS_EmptySet
  <2>2. <<t, window>> \notin DOMAIN stats
    <3> SUFFICES ASSUME <<t, window>> \in DOMAIN stats PROVE FALSE
      OBVIOUS
    <3>1. /\ stats[<<t, window>>].calls \in Nat /\ stats[<<t, window>>].calls # 0
          /\ stats[<<t, window>>].calls <= Cardinality(Calls(window))
      BY <1>1, RowsCount
    <3> QED
      BY <2>1, <3>1
  <2> QED
    BY <1>1, <1>5, <2>2, Compared
<1> HIDE DEF n
<1>9. CallRateSpread(t) = 0
  BY <1>6 DEF CallRateSpread, Spread
<1>10. Fires(t)
  <2>1. Fires(t) <=> 4 * ObservedCalls(t) < Baselines[t].rate2
    BY <1>9 DEF Fires
  <2> QED
    BY <1>6, <1>8, <2>1
<1>11. CallRateSeverity(t) = "critical"
  BY <1>9 DEF CallRateSeverity, Severity
<1>12. Found(t, "call_rate", "critical") \in DetectCallRateDrop
  BY <1>7, <1>10, <1>11 DEF DetectCallRateDrop
<1> QED
  BY <1>12 DEF Detect, WriteDetections

LEMMA SilenceHolds ==
    ASSUME DetectionTypeOK, StatsInv, BaselineInv, SilenceIsSeen, [DetectionNext]_detectionVars
    PROVE  SilenceIsSeen'
<1> SUFFICES ASSUME NEW w \in judged', NEW l \in Loads, Steady(w, l)', Calls(w)' = {},
                    Cardinality(DOMAIN l.lat) * Lookback >= MinSamples, DOMAIN l.lat # {},
                    NEW t \in Targets
             PROVE  [window |-> w, target |-> t, detector |-> "call_rate",
                     severity |-> "critical"] \in detections'
  BY DEF SilenceIsSeen
<1>1. Steady(w, l)
  BY SteadyBefore
<1>2. Calls(w) = {}
  BY LoadFixed, CallsFixed
<1>3. CASE w \in judged
  <2>1. [window |-> w, target |-> t, detector |-> "call_rate", severity |-> "critical"]
           \in detections
    BY <1>1, <1>2, <1>3 DEF SilenceIsSeen
  <2> QED
    BY <2>1, LoadFixed
<1>4. CASE w \notin judged
  <2>1. Detect /\ w = window
    BY <1>4 DEF DetectionNext, detectionVars, ReadWindow, AggregateWindow, Refresh, Detect, Land, Crash
  <2>2. Found(t, "call_rate", "critical") \in detections'
    BY <1>1, <1>2, <2>1, SilenceFires
  <2> QED
    BY <2>1, <2>2 DEF Found
<1> QED
  BY <1>3, <1>4

\* The detectors report no drop and no change of the error rate of a target in
\* a window like those before.
LEMMA QuietFires ==
    ASSUME DetectionTypeOK, StatsInv, BaselineInv, Detect,
           NEW l \in Loads, Steady(window, l), load[window] = l,
           NEW t \in Ready
    PROVE  /\ ~Fires(t)
           /\ t \in DOMAIN CurrentStats =>
                 ~ErrorRateExceeds(ErrorLimit, CurrentStats[t].errors, CurrentStats[t].calls,
                                   Baselines[t].errors, Baselines[t].observed)
<1> DEFINE n == Cardinality(DOMAIN l.lat)
           k == Cardinality(FailedOf(l))
<1>1. step = "detect" /\ window \in Windows /\ t \in Targets /\ <<t, window>> \in DOMAIN baselines
  BY DetectionAssumption, ReadyIs DEF Detect, DetectionTypeOK, StatsInv, Windows
<1>2. l.late = 0 /\ l.split = 0
  BY DEF Steady
<1>3. /\ n \in Nat /\ n # 0 /\ k \in Nat
      /\ Baselines[t].observed = Lookback * n /\ Baselines[t].errors = Lookback * k
      /\ Baselines[t].rate2 = 2 * n /\ Baselines[t].rateMad4 = 0
  BY <1>1, SteadyBaseline
<1>4. /\ <<t, window>> \in DOMAIN stats
      /\ stats[<<t, window>>].calls = n /\ stats[<<t, window>>].errors = k
  BY <1>1, <1>2, <1>3, SteadyRow
<1>5. ObservedCalls(t) = n /\ CurrentStats[t].calls = n /\ CurrentStats[t].errors = k
  BY <1>1, <1>4, Compared
<1> HIDE DEF n, k
<1>6. ~Fires(t)
  <2>1. CallRateSpread(t) = 0
    BY <1>3 DEF CallRateSpread, Spread
  <2>2. Fires(t) <=> 4 * ObservedCalls(t) < Baselines[t].rate2
    BY <2>1 DEF Fires
  <2> QED
    BY <1>3, <1>5, <2>2
<1>7. ~ErrorRateExceeds(ErrorLimit, k, n, Lookback * k, Lookback * n)
  <2>1. \A a, b, c \in Nat : a * (b * c) - (b * a) * c = 0
    OBVIOUS
  <2>2. k * (Lookback * n) - (Lookback * k) * n = 0
    BY <1>3, <2>1, DetectionAssumption
  <2> QED
    BY <2>2 DEF ErrorRateExceeds
<1> QED
  BY <1>3, <1>5, <1>6, <1>7

LEMMA QuietHolds ==
    ASSUME DetectionTypeOK, StatsInv, BaselineInv, OnlyJudged, SteadyIsQuiet,
           [DetectionNext]_detectionVars
    PROVE  SteadyIsQuiet'
<1> SUFFICES ASSUME NEW d \in detections', NEW l \in Loads,
                    Steady(d.window, l)', load'[d.window] = l
             PROVE  d.detector = "percentile_deviation"
  BY DEF SteadyIsQuiet
<1>0. load' = load
  BY LoadFixed
<1>1. CASE d \in detections
  <2>1. d.window \in judged'
    BY <1>1, LoadFixed DEF OnlyJudged
  <2>2. Steady(d.window, l)
    BY <2>1, SteadyBefore
  <2> QED
    BY <1>0, <1>1, <2>2 DEF SteadyIsQuiet
<1>2. CASE d \notin detections
  <2>1. Detect
    BY <1>2 DEF DetectionNext, detectionVars, ReadWindow, AggregateWindow, Refresh, Land, Crash
  <2>2. PICK t \in Ready, severity \in Severities :
           \/ d = Found(t, "percentile_deviation", severity)
           \/ /\ d = Found(t, "error_rate", severity)
              /\ t \in DOMAIN CurrentStats
              /\ ErrorRateExceeds(ErrorLimit, CurrentStats[t].errors, CurrentStats[t].calls,
                                  Baselines[t].errors, Baselines[t].observed)
           \/ d = Found(t, "call_rate", severity) /\ Fires(t)
    BY <1>2, <2>1, NewDetections
  <2>3. d.window = window
    BY <2>2 DEF Found
  <2>4. d.window \in judged'
    BY <2>1, <2>3 DEF Detect
  <2>5. Steady(window, l) /\ load[window] = l
    <3>1. Steady(d.window, l)
      BY <2>4, SteadyBefore
    <3> QED
      BY <1>0, <2>3, <3>1
  <2>6. /\ ~Fires(t)
        /\ t \in DOMAIN CurrentStats =>
              ~ErrorRateExceeds(ErrorLimit, CurrentStats[t].errors, CurrentStats[t].calls,
                                Baselines[t].errors, Baselines[t].observed)
    BY <2>1, <2>5, QuietFires
  <2>7. d = Found(t, "percentile_deviation", severity)
    BY <2>2, <2>6
  <2> QED
    BY <2>7 DEF Found
<1> QED
  BY <1>1, <1>2

-----------------------------------------------------------------------------

\* What holds of the tables between any two inserts.
DetectionInv ==
    /\ DetectionTypeOK /\ StatsInv /\ BaselineInv /\ OnlyJudged
    /\ DropsAreReal /\ SteadyIsJudged

LEMMA DetectionBegins == DetectionInit => DetectionInv
<1> SUFFICES ASSUME DetectionInit PROVE DetectionInv
  OBVIOUS
<1>1. /\ load \in [Windows -> Loads] /\ landed = {} /\ window = 0 /\ step = "read" /\ fetched = {}
      /\ DOMAIN stats = {} /\ DOMAIN baselines = {} /\ detections = {} /\ judged = {} /\ crashes = 0
  BY DEF DetectionInit
<1>2. DetectionTypeOK
  BY <1>1, DetectionAssumption DEF DetectionTypeOK
<1>3. StatsInv /\ BaselineInv
  BY <1>1 DEF StatsInv, BaselineInv, Counted
<1>4. OnlyJudged /\ DropsAreReal /\ SteadyIsJudged
  BY <1>1 DEF OnlyJudged, DropsAreReal, SteadyIsJudged, SilenceIsSeen, SteadyIsQuiet
<1> QED
  BY <1>2, <1>3, <1>4 DEF DetectionInv

LEMMA DetectionGoesOn == DetectionInv /\ [DetectionNext]_detectionVars => DetectionInv'
<1> SUFFICES ASSUME DetectionInv, [DetectionNext]_detectionVars PROVE DetectionInv'
  OBVIOUS
<1>1. /\ DetectionTypeOK /\ StatsInv /\ BaselineInv /\ OnlyJudged
      /\ DropsAreReal /\ SilenceIsSeen /\ SteadyIsQuiet
  BY DEF DetectionInv, SteadyIsJudged
<1>2. DetectionTypeOK' /\ StatsInv' /\ BaselineInv' /\ OnlyJudged'
  BY <1>1, TypesHold, StatsHold, BaselinesHold, OnlyJudgedHolds
<1>3. DropsAreReal' /\ SilenceIsSeen' /\ SteadyIsQuiet'
  BY <1>1, DropsHold, SilenceHolds, QuietHolds
<1> QED
  BY <1>2, <1>3 DEF DetectionInv, SteadyIsJudged

\* Of the tables of statistics, baselines and detections, in every reachable
\* state: each row holds the statistics of calls of its window, of all that
\* were on time; each baseline those of its lookback (main.py's process_window
\* and run_detection, with crashes and late spans between their inserts).
THEOREM DetectionInductive == DetectionSpec => []DetectionInv
<1>1. DetectionInit => DetectionInv
  BY DetectionBegins
<1>2. DetectionInv /\ [DetectionNext]_detectionVars => DetectionInv'
  BY DetectionGoesOn
<1> QED
  BY <1>1, <1>2, PTL DEF DetectionSpec

\* A window is judged by what came before it only (baseline.py:20-26, 80-91).
THEOREM BaselinesAlwaysLookBack == DetectionSpec => []BaselinesLookBack
<1>1. DetectionInv => BaselinesLookBack
  BY LookBackHolds DEF DetectionInv
<1> QED
  BY <1>1, DetectionInductive, PTL

\* A reported drop of the call rate is one (detectors.py:167-204).
THEOREM DropsAlwaysReal == DetectionSpec => []DropsAreReal
<1>1. DetectionInv => DropsAreReal
  BY DEF DetectionInv
<1> QED
  BY <1>1, DetectionInductive, PTL

\* After steady traffic silence is reported, and more of the same is not
\* (detectors.py:126-204).
THEOREM SteadyAlwaysJudged == DetectionSpec => []SteadyIsJudged
<1>1. DetectionInv => SteadyIsJudged
  BY DEF DetectionInv
<1> QED
  BY <1>1, DetectionInductive, PTL

\* A topology query counts each call once (queries.py:286-312).
THEOREM TopologyAlwaysAddsUp == DetectionSpec => []TopologyAddsUp
<1>1. DetectionInv => TopologyAddsUp
  BY TopologyHolds DEF DetectionInv
<1> QED
  BY <1>1, DetectionInductive, PTL

\* The magnitude of an incident is that of the window of its middle
\* (eval.py:664-686).
THEOREM MagnitudeAlwaysMeasured == DetectionSpec => []MagnitudeIsMeasured
<1>1. DetectionInv => MagnitudeIsMeasured
  BY MagnitudeHolds DEF DetectionInv
<1> QED
  BY <1>1, DetectionInductive, PTL

=============================================================================
