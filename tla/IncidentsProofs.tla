---------------------------- MODULE IncidentsProofs ----------------------------
(***************************************************************************)
(* The incidents and what is read from them, for every set of services,    *)
(* calls, detections, lookback, number of windows and of crashes: how      *)
(* detections are grouped, that the walk to the root is well defined and   *)
(* where it ends, how a batch is marked, the inductive invariant of the    *)
(* tables, and from it each property of Incidents and IncidentScore.       *)
(***************************************************************************)
EXTENDS IncidentScore, Lemmas

\* The detections that run_suppression last read back.
LastRead == {d \in detections : window <= d.window + Lookback + 1}

\* Nothing is ahead of the window being processed.
Timely ==
    /\ pc = "group" => window <= MaxWindow
    /\ \A d \in detections : d.window < window \/ (pc = "group" /\ d.window = window)
    /\ \A d \in fresh : d.window + (IF pc = "detect" THEN 1 ELSE 0) = window
    /\ \A w \in groupedAt : w < window

\* Behind every row there are detections, in each of its windows and of its
\* peak severity.
RowsBacked ==
    \A i \in incidents :
        /\ i.start <= i.end
        /\ \A w \in i.start..i.end : \E d \in detections : d.key = i.key /\ d.window = w
        /\ \E d \in detections : Covers(i, d) /\ d.severity = i.peak

IdsUnique == \A i, j \in incidents : IncidentId(i) = IncidentId(j) => i = j

\* What a derived row names is a service's row with the same kind of trouble.
RootsKnown ==
    \A i \in incidents : Derived(i) =>
        /\ i.root.key.target.kind = "service"
        /\ i.root.key.detector = i.key.detector
        /\ \E r \in incidents : IncidentId(r) = i.root

\* Until the next window begins, the batch is what its grouping made of the
\* detections and the call graph that are still in the tables.
BatchIsGrouping ==
    pc = "detect" /\ batch # {} =>
        /\ fresh \subseteq LastRead
        /\ batch = SuppressPropagated(GroupDetections(LastRead), edges)
        /\ suppressed = {d.key : d \in fresh} \cap DerivedKeys(batch)

IInv == /\ TypeOK /\ DetectionsAreInIncidents /\ Timely /\ RowsBacked
        /\ IdsUnique /\ RootsKnown /\ BatchIsGrouping

-----------------------------------------------------------------------------
(* the grouping of detections *)

\* Of a non-empty set of severities there is a largest.
LEMMA LargestSeverity ==
    ASSUME NEW S, S \subseteq {1, 2}, S # {}
    PROVE  Max(S) \in S /\ \A x \in S : x <= Max(S)
<1>1. \E x \in S : \A y \in S : x >= y
  <2>1. CASE 2 \in S
    BY <2>1
  <2>2. CASE 2 \notin S
    <3>1. 1 \in S /\ \A y \in S : y = 1
      BY <2>2
    <3> QED
      BY <3>1
  <2> QED
    BY <2>1, <2>2
<1> QED
  BY <1>1 DEF Max

\* What an incident that was just grouped is made of.
LEMMA Grouped1 ==
    ASSUME NEW found \in SUBSET Firing, NEW i \in GroupDetections(found)
    PROVE  /\ i = BuildIncident(found, i.key, i.start, i.end)
           /\ i.key \in Watched /\ i.root = NoRoot
           /\ i.start \in 0..MaxWindow /\ i.end \in 0..MaxWindow /\ i.start <= i.end
           /\ IsRun(found, i.key, i.start, i.end)
<1>1. PICK d \in found : \E last \in RunEnds(found, d) :
             i = BuildIncident(found, d.key, d.window, last)
  BY DEF GroupDetections
<1>2. PICK last \in RunEnds(found, d) : i = BuildIncident(found, d.key, d.window, last)
  BY <1>1
<1>3. i.key = d.key /\ i.start = d.window /\ i.end = last /\ i.root = NoRoot
  BY <1>2 DEF BuildIncident
<1>4. d \in Firing /\ d.window \in 0..MaxWindow /\ d.key \in Watched
  BY IncidentsAssumption DEF Watched
<1>5. last \in 0..MaxWindow /\ IsRun(found, d.key, d.window, last)
  BY DEF RunEnds
<1>6. d.window <= last
  BY <1>5 DEF IsRun
<1> QED
  BY <1>2, <1>3, <1>4, <1>5, <1>6

\* Its windows all have a detection of its key, its peak is the severest.
LEMMA Grouped2 ==
    ASSUME NEW found \in SUBSET Firing, NEW i \in GroupDetections(found)
    PROVE  /\ \A w \in i.start..i.end : \E d \in found : d.key = i.key /\ d.window = w
           /\ i.peak \in {1, 2}
           /\ \E d \in found : Covers(i, d) /\ d.severity = i.peak
           /\ \A d \in found : Covers(i, d) => d.severity <= i.peak
<1>1. \A w \in i.start..i.end : \E d \in found : d.key = i.key /\ d.window = w
  BY Grouped1 DEF IsRun, WindowsOf
<1> DEFINE Hits == {e \in found : e.key = i.key /\ e.window \in i.start..i.end}
           S == {d.severity : d \in Hits}
<1>2. i.peak = Max(S)
  <2>1. i.peak = PeakSeverity(found, i.key, i.start, i.end)
    BY Grouped1 DEF BuildIncident
  <2> QED
    BY <2>1 DEF PeakSeverity
<1>3. S \subseteq {1, 2}
  BY IncidentsAssumption
<1>4. S # {}
  <2>1. i.start \in i.start..i.end
    BY Grouped1
  <2> QED
    BY <1>1, <2>1
<1> HIDE DEF S
<1>5. Max(S) \in S /\ \A x \in S : x <= Max(S)
  BY <1>3, <1>4, LargestSeverity
<1>6. \E d \in Hits : d.severity = i.peak
  BY <1>2, <1>5 DEF S
<1>7. \A d \in Hits : d.severity <= i.peak
  BY <1>2, <1>5 DEF S
<1>8. \A d \in found : d \in Hits <=> Covers(i, d)
  BY DEF Covers
<1> QED
  BY <1>1, <1>2, <1>3, <1>5, <1>6, <1>7, <1>8

\* Two of a key that overlap are one.
LEMMA RunsApart ==
    ASSUME NEW found \in SUBSET Firing,
           NEW i \in GroupDetections(found), NEW j \in GroupDetections(found),
           i.key = j.key, Overlaps(i, j)
    PROVE  i = j
<1>1. ASSUME NEW a \in GroupDetections(found), NEW b \in GroupDetections(found),
             a.key = b.key, Overlaps(a, b)
      PROVE  ~(a.start < b.start) /\ ~(a.end < b.end)
  <2> DEFINE W == WindowsOf(found, a.key)
  <2>1. /\ a.start \in Nat /\ a.end \in Nat /\ a.start <= a.end
        /\ b.start \in Nat /\ b.end \in Nat /\ b.start <= b.end
    BY Grouped1
  <2>2. a.start..a.end \subseteq W /\ a.end + 1 \notin W
    BY Grouped1 DEF IsRun
  <2>3. b.start..b.end \subseteq W /\ \A w \in W : w + 1 # b.start
    BY Grouped1, <1>1 DEF IsRun
  <2>4. a.start <= b.end /\ b.start <= a.end
    BY <1>1 DEF Overlaps
  <2> HIDE DEF W
  <2>5. ASSUME a.start < b.start PROVE FALSE
    <3>1. b.start - 1 \in a.start..a.end /\ (b.start - 1) + 1 = b.start
      BY <2>1, <2>4, <2>5
    <3> QED
      BY <3>1, <2>2, <2>3
  <2>6. ASSUME a.end < b.end PROVE FALSE
    <3>1. a.end + 1 \in b.start..b.end
      BY <2>1, <2>4, <2>6
    <3> QED
      BY <3>1, <2>2, <2>3
  <2> QED
    BY <2>5, <2>6
<1>2. Overlaps(j, i)
  BY DEF Overlaps
<1>3. ~(i.start < j.start) /\ ~(i.end < j.end) /\ ~(j.start < i.start) /\ ~(j.end < i.end)
  BY <1>1, <1>2
<1>4. i.start = j.start /\ i.end = j.end
  BY <1>3, Grouped1
<1>5. i = BuildIncident(found, i.key, i.start, i.end) /\ j = BuildIncident(found, j.key, j.start, j.end)
  BY Grouped1
<1> QED
  BY <1>4, <1>5

\* Around a member of a set of windows there is a run of them.
LEMMA RunAround ==
    ASSUME NEW M \in Nat, NEW W, W \subseteq 0..M, NEW x \in W
    PROVE  \E first, last \in Nat :
             /\ first <= x /\ x <= last /\ last <= M
             /\ first..last \subseteq W /\ last + 1 \notin W
             /\ \A w \in W : w + 1 # first
<1>1. x \in Nat /\ x <= M /\ M + 1 \notin W
  OBVIOUS
<1> DEFINE Firsts == {w \in 0..x : w..x \subseteq W}
           Lasts == {w \in x..M : w + 1 \notin W}
<1>3. PICK first \in Firsts : \A w \in Firsts : first <= w
  <2>1. x \in Firsts
    <3>1. x \in 0..x /\ x..x = {x}
      BY <1>1
    <3> QED
      BY <3>1
  <2>2. Firsts \subseteq Nat
    OBVIOUS
  <2> QED
    BY <2>1, <2>2, SmallestOf
<1>4. PICK last \in Lasts : \A w \in Lasts : last <= w
  <2>1. M \in Lasts
    BY <1>1
  <2>2. Lasts \subseteq Nat
    BY <1>1
  <2> QED
    BY <2>1, <2>2, SmallestOf
<1>5. /\ first \in Nat /\ last \in Nat /\ first <= x /\ x <= last /\ last <= M
      /\ last + 1 \notin W /\ first..x \subseteq W
  BY <1>1
<1>6. x..last \subseteq W
  <2> DEFINE Filled == {n \in Nat : x + n <= last => x + n \in W}
  <2>1. 0 \in Filled
    BY <1>1
  <2>2. ASSUME NEW n \in Nat, n \in Filled
        PROVE  n + 1 \in Filled
    <3> SUFFICES ASSUME x + (n + 1) <= last PROVE x + (n + 1) \in W
      OBVIOUS
    <3>1. x + n < last /\ x + n \in x..M
      BY <1>1, <1>5
    <3>2. x + n \notin Lasts
      BY <1>1, <3>1, <1>4, <1>5
    <3>3. (x + n) + 1 \in W
      BY <3>1, <3>2
    <3> QED
      BY <3>3, <1>1
  <2>3. Nat \subseteq Filled
    <3> HIDE DEF Filled
    <3> QED
      BY <2>1, <2>2, SetInduction
  <2> SUFFICES ASSUME NEW w \in x..last PROVE w \in W
    OBVIOUS
  <2>4. w - x \in Nat /\ x + (w - x) = w /\ w <= last
    BY <1>1, <1>5
  <2> QED
    BY <2>4, <2>3
<1>7. first..last \subseteq W
  <2>1. first..last \subseteq first..x \cup x..last
    BY <1>1, <1>5
  <2> QED
    BY <2>1, <1>5, <1>6
<1>8. \A w \in W : w + 1 # first
  <2> SUFFICES ASSUME NEW w \in W, w + 1 = first PROVE FALSE
    OBVIOUS
  <2>1. w \in Nat /\ ~(first <= w) /\ w \in 0..x
    BY <1>1, <1>5
  <2>2. w..x \subseteq {w} \cup first..x
    BY <1>1, <1>5, <2>1
  <2>3. w \in Firsts
    BY <2>1, <2>2, <1>5
  <2> QED
    BY <2>1, <2>3, <1>3
<1> QED
  BY <1>5, <1>7, <1>8

\* Every detection lies in one.
LEMMA GroupingCovers ==
    ASSUME NEW found \in SUBSET Firing, NEW d \in found
    PROVE  \E i \in GroupDetections(found) : Covers(i, d)
<1> DEFINE hit == WindowsOf(found, d.key)
           here == d.window
<1>1. hit \subseteq 0..MaxWindow /\ here \in hit /\ MaxWindow \in Nat
  BY IncidentsAssumption DEF WindowsOf
<1>2. \A w \in hit : \E e \in found : e.key = d.key /\ e.window = w
  BY DEF WindowsOf
<1> HIDE DEF hit, here
<1>3. PICK first \in Nat, last \in Nat :
         /\ first <= here /\ here <= last /\ last <= MaxWindow
         /\ first..last \subseteq hit /\ last + 1 \notin hit
         /\ \A w \in hit : w + 1 # first
  BY <1>1, RunAround
<1>4. here \in Nat /\ first \in Nat /\ last \in Nat /\ first <= last /\ here \in first..last
      /\ first \in first..last /\ last \in 0..MaxWindow
  BY <1>1, <1>3
<1>5. IsRun(found, d.key, first, last)
  BY <1>3, <1>4 DEF IsRun, hit
<1>6. PICK e \in found : e.key = d.key /\ e.window = first
  BY <1>2, <1>3, <1>4
<1>7. last \in RunEnds(found, e)
  BY <1>4, <1>5, <1>6 DEF RunEnds
<1> DEFINE i == BuildIncident(found, e.key, e.window, last)
<1>8. i \in GroupDetections(found)
  BY <1>7 DEF GroupDetections
<1>9. i.key = d.key /\ i.start = first /\ i.end = last
  BY <1>6 DEF BuildIncident
<1> HIDE DEF i
<1>10. Covers(i, d)
  BY <1>9, <1>4 DEF Covers, here
<1> QED
  BY <1>8, <1>10

\* There are finitely many.
LEMMA GroupingFinite ==
    ASSUME NEW found \in SUBSET Firing
    PROVE  IsFiniteSet(GroupDetections(found))
<1> DEFINE P == found \X (0..MaxWindow)
           f == [p \in P |-> BuildIncident(found, p[1].key, p[1].window, p[2])]
           T == {f[p] : p \in P}
<1>1. IsFiniteSet(P)
  <2>1. IsFiniteSet(found)
    BY IncidentsAssumption, FS_Subset
  <2>2. IsFiniteSet(0..MaxWindow)
    BY IncidentsAssumption, FS_Interval
  <2> QED
    BY <2>1, <2>2, FS_Product
<1>2. f \in Surjection(P, T)
  BY DEF Surjection
<1>3. IsFiniteSet(T)
  BY <1>1, <1>2, FS_Surjection
<1>4. GroupDetections(found) \subseteq T
  <2> SUFFICES ASSUME NEW i \in GroupDetections(found) PROVE i \in T
    OBVIOUS
  <2>1. PICK d \in found : \E last \in RunEnds(found, d) :
               i = BuildIncident(found, d.key, d.window, last)
    BY DEF GroupDetections
  <2>2. PICK last \in 0..MaxWindow : i = BuildIncident(found, d.key, d.window, last)
    BY <2>1 DEF RunEnds
  <2>3. <<d, last>> \in P /\ f[<<d, last>>] = i
    BY <2>2
  <2> QED
    BY <2>3
<1> QED
  BY <1>3, <1>4, FS_Subset

-----------------------------------------------------------------------------
(* the walk to the root *)

\* One step of the walk: what Resolve gives at i, if f gives the rest.
Deeper(i, visiting, known, calls, f) ==
    LET candidates == {f[<<d, visiting \cup {i}>>] : d \in AffectedCallees(i, known, calls)}
    IN IF ~IsService(i) \/ i \in visiting \/ candidates = {} THEN i
       ELSE CHOOSE c \in candidates : \A e \in candidates : Callee(c) <= Callee(e)

\* resolve_root's Resolve.
Walk(known, calls) ==
    CHOOSE f : f = [at \in known \X SUBSET known |-> Deeper(at[1], at[2], known, calls, f)]

\* The code's recursion over root causes is the walk through the calls.
LEMMA ResolveIsWalk ==
    ASSUME NEW known, NEW calls
    PROVE  ResolveRoot(known, calls) = [i \in known |-> Walk(known, calls)[<<i, {}>>]]
BY DEF ResolveRoot, Walk, Deeper

\* Of a non-empty set of incidents one with the smallest label is chosen.
LEMMA SmallestCallee ==
    ASSUME NEW C, C # {}, \A c \in C : Callee(c) \in Nat
    PROVE  (CHOOSE c \in C : \A e \in C : Callee(c) <= Callee(e)) \in C
<1> DEFINE L == {Callee(c) : c \in C}
<1>1. L \subseteq Nat /\ L # {}
  OBVIOUS
<1>2. PICK l \in L : \A m \in L : l <= m
  BY <1>1, SmallestOf
<1>3. \E c \in C : \A e \in C : Callee(c) <= Callee(e)
  <2>1. PICK c \in C : Callee(c) = l
    OBVIOUS
  <2> QED
    BY <2>1, <1>2
<1> QED
  BY <1>3

\* Incidents as a walk may meet them.
Walkable(known) == IsFiniteSet(known) /\ \A i \in known : Callee(i) \in Nat

\* f keeps to the incidents, and r is i's own or that of an affected callee.
StaysIn(f, i, visiting, known, calls) ==
    \A d \in AffectedCallees(i, known, calls) : f[<<d, visiting \cup {i}>>] \in known

LeadsTo(f, i, visiting, known, calls, r) ==
    /\ r \in known
    /\ ~IsService(i) \/ i \in visiting \/ AffectedCallees(i, known, calls) = {} => r = i
    /\ IsService(i) /\ i \notin visiting /\ AffectedCallees(i, known, calls) # {}
         => \E d \in AffectedCallees(i, known, calls) : r = f[<<d, visiting \cup {i}>>]

\* The step leads to one of the incidents its argument leads to.
LEMMA DeeperIn ==
    ASSUME NEW known, NEW calls, Walkable(known),
           NEW i \in known, NEW visiting \in SUBSET known, NEW f,
           StaysIn(f, i, visiting, known, calls)
    PROVE  LeadsTo(f, i, visiting, known, calls, Deeper(i, visiting, known, calls, f))
<1> DEFINE C == {f[<<d, visiting \cup {i}>>] : d \in AffectedCallees(i, known, calls)}
           r == Deeper(i, visiting, known, calls, f)
<1>1. C \subseteq known /\ \A c \in known : Callee(c) \in Nat
  BY DEF Walkable, StaysIn
<1>2. C = {} <=> AffectedCallees(i, known, calls) = {}
  OBVIOUS
<1>3. r = IF ~IsService(i) \/ i \in visiting \/ C = {} THEN i
          ELSE CHOOSE c \in C : \A e \in C : Callee(c) <= Callee(e)
  BY DEF Deeper
<1> HIDE DEF r
<1>4. CASE ~IsService(i) \/ i \in visiting \/ C = {}
  <2>1. r = i
    BY <1>3, <1>4
  <2> QED
    BY <2>1, <1>2, <1>4 DEF r, LeadsTo
<1>5. CASE ~(~IsService(i) \/ i \in visiting \/ C = {})
  <2>1. r \in C
    <3> HIDE DEF C
    <3>1. \A c \in C : Callee(c) \in Nat
      BY <1>1
    <3>2. r = CHOOSE c \in C : \A e \in C : Callee(c) <= Callee(e)
      BY <1>3, <1>5
    <3> QED
      BY <3>1, <3>2, <1>5, SmallestCallee
  <2> QED
    BY <2>1, <1>1, <1>2, <1>5 DEF r, LeadsTo
<1> QED
  BY <1>4, <1>5

\* The walk is well defined: an incident met again ends it, so no path is
\* longer than there are incidents.
LEMMA WalkUnfolds ==
    ASSUME NEW known, NEW calls, Walkable(known), NEW at1 \in known, NEW at2 \in SUBSET known
    PROVE  Walk(known, calls)[<<at1, at2>>] = Deeper(at1, at2, known, calls, Walk(known, calls))
<1> DEFINE D == known \X SUBSET known
           Walks == [D -> known]
           Next1(f) == [at \in known \X SUBSET known |-> Deeper(at[1], at[2], known, calls, f)]
           longer == [f \in Walks |-> Next1(f)]
           trivial == [p \in D |-> p[1]]
<1>1. \A f \in Walks : Next1(f) \in Walks
  <2> TAKE f \in Walks
  <2>1. ASSUME NEW i \in known, NEW visiting \in SUBSET known
        PROVE  Deeper(i, visiting, known, calls, f) \in known
    <3>1. \A d \in AffectedCallees(i, known, calls) : f[<<d, visiting \cup {i}>>] \in known
      <4> TAKE d \in AffectedCallees(i, known, calls)
      <4>1. <<d, visiting \cup {i}>> \in D
        BY DEF AffectedCallees
      <4> QED
        BY <4>1
    <3>2. StaysIn(f, i, visiting, known, calls)
      BY <3>1 DEF StaysIn
    <3>3. LeadsTo(f, i, visiting, known, calls, Deeper(i, visiting, known, calls, f))
      BY <3>2, DeeperIn
    <3> QED
      BY <3>3 DEF LeadsTo
  <2> QED
    BY <2>1
<1>2. longer \in [Walks -> Walks] /\ trivial \in Walks
  BY <1>1
<1>3. PICK h : Iterates(h, Walks, longer, trivial)
  <2> HIDE DEF Walks, longer, trivial
  <2> QED
    BY <1>2, Iteration
<1>4. \A n \in Nat : h[n] \in Walks /\ h[n + 1] = Next1(h[n])
  BY <1>3 DEF Iterates
<1> DEFINE Settled == {n \in Nat : \A i \in known : \A v \in SUBSET known :
                 Cardinality(known) < Cardinality(v) + n => h[n + 1][<<i, v>>] = h[n][<<i, v>>]}
<1> HIDE DEF longer, trivial
<1>5. /\ Cardinality(known) \in Nat
      /\ \A v \in SUBSET known : Cardinality(v) \in Nat /\ Cardinality(v) <= Cardinality(known)
  BY FS_CardinalityType, FS_Subset DEF Walkable
<1>6. 0 \in Settled
  BY <1>5
<1>7. ASSUME NEW n \in Nat, n \in Settled
      PROVE  n + 1 \in Settled
  <2> SUFFICES ASSUME NEW i \in known, NEW v \in SUBSET known,
                      Cardinality(known) < Cardinality(v) + (n + 1)
               PROVE  h[(n + 1) + 1][<<i, v>>] = h[n + 1][<<i, v>>]
    OBVIOUS
  <2>1. h[(n + 1) + 1][<<i, v>>] = Deeper(i, v, known, calls, h[n + 1])
    <3> DEFINE m == n + 1
    <3>1. m \in Nat
      OBVIOUS
    <3> HIDE DEF m
    <3>2. h[m + 1] = Next1(h[m])
      BY <3>1, <1>4
    <3>3. h[m + 1][<<i, v>>] = Deeper(i, v, known, calls, h[m])
      BY <3>2
    <3> QED
      BY <3>3 DEF m
  <2>2. h[n + 1][<<i, v>>] = Deeper(i, v, known, calls, h[n])
    BY <1>4
  <2>3. CASE i \in v
    BY <2>1, <2>2, <2>3 DEF Deeper
  <2>4. CASE i \notin v
    <3>1. Cardinality(v \cup {i}) = Cardinality(v) + 1 /\ v \cup {i} \in SUBSET known
      BY <2>4, FS_AddElement, FS_Subset DEF Walkable
    <3>2. Cardinality(known) < Cardinality(v \cup {i}) + n
      BY <3>1, <1>5
    <3>3. \A d \in known : h[n + 1][<<d, v \cup {i}>>] = h[n][<<d, v \cup {i}>>]
      BY <1>7, <3>1, <3>2
    <3>4. \A d \in AffectedCallees(i, known, calls) : d \in known
      BY DEF AffectedCallees
    <3>5. {h[n + 1][<<d, v \cup {i}>>] : d \in AffectedCallees(i, known, calls)}
            = {h[n][<<d, v \cup {i}>>] : d \in AffectedCallees(i, known, calls)}
      BY <3>3, <3>4
    <3> QED
      BY <2>1, <2>2, <3>5 DEF Deeper
  <2> QED
    BY <2>3, <2>4
<1>8. Nat \subseteq Settled
  <2> HIDE DEF Settled
  <2> QED
    BY <1>6, <1>7, SetInduction
<1> DEFINE N == Cardinality(known) + 1
           f == h[N]
<1>9. N \in Nat /\ \A v \in SUBSET known : Cardinality(known) < Cardinality(v) + N
  BY <1>5
<1> HIDE DEF N
<1>10. \A i \in known : \A v \in SUBSET known : h[N + 1][<<i, v>>] = h[N][<<i, v>>]
  BY <1>8, <1>9
<1>11. h[N] \in Walks /\ h[N + 1] \in Walks /\ h[N + 1] = Next1(h[N])
  <2>1. N \in Nat /\ N + 1 \in Nat
    BY <1>9
  <2> HIDE DEF Walks, Next1
  <2> QED
    BY <2>1, <1>4
<1>12. \A p \in D : h[N + 1][p] = h[N][p]
  <2> TAKE p \in D
  <2>1. p = <<p[1], p[2]>> /\ p[1] \in known /\ p[2] \in SUBSET known
    OBVIOUS
  <2>2. h[N + 1][<<p[1], p[2]>>] = h[N][<<p[1], p[2]>>]
    BY <2>1, <1>10
  <2> QED
    BY <2>1, <2>2
<1>13. h[N + 1] = h[N]
  BY <1>11, <1>12
<1>14. f = [at \in known \X SUBSET known |-> Deeper(at[1], at[2], known, calls, f)]
  BY <1>11, <1>13
<1> HIDE DEF f
<1>15. \E g : g = [at \in known \X SUBSET known |-> Deeper(at[1], at[2], known, calls, g)]
  BY <1>14
<1> DEFINE w == Walk(known, calls)
<1>16. w = [at \in known \X SUBSET known |-> Deeper(at[1], at[2], known, calls, w)]
  BY <1>15 DEF Walk
<1> HIDE DEF w
<1>17. w[<<at1, at2>>] = Deeper(at1, at2, known, calls, w)
  BY <1>16
<1> QED
  BY <1>17 DEF w

\* The walk at one place: it stays where it is, or goes on at a callee.
LEMMA WalkStep ==
    ASSUME NEW known, NEW calls, Walkable(known),
           NEW i \in known, NEW visiting \in SUBSET known,
           StaysIn(Walk(known, calls), i, visiting, known, calls)
    PROVE  LeadsTo(Walk(known, calls), i, visiting, known, calls,
                   Walk(known, calls)[<<i, visiting>>])
BY WalkUnfolds, DeeperIn

\* Whatever the call graph, the walk from a service's incident ends at one of
\* a service with the same trouble; from a call's it does not set out.
LEMMA WalkStaysInKind ==
    ASSUME NEW known, NEW calls, Walkable(known),
           NEW i \in known, NEW visiting \in SUBSET known
    PROVE  LET r == Walk(known, calls)[<<i, visiting>>]
           IN /\ r \in known
              /\ IsService(i) => IsService(r) /\ r.key.detector = i.key.detector
              /\ ~IsService(i) => r = i
<1> DEFINE w == Walk(known, calls)
           Good(j, r) == /\ r \in known
                         /\ IsService(j) => IsService(r) /\ r.key.detector = j.key.detector
                         /\ ~IsService(j) => r = j
           Short == {n \in Nat : \A j \in known : \A v \in SUBSET known :
                        Cardinality(known) < Cardinality(v) + n => Good(j, w[<<j, v>>])}
<1>1. /\ Cardinality(known) \in Nat
      /\ \A v \in SUBSET known : Cardinality(v) \in Nat /\ Cardinality(v) <= Cardinality(known)
  BY FS_CardinalityType, FS_Subset DEF Walkable
<1>2. 0 \in Short
  BY <1>1
<1>3. ASSUME NEW n \in Nat, n \in Short
      PROVE  n + 1 \in Short
  <2> SUFFICES ASSUME NEW j \in known, NEW v \in SUBSET known,
                      Cardinality(known) < Cardinality(v) + (n + 1)
               PROVE  Good(j, w[<<j, v>>])
    OBVIOUS
  <2> HIDE DEF Good, w
  <2>1. CASE j \in v \/ ~IsService(j)
    <3>1. w[<<j, v>>] = j
      <4>2. w[<<j, v>>] = Deeper(j, v, known, calls, w)
        BY WalkUnfolds DEF w
      <4> QED
        BY <4>2, <2>1 DEF Deeper
    <3> QED
      BY <3>1 DEF Good
  <2>2. CASE j \notin v /\ IsService(j)
    <3>1. Cardinality(v \cup {j}) = Cardinality(v) + 1 /\ v \cup {j} \in SUBSET known
      BY <2>2, FS_AddElement, FS_Subset DEF Walkable
    <3>2. Cardinality(known) < Cardinality(v \cup {j}) + n
      BY <3>1, <1>1
    <3>3. \A d \in AffectedCallees(j, known, calls) :
             /\ d \in known /\ IsService(d) /\ d.key.detector = j.key.detector
             /\ Good(d, w[<<d, v \cup {j}>>])
      BY <1>3, <3>1, <3>2 DEF AffectedCallees
    <3>4. \A d \in AffectedCallees(j, known, calls) : w[<<d, v \cup {j}>>] \in known
      BY <3>3 DEF Good
    <3>5. /\ AffectedCallees(j, known, calls) = {} => w[<<j, v>>] = j
          /\ AffectedCallees(j, known, calls) # {}
                => \E d \in AffectedCallees(j, known, calls) :
                      w[<<j, v>>] = w[<<d, v \cup {j}>>]
      <4>1. StaysIn(w, j, v, known, calls)
        BY <3>4 DEF StaysIn
      <4>2. LeadsTo(w, j, v, known, calls, w[<<j, v>>])
        BY <4>1, WalkStep DEF w
      <4> QED
        BY <4>2, <2>2 DEF LeadsTo
    <3>6. CASE AffectedCallees(j, known, calls) = {}
      BY <3>5, <3>6 DEF Good
    <3>7. CASE AffectedCallees(j, known, calls) # {}
      BY <3>3, <3>5, <3>7, <2>2 DEF Good
    <3> QED
      BY <3>6, <3>7
  <2> QED
    BY <2>1, <2>2
<1>4. Nat \subseteq Short
  <2> HIDE DEF Short
  <2> QED
    BY <1>2, <1>3, SetInduction
<1>5. Cardinality(known) + 1 \in Nat /\ Cardinality(known) < Cardinality(visiting) + (Cardinality(known) + 1)
  BY <1>1
<1>6. Good(i, w[<<i, visiting>>])
  <2> HIDE DEF Good, w
  <2> QED
    BY <1>4, <1>5
<1> QED
  BY <1>6

\* In a call graph without cycles calls lead down.
CallsLeadDown(rank, calls) ==
    /\ rank \in [Services -> Nat]
    /\ \A c \in calls : rank[c[2]] < rank[c[1]]

\* There the walk ends where nothing downstream is affected, and it sets out
\* as soon as something is.
LEMMA WalkEndsDeepest ==
    ASSUME NEW known, NEW calls, Walkable(known), calls \subseteq Services \X Services,
           \A i \in known : Callee(i) \in Services,
           NEW rank, CallsLeadDown(rank, calls),
           NEW i \in known, IsService(i)
    PROVE  LET r == Walk(known, calls)[<<i, {}>>]
           IN /\ AffectedCallees(r, known, calls) = {}
              /\ AffectedCallees(i, known, calls) # {} => r # i
<1> DEFINE w == Walk(known, calls)
           High(j) == rank[Callee(j)]
           Affected(j) == AffectedCallees(j, known, calls)
           Good(j, r) == /\ Affected(r) = {} /\ High(r) <= High(j)
                         /\ Affected(j) # {} => r # j
           Low == {n \in Nat : \A j \in known : \A v \in SUBSET known :
                      IsService(j) /\ High(j) < n /\ (\A x \in v : High(j) < High(x))
                        => Good(j, w[<<j, v>>])}
<1>1. \A j \in known : Callee(j) \in Nat /\ High(j) \in Nat
  BY IncidentsAssumption DEF CallsLeadDown
<1>2. 0 \in Low
  BY <1>1
<1>3. ASSUME NEW n \in Nat, n \in Low
      PROVE  n + 1 \in Low
  <2> SUFFICES ASSUME NEW j \in known, NEW v \in SUBSET known, IsService(j),
                      High(j) < n + 1, \A x \in v : High(j) < High(x)
               PROVE  Good(j, w[<<j, v>>])
    OBVIOUS
  <2>1. j \notin v
    BY <1>1
  <2>2. \A d \in Affected(j) : /\ d \in known /\ IsService(d) /\ <<Callee(j), Callee(d)>> \in calls
    BY DEF AffectedCallees
  <2>3. \A d \in Affected(j) : High(d) < High(j)
    <3> TAKE d \in Affected(j)
    <3>1. <<Callee(j), Callee(d)>> \in calls
      BY <2>2
    <3> QED
      BY <3>1 DEF CallsLeadDown
  <2> HIDE DEF w, High, Affected
  <2>4. \A d \in Affected(j) : w[<<d, v \cup {j}>>] \in known /\ Good(d, w[<<d, v \cup {j}>>])
    <3> TAKE d \in Affected(j)
    <3>1. d \in known /\ IsService(d) /\ v \cup {j} \in SUBSET known
      BY <2>2
    <3>2. High(d) < n
      BY <3>1, <2>3, <1>1
    <3>3. \A x \in v \cup {j} : High(d) < High(x)
      BY <3>1, <2>3, <1>1
    <3>4. w[<<d, v \cup {j}>>] \in known
      BY <3>1, <1>1, WalkStaysInKind DEF w
    <3> HIDE DEF Good
    <3> QED
      BY <3>1, <3>2, <3>3, <3>4, <1>3
  <2>5. /\ w[<<j, v>>] \in known
        /\ Affected(j) = {} => w[<<j, v>>] = j
        /\ Affected(j) # {} => \E d \in Affected(j) : w[<<j, v>>] = w[<<d, v \cup {j}>>]
    <3>1. StaysIn(w, j, v, known, calls)
      BY <2>4 DEF StaysIn, Affected
    <3>2. Walkable(known)
      BY <1>1 DEF Walkable
    <3>3. LeadsTo(w, j, v, known, calls, w[<<j, v>>])
      BY <3>1, <3>2, WalkStep DEF w
    <3> QED
      BY <3>3, <2>1 DEF LeadsTo, Affected
  <2>6. CASE Affected(j) = {}
    BY <2>5, <2>6, <1>1
  <2>7. CASE Affected(j) # {}
    <3>1. PICK d \in Affected(j) : w[<<j, v>>] = w[<<d, v \cup {j}>>]
      BY <2>5, <2>7
    <3>2. Good(d, w[<<j, v>>])
      BY <3>1, <2>4
    <3>3. High(w[<<j, v>>]) <= High(d) /\ High(d) < High(j)
      BY <3>2, <2>3
    <3>4. High(w[<<j, v>>]) \in Nat /\ High(d) \in Nat /\ High(j) \in Nat
      BY <2>5, <2>2, <1>1
    <3>5. High(w[<<j, v>>]) < High(j)
      BY <3>3, <3>4
    <3> QED
      BY <3>2, <3>4, <3>5
  <2> QED
    BY <2>6, <2>7
<1>4. Nat \subseteq Low
  <2> HIDE DEF Low
  <2> QED
    BY <1>2, <1>3, SetInduction
<1>5. High(i) + 1 \in Nat /\ High(i) < High(i) + 1
  BY <1>1
<1>6. Good(i, w[<<i, {}>>])
  <2> HIDE DEF Good, w, High
  <2> QED
    BY <1>4, <1>5
<1> QED
  BY <1>6

-----------------------------------------------------------------------------
(* the marking of a batch *)

\* The incident that i is blamed on, i itself if none, and i as it is written.
BlameOf(i, known, calls) == RootFor(i, known, ResolveRoot(known, calls))

Marked(i, known, calls) ==
    IF i \in known /\ BlameOf(i, known, calls) # i
    THEN [i EXCEPT !.root = IncidentId(BlameOf(i, known, calls))] ELSE i

\* Suppression marks each incident of the batch with the root its walk ends at.
LEMMA SuppressIsMarking ==
    ASSUME NEW found, NEW calls
    PROVE  SuppressPropagated(found, calls) = {Marked(i, ByTarget(found), calls) : i \in found}
BY DEF SuppressPropagated, Marked, BlameOf

\* Callees of incidents are services, so their labels are numbers.
LEMMA GroupedCallee ==
    ASSUME NEW found \in SUBSET Firing, NEW i \in GroupDetections(found)
    PROVE  Callee(i) \in Services /\ Callee(i) \in Nat
<1>1. i.key \in Watched
  BY Grouped1
<1>2. PICK d \in Firing : i.key = d.key
  BY <1>1 DEF Watched
<1>3. i.key.target \in Target
  BY <1>2, IncidentsAssumption
<1>4. i.key.target.callee \in Services
  <2>1. CASE \E s \in Services : i.key.target = Service(s)
    BY <2>1 DEF Service
  <2>2. CASE \E c \in Calls : i.key.target = Edge(c)
    BY <2>2, IncidentsAssumption DEF Edge
  <2> QED
    BY <1>3, <2>1, <2>2 DEF Target
<1> QED
  BY <1>4, IncidentsAssumption DEF Callee

\* What was grouped may be walked: its targets and members are finite.
LEMMA KnownWalkable ==
    ASSUME NEW found \in SUBSET Firing
    PROVE  Walkable(ByTarget(GroupDetections(found)))
<1>1. ByTarget(GroupDetections(found)) \subseteq GroupDetections(found)
  BY DEF ByTarget
<1>2. IsFiniteSet(ByTarget(GroupDetections(found)))
  BY <1>1, GroupingFinite, FS_Subset
<1> QED
  BY <1>1, <1>2, GroupedCallee DEF Walkable

\* Who is blamed is among the latest of their keys, and if it is another one
\* it is a service's with the same kind of trouble.
LEMMA BlameInKind ==
    ASSUME NEW known, NEW calls, Walkable(known), NEW i \in known
    PROVE  /\ BlameOf(i, known, calls) \in known
           /\ BlameOf(i, known, calls) # i =>
                /\ IsService(BlameOf(i, known, calls))
                /\ BlameOf(i, known, calls).key.detector = i.key.detector
<1> DEFINE root == ResolveRoot(known, calls)
           b == BlameOf(i, known, calls)
<1>0. b = RootFor(i, known, root)
  BY DEF BlameOf
<1>1. \A j \in known : root[j] = Walk(known, calls)[<<j, {}>>]
  BY ResolveIsWalk
<1> HIDE DEF b, root
<1>2. CASE IsService(i)
  <2>1. b = Walk(known, calls)[<<i, {}>>]
    BY <1>0, <1>1, <1>2 DEF RootFor
  <2>2. b \in known /\ IsService(b) /\ b.key.detector = i.key.detector
    BY <2>1, <1>2, WalkStaysInKind
  <2> QED
    BY <2>2 DEF b
<1>3. CASE ~IsService(i) /\ CalleeIncident(i, known) = {}
  <2>1. b = i
    BY <1>0, <1>3 DEF RootFor
  <2> QED
    BY <2>1 DEF b
<1>4. CASE ~IsService(i) /\ CalleeIncident(i, known) # {}
  <2> DEFINE d == CHOOSE d \in CalleeIncident(i, known) : TRUE
  <2>1. d \in CalleeIncident(i, known)
    BY <1>4
  <2> HIDE DEF d
  <2>2. d \in known /\ d.key = Key(Service(Callee(i)), i.key.detector)
    BY <2>1 DEF CalleeIncident
  <2>3. IsService(d) /\ d.key.detector = i.key.detector
    BY <2>2 DEF IsService, Key, Service
  <2>4. b = root[d]
    BY <1>0, <1>4 DEF RootFor, d
  <2>5. b = Walk(known, calls)[<<d, {}>>]
    BY <2>4, <2>2, <1>1
  <2>6. b \in known /\ IsService(b) /\ b.key.detector = d.key.detector
    BY <2>2, <2>3, <2>5, WalkStaysInKind
  <2> QED
    BY <2>3, <2>6 DEF b
<1> QED
  BY <1>2, <1>3, <1>4

\* Marking touches nothing but the root.
LEMMA MarkedRow ==
    ASSUME NEW found \in SUBSET Firing, NEW calls, NEW i \in GroupDetections(found)
    PROVE  LET known == ByTarget(GroupDetections(found))
               b == BlameOf(i, known, calls)
               m == Marked(i, known, calls)
           IN /\ m.key = i.key /\ m.start = i.start /\ m.end = i.end /\ m.peak = i.peak
              /\ Derived(m) <=> i \in known /\ b # i
              /\ Derived(m) => m.root = IncidentId(b)
              /\ ~Derived(m) => m = i /\ m.root = NoRoot
              /\ m \in IncidentRow
<1> DEFINE known == ByTarget(GroupDetections(found))
           b == BlameOf(i, known, calls)
           m == Marked(i, known, calls)
<1>1. i = [key |-> i.key, start |-> i.start, end |-> i.end, peak |-> i.peak, root |-> NoRoot]
  <2>1. i = BuildIncident(found, i.key, i.start, i.end)
    BY Grouped1
  <2> QED
    BY <2>1 DEF BuildIncident
<1>2. i.key \in Watched /\ i.start \in 0..MaxWindow /\ i.end \in 0..MaxWindow /\ i.peak \in {1, 2}
  BY Grouped1, Grouped2
<1>3. m = IF i \in known /\ b # i THEN [i EXCEPT !.root = IncidentId(b)] ELSE i
  BY DEF Marked
<1>4. i \in known => IncidentId(b) \in Ids
  <2> SUFFICES ASSUME i \in known PROVE IncidentId(b) \in Ids
    OBVIOUS
  <2>1. b \in GroupDetections(found)
    BY KnownWalkable, BlameInKind DEF ByTarget
  <2>2. b.key \in Watched /\ b.start \in 0..MaxWindow
    BY <2>1, Grouped1
  <2> QED
    BY <2>2 DEF IncidentId, Ids
<1>5. IncidentId(b) # NoRoot
  BY DEF IncidentId, NoRoot
<1> HIDE DEF m, b, known
<1>6. CASE i \in known /\ b # i
  <2>1. m = [key |-> i.key, start |-> i.start, end |-> i.end, peak |-> i.peak,
             root |-> IncidentId(b)]
    BY <1>1, <1>3, <1>6
  <2>2. m \in IncidentRow
    BY <2>1, <1>2, <1>4, <1>6 DEF IncidentRow
  <2> QED
    BY <2>1, <2>2, <1>5, <1>6 DEF Derived, m, b, known
<1>7. CASE ~(i \in known /\ b # i)
  <2>1. m = i /\ m.root = NoRoot
    BY <1>1, <1>3, <1>7
  <2>2. m \in IncidentRow
    BY <2>1, <1>1, <1>2 DEF IncidentRow
  <2> QED
    BY <2>1, <2>2, <1>7 DEF Derived, m, b, known
<1> QED
  BY <1>6, <1>7

\* No two of a batch have one id, and of a key only one is the latest.
LEMMA IdsApart ==
    ASSUME NEW found \in SUBSET Firing,
           NEW i \in GroupDetections(found), NEW j \in GroupDetections(found)
    PROVE  /\ IncidentId(i) = IncidentId(j) => i = j
           /\ i \in ByTarget(GroupDetections(found)) /\ j \in ByTarget(GroupDetections(found))
                /\ i.key = j.key => i = j
<1>0. /\ i.start \in Nat /\ i.end \in Nat /\ i.start <= i.end
      /\ j.start \in Nat /\ j.end \in Nat /\ j.start <= j.end
  BY Grouped1, IncidentsAssumption
<1>1. ASSUME i.key = j.key, i.start = j.start PROVE i = j
  <2>1. Overlaps(i, j)
    BY <1>0, <1>1 DEF Overlaps
  <2> QED
    BY <2>1, <1>1, RunsApart
<1>2. IncidentId(i) = IncidentId(j) => i.key = j.key /\ i.start = j.start
  BY DEF IncidentId
<1>3. i \in ByTarget(GroupDetections(found)) /\ j \in ByTarget(GroupDetections(found))
        /\ i.key = j.key => i.start = j.start
  BY <1>0 DEF ByTarget
<1> QED
  BY <1>1, <1>2, <1>3

\* A batch consists of the incidents just grouped, with their roots.
SameRow(m, i) == m.key = i.key /\ m.start = i.start /\ m.end = i.end /\ m.peak = i.peak

\* The rows written are the incidents grouped, marked, and nothing else.
LEMMA BatchRows ==
    ASSUME NEW found \in SUBSET Firing, NEW calls
    PROVE  LET grouped == GroupDetections(found)
               written == SuppressPropagated(grouped, calls)
           IN /\ written \subseteq IncidentRow
              /\ \A m \in written : \E i \in grouped :
                    m = Marked(i, ByTarget(grouped), calls) /\ SameRow(m, i)
              /\ \A i \in grouped :
                    /\ Marked(i, ByTarget(grouped), calls) \in written
                    /\ SameRow(Marked(i, ByTarget(grouped), calls), i)
<1> DEFINE grouped == GroupDetections(found)
           written == SuppressPropagated(grouped, calls)
<1>1. written = {Marked(i, ByTarget(grouped), calls) : i \in grouped}
  BY SuppressIsMarking
<1>2. \A i \in grouped : /\ SameRow(Marked(i, ByTarget(grouped), calls), i)
                         /\ Marked(i, ByTarget(grouped), calls) \in IncidentRow
  BY MarkedRow DEF SameRow
<1> HIDE DEF written, grouped
<1> QED
  BY <1>1, <1>2 DEF written, grouped

\* One batch never writes two rows under the same id.
LEMMA BatchIdsUnique ==
    ASSUME NEW found \in SUBSET Firing, NEW calls,
           NEW m \in SuppressPropagated(GroupDetections(found), calls),
           NEW n \in SuppressPropagated(GroupDetections(found), calls),
           IncidentId(m) = IncidentId(n)
    PROVE  m = n
<1> DEFINE grouped == GroupDetections(found)
<1>1. PICK i \in grouped : m = Marked(i, ByTarget(grouped), calls) /\ SameRow(m, i)
  BY BatchRows
<1>2. PICK j \in grouped : n = Marked(j, ByTarget(grouped), calls) /\ SameRow(n, j)
  BY BatchRows
<1>3. IncidentId(i) = IncidentId(j)
  BY <1>1, <1>2 DEF SameRow, IncidentId
<1>4. i = j
  BY <1>3, IdsApart
<1> QED
  BY <1>1, <1>2, <1>4

\* What a derived row of a batch is blamed on is a row of the batch.
LEMMA BatchRoots ==
    ASSUME NEW found \in SUBSET Firing, NEW calls,
           NEW m \in SuppressPropagated(GroupDetections(found), calls), Derived(m)
    PROVE  LET grouped == GroupDetections(found)
               known == ByTarget(grouped)
           IN \E i \in known : \E b \in known :
                /\ SameRow(m, i) /\ b # i
                /\ b = BlameOf(i, known, calls)
                /\ IsService(b) /\ b.key.detector = m.key.detector
                /\ m.root = IncidentId(b)
                /\ m.root = IncidentId(Marked(b, known, calls))
                /\ Marked(b, known, calls) \in SuppressPropagated(grouped, calls)
<1> DEFINE grouped == GroupDetections(found)
           known == ByTarget(grouped)
<1>1. PICK i \in grouped : m = Marked(i, known, calls) /\ SameRow(m, i)
  BY BatchRows
<1> DEFINE b == BlameOf(i, known, calls)
<1>2. i \in known /\ b # i /\ m.root = IncidentId(b)
  BY <1>1, MarkedRow
<1>3. Walkable(known)
  BY KnownWalkable
<1>4. b \in known /\ IsService(b) /\ b.key.detector = i.key.detector
  <2> HIDE DEF known
  <2> QED
    BY <1>2, <1>3, BlameInKind
<1>5. b \in grouped
  BY <1>4 DEF ByTarget
<1>6. Marked(b, known, calls) \in SuppressPropagated(grouped, calls) /\ SameRow(Marked(b, known, calls), b)
  <2> HIDE DEF b
  <2> QED
    BY <1>5, BatchRows
<1>7. IncidentId(Marked(b, known, calls)) = IncidentId(b)
  BY <1>6 DEF SameRow, IncidentId
<1>8. b.key.detector = m.key.detector
  BY <1>1, <1>4 DEF SameRow
<1> HIDE DEF b, known, grouped
<1>9. /\ SameRow(m, i) /\ b # i
      /\ b = BlameOf(i, known, calls)
      /\ IsService(b) /\ b.key.detector = m.key.detector
      /\ m.root = IncidentId(b)
      /\ m.root = IncidentId(Marked(b, known, calls))
      /\ Marked(b, known, calls) \in SuppressPropagated(grouped, calls)
  BY <1>1, <1>2, <1>4, <1>6, <1>7, <1>8 DEF b
<1> QED
  BY <1>2, <1>4, <1>9 DEF known, grouped

-----------------------------------------------------------------------------
(* the invariant *)

\* The initial state satisfies it.
LEMMA InitInv == Init => IInv
BY IncidentsAssumption
   DEF Init, IInv, TypeOK, DetectionsAreInIncidents, Timely, RowsBacked,
       IdsUnique, RootsKnown, BatchIsGrouping

\* What Recent reads are detections of this window or earlier ones.
LEMMA RecentIn ==
    ASSUME IInv
    PROVE  /\ Recent \in SUBSET Firing /\ Recent \subseteq detections
           /\ window \in Nat /\ Lookback \in Nat /\ MaxWindow \in Nat
           /\ \A d \in detections : d.window \in Nat /\ d.window <= window
           /\ \A d \in detections : d \in Recent <=> window <= d.window + Lookback
<1>1. window \in Nat /\ Lookback \in Nat /\ MaxWindow \in Nat /\ detections \subseteq Firing
  BY IncidentsAssumption DEF IInv, TypeOK
<1>2. \A d \in detections : d.window \in Nat
  BY <1>1, IncidentsAssumption
<1>3. \A d \in detections : d.window <= window
  BY <1>1, <1>2 DEF IInv, Timely
<1> QED
  BY <1>1, <1>2, <1>3 DEF Recent

\* A row that is written again covers what its old version covered.
LEMMA RowsGrow ==
    ASSUME IInv, NEW i \in incidents,
           NEW m \in SuppressPropagated(GroupDetections(Recent), edges),
           IncidentId(m) = IncidentId(i)
    PROVE  m.key = i.key /\ m.start = i.start /\ i.end <= m.end /\ i.peak <= m.peak
<1>1. PICK j \in GroupDetections(Recent) : SameRow(m, j)
  BY RecentIn, BatchRows
<1>2. j.key = i.key /\ j.start = i.start /\ m.key = i.key /\ m.start = i.start
  BY <1>1 DEF SameRow, IncidentId
<1>3. /\ i.start \in Nat /\ i.end \in Nat /\ i.start <= i.end
      /\ j.start \in Nat /\ j.end \in Nat /\ j.start <= j.end
  <2>1. j.start \in Nat /\ j.end \in Nat /\ j.start <= j.end
    BY Grouped1, RecentIn
  <2>2. i \in IncidentRow
    BY DEF IInv, TypeOK
  <2> QED
    BY <2>1, <2>2, RecentIn DEF IncidentRow, IInv, RowsBacked
<1>4. PICK e \in Recent : e.window = j.start
  BY <1>3, RecentIn, Grouped2
<1>5. \A d \in detections : i.start <= d.window => d \in Recent
  BY <1>2, <1>3, <1>4, RecentIn
<1>6. i.end <= j.end
  <2> SUFFICES ASSUME ~(i.end <= j.end) PROVE FALSE
    OBVIOUS
  <2>1. j.end + 1 \in i.start..i.end
    BY <1>2, <1>3
  <2>2. PICK d \in detections : d.key = i.key /\ d.window = j.end + 1
    BY <2>1 DEF IInv, RowsBacked
  <2>3. d \in Recent
    BY <2>2, <1>2, <1>3, <1>5
  <2>4. j.end + 1 \in WindowsOf(Recent, j.key)
    BY <2>2, <2>3, <1>2 DEF WindowsOf
  <2>5. IsRun(Recent, j.key, j.start, j.end)
    BY RecentIn, Grouped1
  <2> QED
    BY <2>4, <2>5 DEF IsRun
<1>7. i.peak <= j.peak
  <2>1. PICK d \in detections : Covers(i, d) /\ d.severity = i.peak
    BY DEF IInv, RowsBacked
  <2>2. d \in Recent /\ Covers(j, d)
    BY <2>1, <1>2, <1>3, <1>5, <1>6 DEF Covers
  <2> QED
    BY <2>1, <2>2, RecentIn, Grouped2
<1> QED
  BY <1>1, <1>2, <1>6, <1>7 DEF SameRow

\* So nothing is taken back from the table.
Grown(i, j) == IncidentId(j) = IncidentId(i) /\ i.end <= j.end /\ i.peak <= j.peak

\* Every row of the table has one in the next table that covers it.
LEMMA TableGrows ==
    ASSUME IInv, [Next]_vars
    PROVE  \A i \in incidents : \E j \in incidents' : Grown(i, j)
<1> TAKE i \in incidents
<1>1. Grown(i, i)
  <2>1. i \in IncidentRow
    BY DEF IInv, TypeOK
  <2>2. i.end \in Nat /\ i.peak \in Nat
    BY <2>1, RecentIn DEF IncidentRow
  <2> QED
    BY <2>2 DEF Grown
<1>2. CASE ~RunSuppression
  <2>1. incidents' = incidents
    BY <1>2 DEF Next, Detect, Crash, vars
  <2> QED
    BY <1>1, <2>1
<1>3. CASE RunSuppression
  <2> DEFINE written == SuppressPropagated(GroupDetections(Recent), edges)
  <2>1. incidents' = {r \in incidents : IncidentId(r) \notin {IncidentId(m) : m \in written}} \cup written
    BY <1>3 DEF RunSuppression, WriteDetectedIncidents
  <2>2. CASE \E m \in written : IncidentId(m) = IncidentId(i)
    <3>1. PICK m \in written : IncidentId(m) = IncidentId(i)
      BY <2>2
    <3>2. Grown(i, m)
      BY <3>1, RowsGrow DEF Grown
    <3> QED
      BY <2>1, <3>2
  <2>3. CASE ~\E m \in written : IncidentId(m) = IncidentId(i)
    <3> HIDE DEF written
    <3>1. i \in incidents'
      BY <2>1, <2>3
    <3> QED
      BY <1>1, <3>1
  <2> QED
    BY <2>2, <2>3
<1> QED
  BY <1>2, <1>3

\* A step of the detectors preserves the invariant.
LEMMA DetectStep ==
    ASSUME IInv, Detect
    PROVE  IInv'
<1>1. /\ pc = "detect" /\ pc' = "group" /\ window <= MaxWindow
      /\ UNCHANGED <<window, incidents, batch, suppressed, groupedAt, crashes>>
      /\ detections' = detections \cup fresh'
      /\ \A d \in fresh' : d \in Firing /\ d.window = window
  BY DEF Detect
<1>2. TypeOK'
  <2>1. edges' \subseteq Calls
    BY DEF Detect, IInv, TypeOK
  <2> QED
    BY <1>1, <2>1 DEF IInv, TypeOK
<1>3. DetectionsAreInIncidents'
  <2> SUFFICES ASSUME NEW d \in detections', NEW w \in groupedAt,
                      d.window <= w, w <= d.window + Lookback
               PROVE  \E i \in incidents : Covers(i, d)
    BY <1>1 DEF DetectionsAreInIncidents, Covers
  <2>1. w \in Nat /\ w < window /\ window \in Nat
    BY RecentIn DEF IInv, TypeOK, Timely
  <2>2. d \in detections
    BY <1>1, <2>1
  <2> QED
    BY <2>2 DEF IInv, DetectionsAreInIncidents
<1>4. Timely'
  <2>1. \A d \in detections' : d.window < window \/ d.window = window
    BY <1>1, <1>1 DEF IInv, Timely
  <2>2. \A d \in fresh' : d.window + 0 = window
    BY <1>1, RecentIn
  <2> QED
    BY <1>1, <2>1, <2>2 DEF IInv, Timely
<1>5. RowsBacked'
  BY <1>1 DEF IInv, RowsBacked, Covers
<1>6. IdsUnique' /\ RootsKnown'
  BY <1>1 DEF IInv, IdsUnique, RootsKnown, IncidentId, Derived
<1>7. BatchIsGrouping'
  BY <1>1 DEF BatchIsGrouping
<1> QED
  BY <1>2, <1>3, <1>4, <1>5, <1>6, <1>7 DEF IInv

\* A crash preserves it.
LEMMA CrashStep ==
    ASSUME IInv, Crash
    PROVE  IInv'
<1>1. /\ pc' = "detect" /\ window' \in window + 1 .. MaxWindow + 1
      /\ fresh' = {} /\ batch' = {} /\ suppressed' = {} /\ crashes' = crashes + 1
      /\ crashes < MaxCrashes
      /\ UNCHANGED <<edges, detections, incidents, groupedAt>>
  BY DEF Crash
<1>2. window \in Nat /\ window' \in Nat /\ window < window' /\ window' <= MaxWindow + 1
  BY <1>1, RecentIn
<1>3. TypeOK'
  <2>1. window' \in 0..MaxWindow + 1
    BY <1>2, RecentIn
  <2>2. crashes' \in 0..MaxCrashes
    BY <1>1, IncidentsAssumption DEF IInv, TypeOK
  <2> QED
    BY <1>1, <2>1, <2>2 DEF IInv, TypeOK
<1>4. DetectionsAreInIncidents'
  BY <1>1 DEF IInv, DetectionsAreInIncidents, Covers
<1>5. Timely'
  <2>1. \A d \in detections : d.window < window'
    BY <1>2, RecentIn
  <2>2. \A w \in groupedAt : w < window'
    <3>1. \A w \in groupedAt : w \in Nat /\ w < window
      BY DEF IInv, TypeOK, Timely
    <3> QED
      BY <3>1, <1>2
  <2> QED
    BY <1>1, <2>1, <2>2 DEF Timely
<1>6. RowsBacked' /\ IdsUnique' /\ RootsKnown'
  BY <1>1 DEF IInv, RowsBacked, IdsUnique, RootsKnown, Covers, IncidentId, Derived
<1>7. BatchIsGrouping'
  BY <1>1 DEF BatchIsGrouping
<1> QED
  BY <1>3, <1>4, <1>5, <1>6, <1>7 DEF IInv

\* Grouping and suppression preserve it.
LEMMA SuppressionStep ==
    ASSUME IInv, RunSuppression
    PROVE  IInv'
<1> DEFINE grouped == GroupDetections(Recent)
           written == SuppressPropagated(grouped, edges)
<1>1. /\ pc = "group" /\ pc' = "detect" /\ batch' = written
      /\ incidents' = {r \in incidents : IncidentId(r) \notin {IncidentId(m) : m \in written}} \cup written
      /\ suppressed' = {d.key : d \in fresh} \cap DerivedKeys(written)
      /\ groupedAt' = groupedAt \cup {window} /\ window' = window + 1
      /\ UNCHANGED <<edges, detections, fresh, crashes>>
  BY DEF RunSuppression, WriteDetectedIncidents
<1>2. window <= MaxWindow /\ window \in Nat /\ MaxWindow \in Nat /\ Recent \in SUBSET Firing
  BY <1>1, RecentIn DEF IInv, Timely
<1>3. /\ written \subseteq IncidentRow
      /\ \A m \in written : \E i \in grouped : SameRow(m, i)
      /\ \A i \in grouped : \E m \in written : SameRow(m, i)
  BY <1>2, BatchRows
<1>4. \A i \in incidents' : i \in incidents \/ i \in written
  BY <1>1
<1>5. \A i \in incidents : \E j \in incidents' : Grown(i, j)
  BY TableGrows DEF Next
<1> HIDE DEF written, grouped
<1>6. TypeOK'
  <2>1. window' \in 0..MaxWindow + 1 /\ groupedAt' \subseteq 0..MaxWindow
    BY <1>1, <1>2 DEF IInv, TypeOK
  <2>2. suppressed' \subseteq Watched
    BY <1>1 DEF IInv, TypeOK, Watched
  <2>3. incidents' \subseteq IncidentRow /\ batch' \subseteq incidents'
    BY <1>1, <1>3 DEF IInv, TypeOK
  <2> QED
    BY <1>1, <2>1, <2>2, <2>3 DEF IInv, TypeOK
<1>7. DetectionsAreInIncidents'
  <2> SUFFICES ASSUME NEW d \in detections, NEW w \in groupedAt \cup {window},
                      d.window <= w, w <= d.window + Lookback
               PROVE  \E j \in incidents' : Covers(j, d)
    BY <1>1 DEF DetectionsAreInIncidents, Covers
  <2>1. CASE w = window
    <3>1. d \in Recent
      BY <2>1, RecentIn
    <3>2. PICK i \in grouped : Covers(i, d)
      BY <3>1, <1>2, GroupingCovers DEF grouped
    <3>3. PICK m \in written : SameRow(m, i)
      BY <1>3
    <3> QED
      BY <3>2, <3>3, <1>1 DEF SameRow, Covers
  <2>2. CASE w \in groupedAt
    <3>1. PICK i \in incidents : Covers(i, d)
      BY <2>2 DEF IInv, DetectionsAreInIncidents
    <3>2. PICK j \in incidents' : Grown(i, j)
      BY <1>5
    <3>3. j.key = i.key /\ j.start = i.start /\ i.end <= j.end
      BY <3>2 DEF Grown, IncidentId
    <3>4. i.start \in Nat /\ i.end \in Nat /\ j.end \in Nat
      BY <1>2, <1>6 DEF IInv, TypeOK, IncidentRow
    <3>5. Covers(j, d)
      BY <3>1, <3>3, <3>4 DEF Covers
    <3> QED
      BY <3>5
  <2> QED
    BY <2>1, <2>2
<1>8. Timely'
  <2>1. \A d \in detections : d.window < window + 1
    BY RecentIn
  <2>2. \A d \in fresh : d.window + 1 = window + 1
    <3>1. \A d \in fresh : d.window \in Nat /\ d.window + 0 = window
      BY <1>1, RecentIn DEF IInv, Timely, TypeOK
    <3> QED
      BY <3>1
  <2>3. \A w \in groupedAt \cup {window} : w < window + 1
    <3>1. \A w \in groupedAt : w \in Nat /\ w < window
      BY DEF IInv, TypeOK, Timely
    <3> QED
      BY <3>1, <1>2
  <2> QED
    BY <1>1, <2>1, <2>2, <2>3 DEF Timely
<1>9. RowsBacked'
  <2> SUFFICES ASSUME NEW i \in incidents'
               PROVE  /\ i.start <= i.end
                      /\ \A w \in i.start..i.end : \E d \in detections : d.key = i.key /\ d.window = w
                      /\ \E d \in detections : Covers(i, d) /\ d.severity = i.peak
    BY <1>1 DEF RowsBacked, Covers
  <2>1. CASE i \in incidents
    BY <2>1 DEF IInv, RowsBacked
  <2>2. CASE i \in written
    <3>1. PICK j \in grouped : SameRow(i, j)
      BY <2>2, <1>3
    <3>2. /\ j.start <= j.end
          /\ \A w \in j.start..j.end : \E d \in Recent : d.key = j.key /\ d.window = w
          /\ \E d \in Recent : Covers(j, d) /\ d.severity = j.peak
      BY <1>2, Grouped1, Grouped2 DEF grouped
    <3> QED
      BY <3>1, <3>2, RecentIn DEF SameRow, Covers
  <2> QED
    BY <1>4, <2>1, <2>2
<1>10. IdsUnique'
  <2> SUFFICES ASSUME NEW i \in incidents', NEW j \in incidents', IncidentId(i) = IncidentId(j)
               PROVE  i = j
    BY DEF IdsUnique, IncidentId
  <2>1. CASE i \in written /\ j \in written
    BY <2>1, <1>2, BatchIdsUnique DEF written, grouped
  <2>2. CASE i \in written /\ j \notin written
    BY <2>2, <1>1
  <2>3. CASE i \notin written /\ j \in written
    BY <2>3, <1>1
  <2>4. CASE i \notin written /\ j \notin written
    BY <2>4, <1>4 DEF IInv, IdsUnique
  <2> QED
    BY <2>1, <2>2, <2>3, <2>4
<1>11. RootsKnown'
  <2> SUFFICES ASSUME NEW i \in incidents', Derived(i)
               PROVE  /\ i.root.key.target.kind = "service"
                      /\ i.root.key.detector = i.key.detector
                      /\ \E r \in incidents' : IncidentId(r) = i.root
    BY DEF RootsKnown, IncidentId, Derived
  <2>1. CASE i \in written
    <3>1. PICK b : /\ IsService(b) /\ b.key.detector = i.key.detector
                   /\ i.root = IncidentId(b)
                   /\ i.root = IncidentId(Marked(b, ByTarget(grouped), edges))
                   /\ Marked(b, ByTarget(grouped), edges) \in written
      BY <2>1, <1>2, BatchRoots DEF written, grouped
    <3> QED
      BY <3>1, <1>1 DEF IncidentId, IsService
  <2>2. CASE i \in incidents
    <3>1. PICK r \in incidents : IncidentId(r) = i.root
      BY <2>2 DEF IInv, RootsKnown
    <3>2. PICK j \in incidents' : Grown(r, j)
      BY <1>5
    <3> QED
      BY <2>2, <3>1, <3>2 DEF IInv, RootsKnown, Grown
  <2> QED
    BY <1>4, <2>1, <2>2
<1>12. BatchIsGrouping'
  <2>1. LastRead' = Recent
    <3>1. \A d \in detections : d.window \in Nat
                                /\ (window + 1 <= d.window + Lookback + 1 <=> window <= d.window + Lookback)
      BY RecentIn
    <3> QED
      BY <3>1, <1>1, RecentIn DEF LastRead
  <2>2. fresh \subseteq Recent
    <3>1. \A d \in fresh : d \in detections /\ d.window + 0 = window
      BY <1>1 DEF IInv, TypeOK, Timely
    <3> QED
      BY <3>1, RecentIn
  <2>3. GroupDetections(LastRead)' = grouped
    BY <2>1 DEF grouped, GroupDetections, RunEnds, IsRun, WindowsOf, BuildIncident, PeakSeverity
  <2>4. SuppressPropagated(GroupDetections(LastRead), edges)' = written
    BY <2>3, <1>1 DEF written
  <2>5. DerivedKeys(batch)' = DerivedKeys(written)
    BY <1>1
  <2> QED
    BY <1>1, <2>1, <2>2, <2>4, <2>5 DEF BatchIsGrouping
<1> QED
  BY <1>6, <1>7, <1>8, <1>9, <1>10, <1>11, <1>12 DEF IInv

\* The invariant is inductive, and holds in every reachable state.
THEOREM Inductive == Spec => []IInv
<1>1. IInv /\ [Next]_vars => IInv'
  <2> SUFFICES ASSUME IInv, [Next]_vars PROVE IInv'
    OBVIOUS
  <2>1. CASE Next
    BY <2>1, DetectStep, SuppressionStep, CrashStep DEF Next
  <2>2. CASE UNCHANGED vars
    <3>1. UNCHANGED <<window, pc, edges, detections, incidents, fresh, batch, suppressed,
                      groupedAt, crashes>>
      BY <2>2 DEF vars
    <3>2. TypeOK' /\ DetectionsAreInIncidents' /\ Timely'
      BY <3>1 DEF IInv, TypeOK, DetectionsAreInIncidents, Timely, Covers
    <3>3. RowsBacked' /\ IdsUnique' /\ RootsKnown'
      BY <3>1 DEF IInv, RowsBacked, IdsUnique, RootsKnown, Covers, IncidentId, Derived
    <3>4. BatchIsGrouping'
      BY <3>1 DEF IInv, BatchIsGrouping, LastRead
    <3> QED
      BY <3>2, <3>3, <3>4 DEF IInv
  <2> QED
    BY <2>1, <2>2
<1> QED
  BY InitInv, <1>1, PTL DEF Spec

\* However inserts and crashes fall, what is in the tables belongs together:
\* every variable has its type, and every detection that a grouping still had
\* in its lookback lies inside an incident.
THEOREM TablesAlwaysAgree == Spec => []TablesAgree
<1>1. IInv => TablesAgree
  BY DEF IInv, TablesAgree
<1> QED
  BY <1>1, Inductive, PTL

\* Rows of detected_incidents are replaced by rows that reach at least as far
\* and as high, although each is computed from a sliding lookback.
THEOREM RowsOnlyGrow == Spec => IncidentsOnlyGrow
<1>1. IInv /\ [Next]_vars =>
        [\A i \in incidents :
           \E j \in incidents' : /\ IncidentId(j) = IncidentId(i)
                                 /\ i.end <= j.end /\ i.peak <= j.peak]_vars
  BY TableGrows DEF Grown
<1> QED
  BY <1>1, Inductive, PTL DEF Spec, IncidentsOnlyGrow

-----------------------------------------------------------------------------
(* what the last batch says *)

\* The detections that were read back, while their batch stands.
LEMMA BatchStands ==
    ASSUME IInv, Written # {}
    PROVE  /\ Written = SuppressPropagated(GroupDetections(LastRead), edges)
           /\ LastRead \in SUBSET Firing /\ edges \in SUBSET Calls
           /\ fresh \subseteq LastRead
           /\ suppressed = {d.key : d \in fresh} \cap DerivedKeys(Written)
           /\ \A d \in LastRead : d.window \in Nat /\ d.window < window
           /\ \A d \in fresh : d.window + 1 = window
<1>1. pc = "detect" /\ batch # {} /\ Written = batch
  BY DEF Written
<1>2. LastRead \subseteq detections
  BY DEF LastRead
<1>3. \A d \in detections : d.window \in Nat /\ d.window < window
  BY <1>1, RecentIn DEF IInv, Timely
<1>4. \A d \in fresh : d.window + 1 = window
  BY <1>1 DEF IInv, Timely
<1>5. LastRead \in SUBSET Firing /\ edges \in SUBSET Calls
  BY <1>2 DEF IInv, TypeOK
<1> QED
  BY <1>1, <1>2, <1>3, <1>4, <1>5 DEF IInv, BatchIsGrouping

\* The run that reaches the newest window is the latest of its key, so it is
\* the one that was derived if any of them was.
LEMMA DerivedIsLatest ==
    ASSUME IInv, Written # {}, NEW d \in fresh, NEW j \in Written, Derived(j), j.key = d.key
    PROVE  Covers(j, d)
<1> DEFINE grouped == GroupDetections(LastRead)
<1>1. PICK i \in ByTarget(grouped) : SameRow(j, i)
  BY BatchStands, BatchRoots
<1>2. PICK c \in grouped : Covers(c, d)
  BY BatchStands, GroupingCovers
<1>3. i \in grouped /\ i.key = d.key /\ c.key = d.key /\ c.start <= i.start
  BY <1>1, <1>2 DEF ByTarget, SameRow, Covers
<1>4. /\ i.start \in Nat /\ i.end \in Nat /\ i.start <= i.end
      /\ c.start \in Nat /\ c.end \in Nat /\ c.start <= c.end
  BY <1>3, BatchStands, Grouped1, IncidentsAssumption
<1>5. PICK e \in LastRead : e.window = i.start
  BY <1>3, <1>4, BatchStands, Grouped2
<1>6. i.start <= d.window /\ d.window <= c.end /\ d.window \in Nat
  <2>1. d.window \in Nat /\ d.window + 1 = window /\ i.start < window
    BY <1>5, BatchStands
  <2> QED
    BY <2>1, <1>2, <1>4 DEF Covers
<1>7. Overlaps(c, i)
  BY <1>3, <1>4, <1>6 DEF Overlaps
<1>8. c = i
  BY <1>3, <1>7, BatchStands, RunsApart
<1> QED
  BY <1>1, <1>2, <1>8 DEF SameRow, Covers

\* What is counted as suppressed is what lies in a derived incident, although
\* the count goes by keys.
THEOREM SuppressedIsDerived == Spec => []SuppressedLandedInDerived
<1>1. IInv => SuppressedLandedInDerived
  <2> SUFFICES ASSUME IInv, Written # {}, NEW d \in fresh
               PROVE  d.key \in suppressed <=> \E i \in Written : Covers(i, d) /\ Derived(i)
    BY DEF SuppressedLandedInDerived
  <2>1. d.key \in suppressed <=> \E j \in Written : Derived(j) /\ j.key = d.key
    BY BatchStands DEF DerivedKeys
  <2>2. \A j \in Written : Covers(j, d) => j.key = d.key
    BY DEF Covers
  <2> QED
    BY <2>1, <2>2, DerivedIsLatest
<1> QED
  BY <1>1, Inductive, PTL

\* Marking leaves the latest the latest, and who overlaps whom.
LEMMA LatestMarked ==
    ASSUME NEW found \in SUBSET Firing, NEW calls, NEW i \in GroupDetections(found)
    PROVE  LET grouped == GroupDetections(found)
               written == SuppressPropagated(grouped, calls)
           IN Marked(i, ByTarget(grouped), calls) \in ByTarget(written) <=> i \in ByTarget(grouped)
<1> DEFINE grouped == GroupDetections(found)
           written == SuppressPropagated(grouped, calls)
           m == Marked(i, ByTarget(grouped), calls)
<1>1. m \in written /\ SameRow(m, i)
  BY BatchRows
<1>2. \A n \in written : \E j \in grouped : SameRow(n, j)
  BY BatchRows
<1>3. \A j \in grouped : \E n \in written : SameRow(n, j)
  BY BatchRows
<1> HIDE DEF m, written, grouped
<1>4. m \in ByTarget(written) <=> \A n \in written : n.key = i.key => n.start <= i.start
  BY <1>1 DEF ByTarget, SameRow
<1>5. i \in ByTarget(grouped) <=> \A j \in grouped : j.key = i.key => j.start <= i.start
  BY DEF ByTarget, grouped
<1>6. m \in ByTarget(written) <=> i \in ByTarget(grouped)
  BY <1>2, <1>3, <1>4, <1>5 DEF SameRow
<1> QED
  BY <1>6 DEF m, written, grouped

\* The latest of a batch are the latest grouped ones, marked.
LEMMA LatestWritten ==
    ASSUME NEW found \in SUBSET Firing, NEW calls,
           NEW m \in ByTarget(SuppressPropagated(GroupDetections(found), calls))
    PROVE  LET known == ByTarget(GroupDetections(found))
           IN \E i \in known : m = Marked(i, known, calls) /\ SameRow(m, i)
<1> DEFINE grouped == GroupDetections(found)
<1>1. m \in SuppressPropagated(grouped, calls)
  BY DEF ByTarget
<1>2. PICK i \in grouped : m = Marked(i, ByTarget(grouped), calls) /\ SameRow(m, i)
  BY <1>1, BatchRows
<1>3. i \in ByTarget(grouped)
  BY <1>2, LatestMarked
<1> QED
  BY <1>2, <1>3

\* Marking does not change which incidents call an affected service.
LEMMA AffectedMarked ==
    ASSUME NEW found \in SUBSET Firing, NEW calls, NEW i \in GroupDetections(found)
    PROVE  LET grouped == GroupDetections(found)
               known == ByTarget(grouped)
               written == SuppressPropagated(grouped, calls)
           IN AffectedCallees(Marked(i, known, calls), ByTarget(written), calls) = {}
                <=> AffectedCallees(i, known, calls) = {}
<1> DEFINE grouped == GroupDetections(found)
           known == ByTarget(grouped)
           latest == ByTarget(SuppressPropagated(grouped, calls))
           m == Marked(i, known, calls)
           Like(n, d) == n \in latest /\ d \in known /\ SameRow(n, d)
<1>1. SameRow(m, i)
  BY BatchRows
<1>2. \A n \in latest : \E d \in known : SameRow(n, d)
  BY LatestWritten
<1>3. \A d \in known : \E n \in latest : SameRow(n, d)
  <2> TAKE d \in known
  <2>1. d \in grouped
    BY DEF ByTarget
  <2>2. SameRow(Marked(d, known, calls), d)
    BY <2>1, BatchRows
  <2>3. Marked(d, known, calls) \in latest
    BY <2>1, LatestMarked
  <2> QED
    BY <2>2, <2>3
<1> HIDE DEF m, latest, known, grouped
<1>4. \A n \in latest, d \in known :
         SameRow(n, d) => (n \in AffectedCallees(m, latest, calls)
                             <=> d \in AffectedCallees(i, known, calls))
  BY <1>1 DEF SameRow, AffectedCallees, IsService, Callee, Overlaps
<1>5. AffectedCallees(m, latest, calls) \subseteq latest /\ AffectedCallees(i, known, calls) \subseteq known
  BY DEF AffectedCallees
<1>6. AffectedCallees(m, latest, calls) = {} <=> AffectedCallees(i, known, calls) = {}
  BY <1>2, <1>3, <1>4, <1>5
<1> QED
  BY <1>6 DEF m, latest, known, grouped

\* Where some walk ends.
EndsWalk(b, known, calls) ==
    \E j \in known : IsService(j) /\ b = Walk(known, calls)[<<j, {}>>]

\* Who is blamed is where the walk ends that starts at i or, for a call, at
\* the incident of its callee.
LEMMA BlameIsWalk ==
    ASSUME NEW known, NEW calls, NEW i \in known
    PROVE  /\ IsService(i) => BlameOf(i, known, calls) = Walk(known, calls)[<<i, {}>>]
           /\ BlameOf(i, known, calls) # i => EndsWalk(BlameOf(i, known, calls), known, calls)
<1> DEFINE root == ResolveRoot(known, calls)
           b == BlameOf(i, known, calls)
<1>0. b = RootFor(i, known, root)
  BY DEF BlameOf
<1>1. \A j \in known : root[j] = Walk(known, calls)[<<j, {}>>]
  BY ResolveIsWalk
<1> HIDE DEF b, root
<1>2. CASE IsService(i)
  BY <1>0, <1>1, <1>2 DEF RootFor, b, EndsWalk
<1>3. CASE ~IsService(i) /\ CalleeIncident(i, known) = {}
  <2>1. b = i
    BY <1>0, <1>3 DEF RootFor
  <2> QED
    BY <2>1, <1>3 DEF b
<1>4. CASE ~IsService(i) /\ CalleeIncident(i, known) # {}
  <2> DEFINE d == CHOOSE d \in CalleeIncident(i, known) : TRUE
  <2>1. d \in CalleeIncident(i, known)
    BY <1>4
  <2> HIDE DEF d
  <2>2. d \in known /\ IsService(d)
    BY <2>1 DEF CalleeIncident, IsService, Key, Service
  <2>3. b = Walk(known, calls)[<<d, {}>>]
    BY <1>0, <1>1, <1>4, <2>2 DEF RootFor, d
  <2> QED
    BY <2>2, <2>3, <1>4 DEF b, EndsWalk
<1> QED
  BY <1>2, <1>3, <1>4

\* In a call graph without cycles who is blamed has nothing affected below and
\* is blamed on nobody, and whoever has is blamed on somebody.
LEMMA BlameEndsDeepest ==
    ASSUME NEW known, NEW calls, Walkable(known), calls \subseteq Services \X Services,
           \A j \in known : Callee(j) \in Services,
           NEW rank, CallsLeadDown(rank, calls), NEW i \in known
    PROVE  LET b == BlameOf(i, known, calls)
           IN /\ b # i => AffectedCallees(b, known, calls) = {} /\ BlameOf(b, known, calls) = b
              /\ AffectedCallees(i, known, calls) # {} => b # i
<1> DEFINE b == BlameOf(i, known, calls)
           w == Walk(known, calls)
<1>1. ASSUME b # i PROVE AffectedCallees(b, known, calls) = {} /\ BlameOf(b, known, calls) = b
  <2>1. b \in known /\ IsService(b)
    BY <1>1, BlameInKind
  <2>2. EndsWalk(b, known, calls)
    BY <1>1, BlameIsWalk
  <2>3. PICK j \in known : IsService(j) /\ b = w[<<j, {}>>]
    BY <2>2 DEF EndsWalk
  <2>4. AffectedCallees(b, known, calls) = {}
    BY <2>3, WalkEndsDeepest
  <2> HIDE DEF b, w
  <2>5. w[<<b, {}>>] = b
    <3>1. StaysIn(w, b, {}, known, calls)
      BY <2>4 DEF StaysIn
    <3>2. LeadsTo(w, b, {}, known, calls, w[<<b, {}>>])
      BY <3>1, <2>1, WalkStep DEF w
    <3> QED
      BY <3>2, <2>4 DEF LeadsTo
  <2>6. BlameOf(b, known, calls) = w[<<b, {}>>]
    BY <2>1, BlameIsWalk DEF w
  <2> QED
    BY <2>4, <2>5, <2>6
<1>2. ASSUME AffectedCallees(i, known, calls) # {} PROVE b # i
  <2>1. IsService(i)
    BY <1>2 DEF AffectedCallees
  <2>2. b = w[<<i, {}>>]
    BY <2>1, BlameIsWalk
  <2> QED
    BY <2>1, <2>2, <1>2, WalkEndsDeepest
<1> QED
  BY <1>1, <1>2

\* What a call's incident is blamed on is what its callee's is blamed on.
LEMMA EdgeBlame ==
    ASSUME NEW found \in SUBSET Firing, NEW calls,
           NEW i \in ByTarget(GroupDetections(found)), ~IsService(i),
           NEW d \in CalleeIncident(i, ByTarget(GroupDetections(found)))
    PROVE  LET known == ByTarget(GroupDetections(found))
           IN /\ d \in known /\ IsService(d)
              /\ BlameOf(i, known, calls) = BlameOf(d, known, calls)
              /\ BlameOf(i, known, calls) # i
<1> DEFINE known == ByTarget(GroupDetections(found))
           root == ResolveRoot(known, calls)
           c == CHOOSE e \in CalleeIncident(i, known) : TRUE
<1>1. d \in known /\ d.key = Key(Service(Callee(i)), i.key.detector)
  BY DEF CalleeIncident
<1>2. c \in CalleeIncident(i, known)
  OBVIOUS
<1>3. c \in known /\ c.key = d.key
  BY <1>1, <1>2 DEF CalleeIncident
<1>4. c = d
  <2>1. c \in GroupDetections(found) /\ d \in GroupDetections(found)
    BY <1>1, <1>3 DEF ByTarget
  <2> HIDE DEF c
  <2> QED
    BY <1>1, <1>3, <2>1, IdsApart
<1>5. IsService(d)
  BY <1>1 DEF IsService, Key, Service
<1>6. BlameOf(i, known, calls) = root[d]
  <2>1. RootFor(i, known, root) = root[c]
    BY DEF RootFor
  <2> QED
    BY <2>1, <1>4 DEF BlameOf
<1>7. BlameOf(d, known, calls) = root[d]
  BY <1>5 DEF BlameOf, RootFor
<1>8. IsService(root[d])
  <2>1. Walkable(known)
    BY KnownWalkable
  <2>2. root[d] = Walk(known, calls)[<<d, {}>>]
    BY <1>1, ResolveIsWalk
  <2> HIDE DEF known, root
  <2> QED
    BY <2>1, <2>2, <1>1, <1>5, WalkStaysInKind
<1> HIDE DEF root
<1> QED
  BY <1>1, <1>5, <1>6, <1>7, <1>8

\* An edge is blamed on what its callee is blamed on.
LEMMA EdgesFollow ==
    ASSUME IInv
    PROVE  EdgesFollowCallee
<1> SUFFICES ASSUME Written # {}, NEW m \in ByTarget(Written), ~IsService(m),
                    NEW c \in CalleeIncident(m, ByTarget(Written))
             PROVE  m.root = (IF Derived(c) THEN c.root ELSE IncidentId(c))
  BY DEF EdgesFollowCallee, ByTarget
<1> DEFINE grouped == GroupDetections(LastRead)
           known == ByTarget(grouped)
<1>1. PICK i \in known : m = Marked(i, known, edges) /\ SameRow(m, i)
  BY BatchStands, LatestWritten
<1>2. c \in ByTarget(Written)
  BY DEF CalleeIncident
<1>3. PICK d \in known : c = Marked(d, known, edges) /\ SameRow(c, d)
  BY <1>2, BatchStands, LatestWritten
<1>4. d \in CalleeIncident(i, known) /\ ~IsService(i)
  BY <1>1, <1>3 DEF CalleeIncident, SameRow, IsService, Callee, Overlaps
<1>5. BlameOf(i, known, edges) = BlameOf(d, known, edges) /\ BlameOf(i, known, edges) # i
  BY <1>4, BatchStands, EdgeBlame
<1>6. i \in grouped /\ d \in grouped
  BY DEF ByTarget
<1>7. Derived(m) /\ m.root = IncidentId(BlameOf(i, known, edges))
  BY <1>1, <1>5, <1>6, BatchStands, MarkedRow
<1>8. /\ Derived(c) <=> BlameOf(d, known, edges) # d
      /\ Derived(c) => c.root = IncidentId(BlameOf(d, known, edges))
  BY <1>3, <1>6, BatchStands, MarkedRow
<1>9. IncidentId(c) = IncidentId(d)
  BY <1>3 DEF SameRow, IncidentId
<1> HIDE DEF known, grouped
<1> QED
  BY <1>5, <1>7, <1>8, <1>9

\* In a call graph without cycles roots are deepest.
LEMMA RootsDeepest ==
    ASSUME IInv, NEW rank, CallsLeadDown(rank, Calls)
    PROVE  RootsAreDeepest
<1> DEFINE grouped == GroupDetections(LastRead)
           known == ByTarget(grouped)
           latest == ByTarget(Written)
<1> SUFFICES ASSUME NEW m \in Written
             PROVE  /\ Derived(m) =>
                         \E r \in RootOf(m) : /\ ~Derived(r) /\ IsService(r)
                                              /\ r.key.detector = m.key.detector
                                              /\ AffectedBy(r, latest) = {}
                    /\ (m \in latest /\ AffectedBy(m, latest) # {}) => Derived(m)
  BY DEF RootsAreDeepest
<1>1. /\ Written = SuppressPropagated(grouped, edges)
      /\ LastRead \in SUBSET Firing /\ edges \in SUBSET Calls
  BY BatchStands
<1>2. Walkable(known) /\ edges \subseteq Services \X Services
  BY <1>1, KnownWalkable, IncidentsAssumption
<1>3. CallsLeadDown(rank, edges)
  BY <1>1 DEF CallsLeadDown
<1>4. \A j \in known : j \in grouped /\ Callee(j) \in Services
  BY <1>1, GroupedCallee DEF ByTarget
<1>5. ASSUME Derived(m)
      PROVE  \E r \in RootOf(m) : /\ ~Derived(r) /\ IsService(r)
                                  /\ r.key.detector = m.key.detector
                                  /\ AffectedBy(r, latest) = {}
  <2>1. PICK i \in known, b \in known :
           /\ b # i /\ b = BlameOf(i, known, edges)
           /\ IsService(b) /\ b.key.detector = m.key.detector
           /\ m.root = IncidentId(Marked(b, known, edges))
           /\ Marked(b, known, edges) \in Written
    BY <1>1, <1>5, BatchRoots
  <2> DEFINE r == Marked(b, known, edges)
  <2>2. AffectedCallees(b, known, edges) = {} /\ BlameOf(b, known, edges) = b
    <3> HIDE DEF known
    <3> QED
      BY <2>1, <1>2, <1>3, <1>4, BlameEndsDeepest
  <2>3. ~Derived(r) /\ r = b
    BY <2>2, <1>1, <1>4, MarkedRow
  <2>4. AffectedCallees(r, latest, edges) = {}
    BY <2>2, <1>1, <1>4, AffectedMarked
  <2>5. r \in RootOf(m)
    BY <2>1 DEF RootOf
  <2> HIDE DEF r, latest
  <2> QED
    BY <2>1, <2>3, <2>4, <2>5 DEF AffectedBy
<1>6. ASSUME m \in latest, AffectedBy(m, latest) # {}
      PROVE  Derived(m)
  <2>1. PICK i \in known : m = Marked(i, known, edges) /\ SameRow(m, i)
    BY <1>1, <1>6, LatestWritten
  <2>2. AffectedCallees(i, known, edges) # {}
    BY <2>1, <1>1, <1>4, <1>6, AffectedMarked DEF AffectedBy
  <2>3. BlameOf(i, known, edges) # i
    <3> HIDE DEF known
    <3> QED
      BY <2>2, <1>2, <1>3, <1>4, BlameEndsDeepest
  <2> QED
    BY <2>1, <2>3, <1>1, <1>4, MarkedRow
<1> QED
  BY <1>5, <1>6

\* Where the calls form no cycle, suppression points at where the trouble is:
\* the root of a derived incident has nothing affected below it, an incident
\* with something affected below is derived, and a call's is blamed on what its
\* callee's is blamed on.
THEOREM BlameAlwaysDeepest ==
    ASSUME NEW CONSTANT rank, CallsLeadDown(rank, Calls)
    PROVE  Spec => []BlameIsDeepest
<1>1. IInv => BlameIsDeepest
  BY RootsDeepest, EdgesFollow DEF BlameIsDeepest
<1> QED
  BY <1>1, Inductive, PTL

\* That a call's incident is blamed on what its callee's is blamed on needs no
\* such assumption.
THEOREM EdgesAlwaysFollow == Spec => []EdgesFollowCallee
BY EdgesFollow, Inductive, PTL
-----------------------------------------------------------------------------
(* what is read from the table *)

\* The root a derived row names is in the table, a service with the same kind
\* of trouble, and the evaluation counts the row exactly when that id names the
\* broken place (eval.py:316-330).
LEMMA RootsStored == IInv => RootsAreStored
<1> SUFFICES ASSUME IInv, NEW i \in incidents, Derived(i)
             PROVE  /\ \E r \in incidents : /\ IncidentId(r) = i.root
                                            /\ IsService(r) /\ r.key.detector = i.key.detector
                    /\ \A k \in Watched :
                         i \in CorrectOpinions({Throughout(k)}, incidents)
                           <=> i.root.key.target = k.target
  BY DEF RootsAreStored
<1>1. PICK r \in incidents : IncidentId(r) = i.root
  BY DEF IInv, RootsKnown
<1>2. i.root.key = r.key /\ IsService(r) /\ r.key.detector = i.key.detector
  BY <1>1 DEF IInv, RootsKnown, IncidentId, IsService
<1>3. \A q \in incidents : IncidentId(q) = i.root => q = r
  BY <1>1 DEF IInv, IdsUnique
<1>4. ASSUME NEW k \in Watched
      PROVE  i \in CorrectOpinions({Throughout(k)}, incidents) <=> i.root.key.target = k.target
  <2>1. OverlapsTrue(i, Throughout(k))
    <3>1. i.start \in 0..MaxWindow /\ i.end \in 0..MaxWindow /\ MaxWindow \in Nat
      BY RecentIn DEF IInv, TypeOK, IncidentRow
    <3> QED
      BY <3>1 DEF OverlapsTrue, Throughout
  <2>2. i \in Opinions({Throughout(k)}, incidents)
    BY <2>1 DEF Opinions
  <2>3. i \in CorrectOpinions({Throughout(k)}, incidents)
          <=> \E q \in incidents : IncidentId(q) = i.root /\ q.key.target = Throughout(k).key.target
    BY <2>1, <2>2 DEF CorrectOpinions
  <2> QED
    BY <2>3, <1>1, <1>2, <1>3 DEF Throughout
<1> QED
  BY <1>1, <1>2, <1>4

\* A page of the API either shows the one row of the table with the root's id
\* or was cut off before it (queries.py:333-346).
LEMMA PagesShow == IInv => PagesShowRoots
<1> SUFFICES ASSUME IInv,
                    NEW lo \in 0..MaxWindow, NEW hi \in lo..MaxWindow,
                    NEW target \in Target \cup {NoTarget},
                    NEW page \in FetchDetections(lo, hi, target),
                    NEW i \in page, NEW r \in incidents,
                    Derived(i), IncidentId(r) = i.root
             PROVE  IF RootCauseTarget(i, page) # NoTarget
                    THEN RootCauseTarget(i, page) = r.key.target
                    ELSE \/ ~(lo <= r.end /\ r.start <= hi)
                         \/ target \notin {NoTarget, r.key.target}
                         \/ Cardinality(page) = MaxRows /\ \A j \in page : r.start <= j.start
  BY DEF PagesShowRoots
<1> DEFINE rows == Selected(lo, hi, target)
<1>1. /\ page \subseteq rows
      /\ \/ page = rows
         \/ /\ Cardinality(page) = MaxRows
            /\ \A j \in page, q \in rows \ page : q.start <= j.start
  BY DEF FetchDetections
<1>2. page \subseteq incidents
  BY <1>1 DEF Selected
<1>3. \A q \in incidents : IncidentId(q) = i.root => q = r
  BY DEF IInv, IdsUnique
<1>4. CASE r \in page
  <2>1. (CHOOSE q \in page : IncidentId(q) = i.root) = r
    BY <1>2, <1>3, <1>4
  <2>2. RootCauseTarget(i, page) = r.key.target
    BY <2>1, <1>4 DEF RootCauseTarget
  <2>3. r.key.target # NoTarget
    <3>1. r.key \in Watched
      BY DEF IInv, TypeOK, IncidentRow
    <3>2. r.key.target \in Target
      BY <3>1, IncidentsAssumption DEF Watched
    <3> QED
      BY <3>2 DEF Target, Service, Edge, NoTarget
  <2> QED
    BY <2>2, <2>3
<1>5. CASE r \notin page
  <2>1. RootCauseTarget(i, page) = NoTarget
    BY <1>2, <1>3, <1>5 DEF RootCauseTarget
  <2>2. r \in rows <=> (lo <= r.end /\ r.start <= hi) /\ target \in {NoTarget, r.key.target}
    BY DEF Selected
  <2> QED
    BY <2>1, <2>2, <1>1, <1>5
<1> QED
  BY <1>4, <1>5

\* Roots resolve to where the trouble is: the root a derived row names is
\* stored, and a page that does not show it was asked for another range or
\* target, or is full of rows no older (queries.py:333-346, 363-368).
THEOREM RootsAlwaysResolve == Spec => []RootsResolve
<1>1. IInv => RootsResolve
  BY RootsStored, PagesShow DEF RootsResolve
<1> QED
  BY <1>1, Inductive, PTL

\* A window behind an incident that a true incident touches: the first, or the
\* one the true incident starts in.
LEMMA TouchedWindow ==
    ASSUME NEW a \in Nat, NEW b \in Nat, a <= b, NEW from \in Nat, NEW to \in Nat, from < to,
           2 * a <= to, from <= 2 * b
    PROVE  \E w \in a..b : 2 * w <= to /\ from <= 2 * (w + 1)
<1>1. CASE from <= 2 * (a + 1)
  BY <1>1
<1>2. CASE ~(from <= 2 * (a + 1))
  <2> DEFINE w == from \div 2
  <2>1. w \in Nat /\ 2 * w <= from /\ from <= 2 * w + 1
    OBVIOUS
  <2> HIDE DEF w
  <2>2. w \in a..b /\ 2 * w <= to /\ from <= 2 * (w + 1)
    BY <1>2, <2>1
  <2> QED
    BY <2>2
<1> QED
  BY <1>1, <1>2

\* Numbers of a true incident.
LEMMA TrueTimes ==
    ASSUME NEW k, NEW t \in TrueIncident(k)
    PROVE  t.key = k /\ t.start \in Nat /\ t.end \in Nat /\ t.start < t.end
BY IncidentsAssumption DEF TrueIncident, Times

\* Rows of the table, as the score reads them.
LEMMA FoundRows ==
    ASSUME IInv, NEW k
    PROVE  LET found == {i \in FetchAnalyzerIncidents(0, MaxWindow) : i.key = k}
           IN /\ found = {i \in incidents : i.key = k}
              /\ \A i \in found : /\ i.start \in Nat /\ i.end \in Nat /\ i.start <= i.end
                                  /\ \A w \in i.start..i.end :
                                       \E d \in detections : d.key = k /\ d.window = w
<1>1. \A i \in incidents : i.start \in 0..MaxWindow /\ i.end \in 0..MaxWindow
  BY DEF IInv, TypeOK, IncidentRow
<1> QED
  BY <1>1, RecentIn DEF IInv, RowsBacked, FetchAnalyzerIncidents

\* A detection that was grouped is within a row that matches every true
\* incident it starts in.
LEMMA GroupedIsFound ==
    ASSUME IInv, NEW d \in detections, Grouped(d)
    PROVE  \E i \in incidents : /\ i.key = d.key /\ i.start <= d.window /\ d.window <= i.end
                                /\ i.start \in Nat /\ i.end \in Nat /\ d.window \in Nat
<1>1. PICK i \in incidents : Covers(i, d)
  BY DEF IInv, DetectionsAreInIncidents, Grouped
<1>2. i.start \in 0..MaxWindow /\ i.end \in 0..MaxWindow
  BY DEF IInv, TypeOK, IncidentRow
<1> QED
  BY <1>1, <1>2, RecentIn DEF Covers

\* The latency is counted from the first match.
LEMMA LatencyBound ==
    ASSUME NEW t, NEW found, t.start \in Nat, \A i \in found : i.start \in Nat,
           NEW i \in Matches(t, found), NEW w \in Nat, i.start <= w, t.start <= 2 * w
    PROVE  DetectionLatency(t, found) <= 2 * (w + 1) - t.start
<1> DEFINE S == {j.start : j \in Matches(t, found)}
           first == Min(S)
<1>1. S \subseteq Nat /\ i.start \in S
  BY DEF Matches
<1> HIDE DEF S
<1>2. first \in S /\ \A x \in S : first <= x
  <2>1. \E x \in S : \A y \in S : x <= y
    BY <1>1, SmallestOf
  <2> QED
    BY <2>1 DEF Min
<1> HIDE DEF first
<1>3. first \in Nat /\ first <= w
  <2>1. first \in Nat /\ i.start \in Nat /\ first <= i.start
    BY <1>1, <1>2
  <2> QED
    BY <2>1
<1> DEFINE late == 2 * (first + 1) - t.start
<1>4. DetectionLatency(t, found) = Max({0, late})
  BY DEF DetectionLatency, S, first
<1>5. late \in Int /\ late <= 2 * (w + 1) - t.start /\ 0 <= 2 * (w + 1) - t.start
  BY <1>3
<1> HIDE DEF late
<1>6. Max({0, late}) \in {0, late}
  <2>1. \E x \in {0, late} : \A y \in {0, late} : x >= y
    <3>1. CASE late >= 0
      BY <3>1, <1>5
    <3>2. CASE ~(late >= 0)
      BY <3>2, <1>5
    <3> QED
      BY <3>1, <3>2
  <2> QED
    BY <2>1 DEF Max
<1> QED
  BY <1>4, <1>5, <1>6

\* The score credits what was detected and nothing else.
THEOREM ScoreAlwaysFollows == Spec => []ScoreFollowsDetections
<1>1. IInv => ScoreFollowsDetections
  <2> SUFFICES ASSUME IInv, NEW k, NEW t \in TrueIncident(k)
               PROVE  LET hits  == {d \in detections : d.key = k}
                          found == {i \in FetchAnalyzerIncidents(0, MaxWindow) : i.key = k}
                          touching == {d \in hits : 2 * d.window <= t.end /\ t.start <= 2 * (d.window + 1)}
                      IN IF TruePositives({t}, found) = {}
                         THEN \A d \in touching : Grouped(d) => 2 * d.window < t.start
                         ELSE /\ touching # {}
                              /\ \A d \in touching : (Grouped(d) /\ t.start <= 2 * d.window) =>
                                   DetectionLatency(t, found) <= 2 * (d.window + 1) - t.start
                              /\ k \in FoundKeys({t}, found) \/ \A i \in Matches(t, found) : Derived(i)
    BY DEF ScoreFollowsDetections
  <2> DEFINE hits  == {d \in detections : d.key = k}
             found == {i \in FetchAnalyzerIncidents(0, MaxWindow) : i.key = k}
             touching == {d \in hits : 2 * d.window <= t.end /\ t.start <= 2 * (d.window + 1)}
  <2>1. t.key = k /\ t.start \in Nat /\ t.end \in Nat /\ t.start < t.end
    BY TrueTimes
  <2>2. /\ found = {i \in incidents : i.key = k}
        /\ \A i \in found : /\ i.start \in Nat /\ i.end \in Nat /\ i.start <= i.end
                            /\ \A w \in i.start..i.end :
                                 \E d \in detections : d.key = k /\ d.window = w
    BY FoundRows
  <2> HIDE DEF found
  <2>3. \A i : i \in Matches(t, found)
                 <=> i \in found /\ 2 * i.start <= t.end /\ t.start <= 2 * i.end
    BY <2>1, <2>2 DEF Matches, OverlapsTrue
  <2>4. TruePositives({t}, found) = {} <=> Matches(t, found) = {}
    BY DEF TruePositives
  <2>5. ASSUME NEW d \in touching, Grouped(d), t.start <= 2 * d.window
        PROVE  \E i \in Matches(t, found) : i.start <= d.window /\ d.window \in Nat
    <3>1. PICK i \in incidents : /\ i.key = d.key /\ i.start <= d.window /\ d.window <= i.end
                                 /\ i.start \in Nat /\ i.end \in Nat /\ d.window \in Nat
      BY <2>5, GroupedIsFound
    <3>2. i \in found
      BY <3>1, <2>2
    <3>3. 2 * i.start <= t.end /\ t.start <= 2 * i.end
      BY <3>1, <2>1, <2>5
    <3> QED
      BY <3>1, <3>2, <3>3, <2>3
  <2>6. CASE Matches(t, found) = {}
    <3>1. \A d \in touching : Grouped(d) => 2 * d.window < t.start
      <4> SUFFICES ASSUME NEW d \in touching, Grouped(d), ~(2 * d.window < t.start) PROVE FALSE
        OBVIOUS
      <4>1. d.window \in Nat
        BY RecentIn
      <4>2. t.start <= 2 * d.window
        BY <4>1, <2>1
      <4> QED
        BY <4>2, <2>5, <2>6
    <3> QED
      BY <3>1, <2>4, <2>6 DEF found
  <2>7. CASE Matches(t, found) # {}
    <3>1. PICK i \in Matches(t, found) : TRUE
      BY <2>7
    <3>2. i \in found /\ 2 * i.start <= t.end /\ t.start <= 2 * i.end
      BY <2>3
    <3>3. touching # {}
      <4>1. PICK w \in i.start..i.end : 2 * w <= t.end /\ t.start <= 2 * (w + 1)
        BY <3>2, <2>1, <2>2, TouchedWindow
      <4>2. PICK d \in detections : d.key = k /\ d.window = w
        BY <3>2, <2>2
      <4> QED
        BY <4>1, <4>2
    <3>4. ASSUME NEW d \in touching, Grouped(d), t.start <= 2 * d.window
          PROVE  DetectionLatency(t, found) <= 2 * (d.window + 1) - t.start
      <4>1. PICK j \in Matches(t, found) : j.start <= d.window /\ d.window \in Nat
        BY <3>4, <2>5
      <4> QED
        BY <4>1, <3>4, <2>1, <2>2, LatencyBound
    <3>5. ASSUME NEW j \in Matches(t, found), ~Derived(j) PROVE k \in FoundKeys({t}, found)
      <4>1. j \in found /\ j.key = k /\ OverlapsTrue(j, t)
        BY <2>2 DEF Matches
      <4> QED
        BY <4>1, <3>5 DEF FoundKeys
    <3> QED
      BY <3>3, <3>4, <3>5, <2>4, <2>7 DEF found
  <2> QED
    BY <2>6, <2>7
<1> QED
  BY <1>1, Inductive, PTL
=============================================================================
