----------------------------- MODULE WindowsProofs -----------------------------
(***************************************************************************)
(* Theorems about Windows, for every width of the windows, watermark and   *)
(* late-check interval, any spans, any crashes and any number of inserts.  *)
(*                                                                         *)
(* That the cursor is sound is not inductive: it needs to know that what   *)
(* is due is a run of closed windows that starts at the cursor (TrackerInv)*)
(* and that no window at or past the cursor was read before (ReadsInv);    *)
(* a restarted tracker is safe because only closed windows were read and   *)
(* the window the clock is in is not closed.                               *)
(***************************************************************************)
EXTENDS Windows, TLAPS

-----------------------------------------------------------------------------
(* Arithmetic of windows *)

\* Every time lies in the window of its index (windowing.py:26-36).
LEMMA IndexOfTime ==
    ASSUME NEW t \in Nat
    PROVE  /\ WindowIndex(t) \in Nat /\ WindowIndex(t) <= t
           /\ StartOf(WindowIndex(t)) <= t /\ t < EndOf(WindowIndex(t))
BY WindowsAssumption, SMTT(30) DEF WindowIndex, StartOf, EndOf

\* The bounds of windows are whole numbers, and windows adjoin.
LEMMA BoundsAdjoin ==
    ASSUME NEW w \in Nat
    PROVE  /\ StartOf(w) \in Nat /\ EndOf(w) \in Nat
           /\ EndOf(w) = StartOf(w + 1) /\ StartOf(w) < EndOf(w)
BY WindowsAssumption, SMTT(30) DEF StartOf, EndOf

\* Windows are in the order of their indices.
LEMMA BoundsOrdered ==
    ASSUME NEW v \in Nat, NEW w \in Nat, v < w
    PROVE  EndOf(v) <= StartOf(w)
BY WindowsAssumption, SMTT(30) DEF StartOf, EndOf

\* A window that has ended is before the one the time is in.
LEMMA EndedIsBefore ==
    ASSUME NEW w \in Nat, NEW t \in Nat, EndOf(w) <= t
    PROVE  w < WindowIndex(t)
<1>1. CASE w = WindowIndex(t)
  BY <1>1, IndexOfTime, BoundsAdjoin
<1>2. CASE WindowIndex(t) < w
  <2>1. EndOf(WindowIndex(t)) <= StartOf(w)
    BY <1>2, IndexOfTime, BoundsOrdered
  <2> QED BY <2>1, IndexOfTime, BoundsAdjoin
<1> QED BY <1>1, <1>2, IndexOfTime

\* A later time is in no earlier window.
LEMMA IndexMonotone ==
    ASSUME NEW s \in Nat, NEW t \in Nat, s <= t
    PROVE  WindowIndex(s) <= WindowIndex(t)
<1>1. CASE WindowIndex(t) < WindowIndex(s)
  <2>1. EndOf(WindowIndex(t)) <= StartOf(WindowIndex(s))
    BY <1>1, IndexOfTime, BoundsOrdered
  <2> QED BY <2>1, IndexOfTime, BoundsAdjoin
<1> QED BY <1>1, IndexOfTime

\* The due test is a bound on the index (windowing.py:69).
LEMMA DueIsBefore ==
    ASSUME NEW now \in Nat
    PROVE  \E q \in 0..now : \A w \in Nat : IsDue(w, now) <=> w < q
<1> USE WindowsAssumption
<1>1. CASE now < WatermarkSeconds
  <2>1. ASSUME NEW w \in Nat PROVE ~IsDue(w, now)
    BY <1>1, BoundsAdjoin DEF IsDue
  <2> QED BY <2>1
<1>2. CASE WatermarkSeconds <= now
  <2> DEFINE t == now - WatermarkSeconds
  <2>1. t \in Nat /\ t <= now
    BY <1>2
  <2>2. WindowIndex(t) \in 0..now
    BY <2>1, IndexOfTime
  <2>3. ASSUME NEW w \in Nat PROVE IsDue(w, now) <=> w < WindowIndex(t)
    <3>1. IsDue(w, now) <=> EndOf(w) <= t
      BY <1>2, BoundsAdjoin DEF IsDue
    <3>2. EndOf(w) <= t => w < WindowIndex(t)
      BY <2>1, EndedIsBefore
    <3>3. w < WindowIndex(t) => EndOf(w) <= t
      <4> HAVE w < WindowIndex(t)
      <4>1. EndOf(w) <= StartOf(WindowIndex(t))
        BY <2>1, IndexOfTime, BoundsOrdered
      <4> QED BY <4>1, <2>1, IndexOfTime, BoundsAdjoin
    <3> QED BY <3>1, <3>2, <3>3
  <2> QED BY <2>2, <2>3
<1> QED BY <1>1, <1>2

\* due_windows returns closed windows, in order from the cursor on
\* (windowing.py:66-72).
LEMMA DueFromCursor ==
    ASSUME NEW index \in Nat, NEW now \in 0..MaxTime
    PROVE  /\ DueFrom(index, now) \in Seq(Windows)
           /\ \A i \in 1..Len(DueFrom(index, now)) :
                /\ DueFrom(index, now)[i] = index + i - 1
                /\ IsDue(index + i - 1, now)
<1> USE WindowsAssumption
<1> DEFINE P(k) == /\ \A j \in 0..k - 1 : IsDue(index + j, now)
                   /\ ~IsDue(index + k, now)
           n == CHOOSE k \in 0..MaxTime + 1 : P(k)
<1>0. now \in Nat /\ MaxTime \in Nat
  OBVIOUS
<1>1. PICK q \in 0..now : \A w \in Nat : IsDue(w, now) <=> w < q
  BY <1>0, DueIsBefore
<1>2. \E k \in 0..MaxTime + 1 : P(k)
  <2> DEFINE k == IF index < q THEN q - index ELSE 0
  <2>1. k \in 0..MaxTime + 1
    BY <1>1
  <2>2. ~IsDue(index + k, now)
    BY <1>0, <1>1
  <2>3. \A j \in 0..k - 1 : IsDue(index + j, now)
    BY <1>0, <1>1
  <2>4. P(k)
    BY <2>2, <2>3
  <2> HIDE DEF P, k
  <2> QED BY <2>1, <2>4
<1>3. n \in 0..MaxTime + 1 /\ P(n)
  BY <1>2
<1>4. DueFrom(index, now) = [j \in 1..n |-> index + j - 1]
  BY DEF DueFrom
<1> HIDE DEF n
<1>5. ASSUME NEW i \in 1..n
      PROVE  IsDue(index + i - 1, now) /\ index + i - 1 \in Windows
  <2>0. i - 1 \in 0..n - 1 /\ index + (i - 1) = index + i - 1
    BY <1>3
  <2>1. IsDue(index + i - 1, now)
    BY <1>3, <2>0
  <2>2. index + (i - 1) = index + i - 1 /\ index + i - 1 \in Nat
    BY <1>3
  <2>3. EndOf(index + i - 1) <= now
    <3> DEFINE w == index + i - 1
    <3>1. w \in Nat /\ IsDue(w, now)
      BY <2>1, <2>2
    <3> HIDE DEF w
    <3>2. EndOf(w) <= now
      BY <1>0, <3>1, BoundsAdjoin DEF IsDue
    <3> QED BY <3>2 DEF w
  <2>4. index + i - 1 < WindowIndex(now)
    BY <2>2, <2>3, EndedIsBefore
  <2>5. WindowIndex(now) <= WindowIndex(MaxTime)
    BY IndexMonotone
  <2> QED BY <2>1, <2>2, <2>4, <2>5, IndexOfTime DEF Windows
<1> HIDE DEF P
<1>6. DueFrom(index, now) \in Seq(Windows) /\ Len(DueFrom(index, now)) = n
  <2>1. \A i \in 1..n : index + i - 1 \in Windows
    BY <1>5
  <2>2. n \in Nat
    BY <1>3
  <2>3. DueFrom(index, now) \in [1..n -> Windows]
    BY <1>4, <2>1
  <2> QED BY <2>2, <2>3
<1> QED BY <1>4, <1>5, <1>6

\* The rows of a window are the spans with its index.
LEMMA SpansOfIndex ==
    ASSUME NEW w \in Nat, NEW s \in Stored, Start[s] \in Nat
    PROVE  s \in SpansOf(w) <=> WindowIndex(Start[s]) = w
<1> DEFINE v == WindowIndex(Start[s])
<1>1. v \in Nat /\ StartOf(v) <= Start[s] /\ Start[s] < EndOf(v)
  BY IndexOfTime
<1>2. v < w => EndOf(v) <= StartOf(w)
  BY <1>1, BoundsOrdered
<1>3. w < v => EndOf(w) <= StartOf(v)
  BY <1>1, BoundsOrdered
<1>4. StartOf(w) \in Nat /\ EndOf(w) \in Nat /\ StartOf(v) \in Nat /\ EndOf(v) \in Nat
  BY <1>1, BoundsAdjoin
<1> HIDE DEF v
<1>5. s \in SpansOf(w) <=> StartOf(w) <= Start[s] /\ Start[s] < EndOf(w)
  BY DEF SpansOf
<1>6. s \in SpansOf(w) <=> v = w
  BY <1>1, <1>2, <1>3, <1>4, <1>5
<1> QED BY <1>6 DEF v

-----------------------------------------------------------------------------
(* The inductive invariant *)

Closed(w) == EndOf(w) + WatermarkSeconds <= clock

\* What is due is a run of closed windows from the cursor on, and only while
\* windows are processed.
TrackerInv ==
    /\ nextIndex = NoIndex <=> first = NoIndex
    /\ nextIndex # NoIndex => first <= nextIndex
    /\ pc \in {"read", "insert", "cursor", "late", "wait"} => nextIndex # NoIndex
    /\ pc = "down" => nextIndex = NoIndex
    /\ pc \in {"read", "insert"} <=> due # <<>>
    /\ \A i \in 1..Len(due) : due[i] = nextIndex + i - 1 /\ Closed(due[i])

\* Only closed windows were read, and those at or past the cursor only now.
ReadsInv ==
    /\ \A w \in Windows : reads[w] > 0 => Closed(w)
    /\ \A w \in Windows : (nextIndex # NoIndex /\ nextIndex <= w) =>
            reads[w] = IF w = nextIndex /\ pc = "insert" THEN 1 ELSE 0

\* Who else a span that is not behind the cursor yet belongs to.
SpanInv ==
    /\ nextIndex = NoIndex => Stored \subseteq seen \cup counted \cup fresh \cup missed
    /\ pc = "down" => Stored \subseteq seen \cup counted \cup missed
    /\ pc = "cursor" => \A s \in Stored : Behind(s) => s \in seen \cup counted \cup missed
    /\ pc = "insert" => SpansOf(nextIndex) \subseteq seen \cup fresh

IInv ==
    /\ TypeOK
    /\ TrackerInv
    /\ NoGapBehindCursor
    /\ ReadAtMostOnce /\ ReadsInv
    /\ OnTimeIsSeen /\ NothingElseMissed /\ SpanInv

-----------------------------------------------------------------------------
(* It is inductive *)

\* The invariant holds when the analyzer first starts.
LEMMA InitInv == Init => IInv
<1> SUFFICES ASSUME Init PROVE IInv
  OBVIOUS
<1> USE WindowsAssumption
<1>1. TypeOK
  <2>1. due = <<>> /\ <<>> \in Seq(Windows)
    BY DEF Init
  <2>2. clock \in 0..MaxTime /\ lateMono \in 0..MaxTime /\ stop \in BOOLEAN /\ crashes \in 0..MaxCrashes
    <3>1. clock \in 0..MaxTime /\ lateMono = 0 /\ stop = FALSE /\ crashes = 0
      BY DEF Init
    <3>2. 0 \in 0..MaxTime /\ 0 \in 0..MaxCrashes
      OBVIOUS
    <3> QED BY <3>1, <3>2
  <2>3. ingests \in [Spans -> 0..MaxIngests] /\ arrived \in [Spans -> 0..MaxTime]
    BY DEF Init
  <2>4. written \in [Windows -> 0..Inserts] /\ reads \in [Windows -> Nat]
    BY DEF Init
  <2>5. fresh \subseteq Spans /\ missed \subseteq Spans /\ seen \subseteq Spans /\ counted \subseteq Spans
    BY DEF Init
  <2>6. nextIndex = NoIndex /\ first = NoIndex /\ pc = "loop"
    BY DEF Init
  <2> QED BY <2>1, <2>2, <2>3, <2>4, <2>5, <2>6 DEF TypeOK
<1>2. Stored = {}
  BY DEF Init, Stored
<1>3. TrackerInv /\ NoGapBehindCursor /\ ReadAtMostOnce /\ ReadsInv
  BY DEF Init, TrackerInv, NoGapBehindCursor, ReadAtMostOnce, ReadsInv, NoIndex
<1>4. OnTimeIsSeen /\ NothingElseMissed /\ SpanInv
  BY <1>2 DEF Init, OnTimeIsSeen, NothingElseMissed, SpanInv, Behind
<1> QED BY <1>1, <1>3, <1>4 DEF IInv

\* The cursor, once set, is an index of a window no later than the clock's.
LEMMA CursorType ==
    ASSUME IInv, nextIndex # NoIndex
    PROVE  nextIndex \in Nat /\ nextIndex <= WindowIndex(clock) /\ clock \in Nat /\ first \in Nat
<1>1. clock \in Nat
  BY WindowsAssumption DEF IInv, TypeOK
<1>2. WindowIndex(clock) \in Nat
  BY <1>1, IndexOfTime
<1> QED BY <1>1, <1>2 DEF IInv, TypeOK, TrackerInv

\* The cursor's window while windows are processed.
LEMMA HeadIsCursor ==
    ASSUME IInv, pc \in {"read", "insert"}
    PROVE  /\ nextIndex \in Windows /\ nextIndex \in Nat /\ Head(due) = nextIndex
           /\ Closed(nextIndex)
<1>1. due \in Seq(Windows) /\ due # <<>>
  BY DEF IInv, TypeOK, TrackerInv
<1>2. Len(due) \in Nat /\ 1 \in 1..Len(due) /\ Head(due) = due[1] /\ due[1] \in Windows
  BY <1>1
<1>3. nextIndex \in Nat
  BY CursorType DEF IInv, TrackerInv
<1>4. due[1] = nextIndex + 1 - 1 /\ Closed(due[1])
  BY <1>2 DEF IInv, TrackerInv
<1> QED BY <1>2, <1>3, <1>4

\* The set of windows is a set of naturals.
LEMMA WindowsAreNat == Windows \subseteq Nat
BY WindowsAssumption, IndexOfTime DEF Windows

\* What due_windows computes in a step.
LEMMA DueStep ==
    ASSUME IInv, DueWindows
    PROVE  /\ nextIndex' \in Nat /\ first' \in Nat /\ first' <= nextIndex'
           /\ nextIndex' <= WindowIndex(clock)
           /\ due' \in Seq(Windows)
           /\ \A i \in 1..Len(due') : due'[i] = nextIndex' + i - 1 /\ Closed(due'[i])
           /\ nextIndex # NoIndex => nextIndex' = nextIndex /\ first' = first
           /\ nextIndex = NoIndex => nextIndex' = WindowIndex(clock) /\ first' = nextIndex'
<1>1. clock \in 0..MaxTime /\ clock \in Nat
  BY WindowsAssumption DEF IInv, TypeOK
<1>2. WindowIndex(clock) \in Nat
  BY <1>1, IndexOfTime
<1>3. /\ nextIndex # NoIndex => nextIndex' = nextIndex /\ first' = first
      /\ nextIndex = NoIndex => nextIndex' = WindowIndex(clock) /\ first' = nextIndex'
      /\ due' = DueFrom(nextIndex', clock)
  BY DEF DueWindows, FirstIndex
<1>4. nextIndex' \in Nat /\ first' \in Nat /\ first' <= nextIndex' /\ nextIndex' <= WindowIndex(clock)
  <2>1. CASE nextIndex = NoIndex
    BY <2>1, <1>2, <1>3
  <2>2. CASE nextIndex # NoIndex
    BY <2>2, <1>3, CursorType DEF IInv, TrackerInv
  <2> QED BY <2>1, <2>2
<1> DEFINE index == nextIndex'
<1>5. index \in Nat
  BY <1>4
<1> HIDE DEF index
<1>6. /\ DueFrom(index, clock) \in Seq(Windows)
      /\ \A i \in 1..Len(DueFrom(index, clock)) :
           /\ DueFrom(index, clock)[i] = index + i - 1
           /\ IsDue(index + i - 1, clock)
  BY <1>1, <1>5, DueFromCursor
<1>7. ASSUME NEW w, IsDue(w, clock), w \in Nat PROVE Closed(w)
  BY <1>7, <1>1, BoundsAdjoin, WindowsAssumption DEF IsDue, Closed
<1>8. \A i \in 1..Len(DueFrom(index, clock)) : Closed(DueFrom(index, clock)[i])
  <2> SUFFICES ASSUME NEW i \in 1..Len(DueFrom(index, clock))
               PROVE  Closed(DueFrom(index, clock)[i])
    OBVIOUS
  <2> DEFINE w == index + i - 1
  <2>1. DueFrom(index, clock)[i] = w /\ IsDue(w, clock)
    BY <1>6
  <2>2. w \in Nat
    BY <1>5, <1>6
  <2> HIDE DEF w
  <2> QED BY <2>1, <2>2, <1>7
<1> QED BY <1>3, <1>4, <1>6, <1>8 DEF index

\* The set of stored spans grows only by an insert.
LEMMA StoredStep ==
    ASSUME TypeOK
    PROVE  /\ UNCHANGED ingests => UNCHANGED Stored /\ \A w : UNCHANGED SpansOf(w)
           /\ \A s \in Spans : Ingest(s) => Stored' = Stored \cup {s}
<1>1. UNCHANGED ingests => UNCHANGED Stored /\ \A w : UNCHANGED SpansOf(w)
  BY DEF Stored, SpansOf
<1>2. ASSUME NEW s \in Spans, Ingest(s) PROVE Stored' = Stored \cup {s}
  BY <1>2, WindowsAssumption DEF Stored, Ingest, TypeOK
<1> QED BY <1>1, <1>2

\* TypeOK is inductive.
LEMMA TypeStep == IInv /\ [Next]_vars => TypeOK'
<1> SUFFICES ASSUME IInv, [Next]_vars PROVE TypeOK'
  OBVIOUS
<1> USE WindowsAssumption
<1>0. TypeOK
  BY DEF IInv
<1>1. clock' \in 0..MaxTime /\ clock <= clock' /\ clock \in Nat
  BY <1>0, SMTT(30) DEF TypeOK, Next, Loop, vars, Tick, Ingest, Signal, Exit, DueWindows, Read, Insert,
                MarkProcessed, LateQuery, NoLateCheckYet, MoveCursor, Wake, Crash, Restart
<1>2. lateMono' \in 0..MaxTime /\ stop' \in BOOLEAN /\ crashes' \in 0..MaxCrashes
      /\ pc' \in {"down", "loop", "read", "insert", "late", "cursor", "wait", "done"}
  <2>1. /\ clock \in 0..MaxTime /\ lateMono \in 0..MaxTime /\ stop \in BOOLEAN
        /\ crashes \in 0..MaxCrashes
        /\ pc \in {"down", "loop", "read", "insert", "late", "cursor", "wait", "done"}
    BY <1>0 DEF TypeOK
  <2>2. lateMono' \in {lateMono, clock, 0} /\ stop' \in {stop, TRUE, FALSE}
        /\ (crashes' = crashes \/ (crashes < MaxCrashes /\ crashes' = crashes + 1))
    BY DEF Next, Loop, vars, Tick, Ingest, Signal, Exit, DueWindows, Read, Insert,
           MarkProcessed, LateQuery, NoLateCheckYet, MoveCursor, Wake, Crash, Restart
  <2>3. pc' \in {pc, "down", "loop", "read", "insert", "late", "cursor", "wait", "done"}
    BY DEF Next, Loop, vars, Tick, Ingest, Signal, Exit, DueWindows, Read, Insert,
           MarkProcessed, LateQuery, NoLateCheckYet, MoveCursor, Wake, Crash, Restart
  <2>4. lateMono' \in 0..MaxTime /\ stop' \in BOOLEAN /\ crashes' \in 0..MaxCrashes
    <3>1. MaxTime \in Nat /\ MaxCrashes \in Nat
      OBVIOUS
    <3>2. 0 \in 0..MaxTime
      BY <3>1
    <3>3. lateMono' \in 0..MaxTime /\ stop' \in BOOLEAN
      BY <2>1, <2>2, <3>2
    <3>4. crashes' \in 0..MaxCrashes
      BY <2>1, <2>2, <3>1
    <3> QED BY <3>3, <3>4
  <2> QED BY <2>1, <2>3, <2>4
<1>3. ingests' \in [Spans -> 0..MaxIngests] /\ arrived' \in [Spans -> 0..MaxTime]
  <2>1. CASE \E s \in Spans : Ingest(s)
    <3>1. PICK s \in Spans : Ingest(s)
      BY <2>1
    <3>2. /\ ingests[s] \in 0..MaxIngests /\ ingests[s] < MaxIngests
          /\ ingests' = [ingests EXCEPT ![s] = @ + 1]
      BY <3>1, <1>0 DEF Ingest, TypeOK
    <3>3. ingests[s] + 1 \in 0..MaxIngests
      BY <3>2
    <3>4. arrived' \in {arrived, [arrived EXCEPT ![s] = clock]}
      BY <3>1 DEF Ingest
    <3> QED BY <3>2, <3>3, <3>4, <1>0 DEF TypeOK
  <2>2. CASE UNCHANGED storeVars
    BY <2>2, <1>0 DEF storeVars, TypeOK
  <2>3. (\E s \in Spans : Ingest(s)) \/ UNCHANGED storeVars
    BY DEF Next, Loop, vars, storeVars, Tick, Signal, Exit, DueWindows, Read, Insert,
           MarkProcessed, LateQuery, NoLateCheckYet, MoveCursor, Wake, Crash, Restart
  <2> QED BY <2>1, <2>2, <2>3
<1>4. /\ fresh' \subseteq Spans /\ missed' \subseteq Spans
      /\ seen' \subseteq Spans /\ counted' \subseteq Spans
  BY <1>0, SMTT(30) DEF TypeOK, Next, Loop, vars, Tick, Ingest, Signal, Exit, DueWindows, Read, Insert,
                MarkProcessed, LateQuery, NoLateCheckYet, MoveCursor, Wake, Crash, Restart,
                outputVars, Stored, SpansOf, Late
<1>5. CASE DueWindows
  <2>1. /\ nextIndex' \in {NoIndex} \cup (0..WindowIndex(clock'))
        /\ first' \in {NoIndex} \cup Nat /\ due' \in Seq(Windows)
    BY <1>5, <1>1, DueStep, IndexOfTime DEF DueWindows
  <2>2. written' \in [Windows -> 0..Inserts] /\ reads' \in [Windows -> Nat]
    BY <1>0, <1>5 DEF DueWindows, outputVars, TypeOK
  <2> QED BY <1>1, <1>2, <1>3, <1>4, <2>1, <2>2 DEF TypeOK
<1>6. CASE Read
  <2>1. written' \in [Windows -> 0..Inserts] /\ reads' \in [Windows -> Nat]
    BY <1>0, <1>6, HeadIsCursor DEF Read, TypeOK
  <2>2. UNCHANGED <<nextIndex, first, due, clock>>
    BY <1>6 DEF Read, trackerVars
  <2> QED BY <1>0, <1>1, <1>2, <1>3, <1>4, <2>1, <2>2 DEF TypeOK
<1>7. CASE Insert
  <2>1. written' \in [Windows -> 0..Inserts] /\ reads' \in [Windows -> Nat]
    BY <1>0, <1>7, HeadIsCursor DEF Insert, TypeOK
  <2>2. UNCHANGED <<nextIndex, first, due, clock>>
    BY <1>7 DEF Insert, trackerVars
  <2> QED BY <1>0, <1>1, <1>2, <1>3, <1>4, <2>1, <2>2 DEF TypeOK
<1>8. CASE MarkProcessed
  <2>1. pc = "insert" /\ nextIndex' = nextIndex + 1 /\ first' = first /\ due' = Tail(due)
    BY <1>8, HeadIsCursor DEF MarkProcessed
  <2>2. nextIndex \in Nat /\ nextIndex < WindowIndex(clock)
    <3>1. nextIndex \in Nat /\ EndOf(nextIndex) <= clock
      <4>1. nextIndex \in Nat /\ Closed(nextIndex)
        BY <2>1, HeadIsCursor
      <4>2. EndOf(nextIndex) \in Nat
        BY <4>1, BoundsAdjoin
      <4> QED BY <4>1, <4>2, <1>1 DEF Closed
    <3> QED BY <3>1, <1>1, EndedIsBefore
  <2>3. nextIndex' \in {NoIndex} \cup (0..WindowIndex(clock'))
    BY <2>1, <2>2, <1>1, <1>8, IndexOfTime DEF MarkProcessed
  <2>4. due' \in Seq(Windows)
    BY <1>0, <2>1 DEF TypeOK, IInv, TrackerInv
  <2>5. written' \in [Windows -> 0..Inserts] /\ reads' \in [Windows -> Nat]
    BY <1>0, <1>8 DEF MarkProcessed, outputVars, TypeOK
  <2>6. first' \in {NoIndex} \cup Nat
    BY <1>0, <2>1 DEF TypeOK
  <2> QED BY <1>1, <1>2, <1>3, <1>4, <2>3, <2>4, <2>5, <2>6 DEF TypeOK
<1>9. CASE Crash
  <2>1. due' = <<>> /\ nextIndex' = NoIndex /\ first' = NoIndex /\ written' = written /\ reads' = reads
    BY <1>9 DEF Crash, outputVars
  <2>2. due' \in Seq(Windows)
    BY <2>1
  <2> QED BY <1>0, <1>1, <1>2, <1>3, <1>4, <2>1, <2>2 DEF TypeOK
<1>10. CASE \/ Tick \/ Signal \/ \E s \in Spans : Ingest(s)
            \/ Exit \/ LateQuery \/ NoLateCheckYet \/ MoveCursor \/ Wake \/ Restart \/ UNCHANGED vars
  <2>1. UNCHANGED <<due, nextIndex, first, written, reads>>
    BY <1>10 DEF Tick, Signal, Ingest, Exit, LateQuery, NoLateCheckYet, MoveCursor, Wake, Restart,
                 vars, trackerVars, outputVars
  <2>2. nextIndex \in {NoIndex} \cup (0..WindowIndex(clock'))
    <3>1. WindowIndex(clock) <= WindowIndex(clock') /\ WindowIndex(clock) \in Nat /\ WindowIndex(clock') \in Nat
      BY <1>1, IndexMonotone, IndexOfTime
    <3> QED BY <3>1, <1>0 DEF TypeOK
  <2> QED BY <1>0, <1>1, <1>2, <1>3, <1>4, <2>1, <2>2 DEF TypeOK
<1> QED BY <1>5, <1>6, <1>7, <1>8, <1>9, <1>10 DEF Next, Loop

\* The tracker's invariant is inductive (windowing.py:56-84).
LEMMA TrackerStep == IInv /\ [Next]_vars => TrackerInv' /\ NoGapBehindCursor'
<1> SUFFICES ASSUME IInv, [Next]_vars PROVE TrackerInv' /\ NoGapBehindCursor'
  OBVIOUS
<1> USE WindowsAssumption
<1>0. TypeOK /\ TrackerInv /\ NoGapBehindCursor
  BY DEF IInv
<1>1. CASE DueWindows
  <2>1. TrackerInv'
    <3>1. nextIndex' # NoIndex /\ first' # NoIndex /\ first' <= nextIndex' /\ clock' = clock
          /\ pc' \in {"late", "read"} /\ (pc' = "read" <=> due' # <<>>)
      BY <1>1, DueStep DEF NoIndex, DueWindows
    <3>2. \A i \in 1..Len(due') :
             due'[i] = nextIndex' + i - 1 /\ EndOf(due'[i]) + WatermarkSeconds <= clock'
      BY <1>1, <3>1, DueStep DEF Closed
    <3> QED BY <3>1, <3>2 DEF TrackerInv, Closed
  <2>2. NoGapBehindCursor'
    <3>1. CASE nextIndex = NoIndex
      <4>1. first' = nextIndex' /\ nextIndex' \in Nat
        BY <1>1, <3>1, DueStep
      <4> QED BY <4>1, WindowsAreNat DEF NoGapBehindCursor
    <3>2. CASE nextIndex # NoIndex
      <4>1. UNCHANGED <<first, nextIndex, written>>
        BY <1>1, <3>2, DueStep DEF DueWindows, outputVars
      <4> QED BY <4>1, <1>0 DEF NoGapBehindCursor
    <3> QED BY <3>1, <3>2
  <2> QED BY <2>1, <2>2
<1>2. CASE Read
  BY <1>2, <1>0 DEF Read, TrackerInv, NoGapBehindCursor, Closed, trackerVars
<1>3. CASE Insert
  <2>1. UNCHANGED <<pc, due, nextIndex, first, clock>> /\ pc = "insert"
        /\ written' = [written EXCEPT ![nextIndex] = @ + 1]
    BY <1>3, HeadIsCursor DEF Insert, trackerVars
  <2>2. TrackerInv'
    BY <2>1, <1>0 DEF TrackerInv, Closed
  <2>3. NoGapBehindCursor'
    BY <2>1, <1>0, HeadIsCursor, WindowsAreNat DEF NoGapBehindCursor, TypeOK
  <2> QED BY <2>2, <2>3
<1>4. CASE MarkProcessed
  <2>1. /\ pc = "insert" /\ nextIndex \in Nat /\ nextIndex \in Windows
        /\ nextIndex' = nextIndex + 1 /\ first' = first /\ due' = Tail(due)
        /\ clock' = clock /\ written' = written /\ written[nextIndex] = Inserts
        /\ ((pc' = "read" /\ due' # <<>>) \/ (pc' = "late" /\ due' = <<>>))
    BY <1>4, HeadIsCursor DEF MarkProcessed, outputVars
  <2>2. first \in Nat /\ first <= nextIndex
    BY <2>1, <1>0, CursorType DEF TrackerInv
  <2>3. \A i \in 1..Len(due') :
           due'[i] = nextIndex' + i - 1 /\ EndOf(due'[i]) + WatermarkSeconds <= clock'
    <3>1. due \in Seq(Windows) /\ due # <<>>
      BY <1>0, <2>1 DEF TypeOK, TrackerInv
    <3>2. Len(due') = Len(due) - 1 /\ Len(due) \in Nat /\ \A i \in 1..Len(due') : due'[i] = due[i + 1]
      BY <3>1, <2>1
    <3>3. \A i \in 1..Len(due) : due[i] = nextIndex + i - 1 /\ Closed(due[i])
      BY <1>0 DEF TrackerInv
    <3>4. ASSUME NEW i \in 1..Len(due')
          PROVE  due'[i] = nextIndex' + i - 1 /\ EndOf(due'[i]) + WatermarkSeconds <= clock'
      <4>1. i + 1 \in 1..Len(due) /\ due'[i] = due[i + 1] /\ i \in Nat
        BY <3>2
      <4>2. due[i + 1] = nextIndex + (i + 1) - 1 /\ Closed(due[i + 1])
        BY <4>1, <3>3
      <4>3. EndOf(due'[i]) + WatermarkSeconds <= clock'
        BY <4>1, <4>2, <2>1 DEF Closed
      <4>4. due'[i] = nextIndex' + i - 1
        BY <4>1, <4>2, <2>1
      <4> QED BY <4>3, <4>4
    <3> QED BY <3>4
  <2>4. TrackerInv'
    <3>1. nextIndex' # NoIndex /\ first' # NoIndex /\ first' <= nextIndex' /\ pc' \in {"read", "late"}
          /\ (pc' = "read" <=> due' # <<>>)
      BY <2>1, <2>2 DEF NoIndex
    <3> QED BY <3>1, <2>3 DEF TrackerInv, Closed
  <2>5. NoGapBehindCursor'
    BY <2>1, <1>0, WindowsAreNat DEF NoGapBehindCursor, NoIndex
  <2> QED BY <2>4, <2>5
<1>5. CASE Crash
  <2>1. due' = <<>> /\ nextIndex' = NoIndex /\ first' = NoIndex /\ pc' = "down"
    BY <1>5 DEF Crash
  <2>2. Len(due') = 0
    BY <2>1
  <2> QED BY <2>1, <2>2 DEF TrackerInv, NoGapBehindCursor
<1>6. CASE \/ Tick \/ Signal \/ \E s \in Spans : Ingest(s)
           \/ Exit \/ LateQuery \/ NoLateCheckYet \/ MoveCursor \/ Wake \/ Restart \/ UNCHANGED vars
  <2>1. UNCHANGED <<due, nextIndex, first, written>> /\ clock' \in Nat /\ clock <= clock'
    BY <1>6, <1>0 DEF Tick, Signal, Ingest, Exit, LateQuery, NoLateCheckYet, MoveCursor, Wake, Restart,
                 vars, trackerVars, outputVars, TypeOK
  <2>2. \/ pc' = pc
        \/ /\ pc \in {"loop", "late", "cursor", "wait", "down"} /\ pc' \in {"done", "cursor", "wait", "loop"}
           /\ pc' \in {"cursor", "wait"} => pc \in {"late", "cursor"}
    BY <1>6 DEF Tick, Signal, Ingest, Exit, LateQuery, NoLateCheckYet, MoveCursor, Wake, Restart, vars
  <2>3. NoGapBehindCursor'
    BY <2>1, <1>0 DEF NoGapBehindCursor
  <2>4. \A i \in 1..Len(due') :
           due'[i] = nextIndex' + i - 1 /\ EndOf(due'[i]) + WatermarkSeconds <= clock'
    <3> SUFFICES ASSUME NEW i \in 1..Len(due)
                 PROVE  due[i] = nextIndex + i - 1 /\ EndOf(due[i]) + WatermarkSeconds <= clock'
      BY <2>1
    <3>1. due[i] = nextIndex + i - 1 /\ EndOf(due[i]) + WatermarkSeconds <= clock
      BY <1>0 DEF TrackerInv, Closed
    <3>2. EndOf(due[i]) \in Nat
      <4>1. due \in Seq(Windows)
        BY <1>0 DEF TypeOK
      <4>2. due[i] \in Windows
        BY <4>1
      <4> QED BY <4>2, WindowsAreNat, BoundsAdjoin
    <3>3. clock \in Nat /\ WatermarkSeconds \in Nat
      BY <1>0 DEF TypeOK
    <3> QED BY <3>1, <3>2, <3>3, <2>1
  <2>5. TrackerInv'
    <3>1. /\ nextIndex' = NoIndex <=> first' = NoIndex
          /\ nextIndex' # NoIndex => first' <= nextIndex'
      BY <2>1, <1>0 DEF TrackerInv
    <3>2. /\ pc' \in {"read", "insert", "cursor", "late", "wait"} => nextIndex' # NoIndex
          /\ pc' = "down" => nextIndex' = NoIndex
          /\ pc' \in {"read", "insert"} <=> due' # <<>>
      BY <2>1, <2>2, <1>0 DEF TrackerInv
    <3> QED BY <3>1, <3>2, <2>4 DEF TrackerInv, Closed
  <2> QED BY <2>3, <2>5
<1> QED BY <1>1, <1>2, <1>3, <1>4, <1>5, <1>6 DEF Next, Loop

\* No window is read a second time (windowing.py:62-63, main.py:80).
LEMMA ReadsStep == IInv /\ [Next]_vars => ReadAtMostOnce' /\ ReadsInv'
<1> SUFFICES ASSUME IInv, [Next]_vars PROVE ReadAtMostOnce' /\ ReadsInv'
  OBVIOUS
<1> USE WindowsAssumption
<1>0. /\ ReadAtMostOnce /\ ReadsInv /\ TrackerInv
      /\ reads \in [Windows -> Nat] /\ clock \in Nat
  BY DEF IInv, TypeOK
<1>1. CASE Read
  <2>1. /\ pc = "read" /\ pc' = "insert" /\ nextIndex' = nextIndex /\ clock' = clock
        /\ nextIndex \in Windows /\ Closed(nextIndex) /\ nextIndex # NoIndex /\ nextIndex \in Nat
        /\ reads' = [reads EXCEPT ![nextIndex] = @ + 1]
    BY <1>1, <1>0, HeadIsCursor DEF Read, trackerVars, TrackerInv
  <2>2. reads[nextIndex] = 0
    BY <2>1, <1>0 DEF ReadsInv
  <2>3. ReadAtMostOnce'
    BY <2>1, <2>2, <1>0 DEF ReadAtMostOnce
  <2>4. \A w \in Windows : reads'[w] > 0 => Closed(w)'
    BY <2>1, <1>0 DEF ReadsInv, Closed
  <2>5. \A w \in Windows : nextIndex <= w => reads'[w] = IF w = nextIndex THEN 1 ELSE 0
    BY <2>1, <2>2, <1>0 DEF ReadsInv
  <2> QED BY <2>1, <2>3, <2>4, <2>5 DEF ReadsInv
<1>2. CASE DueWindows
  <2>1. reads' = reads /\ clock' = clock /\ pc' # "insert" /\ pc = "loop"
    BY <1>2 DEF DueWindows, outputVars
  <2>2. \A w \in Windows : nextIndex' <= w => reads[w] = 0
    <3>1. CASE nextIndex # NoIndex
      <4>1. nextIndex' = nextIndex
        BY <1>2, <3>1, DueStep
      <4> QED BY <4>1, <3>1, <2>1, <1>0 DEF ReadsInv
    <3>2. CASE nextIndex = NoIndex
      <4>1. nextIndex' = WindowIndex(clock)
        BY <1>2, <3>2, DueStep
      <4>2. ASSUME NEW w \in Windows, WindowIndex(clock) <= w, reads[w] > 0 PROVE FALSE
        <5>1. w \in Nat /\ EndOf(w) \in Nat /\ EndOf(w) <= clock
          BY <4>2, <1>0, WindowsAreNat, BoundsAdjoin DEF ReadsInv, Closed
        <5>2. w < WindowIndex(clock)
          BY <5>1, <1>0, EndedIsBefore
        <5> QED BY <5>1, <5>2, <4>2, <1>0, IndexOfTime
      <4>3. \A w \in Windows : nextIndex' <= w => ~(reads[w] > 0)
        BY <4>1, <4>2
      <4> QED BY <4>3, <1>0
    <3> QED BY <3>1, <3>2
  <2> QED BY <2>1, <2>2, <1>0 DEF ReadAtMostOnce, ReadsInv, Closed
<1>3. CASE MarkProcessed
  <2>1. /\ reads' = reads /\ clock' = clock /\ pc' # "insert" /\ pc = "insert"
        /\ nextIndex \in Nat /\ nextIndex' = nextIndex + 1 /\ nextIndex # NoIndex
    BY <1>3, <1>0, HeadIsCursor DEF MarkProcessed, outputVars, TrackerInv
  <2>2. \A w \in Windows : nextIndex + 1 <= w => reads[w] = 0
    BY <2>1, <1>0, WindowsAreNat DEF ReadsInv
  <2> QED BY <2>1, <2>2, <1>0 DEF ReadAtMostOnce, ReadsInv, Closed
<1>4. CASE Crash
  BY <1>4, <1>0 DEF Crash, outputVars, ReadAtMostOnce, ReadsInv, Closed
<1>5. CASE \/ Tick \/ Signal \/ (\E s \in Spans : Ingest(s)) \/ Exit \/ Insert
           \/ LateQuery \/ NoLateCheckYet \/ MoveCursor \/ Wake \/ Restart \/ UNCHANGED vars
  <2>1. UNCHANGED <<reads, nextIndex>> /\ clock' \in Nat /\ clock <= clock'
        /\ (pc = "insert" <=> pc' = "insert")
    BY <1>5, <1>0 DEF Tick, Signal, Ingest, Exit, Insert, LateQuery, NoLateCheckYet, MoveCursor,
                      Wake, Restart, vars, trackerVars, outputVars
  <2>2. \A w \in Windows : Closed(w) => Closed(w)'
    BY <2>1, <1>0, WindowsAreNat, BoundsAdjoin DEF Closed
  <2> QED BY <2>1, <2>2, <1>0 DEF ReadAtMostOnce, ReadsInv
<1> QED BY <1>1, <1>2, <1>3, <1>4, <1>5 DEF Next, Loop

\* Where a span's start is.
LEMMA StartsAreNat == \A s \in Spans : Start[s] \in Nat /\ WindowIndex(Start[s]) \in Windows
<1> SUFFICES ASSUME NEW s \in Spans PROVE Start[s] \in Nat /\ WindowIndex(Start[s]) \in Windows
  OBVIOUS
<1>1. Start[s] \in Nat /\ Start[s] <= MaxTime /\ MaxTime \in Nat
  BY WindowsAssumption
<1> QED BY <1>1, IndexMonotone, IndexOfTime DEF Windows

\* An insert by the writer keeps the accounts of all spans (main.py:67-72).
LEMMA IngestSpans ==
    ASSUME IInv, NEW s \in Spans, Ingest(s)
    PROVE  (OnTimeIsSeen /\ NothingElseMissed /\ SpanInv)'
<1> USE WindowsAssumption
<1>0. /\ TypeOK /\ TrackerInv /\ ReadsInv /\ OnTimeIsSeen /\ NothingElseMissed /\ SpanInv
  BY DEF IInv
<1>1. /\ UNCHANGED <<clock, pc, nextIndex, seen, counted, reads>>
      /\ fresh' = fresh \cup {s} /\ missed \ {s} \subseteq missed'
      /\ (pc \in {"cursor", "down"} => missed' = missed \cup {s})
  BY DEF Ingest, trackerVars, outputVars
<1>2. Stored' = Stored \cup {s}
  BY <1>0, StoredStep
<1>3. OnTimeIsSeen'
  <2> SUFFICES ASSUME NEW r \in Spans, ingests'[r] > 0, reads[WindowIndex(Start[r])] > 0,
                      arrived'[r] < EndOf(WindowIndex(Start[r])) + WatermarkSeconds
               PROVE  r \in seen
    BY <1>1 DEF OnTimeIsSeen
  <2>1. WindowIndex(Start[r]) \in Windows /\ WindowIndex(Start[r]) \in Nat
    BY StartsAreNat, WindowsAreNat
  <2>2. CASE r = s /\ ingests[s] = 0
    <3>1. arrived'[r] = clock
      BY <2>2, <1>0 DEF Ingest, TypeOK
    <3>2. Closed(WindowIndex(Start[r]))
      BY <2>1, <1>0 DEF ReadsInv
    <3>3. EndOf(WindowIndex(Start[r])) \in Nat /\ clock \in Nat /\ WatermarkSeconds \in Nat
      <4>1. EndOf(WindowIndex(Start[r])) \in Nat
        BY <2>1, BoundsAdjoin
      <4>2. clock \in Nat
        BY <1>0 DEF TypeOK
      <4> QED BY <4>1, <4>2
    <3>4. EndOf(WindowIndex(Start[r])) + WatermarkSeconds <= clock
      BY <3>2 DEF Closed
    <3>5. clock < EndOf(WindowIndex(Start[r])) + WatermarkSeconds
      BY <3>1
    <3> QED BY <3>3, <3>4, <3>5
  <2>3. CASE r # s \/ ingests[s] # 0
    <3>1. ingests[r] > 0 /\ arrived'[r] = arrived[r]
      BY <2>3, <1>0 DEF Ingest, TypeOK
    <3> QED BY <3>1, <2>1, <1>0 DEF OnTimeIsSeen
  <2> QED BY <2>2, <2>3
<1>4. NothingElseMissed'
  BY <1>0, <1>1, <1>2 DEF NothingElseMissed, Behind
<1>5. pc = "insert" => SpansOf(nextIndex)' \subseteq SpansOf(nextIndex) \cup {s}
  BY <1>1, <1>2 DEF SpansOf
<1>6. SpanInv'
  BY <1>0, <1>1, <1>2, <1>5 DEF SpanInv, Behind
<1> QED BY <1>3, <1>4, <1>6

\* Steps of the loop and crashes keep them too.
LEMMA LoopSpans ==
    ASSUME IInv, Loop \/ Crash \/ Restart
    PROVE  (OnTimeIsSeen /\ NothingElseMissed /\ SpanInv)'
<1> USE WindowsAssumption
<1>0. /\ TypeOK /\ TrackerInv /\ ReadsInv /\ OnTimeIsSeen /\ NothingElseMissed /\ SpanInv
  BY DEF IInv
<1>1. UNCHANGED <<ingests, arrived>>
  BY DEF Loop, Exit, DueWindows, Read, Insert, MarkProcessed, LateQuery, NoLateCheckYet,
         MoveCursor, Wake, Crash, Restart, storeVars
<1>2. UNCHANGED Stored /\ \A w : UNCHANGED SpansOf(w)
  BY <1>0, <1>1, StoredStep
<1>3. CASE Read
  <2>1. /\ pc = "read" /\ pc' = "insert" /\ nextIndex \in Nat /\ nextIndex \in Windows
        /\ UNCHANGED <<nextIndex, counted, fresh, missed>> /\ nextIndex # NoIndex
        /\ seen' = seen \cup SpansOf(nextIndex)
        /\ reads' = [reads EXCEPT ![nextIndex] = @ + 1]
    BY <1>3, <1>0, HeadIsCursor DEF Read, trackerVars, TrackerInv
  <2>2. OnTimeIsSeen'
    <3> SUFFICES ASSUME NEW r \in Spans, ingests[r] > 0, reads'[WindowIndex(Start[r])] > 0,
                        arrived[r] < EndOf(WindowIndex(Start[r])) + WatermarkSeconds
                 PROVE  r \in seen'
      BY <1>1 DEF OnTimeIsSeen
    <3>1. r \in Stored /\ Start[r] \in Nat /\ WindowIndex(Start[r]) \in Windows
      BY StartsAreNat DEF Stored
    <3>2. CASE WindowIndex(Start[r]) = nextIndex
      BY <3>1, <3>2, <2>1, SpansOfIndex
    <3>3. CASE WindowIndex(Start[r]) # nextIndex
      BY <3>1, <3>3, <2>1, <1>0 DEF OnTimeIsSeen, TypeOK
    <3> QED BY <3>2, <3>3
  <2> QED BY <2>1, <2>2, <1>0, <1>2 DEF NothingElseMissed, SpanInv, Behind
<1>4. CASE MarkProcessed
  <2>1. /\ pc = "insert" /\ pc' \in {"late", "read"} /\ nextIndex \in Nat /\ nextIndex # NoIndex
        /\ UNCHANGED <<counted, fresh, missed, seen, reads>>
        /\ nextIndex' = nextIndex + 1
    BY <1>4, <1>0, HeadIsCursor DEF MarkProcessed, outputVars, TrackerInv
  <2>2. NothingElseMissed'
    <3> SUFFICES ASSUME NEW s \in Stored, Start[s] < StartOf(nextIndex + 1)
                 PROVE  s \in seen \cup counted \cup fresh \cup missed
      BY <2>1, <1>2 DEF NothingElseMissed, Behind
    <3>1. Start[s] \in Nat
      BY StartsAreNat DEF Stored
    <3>2. CASE Start[s] < StartOf(nextIndex)
      BY <3>2, <2>1, <1>0 DEF NothingElseMissed, Behind
    <3>3. CASE StartOf(nextIndex) <= Start[s]
      <4>1. s \in SpansOf(nextIndex)
        BY <3>3, <2>1, BoundsAdjoin DEF SpansOf
      <4> QED BY <4>1, <2>1, <1>0 DEF SpanInv
    <3> QED BY <3>1, <3>2, <3>3, <2>1, BoundsAdjoin
  <2>3. SpanInv'
    BY <2>1, <1>0, <1>2 DEF SpanInv, NoIndex
  <2> QED BY <2>1, <2>2, <2>3, <1>0, <1>1 DEF OnTimeIsSeen
<1>5. CASE DueWindows
  <2>1. /\ pc = "loop" /\ pc' \in {"late", "read"} /\ nextIndex' \in Nat
        /\ UNCHANGED <<counted, fresh, missed, seen, reads>>
        /\ nextIndex # NoIndex => nextIndex' = nextIndex
    BY <1>5, DueStep DEF DueWindows, outputVars
  <2> QED BY <2>1, <1>0, <1>1, <1>2 DEF OnTimeIsSeen, NothingElseMissed, SpanInv, Behind, NoIndex
<1>6. CASE LateQuery
  <2>1. /\ pc = "late" /\ pc' = "cursor" /\ UNCHANGED <<fresh, missed, seen, reads, nextIndex>>
        /\ counted' = counted \cup {s \in fresh \cap Stored : Start[s] < StartOf(nextIndex)}
    BY <1>6 DEF LateQuery, trackerVars, Late, Boundary
  <2> QED BY <2>1, <1>0, <1>1, <1>2 DEF OnTimeIsSeen, NothingElseMissed, SpanInv, Behind, TrackerInv
<1>7. CASE MoveCursor
  <2>1. /\ pc = "cursor" /\ pc' = "wait" /\ fresh' = {}
        /\ UNCHANGED <<missed, seen, counted, reads, nextIndex>>
    BY <1>7 DEF MoveCursor, trackerVars, outputVars
  <2> QED BY <2>1, <1>0, <1>1, <1>2 DEF OnTimeIsSeen, NothingElseMissed, SpanInv, Behind, TrackerInv
<1>8. CASE Crash
  <2>1. /\ pc' = "down" /\ nextIndex' = NoIndex /\ missed' = missed \cup (Stored \ (seen \cup counted))
        /\ UNCHANGED <<fresh, seen, counted, reads>>
    BY <1>8 DEF Crash, outputVars
  <2> QED BY <2>1, <1>0, <1>1, <1>2 DEF OnTimeIsSeen, NothingElseMissed, SpanInv, Behind
<1>9. CASE Restart
  <2>1. /\ pc = "down" /\ pc' = "loop" /\ fresh' = {}
        /\ UNCHANGED <<missed, seen, counted, reads, nextIndex>>
    BY <1>9 DEF Restart, trackerVars, outputVars
  <2> QED BY <2>1, <1>0, <1>1, <1>2 DEF OnTimeIsSeen, NothingElseMissed, SpanInv, Behind, TrackerInv
<1>10. CASE Exit \/ Insert \/ NoLateCheckYet \/ Wake
  <2>1. /\ pc' \in {"done", "wait", "loop"} \/ pc' = pc
        /\ UNCHANGED <<fresh, missed, seen, counted, reads, nextIndex>>
    BY <1>10 DEF Exit, Insert, NoLateCheckYet, Wake, trackerVars, outputVars
  <2> QED BY <2>1, <1>0, <1>1, <1>2 DEF OnTimeIsSeen, NothingElseMissed, SpanInv, Behind
<1> QED BY <1>3, <1>4, <1>5, <1>6, <1>7, <1>8, <1>9, <1>10 DEF Loop

\* No step loses a span outside the two gaps.
LEMMA SpansStep == IInv /\ [Next]_vars => (OnTimeIsSeen /\ NothingElseMissed /\ SpanInv)'
<1> SUFFICES ASSUME IInv, [Next]_vars PROVE (OnTimeIsSeen /\ NothingElseMissed /\ SpanInv)'
  OBVIOUS
<1>1. CASE Tick \/ Signal \/ UNCHANGED vars
  <2>1. UNCHANGED <<ingests, arrived, fresh, pc, nextIndex, seen, counted, reads, missed>>
    BY <1>1 DEF Tick, Signal, vars, storeVars, trackerVars, outputVars
  <2>2. UNCHANGED Stored /\ \A w : UNCHANGED SpansOf(w)
    BY <2>1, StoredStep DEF IInv
  <2> QED BY <2>1, <2>2 DEF IInv, OnTimeIsSeen, NothingElseMissed, SpanInv, Behind
<1> QED BY <1>1, IngestSpans, LoopSpans DEF Next

-----------------------------------------------------------------------------
(* Theorems *)

\* The invariant of the poll loop, across crashes and restarts.
THEOREM Inductive == Spec => []IInv
<1>1. IInv /\ [Next]_vars => IInv'
  BY TypeStep, TrackerStep, ReadsStep, SpansStep DEF IInv
<1> QED BY InitInv, <1>1, PTL DEF Spec

\* The cursor leaves no window behind it unwritten within a life of the
\* process, and none is read twice while the clock does not step back
\* (windowing.py:56-84).
THEOREM CursorIsSound == Spec => []CursorSound
<1>1. IInv => CursorSound
  BY DEF IInv, CursorSound
<1> QED BY Inductive, <1>1, PTL

\* A span stored before its window's watermark is among its rows, and any
\* other behind the cursor is counted late or due to be, but for the two gaps
\* (windowing.py:12-18, main.py:67-72).
THEOREM EverySpanFindsAWindow == Spec => []SpansFindAWindow
<1>1. IInv => SpansFindAWindow
  BY DEF IInv, SpansFindAWindow
<1> QED BY Inductive, <1>1, PTL

=============================================================================
