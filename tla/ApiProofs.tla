------------------------------ MODULE ApiProofs ------------------------------
(***************************************************************************)
(* What the API answers while its tables grow (Api), and what the hook     *)
(* that asks it shows (ApiQuery), for any tables, sessions, renders, polls *)
(* and answers.                                                            *)
(*                                                                         *)
(* Paging rests on counting: a row that is wanted, and alone in its        *)
(* window, is either on a page already or has at least as many rows before *)
(* it as the next page skips. Rows are only added, so that count never     *)
(* falls (PageInv).                                                        *)
(***************************************************************************)
EXTENDS Api, ApiQuery, Lemmas, FunctionTheorems

USE ApiAssumption

-----------------------------------------------------------------------------
(* numbers and finite sets *)

\* The smaller of two numbers.
LEMMA MinOfTwo ==
    ASSUME NEW a \in Nat, NEW b \in Nat
    PROVE  Min({a, b}) \in {a, b} /\ Min({a, b}) <= a /\ Min({a, b}) <= b /\ Min({a, b}) \in Nat
<1>1. {a, b} \subseteq Nat /\ {a, b} # {}
  OBVIOUS
<1>2. \E x \in {a, b} : \A y \in {a, b} : x <= y
  BY <1>1, SmallestOf
<1>3. Min({a, b}) \in {a, b} /\ \A y \in {a, b} : Min({a, b}) <= y
  BY <1>2 DEF Min
<1> QED
  BY <1>3

-----------------------------------------------------------------------------
(* what the tables hold *)

\* The start ticks of a trace's spans in a table.
Starts(table, t) == {Start[s] : s \in {u \in table : Trace[u] = t}}

\* There are finitely many start ticks.
LEMMA StartsFinite ==
    ASSUME NEW table \in SUBSET Spans, NEW t
    PROVE  Starts(table, t) \subseteq Nat /\ IsFiniteSet(Starts(table, t))
<1> DEFINE S == {u \in table : Trace[u] = t}
           f == [s \in S |-> Start[s]]
<1>1. IsFiniteSet(S)
  BY FS_Subset
<1>2. f \in [S -> Starts(table, t)] /\ \A y \in Starts(table, t) : \E x \in S : f[x] = y
  BY DEF Starts
<1> HIDE DEF S, f
<1>3. IsFiniteSet(Starts(table, t))
  BY <1>1, <1>2, ImageFinite
<1>4. Starts(table, t) \subseteq Nat
  BY DEF Starts
<1> QED
  BY <1>3, <1>4

\* With more spans a trace only gets longer.
LEMMA DurationGrows ==
    ASSUME NEW table \in SUBSET Spans, NEW later \in SUBSET Spans, table \subseteq later, NEW t,
           Starts(table, t) # {}
    PROVE  /\ Starts(later, t) # {}
           /\ Max(Starts(table, t)) - Min(Starts(table, t))
                <= Max(Starts(later, t)) - Min(Starts(later, t))
           /\ Max(Starts(table, t)) - Min(Starts(table, t)) \in Nat
<1>1. Starts(table, t) \subseteq Starts(later, t)
  BY DEF Starts
<1>2. Starts(later, t) # {}
  BY <1>1
<1> DEFINE A == Starts(table, t)
           B == Starts(later, t)
<1>3. /\ Max(A) \in A /\ Min(A) \in A /\ Max(A) \in Nat /\ Min(A) \in Nat
      /\ \A x \in A : x <= Max(A) /\ Min(A) <= x
  <2>1. A \subseteq Nat /\ IsFiniteSet(A) /\ A # {}
    BY StartsFinite
  <2> HIDE DEF A
  <2> QED
    BY <2>1, Bounds
<1>4. /\ Max(B) \in Nat /\ Min(B) \in Nat
      /\ \A x \in B : x <= Max(B) /\ Min(B) <= x
  <2>1. B \subseteq Nat /\ IsFiniteSet(B) /\ B # {}
    BY <1>2, StartsFinite
  <2> HIDE DEF B
  <2> QED
    BY <2>1, Bounds
<1>5. A \subseteq B
  BY <1>1
<1> HIDE DEF A, B
<1>6. Max(A) <= Max(B) /\ Min(B) <= Min(A) /\ Min(A) <= Max(A)
  BY <1>3, <1>4, <1>5
<1>7. Max(A) - Min(A) <= Max(B) - Min(B) /\ Max(A) - Min(A) \in Nat
  BY <1>3, <1>4, <1>6
<1> QED
  BY <1>2, <1>7 DEF A, B

(* the inductive invariant *)

\* Ticks and sizes of the tables, and what the session began with is still in
\* them.
TableInv ==
    /\ TypeOK /\ EveryRowOpens
    /\ window \in Nat /\ (step # "read" => window \in Windows)
    /\ IsFiniteSet(summaries) /\ IsFiniteSet(offsets)
    /\ before \in [summaries : SUBSET summaries, stored : SUBSET stored,
                   classified : SUBSET classified, offsets : SUBSET offsets]
    /\ \A r \in before.summaries : \E s \in before.stored : Trace[s] = r.trace
    /\ query \in [lo : Nat, hi : Nat, limit : Nat \ {0}, filter : BOOLEAN]
    /\ pc = "idle" => at = 0

Listed == {r \in summaries : InRange(r)}

\* The candidates are rows of the range, each once, by window, cut off at the
\* cap, and all there were when they are fewer.
ListInv ==
    /\ candidates \in Seq(summaries)
    /\ pc = "durations" =>
         /\ Len(candidates) <= ApiMaxRows
         /\ \A i \in 1..Len(candidates) : InRange(candidates[i])
         /\ \A i, j \in 1..Len(candidates) :
               i < j => /\ candidates[i] # candidates[j]
                        /\ candidates[i].window >= candidates[j].window
         /\ (Len(candidates) < ApiMaxRows \/ Cardinality(Listed) <= ApiMaxRows) =>
               \A r \in before.summaries : InRange(r) => r \in Range(candidates)

Wanted(r) ==
    /\ InRange(r)
    /\ query.filter => Max(Starts(before.stored, r.trace)) - Min(Starts(before.stored, r.trace))
                         >= MinDuration

Alone(r) == \A other \in summaries \ {r} : other.window # r.window

\* The rows that a page lists before r, now or when the candidates were read.
Ahead(r)   == {o \in Listed : o.window > r.window /\ LongEnough(o)}
AheadAt(r) == {i \in 1..Len(candidates) :
                  candidates[i].window > r.window /\ LongEnough(candidates[i])}

\* A row that was not yet seen is not on a page before the next one.
PageInv ==
    \A r \in before.summaries : (Wanted(r) /\ Alone(r) /\ Uncapped) =>
        /\ pc = "candidates" => (r \in seen \/ at <= Cardinality(Ahead(r)))
        /\ (pc = "durations" /\ ~Truncated) => (r \in seen \/ at <= Cardinality(AheadAt(r)))
        /\ pc = "paged" => r \in seen

\* The detail holds what its queries so far found.
DetailInv ==
    /\ detail \in [spans : SUBSET stored, class : SUBSET stored, offset : SUBSET offsets]
    /\ pc \in {"classifications", "offsets", "shown"} => detail.spans # {}
    /\ pc \in {"offsets", "shown"} => detail.spans \cap before.classified \subseteq detail.class
    /\ DetailIsCurrent

ApiInv == TableInv /\ ListInv /\ PageInv /\ DetailInv

-----------------------------------------------------------------------------
(* what every step leaves true *)

\* Nothing is deleted from a table.
Grows == stored \subseteq stored' /\ summaries \subseteq summaries'
         /\ classified \subseteq classified' /\ offsets \subseteq offsets'

\* No step deletes a row.
LEMMA TablesGrow == ASSUME Next PROVE Grows
<1> QED
  BY DEF Next, Analyzer, Client, Ingest, ReadWindow, WriteSummaries, WriteClassifications,
         WriteClockOffsets, Crash, AnalyzerStep, OpenSession, FetchCandidates, FetchDurations,
         FetchSpans, FetchClassifications, FetchOffsets, tables, Grows

\* Windows are numbered.
LEMMA WindowsNat == Windows \subseteq Nat
BY DEF Windows

\* How long a trace is in a table.
LengthIn(table, t) == IF Starts(table, t) = {} THEN 0
                      ELSE Max(Starts(table, t)) - Min(Starts(table, t))

\* A length is a number of ticks.
LEMMA LengthNat == ASSUME NEW table \in SUBSET Spans, NEW t PROVE LengthIn(table, t) \in Nat
<1>1. CASE Starts(table, t) # {}
  BY <1>1, DurationGrows DEF LengthIn
<1>2. CASE Starts(table, t) = {}
  BY <1>2 DEF LengthIn
<1> QED
  BY <1>1, <1>2

\* A trace is as long or longer in a table with more spans.
LEMMA LengthGrows ==
    ASSUME NEW table \in SUBSET Spans, NEW later \in SUBSET Spans, table \subseteq later, NEW t
    PROVE  LengthIn(table, t) <= LengthIn(later, t)
<1>1. CASE Starts(table, t) # {}
  BY <1>1, DurationGrows DEF LengthIn
<1>2. CASE Starts(table, t) = {}
  <2>1. LengthIn(table, t) = 0 /\ LengthIn(later, t) \in Nat
    BY <1>2, LengthNat DEF LengthIn
  <2> QED
    BY <2>1
<1> QED
  BY <1>1, <1>2

\* A row that passes the filter goes on passing it.
LEMMA StaysLong ==
    ASSUME stored \subseteq stored', stored' \subseteq Spans, query' = query, NEW r,
           LongEnough(r)
    PROVE  LongEnough(r)'
<1>1. /\ Duration(r.trace) = LengthIn(stored, r.trace)
      /\ Duration(r.trace)' = LengthIn(stored', r.trace)
  BY DEF Duration, LengthIn, Starts
<1>2. /\ LengthIn(stored, r.trace) \in Nat /\ LengthIn(stored', r.trace) \in Nat
      /\ LengthIn(stored, r.trace) <= LengthIn(stored', r.trace)
  BY LengthNat, LengthGrows
<1>3. CASE query.filter
  <2>1. LengthIn(stored, r.trace) >= MinDuration
    BY <1>1, <1>3 DEF LongEnough
  <2>2. LengthIn(stored', r.trace) >= MinDuration
    BY <1>2, <2>1
  <2> QED
    BY <1>1, <2>2 DEF LongEnough
<1>4. CASE ~query.filter
  BY <1>4 DEF LongEnough
<1> QED
  BY <1>3, <1>4

\* The invariant holds in the empty tables.
LEMMA InitHolds == Init => ApiInv
<1> SUFFICES ASSUME Init PROVE ApiInv
  OBVIOUS
<1>1. TypeOK /\ EveryRowOpens
  <2>1. \A x : x \notin Range(<<>>)
    BY DEF Range
  <2>2. 0 \in Nat /\ 0 \in 0..MaxCrashes
    OBVIOUS
  <2> QED
    BY <2>1, <2>2 DEF Init, TypeOK, EveryRowOpens
<1>2. TableInv
  BY <1>1, FS_EmptySet DEF Init, TableInv, Nothing, NoQuery
<1>3. ListInv
  BY DEF Init, ListInv
<1>4. PageInv
  BY DEF Init, PageInv
<1>5. DetailInv
  BY DEF Init, DetailInv, DetailIsCurrent, NoDetail
<1> QED
  BY <1>2, <1>3, <1>4, <1>5 DEF ApiInv

(* the tables *)

\* The rows that an insert adds to the two tables.
SummaryRows(S, w) == {[trace |-> Trace[s], window |-> w] : s \in S}
ClockRows(S, w)   == {[service |-> c, window |-> w] : c \in S}

\* Rows made from a finite set are finitely many.
LEMMA RowsFinite ==
    ASSUME NEW S, IsFiniteSet(S), NEW w
    PROVE  IsFiniteSet(SummaryRows(S, w)) /\ IsFiniteSet(ClockRows(S, w))
<1>1. IsFiniteSet(ClockRows(S, w))
  <2> DEFINE g == [c \in S |-> [service |-> c, window |-> w]]
  <2>1. g \in [S -> ClockRows(S, w)] /\ \A y \in ClockRows(S, w) : \E x \in S : g[x] = y
    BY DEF ClockRows
  <2> HIDE DEF g
  <2> QED
    BY <2>1, ImageFinite
<1>2. IsFiniteSet(SummaryRows(S, w))
  <2> DEFINE g == [s \in S |-> [trace |-> Trace[s], window |-> w]]
  <2>1. g \in [S -> SummaryRows(S, w)] /\ \A y \in SummaryRows(S, w) : \E x \in S : g[x] = y
    BY DEF SummaryRows
  <2> HIDE DEF g
  <2> QED
    BY <2>1, ImageFinite
<1> QED
  BY <1>1, <1>2

\* The spans of a table and their services are finitely many.
LEMMA ServicesFinite ==
    ASSUME NEW table \in SUBSET Spans
    PROVE  IsFiniteSet({Service[s] : s \in table}) /\ IsFiniteSet(table)
<1> DEFINE T == {Service[s] : s \in table}
           g == [s \in table |-> Service[s]]
<1>1. IsFiniteSet(table)
  BY FS_Subset
<1>2. g \in [table -> T] /\ \A y \in T : \E x \in table : g[x] = y
  OBVIOUS
<1> HIDE DEF g, T
<1>3. IsFiniteSet(T)
  BY <1>1, <1>2, ImageFinite
<1> QED
  BY <1>1, <1>3 DEF T

\* What the session began with is still there when the tables grow.
LEMMA BeforeGrows ==
    ASSUME TableInv, Grows, before' = before
    PROVE  /\ before' \in [summaries : SUBSET summaries', stored : SUBSET stored',
                           classified : SUBSET classified', offsets : SUBSET offsets']
           /\ \A r \in before'.summaries : \E s \in before'.stored : Trace[s] = r.trace
BY DEF TableInv, Grows

\* The sizes of the tables stay finite.
LEMMA TablesFinite ==
    ASSUME TableInv, Next
    PROVE  IsFiniteSet(summaries') /\ IsFiniteSet(offsets')
<1>1. rows \in SUBSET Spans
  BY DEF TableInv, TypeOK
<1>2. CASE WriteSummaries
  <2>1. summaries' = summaries \cup SummaryRows(rows, window) /\ offsets' = offsets
    BY <1>2 DEF WriteSummaries, SummaryRows
  <2>2. IsFiniteSet(SummaryRows(rows, window))
    BY <1>1, ServicesFinite, RowsFinite
  <2> QED
    BY <2>1, <2>2, FS_Union DEF TableInv
<1>3. CASE WriteClockOffsets
  <2>1. PICK known \in SUBSET {Service[s] : s \in rows} :
           offsets' = offsets \cup ClockRows(known, window)
    BY <1>3 DEF WriteClockOffsets, ClockRows
  <2>2. IsFiniteSet(known)
    BY <1>1, ServicesFinite, FS_Subset
  <2>3. IsFiniteSet(ClockRows(known, window))
    BY <2>2, RowsFinite
  <2>4. summaries' = summaries
    BY <1>3 DEF WriteClockOffsets
  <2> QED
    BY <2>1, <2>3, <2>4, FS_Union DEF TableInv
<1>4. CASE ~WriteSummaries /\ ~WriteClockOffsets
  <2>1. summaries' = summaries /\ offsets' = offsets
    BY <1>4 DEF Next, Analyzer, Client, Ingest, ReadWindow, WriteClassifications,
           Crash, OpenSession, FetchCandidates, FetchDurations,
           FetchSpans, FetchClassifications, FetchOffsets, tables
  <2> QED
    BY <2>1 DEF TableInv
<1> QED
  BY <1>2, <1>3, <1>4

\* A page and a list of candidates hold rows of the table.
LEMMA PageRows ==
    ASSUME TypeOK
    PROVE  Page \subseteq summaries
BY DEF TypeOK, Page, Matching, Range

\* A prefix of a sequence.
LEMMA Prefix ==
    ASSUME NEW S, NEW q \in Seq(S), NEW n \in Nat, n <= Len(q)
    PROVE  /\ SubSeq(q, 1, n) \in Seq(S) /\ Len(SubSeq(q, 1, n)) = n
           /\ \A i \in 1..n : SubSeq(q, 1, n)[i] = q[i]
<1>1. \A i \in 1..n : q[i] \in S
  OBVIOUS
<1>2. /\ SubSeq(q, 1, n) \in Seq(S)
      /\ Len(SubSeq(q, 1, n)) = IF 1 <= n THEN n - 1 + 1 ELSE 0
      /\ \A i \in 1..n - 1 + 1 : SubSeq(q, 1, n)[i] = q[1 + i - 1]
  BY <1>1, SubSeqProperties
<1> QED
  BY <1>2

\* What the first query answers.
LEMMA CandidatesRead ==
    ASSUME TableInv, FetchCandidates
    PROVE  \E q \in [1..Cardinality(Listed) -> Listed] :
              /\ q \in Seq(Listed) /\ Len(q) = Cardinality(Listed) /\ Cardinality(Listed) \in Nat
              /\ \A i, j \in 1..Len(q) : i # j => q[i] # q[j]
              /\ \A i, j \in 1..Len(q) : i < j => q[i].window >= q[j].window
              /\ Len(candidates') = Min({Len(q), ApiMaxRows})
              /\ candidates' \in Seq(Listed)
              /\ \A i \in 1..Len(candidates') : candidates'[i] = q[i]
<1>1. PICK q \in Listings(Listed) : candidates' = SubSeq(q, 1, Min({Len(q), ApiMaxRows}))
  BY DEF Listed, FetchCandidates
<1>2. /\ q \in [1..Cardinality(Listed) -> Listed]
      /\ \A i, j \in 1..Cardinality(Listed) : i # j => q[i] # q[j]
      /\ \A i, j \in DOMAIN q : i < j => q[i].window >= q[j].window
  BY DEF Listings, SetToSeqs
<1>3. Cardinality(Listed) \in Nat
  BY FS_Subset, FS_CardinalityType DEF Listed, TableInv
<1>4. q \in Seq(Listed) /\ Len(q) = Cardinality(Listed)
  BY <1>2, <1>3
<1> DEFINE n == Min({Len(q), ApiMaxRows})
<1>5. n \in Nat /\ n <= Len(q)
  BY <1>3, <1>4, MinOfTwo
<1>6. candidates' = SubSeq(q, 1, n)
  BY <1>1
<1>7. /\ candidates' \in Seq(Listed) /\ Len(candidates') = n
      /\ \A i \in 1..n : candidates'[i] = q[i]
  <2> HIDE DEF n
  <2> QED
    BY <1>4, <1>5, <1>6, Prefix
<1> QED
  BY <1>2, <1>3, <1>4, <1>7

\* The types of the tables and of the analyzer.
LEMMA TypesHold ==
    ASSUME TableInv, ListInv, Next
    PROVE  TypeOK' /\ EveryRowOpens'
<1> USE DEF TableInv
<1>1. CASE \E s \in Spans : Ingest(s)
  <2> USE <1>1 DEF Ingest, analyzerVars, pageVars, detailVars
  <2>1. TypeOK'
    BY DEF TypeOK
  <2>2. EveryRowOpens'
    BY DEF EveryRowOpens
  <2> QED
    BY <2>1, <2>2
<1>2. CASE ReadWindow
  <2> USE <1>2 DEF ReadWindow, AnalyzerStep, pageVars, detailVars
  <2>1. TypeOK'
    BY DEF TypeOK
  <2>2. EveryRowOpens'
    BY DEF EveryRowOpens
  <2> QED
    BY <2>1, <2>2
<1>3. CASE WriteSummaries
  <2> USE <1>3 DEF WriteSummaries, AnalyzerStep, pageVars, detailVars
  <2>1. window \in Windows /\ \A s \in rows : Trace[s] \in Traces /\ s \in stored
    BY DEF TypeOK, Traces
  <2>2. {[trace |-> Trace[s], window |-> window] : s \in rows} \subseteq [trace : Traces, window : Windows]
    BY <2>1
  <2>3. TypeOK'
    BY <2>2 DEF TypeOK
  <2>4. EveryRowOpens'
    BY <2>1 DEF EveryRowOpens
  <2> QED
    BY <2>3, <2>4
<1>4. CASE WriteClassifications
  <2> USE <1>4 DEF WriteClassifications, AnalyzerStep, pageVars, detailVars
  <2>1. TypeOK'
    BY DEF TypeOK
  <2>2. EveryRowOpens'
    BY DEF EveryRowOpens
  <2> QED
    BY <2>1, <2>2
<1>5. CASE WriteClockOffsets
  <2> USE <1>5 DEF WriteClockOffsets, AnalyzerStep, pageVars, detailVars
  <2>1. window \in Windows /\ \A s \in rows : s \in Spans
    BY DEF TypeOK
  <2>2. offsets' \subseteq [service : {Service[s] : s \in Spans}, window : Windows]
    <3>1. PICK known \in SUBSET {Service[s] : s \in rows} :
             offsets' = offsets \cup {[service |-> c, window |-> window] : c \in known}
      OBVIOUS
    <3>2. \A c \in known : c \in {Service[s] : s \in Spans}
      BY <2>1
    <3>3. {[service |-> c, window |-> window] : c \in known}
            \subseteq [service : {Service[s] : s \in Spans}, window : Windows]
      BY <2>1, <3>2
    <3> QED
      BY <3>1, <3>3 DEF TypeOK
  <2>3. TypeOK'
    BY <2>2 DEF TypeOK
  <2>4. EveryRowOpens'
    BY DEF EveryRowOpens
  <2> QED
    BY <2>3, <2>4
<1>6. CASE Crash
  <2> USE <1>6 DEF Crash, tables, pageVars, detailVars
  <2>1. TypeOK'
    BY DEF TypeOK
  <2>2. EveryRowOpens'
    BY DEF EveryRowOpens
  <2> QED
    BY <2>1, <2>2
<1>7. CASE OpenSession
  <2> USE <1>7 DEF OpenSession, tables, analyzerVars, detailVars
  <2>1. TypeOK'
    BY DEF TypeOK
  <2>2. EveryRowOpens'
    BY DEF EveryRowOpens
  <2> QED
    BY <2>1, <2>2
<1>8. CASE FetchCandidates
  <2> USE <1>8 DEF FetchCandidates, tables, analyzerVars, detailVars
  <2>1. Range(candidates') \subseteq summaries
    <3>1. candidates' \in Seq(Listed)
      BY CandidatesRead
    <3> QED
      BY <3>1, RangeInSet DEF Listed
  <2>2. TypeOK'
    BY <2>1 DEF TypeOK
  <2>3. EveryRowOpens'
    BY DEF EveryRowOpens
  <2> QED
    BY <2>2, <2>3
<1>9. CASE FetchDurations
  <2> USE <1>9 DEF FetchDurations, tables, analyzerVars, detailVars
  <2>1. seen' \subseteq summaries /\ Range(candidates') \subseteq summaries
    BY PageRows, RangeEmpty DEF TypeOK
  <2>2. told' \in BOOLEAN /\ at' \in Nat
    BY DEF TypeOK, Truncated
  <2>3. TypeOK'
    BY <2>1, <2>2 DEF TypeOK
  <2>4. EveryRowOpens'
    BY DEF EveryRowOpens
  <2> QED
    BY <2>3, <2>4
<1>10. CASE \E t \in Traces : FetchSpans(t)
  <2> USE <1>10 DEF FetchSpans, tables, analyzerVars, pageVars
  <2>1. TypeOK'
    BY DEF TypeOK
  <2>2. EveryRowOpens'
    BY DEF EveryRowOpens
  <2> QED
    BY <2>1, <2>2
<1>11. CASE FetchClassifications \/ FetchOffsets
  <2> USE <1>11 DEF FetchClassifications, FetchOffsets, tables, analyzerVars, pageVars
  <2>1. TypeOK'
    BY DEF TypeOK
  <2>2. EveryRowOpens'
    BY DEF EveryRowOpens
  <2> QED
    BY <2>1, <2>2
<1> QED
  BY <1>1, <1>2, <1>3, <1>4, <1>5, <1>6, <1>7, <1>8, <1>9, <1>10, <1>11
     DEF Next, Analyzer, Client

\* What the client began with.
LEMMA BeforeHolds ==
    ASSUME TableInv, Next
    PROVE  /\ before' \in [summaries : SUBSET summaries', stored : SUBSET stored',
                           classified : SUBSET classified', offsets : SUBSET offsets']
           /\ \A r \in before'.summaries : \E s \in before'.stored : Trace[s] = r.trace
<1>1. Grows
  BY TablesGrow
<1>2. CASE OpenSession
  <2>1. /\ stored' = stored /\ summaries' = summaries
        /\ classified' = classified /\ offsets' = offsets
        /\ before' = [before EXCEPT !.summaries = summaries, !.stored = stored]
    BY <1>2 DEF OpenSession, tables
  <2>2. before \in [summaries : SUBSET summaries, stored : SUBSET stored,
                    classified : SUBSET classified, offsets : SUBSET offsets]
    BY DEF TableInv
  <2>3. /\ before'.summaries = summaries /\ before'.stored = stored
        /\ before' \in [summaries : SUBSET summaries, stored : SUBSET stored,
                        classified : SUBSET classified, offsets : SUBSET offsets]
    BY <2>1, <2>2
  <2> QED
    BY <2>1, <2>3 DEF TableInv, EveryRowOpens
<1>3. CASE \E t \in Traces : FetchSpans(t)
  <2>1. /\ stored' = stored /\ summaries' = summaries
        /\ classified' = classified /\ offsets' = offsets
        /\ before' = [before EXCEPT !.classified = classified, !.offsets = offsets]
    BY <1>3 DEF FetchSpans, tables
  <2>2. before \in [summaries : SUBSET summaries, stored : SUBSET stored,
                    classified : SUBSET classified, offsets : SUBSET offsets]
    BY DEF TableInv
  <2>3. /\ before'.summaries = before.summaries /\ before'.stored = before.stored
        /\ before' \in [summaries : SUBSET summaries, stored : SUBSET stored,
                        classified : SUBSET classified, offsets : SUBSET offsets]
    BY <2>1, <2>2
  <2> QED
    BY <2>1, <2>3 DEF TableInv
<1>4. CASE ~OpenSession /\ ~(\E t \in Traces : FetchSpans(t))
  <2>1. before' = before
    BY <1>4 DEF Next, Analyzer, Client, Ingest, ReadWindow, WriteSummaries, WriteClassifications,
         WriteClockOffsets, Crash, AnalyzerStep, FetchCandidates, FetchDurations,
         FetchClassifications, FetchOffsets
  <2> QED
    BY <1>1, <2>1, BeforeGrows
<1> QED
  BY <1>2, <1>3, <1>4

\* The analyzer's place.
LEMMA WindowHolds ==
    ASSUME TableInv, Next
    PROVE  window' \in Nat /\ (step' # "read" => window' \in Windows)
<1>1. CASE ReadWindow
  BY <1>1 DEF TableInv, ReadWindow, AnalyzerStep
<1>2. CASE WriteSummaries \/ WriteClassifications
  BY <1>2 DEF TableInv, WriteSummaries, WriteClassifications, AnalyzerStep
<1>3. CASE WriteClockOffsets \/ Crash
  BY <1>3 DEF TableInv, WriteClockOffsets, AnalyzerStep, Crash
<1>4. CASE ~Analyzer
  BY <1>4 DEF TableInv, Next, Analyzer, Client, Ingest, OpenSession, FetchCandidates, FetchDurations,
     FetchSpans, FetchClassifications, FetchOffsets, analyzerVars
<1> QED
  BY <1>1, <1>2, <1>3, <1>4 DEF Analyzer

\* The session's parameters.
LEMMA QueryHolds ==
    ASSUME TableInv, Next
    PROVE  /\ query' \in [lo : Nat, hi : Nat, limit : Nat \ {0}, filter : BOOLEAN]
           /\ pc' = "idle" => at' = 0
<1>1. CASE OpenSession
  BY <1>1 DEF TableInv, OpenSession
<1>2. CASE FetchCandidates \/ FetchDurations
  BY <1>2 DEF TableInv, FetchCandidates, FetchDurations
<1>3. CASE ~OpenSession /\ ~FetchCandidates /\ ~FetchDurations
  BY <1>3 DEF TableInv, Next, Analyzer, Client, Ingest, ReadWindow, WriteSummaries,
     WriteClassifications, WriteClockOffsets, Crash, AnalyzerStep,
     FetchSpans, FetchClassifications, FetchOffsets, pageVars
<1> QED
  BY <1>1, <1>2, <1>3

\* The first part of the invariant is kept by every step.
LEMMA TablesHold == ASSUME TableInv, ListInv, Next PROVE TableInv'
<1> HIDE ApiAssumption
<1>1. TypeOK' /\ EveryRowOpens'
  BY TypesHold
<1>2. window' \in Nat /\ (step' # "read" => window' \in Windows)
  BY WindowHolds
<1>3. IsFiniteSet(summaries') /\ IsFiniteSet(offsets')
  BY TablesFinite
<1>4. /\ before' \in [summaries : SUBSET summaries', stored : SUBSET stored',
                      classified : SUBSET classified', offsets : SUBSET offsets']
      /\ \A r \in before'.summaries : \E s \in before'.stored : Trace[s] = r.trace
  BY BeforeHolds
<1>5. /\ query' \in [lo : Nat, hi : Nat, limit : Nat \ {0}, filter : BOOLEAN]
      /\ pc' = "idle" => at' = 0
  BY QueryHolds
<1> QED
  BY <1>1, <1>2, <1>3, <1>4, <1>5 DEF TableInv

-----------------------------------------------------------------------------
(* the list of candidates *)

\* A step of another process.
Elsewhere == UNCHANGED <<pc, before>> /\ UNCHANGED <<pageVars, detailVars>>

\* A step is another process's or the client's.
LEMMA WhoseStep ==
    ASSUME Next
    PROVE  Elsewhere \/ Client
BY DEF Next, Analyzer, Ingest, ReadWindow, WriteSummaries, WriteClassifications,
     WriteClockOffsets, Crash, AnalyzerStep, Elsewhere

\* More rows of the range, and no fewer.
LEMMA ListedGrows ==
    ASSUME TableInv, TableInv', Grows, query' = query
    PROVE  /\ Listed \subseteq Listed' /\ IsFiniteSet(Listed) /\ IsFiniteSet(Listed')
           /\ Cardinality(Listed) \in Nat /\ Cardinality(Listed') \in Nat
           /\ Cardinality(Listed) <= Cardinality(Listed')
           /\ \A r : InRange(r)' <=> InRange(r)
<1>1. \A r : InRange(r)' <=> InRange(r)
  BY DEF InRange
<1>2. Listed \subseteq Listed'
  BY <1>1 DEF Listed, Grows
<1>3. Listed \subseteq summaries /\ Listed' \subseteq summaries'
  BY DEF Listed
<1>4. IsFiniteSet(summaries) /\ IsFiniteSet(summaries')
  BY DEF TableInv
<1>5. IsFiniteSet(Listed) /\ IsFiniteSet(Listed')
  BY <1>3, <1>4, FS_Subset
<1>6. Cardinality(Listed) \in Nat /\ Cardinality(Listed') \in Nat
      /\ Cardinality(Listed) <= Cardinality(Listed')
  BY <1>2, <1>5, FS_Subset, FS_CardinalityType
<1> QED
  BY <1>1, <1>2, <1>5, <1>6

\* The list stays what it was while the tables grow.
LEMMA ListKept ==
    ASSUME TableInv, TableInv', ListInv, Grows, query' = query, candidates' = candidates,
           before'.summaries = before.summaries, pc' = "durations" => pc = "durations"
    PROVE  ListInv'
<1> HIDE ApiAssumption
<1>1. /\ Cardinality(Listed) \in Nat /\ Cardinality(Listed') \in Nat
      /\ Cardinality(Listed) <= Cardinality(Listed')
      /\ \A r : InRange(r)' <=> InRange(r)
  BY ListedGrows
<1>2. candidates' \in Seq(summaries')
  BY DEF ListInv, Grows
<1>3. ASSUME pc' = "durations"
      PROVE  /\ Len(candidates') <= ApiMaxRows
             /\ \A i \in 1..Len(candidates') : InRange(candidates[i])'
             /\ \A i, j \in 1..Len(candidates') :
                   i < j => /\ candidates'[i] # candidates'[j]
                            /\ candidates'[i].window >= candidates'[j].window
  BY <1>1, <1>3 DEF ListInv
<1>4. ASSUME pc' = "durations",
             Len(candidates') < ApiMaxRows \/ Cardinality(Listed') <= ApiMaxRows,
             NEW r \in before'.summaries, InRange(r)'
      PROVE  r \in Range(candidates')
  <2>1. Len(candidates) < ApiMaxRows \/ Cardinality(Listed) <= ApiMaxRows
    BY <1>1, <1>4, ApiAssumption
  <2> QED
    BY <1>1, <1>4, <2>1 DEF ListInv
<1> QED
  BY <1>2, <1>3, <1>4 DEF ListInv

\* A list without repetition, as long as a finite set, has all its members.
LEMMA AllListed ==
    ASSUME NEW S, IsFiniteSet(S), NEW q \in [1..Cardinality(S) -> S],
           \A i, j \in 1..Cardinality(S) : i # j => q[i] # q[j]
    PROVE  \A x \in S : \E i \in 1..Cardinality(S) : q[i] = x
<1>1. Cardinality(S) \in Nat
  BY FS_CardinalityType
<1>2. q \in Injection(1..Cardinality(S), S)
  BY DEF Injection, IsInjective
<1>3. Cardinality(1..Cardinality(S)) = Cardinality(S)
  BY <1>1, FS_Interval
<1>4. q \in Surjection(1..Cardinality(S), S)
  BY <1>2, <1>3, FS_Injection
<1> QED
  BY <1>4 DEF Surjection

\* The rows of the range that the cap leaves out are the only ones missing.
LEMMA CandidatesComplete ==
    ASSUME TableInv, FetchCandidates,
           Len(candidates') < ApiMaxRows \/ Cardinality(Listed) <= ApiMaxRows
    PROVE  \A r \in Listed : \E i \in 1..Len(candidates') : candidates'[i] = r
<1>1. PICK q \in [1..Cardinality(Listed) -> Listed] :
              /\ q \in Seq(Listed) /\ Len(q) = Cardinality(Listed) /\ Cardinality(Listed) \in Nat
              /\ \A i, j \in 1..Len(q) : i # j => q[i] # q[j]
              /\ Len(candidates') = Min({Len(q), ApiMaxRows})
              /\ \A i \in 1..Len(candidates') : candidates'[i] = q[i]
  BY CandidatesRead
<1>2. Len(candidates') = Len(q)
  <2>1. /\ Min({Len(q), ApiMaxRows}) \in {Len(q), ApiMaxRows}
        /\ Min({Len(q), ApiMaxRows}) <= Len(q) /\ Min({Len(q), ApiMaxRows}) <= ApiMaxRows
    BY <1>1, MinOfTwo
  <2> QED
    BY <1>1, <2>1
<1>3. IsFiniteSet(Listed)
  BY FS_Subset DEF Listed, TableInv
<1>4. \A i, j \in 1..Cardinality(Listed) : i # j => q[i] # q[j]
  BY <1>1
<1>5. \A x \in Listed : \E i \in 1..Cardinality(Listed) : q[i] = x
  <2> HIDE DEF Listed
  <2> QED
    BY <1>3, <1>4, AllListed
<1> QED
  BY <1>1, <1>2, <1>5

\* The list that the first query answers is one.
LEMMA ListRead ==
    ASSUME TableInv, FetchCandidates
    PROVE  ListInv'
<1>1. PICK q \in [1..Cardinality(Listed) -> Listed] :
              /\ q \in Seq(Listed) /\ Len(q) = Cardinality(Listed) /\ Cardinality(Listed) \in Nat
              /\ \A i, j \in 1..Len(q) : i # j => q[i] # q[j]
              /\ \A i, j \in 1..Len(q) : i < j => q[i].window >= q[j].window
              /\ Len(candidates') = Min({Len(q), ApiMaxRows})
              /\ candidates' \in Seq(Listed)
              /\ \A i \in 1..Len(candidates') : candidates'[i] = q[i]
  BY CandidatesRead
<1>2. /\ Len(candidates') <= ApiMaxRows /\ Len(candidates') <= Len(q)
      /\ Len(candidates') \in Nat
  BY <1>1, MinOfTwo
<1>3. /\ summaries' = summaries /\ query' = query /\ before' = before
  BY DEF FetchCandidates, tables
<1>4. Listed' = Listed /\ \A r : InRange(r)' <=> InRange(r)
  BY <1>3 DEF Listed, InRange
<1>5. candidates' \in Seq(summaries')
  BY <1>1, <1>3 DEF Listed
<1>6. \A i \in 1..Len(candidates') : InRange(candidates[i])'
  <2>1. \A i \in 1..Len(candidates') : candidates'[i] \in Listed'
    BY <1>1, <1>4
  <2> QED
    BY <2>1 DEF Listed
<1>7. \A i, j \in 1..Len(candidates') :
          i < j => /\ candidates'[i] # candidates'[j]
                   /\ candidates'[i].window >= candidates'[j].window
  <2>1. \A i \in 1..Len(candidates') : i \in 1..Len(q)
    BY <1>1, <1>2
  <2>2. ASSUME NEW i \in 1..Len(candidates'), NEW j \in 1..Len(candidates'), i < j
        PROVE  i # j /\ i \in 1..Len(q) /\ j \in 1..Len(q)
    BY <1>2, <2>1, <2>2
  <2> QED
    BY <1>1, <2>2
<1>8. ASSUME Len(candidates') < ApiMaxRows \/ Cardinality(Listed') <= ApiMaxRows,
             NEW r \in before'.summaries, InRange(r)'
      PROVE  r \in Range(candidates')
  <2>1. r \in Listed
    BY <1>3, <1>4, <1>8 DEF TableInv, Listed
  <2>2. \E i \in 1..Len(candidates') : candidates'[i] = r
    BY <1>4, <1>8, <2>1, CandidatesComplete
  <2> QED
    BY <1>5, <2>2, RangeOf
<1> QED
  BY <1>2, <1>5, <1>6, <1>7, <1>8 DEF ListInv

\* The second part of the invariant is kept by every step.
LEMMA ListHolds ==
    ASSUME TableInv, TableInv', ListInv, Next
    PROVE  ListInv'
<1>1. Grows
  BY TablesGrow
<1>2. CASE FetchCandidates
  BY <1>2, ListRead
<1>3. CASE OpenSession \/ FetchDurations
  <2>1. pc' # "durations" /\ summaries' = summaries /\ candidates' \in {candidates, <<>>}
    BY <1>3 DEF OpenSession, FetchDurations, tables
  <2>2. candidates \in Seq(summaries) /\ <<>> \in Seq(summaries)
    BY EmptySeq DEF ListInv
  <2> QED
    BY <2>1, <2>2 DEF ListInv
<1>4. CASE ~FetchCandidates /\ ~OpenSession /\ ~FetchDurations
  <2>1. /\ query' = query /\ candidates' = candidates
        /\ before'.summaries = before.summaries
        /\ pc' = "durations" => pc = "durations"
    <3>1. CASE Elsewhere
      BY <3>1 DEF Elsewhere, pageVars
    <3>2. CASE Client
      <4>1. /\ query' = query /\ candidates' = candidates /\ pc' # "durations"
        BY <1>4, <3>2 DEF Client, FetchSpans, FetchClassifications, FetchOffsets, pageVars
      <4>2. before'.summaries = before.summaries
        BY <1>4, <3>2 DEF Client, FetchSpans, FetchClassifications, FetchOffsets, TableInv
      <4> QED
        BY <4>1, <4>2
    <3> QED
      BY <3>1, <3>2, WhoseStep
  <2> QED
    BY <1>1, <2>1, ListKept
<1> QED
  BY <1>2, <1>3, <1>4

(* the pages *)

\* What is wanted and alone, and a session that is whole, were so before other
\* steps.
LEMMA SoBefore ==
    ASSUME TableInv, TableInv', Grows, query' = query, told => told',
           before'.stored = before.stored, NEW r
    PROVE  /\ Wanted(r)' <=> Wanted(r)
           /\ Alone(r)' => Alone(r)
           /\ Uncapped' => Uncapped
<1>1. /\ \A o : InRange(o)' <=> InRange(o)
      /\ Cardinality(Listed) \in Nat /\ Cardinality(Listed') \in Nat
      /\ Cardinality(Listed) <= Cardinality(Listed')
  BY ListedGrows
<1>2. Wanted(r)' <=> Wanted(r)
  BY <1>1 DEF Wanted, Starts
<1>3. Alone(r)' => Alone(r)
  BY DEF Alone, Grows
<1>4. Uncapped' => Uncapped
  <2>1. CASE query.filter
    BY <2>1 DEF Uncapped
  <2>2. CASE ~query.filter
    <3>1. /\ Uncapped <=> Cardinality(Listed) <= ApiMaxRows
          /\ Uncapped' <=> Cardinality(Listed') <= ApiMaxRows
      BY <2>2 DEF Uncapped, Listed
    <3> HIDE DEF Uncapped, Listed
    <3> QED
      BY <1>1, <3>1
  <2> QED
    BY <2>1, <2>2
<1> QED
  BY <1>2, <1>3, <1>4

\* The rows ahead of one are finitely many and stay ahead.
LEMMA AheadGrows ==
    ASSUME TableInv, TableInv', Grows, query' = query, NEW r
    PROVE  /\ Ahead(r) \subseteq Ahead(r)' /\ IsFiniteSet(Ahead(r)) /\ IsFiniteSet(Ahead(r)')
           /\ Cardinality(Ahead(r)) \in Nat /\ Cardinality(Ahead(r)') \in Nat
           /\ Cardinality(Ahead(r)) <= Cardinality(Ahead(r)')
<1>1. /\ Listed \subseteq Listed' /\ IsFiniteSet(Listed) /\ IsFiniteSet(Listed')
  BY ListedGrows
<1>2. stored \subseteq stored' /\ stored' \subseteq Spans
  BY DEF Grows, TableInv, TypeOK
<1>3. Ahead(r) \subseteq Ahead(r)'
  BY <1>1, <1>2, StaysLong DEF Ahead
<1>4. Ahead(r) \subseteq Listed /\ Ahead(r)' \subseteq Listed'
  BY DEF Ahead
<1>5. IsFiniteSet(Ahead(r)) /\ IsFiniteSet(Ahead(r)')
  BY <1>1, <1>4, FS_Subset
<1> QED
  BY <1>3, <1>5, FS_Subset, FS_CardinalityType

\* So are their places in the list.
LEMMA AheadAtGrows ==
    ASSUME TableInv, TableInv', Grows, ListInv, query' = query, candidates' = candidates, NEW r
    PROVE  /\ AheadAt(r) \subseteq AheadAt(r)' /\ IsFiniteSet(AheadAt(r)) /\ IsFiniteSet(AheadAt(r)')
           /\ Cardinality(AheadAt(r)) \in Nat /\ Cardinality(AheadAt(r)') \in Nat
           /\ Cardinality(AheadAt(r)) <= Cardinality(AheadAt(r)')
<1>1. Len(candidates) \in Nat
  BY DEF ListInv
<1>2. stored \subseteq stored' /\ stored' \subseteq Spans
  BY DEF Grows, TableInv, TypeOK
<1>3. AheadAt(r) \subseteq AheadAt(r)'
  BY <1>1, <1>2, StaysLong DEF AheadAt
<1>4. /\ AheadAt(r) \subseteq 1..Len(candidates) /\ AheadAt(r)' \subseteq 1..Len(candidates)
      /\ IsFiniteSet(1..Len(candidates))
  BY <1>1, FS_Interval DEF AheadAt
<1>5. IsFiniteSet(AheadAt(r)) /\ IsFiniteSet(AheadAt(r)')
  BY <1>4, FS_Subset
<1> QED
  BY <1>3, <1>5, FS_Subset, FS_CardinalityType

\* Other processes only put more rows ahead.
LEMMA PageKept ==
    ASSUME TableInv, TableInv', ListInv, PageInv, Grows, Elsewhere
    PROVE  PageInv'
<1>1. /\ query' = query /\ candidates' = candidates /\ at' = at /\ seen' = seen /\ told' = told
      /\ pc' = pc /\ before' = before
  BY DEF Elsewhere, pageVars
<1> SUFFICES ASSUME NEW r \in before'.summaries, (Wanted(r) /\ Alone(r) /\ Uncapped)'
             PROVE  /\ pc' = "candidates" => (r \in seen' \/ at' <= Cardinality(Ahead(r)'))
                    /\ (pc' = "durations" /\ ~Truncated') => (r \in seen' \/ at' <= Cardinality(AheadAt(r)'))
                    /\ pc' = "paged" => r \in seen'
  BY DEF PageInv
<1>2. Wanted(r) /\ Alone(r) /\ Uncapped /\ r \in before.summaries
  BY <1>1, SoBefore
<1>3. Truncated' <=> Truncated
  BY <1>1 DEF Truncated
<1>4. /\ Cardinality(Ahead(r)) \in Nat /\ Cardinality(Ahead(r)') \in Nat
      /\ Cardinality(Ahead(r)) <= Cardinality(Ahead(r)')
  BY <1>1, AheadGrows
<1>5. /\ Cardinality(AheadAt(r)) \in Nat /\ Cardinality(AheadAt(r)') \in Nat
      /\ Cardinality(AheadAt(r)) <= Cardinality(AheadAt(r)')
  BY <1>1, AheadAtGrows
<1>6. at \in Nat
  BY DEF TableInv, TypeOK
<1>7. /\ pc = "candidates" => (r \in seen \/ at <= Cardinality(Ahead(r)))
      /\ (pc = "durations" /\ ~Truncated) => (r \in seen \/ at <= Cardinality(AheadAt(r)))
      /\ pc = "paged" => r \in seen
  BY <1>2 DEF PageInv
<1> HIDE ApiAssumption
<1> QED
  BY <1>1, <1>3, <1>4, <1>5, <1>6, <1>7

\* A session opens with nothing to skip.
LEMMA PageOpened ==
    ASSUME TableInv, TableInv', OpenSession
    PROVE  PageInv'
<1>1. pc' = "candidates" /\ at' = 0
  BY DEF OpenSession, TableInv
<1>2. \A r : Cardinality(Ahead(r)') \in Nat
  <2> SUFFICES ASSUME NEW r PROVE Cardinality(Ahead(r)') \in Nat
    OBVIOUS
  <2>1. Ahead(r)' \subseteq summaries' /\ IsFiniteSet(summaries')
    BY DEF Ahead, Listed, TableInv
  <2> QED
    BY <2>1, FS_Subset, FS_CardinalityType
<1>3. \A r : at' <= Cardinality(Ahead(r)')
  BY <1>1, <1>2
<1> QED
  BY <1>1, <1>3 DEF PageInv

\* A set each of whose members is at a place of another one is no larger.
LEMMA CoveredBy ==
    ASSUME NEW A, NEW B, IsFiniteSet(B), NEW q, \A o \in A : \E i \in B : q[i] = o
    PROVE  Cardinality(A) <= Cardinality(B)
<1> DEFINE f == [o \in A |-> CHOOSE i \in B : q[i] = o]
<1>1. \A o \in A : f[o] \in B /\ q[f[o]] = o
  OBVIOUS
<1>2. f \in [A -> B]
  BY <1>1
<1>3. \A o, p \in A : f[o] = f[p] => o = p
  <2> HIDE DEF f
  <2> QED
    BY <1>1
<1> HIDE DEF f
<1>4. f \in Injection(A, B)
  BY <1>2, <1>3 DEF Injection, IsInjective
<1> QED
  BY <1>4, FS_Injection

\* The filter on the rows of the list that was just read.
LEMMA FilterRead ==
    ASSUME FetchCandidates, NEW i, NEW o, candidates'[i] = o
    PROVE  LongEnough(candidates[i])' <=> LongEnough(o)
<1>1. query' = query /\ stored' = stored
  BY DEF FetchCandidates, tables
<1>2. LongEnough(o) <=> (~query.filter \/ LengthIn(stored, o.trace) >= MinDuration)
  BY DEF LongEnough, Duration, LengthIn, Starts
<1>3. LongEnough(candidates[i])'
        <=> (~query'.filter \/ LengthIn(stored', candidates'[i].trace) >= MinDuration)
  BY DEF LongEnough, Duration, LengthIn, Starts
<1> QED
  BY <1>1, <1>2, <1>3

\* What is ahead of a row of the table when the list is read is ahead of it in
\* the list.
LEMMA AheadRead ==
    ASSUME TableInv, FetchCandidates,
           Len(candidates') < ApiMaxRows \/ Cardinality(Listed) <= ApiMaxRows, NEW r
    PROVE  /\ Cardinality(Ahead(r)) \in Nat /\ Cardinality(AheadAt(r)') \in Nat
           /\ Cardinality(Ahead(r)) <= Cardinality(AheadAt(r)')
<1>1. \A o \in Listed : \E i \in 1..Len(candidates') : candidates'[i] = o
  BY CandidatesComplete
<1>2. Len(candidates') \in Nat
  BY CandidatesRead
<1>3. \A o \in Ahead(r) : \E i \in AheadAt(r)' : candidates'[i] = o
  <2> SUFFICES ASSUME NEW o \in Ahead(r) PROVE \E i \in AheadAt(r)' : candidates'[i] = o
    OBVIOUS
  <2>1. PICK i \in 1..Len(candidates') : candidates'[i] = o
    BY <1>1 DEF Ahead
  <2>2. LongEnough(candidates[i])' /\ candidates'[i].window > r.window
    BY <2>1, FilterRead DEF Ahead
  <2> QED
    BY <2>1, <2>2 DEF AheadAt
<1>4. IsFiniteSet(Ahead(r)) /\ IsFiniteSet(AheadAt(r)')
  <2>1. Ahead(r) \subseteq summaries /\ IsFiniteSet(summaries)
    BY DEF Ahead, Listed, TableInv
  <2>2. AheadAt(r)' \subseteq 1..Len(candidates') /\ IsFiniteSet(1..Len(candidates'))
    BY <1>2, FS_Interval DEF AheadAt
  <2> QED
    BY <2>1, <2>2, FS_Subset
<1>5. Cardinality(Ahead(r)) <= Cardinality(AheadAt(r)')
  <2> DEFINE A == Ahead(r)
             B == AheadAt(r)'
             q == candidates'
  <2>1. \A o \in A : \E i \in B : q[i] = o
    BY <1>3
  <2>2. IsFiniteSet(B)
    BY <1>4
  <2> HIDE DEF A, B, q
  <2>3. Cardinality(A) <= Cardinality(B)
    BY <2>1, <2>2, CoveredBy
  <2> QED
    BY <2>3 DEF A, B
<1> QED
  BY <1>4, <1>5, FS_CardinalityType

\* A session that is whole read a list that is complete.
LEMMA WholeList ==
    ASSUME Uncapped, ~Truncated, Len(candidates) \in Nat
    PROVE  Len(candidates) < ApiMaxRows \/ Cardinality(Listed) <= ApiMaxRows
<1>1. CASE query.filter
  BY <1>1 DEF Truncated
<1>2. CASE ~query.filter
  BY <1>2 DEF Uncapped, Listed
<1> QED
  BY <1>1, <1>2

\* Reading the list: what was ahead in the table is ahead in the list.
LEMMA PageListed ==
    ASSUME TableInv, TableInv', ListInv', PageInv, Grows, FetchCandidates
    PROVE  PageInv'
<1>1. /\ query' = query /\ at' = at /\ seen' = seen /\ told' = told /\ before' = before
      /\ pc = "candidates" /\ pc' = "durations" /\ summaries' = summaries
  BY DEF FetchCandidates, tables
<1> SUFFICES ASSUME NEW r \in before'.summaries, (Wanted(r) /\ Alone(r) /\ Uncapped)', ~Truncated'
             PROVE  r \in seen' \/ at' <= Cardinality(AheadAt(r)')
  BY <1>1 DEF PageInv
<1>2. Wanted(r) /\ Alone(r) /\ Uncapped /\ r \in before.summaries
  BY <1>1, SoBefore
<1>3. Len(candidates') < ApiMaxRows \/ Cardinality(Listed) <= ApiMaxRows
  <2>1. Len(candidates') \in Nat
    BY CandidatesRead
  <2>2. CASE query.filter
    BY <1>1, <2>1, <2>2 DEF Truncated
  <2>3. CASE ~query.filter
    BY <1>2, <2>3 DEF Uncapped, Listed
  <2> QED
    BY <2>2, <2>3
<1>4. /\ Cardinality(Ahead(r)) \in Nat /\ Cardinality(AheadAt(r)') \in Nat
      /\ Cardinality(Ahead(r)) <= Cardinality(AheadAt(r)')
  BY <1>3, AheadRead
<1>5. r \in seen \/ at <= Cardinality(Ahead(r))
  BY <1>1, <1>2 DEF PageInv
<1>6. at \in Nat
  BY DEF TableInv, TypeOK
<1> QED
  BY <1>1, <1>4, <1>5, <1>6

-----------------------------------------------------------------------------

\* A row that is wanted passes the filter, however much later it is applied.
LEMMA WantedIsLong ==
    ASSUME TableInv, NEW r \in before.summaries, Wanted(r)
    PROVE  LongEnough(r)
<1>1. CASE ~query.filter
  BY <1>1 DEF LongEnough
<1>2. CASE query.filter
  <2>1. /\ before.stored \in SUBSET Spans /\ stored \in SUBSET Spans
        /\ before.stored \subseteq stored
    BY DEF TableInv, TypeOK
  <2>2. Starts(before.stored, r.trace) # {}
    BY DEF TableInv, Starts
  <2>3. /\ LengthIn(before.stored, r.trace) <= LengthIn(stored, r.trace)
        /\ LengthIn(before.stored, r.trace) \in Nat /\ LengthIn(stored, r.trace) \in Nat
    BY <2>1, LengthGrows, LengthNat
  <2>4. LengthIn(before.stored, r.trace) >= MinDuration
    BY <1>2, <2>2 DEF Wanted, LengthIn
  <2>5. LengthIn(stored, r.trace) >= MinDuration
    BY <2>3, <2>4
  <2>6. Duration(r.trace) = LengthIn(stored, r.trace)
    BY DEF Duration, LengthIn, Starts
  <2> QED
    BY <2>5, <2>6 DEF LongEnough
<1> QED
  BY <1>1, <1>2

\* The place of a row that is alone in its window, among those that pass.
LEMMA RankOf ==
    ASSUME TableInv, ListInv, pc = "durations", NEW i \in 1..Len(candidates),
           Alone(candidates[i]), LongEnough(candidates[i])
    PROVE  /\ i \in Matching
           /\ Rank(i) = Cardinality(AheadAt(candidates[i])) + 1
           /\ Cardinality(AheadAt(candidates[i])) \in Nat
<1> DEFINE r == candidates[i]
           n == Len(candidates)
<1>1. n \in Nat /\ DOMAIN candidates = 1..n
  BY DEF ListInv
<1>2. Matching = {j \in 1..n : LongEnough(candidates[j])}
  BY <1>1 DEF Matching
<1>3. \A j \in 1..n : candidates[j] \in summaries /\ candidates[j].window \in Nat
  <2>1. \A j \in 1..n : candidates[j] \in summaries
    BY DEF ListInv
  <2> QED
    BY <2>1, WindowsNat DEF TableInv, TypeOK
<1>4. \A j, k \in 1..n :
          j < k => candidates[j] # candidates[k] /\ candidates[j].window >= candidates[k].window
  BY DEF ListInv
<1>5. \A j \in 1..n : j # i => candidates[j] # candidates[i]
  BY <1>1, <1>4
<1>6. \A j \in 1..n : j # i => candidates[j].window # candidates[i].window
  BY <1>3, <1>5 DEF Alone
<1>7. \A j \in 1..n : candidates[j].window > candidates[i].window <=> j < i
  <2> SUFFICES ASSUME NEW j \in 1..n
               PROVE  candidates[j].window > candidates[i].window <=> j < i
    OBVIOUS
  <2>1. CASE j < i
    <3>1. candidates[j].window >= candidates[i].window /\ candidates[j].window # candidates[i].window
      BY <1>4, <1>6, <2>1
    <3> QED
      BY <1>3, <2>1, <3>1
  <2>2. CASE j > i
    <3>1. candidates[i].window >= candidates[j].window
      BY <1>1, <1>4, <2>2
    <3> QED
      BY <1>1, <1>3, <2>2, <3>1
  <2>3. CASE j = i
    BY <1>1, <1>3, <2>3
  <2> QED
    BY <1>1, <2>1, <2>2, <2>3
<1>8. i \in Matching
  BY <1>2
<1>9. {j \in Matching : j <= i} = AheadAt(candidates[i]) \cup {i} /\ i \notin AheadAt(candidates[i])
  <2>1. AheadAt(candidates[i]) = {j \in 1..n : j < i /\ LongEnough(candidates[j])}
    BY <1>7 DEF AheadAt
  <2>2. {j \in Matching : j <= i} = {j \in 1..n : (j < i \/ j = i) /\ LongEnough(candidates[j])}
    BY <1>1, <1>2
  <2> HIDE DEF n
  <2> QED
    BY <2>1, <2>2, <1>1
<1>10. IsFiniteSet(AheadAt(candidates[i]))
  <2>1. AheadAt(candidates[i]) \subseteq 1..n /\ IsFiniteSet(1..n)
    BY <1>1, FS_Interval DEF AheadAt
  <2> QED
    BY <2>1, FS_Subset
<1>11. Cardinality(AheadAt(candidates[i]) \cup {i}) = Cardinality(AheadAt(candidates[i])) + 1
  BY <1>9, <1>10, FS_AddElement
<1> QED
  BY <1>8, <1>9, <1>10, <1>11, FS_CardinalityType DEF Rank

\* The places of a list.
LEMMA UpTo == ASSUME NEW n \in Nat PROVE IsFiniteSet(1..n) /\ Cardinality(1..n) = n
<1>1. /\ IsFiniteSet(1..n)
      /\ Cardinality(1..n) = IF 1 > n THEN 0 ELSE n - 1 + 1
  BY FS_Interval
<1> QED
  BY <1>1

\* What is ahead in the list is ahead in the table, and passes the filter.
LEMMA AheadNow ==
    ASSUME TableInv, ListInv, pc = "durations", NEW r
    PROVE  /\ Cardinality(AheadAt(r)) <= Cardinality(Ahead(r))
           /\ Cardinality(AheadAt(r)) \in Nat /\ Cardinality(Ahead(r)) \in Nat
<1> DEFINE A == AheadAt(r)
           B == Ahead(r)
           f == [i \in A |-> candidates[i]]
<1>1. Len(candidates) \in Nat /\ \A i \in 1..Len(candidates) : candidates[i] \in summaries
  BY DEF ListInv
<1>2. f \in [A -> B]
  <2>1. \A i \in 1..Len(candidates) : InRange(candidates[i])
    BY DEF ListInv
  <2> QED
    BY <1>1, <2>1 DEF AheadAt, Ahead, Listed
<1>3. \A i, j \in A : candidates[i] = candidates[j] => i = j
  <2>1. \A i, j \in 1..Len(candidates) : i < j => candidates[i] # candidates[j]
    BY DEF ListInv
  <2>2. \A i, j \in 1..Len(candidates) : candidates[i] = candidates[j] => i = j
    BY <1>1, <2>1
  <2> QED
    BY <2>2 DEF AheadAt
<1>4. f \in Injection(A, B)
  BY <1>2, <1>3 DEF Injection, IsInjective
<1>5. IsFiniteSet(B)
  BY FS_Subset DEF Ahead, Listed, TableInv
<1>6. IsFiniteSet(A)
  <2>1. A \subseteq 1..Len(candidates) /\ IsFiniteSet(1..Len(candidates))
    BY <1>1, FS_Interval DEF AheadAt
  <2> QED
    BY <2>1, FS_Subset
<1> HIDE DEF A, B, f
<1>7. Cardinality(A) <= Cardinality(B) /\ Cardinality(A) \in Nat /\ Cardinality(B) \in Nat
  BY <1>4, <1>5, <1>6, FS_Injection, FS_CardinalityType
<1> QED
  BY <1>7 DEF A, B

\* The page: a wanted row that is not on it is behind all of it.
LEMMA PageTurned ==
    ASSUME TableInv, TableInv', ListInv, PageInv, Grows, FetchDurations
    PROVE  PageInv'
<1>1. /\ query' = query /\ before' = before /\ pc = "durations"
      /\ summaries' = summaries /\ stored' = stored
      /\ seen' = seen \cup Page /\ told' = (told \/ Truncated)
      /\ pc' \in {"candidates", "paged"}
      /\ HasMore => pc' = "candidates" /\ at' = at + query.limit
      /\ ~HasMore => pc' = "paged" /\ at' = at
  BY DEF FetchDurations, tables
<1> SUFFICES ASSUME NEW r \in before'.summaries, (Wanted(r) /\ Alone(r) /\ Uncapped)'
             PROVE  /\ pc' = "candidates" => (r \in seen' \/ at' <= Cardinality(Ahead(r)'))
                    /\ pc' = "paged" => r \in seen'
  BY <1>1 DEF PageInv
<1>2. Wanted(r) /\ Alone(r) /\ Uncapped /\ r \in before.summaries
  BY <1>1, SoBefore
<1>3. ~Truncated
  <2>1. CASE query.filter
    BY <1>1, <2>1 DEF Uncapped
  <2>2. CASE ~query.filter
    BY <2>2 DEF Truncated
  <2> QED
    BY <2>1, <2>2
<1>4. r \in seen \/ at <= Cardinality(AheadAt(r))
  BY <1>1, <1>2, <1>3 DEF PageInv
<1>5. CASE r \in seen
  BY <1>1, <1>5
<1>6. CASE r \notin seen
  <2>1. Len(candidates) \in Nat /\ Len(candidates) <= ApiMaxRows
    BY <1>1 DEF ListInv
  <2>2. Len(candidates) < ApiMaxRows \/ Cardinality(Listed) <= ApiMaxRows
    BY <1>2, <1>3, <2>1, WholeList
  <2>3. r \in Range(candidates)
    BY <1>1, <1>2, <2>2 DEF ListInv, Wanted
  <2>4. PICK i \in 1..Len(candidates) : candidates[i] = r
    BY <2>3, RangeOf DEF ListInv
  <2>5. LongEnough(r)
    BY <1>2, WantedIsLong
  <2>6. /\ i \in Matching /\ Rank(i) = Cardinality(AheadAt(r)) + 1
        /\ Cardinality(AheadAt(r)) \in Nat
    BY <1>1, <1>2, <2>4, <2>5, RankOf
  <2> DEFINE c == ClampLimit(query.limit)
  <2>7. /\ query.limit \in Nat \ {0} /\ c \in Nat /\ at \in Nat
        /\ c = query.limit \/ c = ApiMaxRows
    <3>1. query.limit \in Nat \ {0} /\ at \in Nat
      BY DEF TableInv, TypeOK
    <3> QED
      BY <3>1, MinOfTwo DEF ClampLimit
  <2>8. PageEnd = at + c
    BY DEF PageEnd
  <2>9. at < Rank(i)
    BY <1>4, <1>6, <2>6, <2>7
  <2>10. CASE Rank(i) <= PageEnd
    <3>1. r \in Page
      BY <2>4, <2>6, <2>9, <2>10 DEF Page
    <3> QED
      BY <1>1, <3>1
  <2>11. CASE ~(Rank(i) <= PageEnd)
    <3>1. /\ IsFiniteSet(Matching) /\ Cardinality(Matching) \in Nat
          /\ Cardinality(Matching) <= Len(candidates) /\ Rank(i) <= Cardinality(Matching)
      <4>0. DOMAIN candidates = 1..Len(candidates)
        BY DEF ListInv
      <4>1. Matching \subseteq 1..Len(candidates) /\ IsFiniteSet(1..Len(candidates))
            /\ Cardinality(1..Len(candidates)) = Len(candidates)
        <5>1. Matching \subseteq 1..Len(candidates)
          BY <4>0 DEF Matching
        <5>2. IsFiniteSet(1..Len(candidates)) /\ Cardinality(1..Len(candidates)) = Len(candidates)
          BY <2>1, UpTo
        <5> QED
          BY <5>1, <5>2
      <4>2. {j \in Matching : j <= i} \subseteq Matching
        OBVIOUS
      <4> QED
        BY <4>1, <4>2, FS_Subset, FS_CardinalityType DEF Rank
    <3>2. HasMore
      <4> HIDE DEF c
      <4>1. PageEnd < Cardinality(Matching)
        BY <2>6, <2>7, <2>8, <2>11, <3>1
      <4> QED
        BY <2>7, <2>8, <3>1, <4>1 DEF HasMore
    <3>3. at' = at + query.limit /\ pc' = "candidates"
      BY <1>1, <3>2
    <3>4. c = query.limit
      <4> HIDE DEF c
      <4> QED
        BY <2>1, <2>6, <2>7, <2>8, <2>11, <3>1
    <3>5. at + query.limit <= Cardinality(AheadAt(r))
      <4> HIDE DEF c
      <4> QED
        BY <2>6, <2>7, <2>8, <2>11, <3>4
    <3>6. /\ Cardinality(AheadAt(r)) <= Cardinality(Ahead(r)) /\ Cardinality(Ahead(r)) \in Nat
      BY <1>1, AheadNow
    <3>7. Ahead(r)' = Ahead(r)
      BY <1>1 DEF Ahead, Listed, InRange, LongEnough, Duration
    <3> QED
      BY <2>6, <2>7, <3>3, <3>5, <3>6, <3>7
  <2> QED
    BY <2>10, <2>11
<1> QED
  BY <1>5, <1>6

\* The third part of the invariant is kept by every step.
LEMMA PageHolds ==
    ASSUME TableInv, TableInv', ListInv, ListInv', PageInv, Next
    PROVE  PageInv'
<1>1. Grows
  BY TablesGrow
<1>2. CASE Elsewhere
  BY <1>1, <1>2, PageKept
<1>3. CASE OpenSession
  BY <1>3, PageOpened
<1>4. CASE FetchCandidates
  BY <1>1, <1>4, PageListed
<1>5. CASE FetchDurations
  BY <1>1, <1>5, PageTurned
<1>6. CASE (\E t \in Traces : FetchSpans(t)) \/ FetchClassifications \/ FetchOffsets
  <2>1. pc' \in {"classifications", "offsets", "shown"}
    BY <1>6 DEF FetchSpans, FetchClassifications, FetchOffsets
  <2> QED
    BY <2>1 DEF PageInv
<1> QED
  BY <1>2, <1>3, <1>4, <1>5, <1>6, WhoseStep DEF Client

(* the detail *)

\* Division by the length of a window.
LEMMA WindowsBefore ==
    ASSUME NEW w \in Nat, NEW t \in Nat
    PROVE  w * WindowTicks <= t <=> w <= t \div WindowTicks
OBVIOUS

\* The start of the trace that is shown.
LEMMA TraceStartNat ==
    ASSUME TableInv, DetailInv, detail.spans # {}
    PROVE  TraceStart \in Nat
<1> DEFINE S == {Start[s] : s \in detail.spans}
           f == [s \in detail.spans |-> Start[s]]
<1>1. detail.spans \subseteq Spans
  BY DEF TableInv, TypeOK, DetailInv
<1>2. S \subseteq Nat /\ S # {}
  BY <1>1
<1>3. f \in [detail.spans -> S] /\ \A y \in S : \E x \in detail.spans : f[x] = y
  OBVIOUS
<1>4. IsFiniteSet(detail.spans)
  BY <1>1, FS_Subset
<1> HIDE DEF S, f
<1>5. IsFiniteSet(S)
  BY <1>3, <1>4, ImageFinite
<1>6. Min(S) \in Nat
  BY <1>2, <1>5, Bounds
<1> QED
  BY <1>6 DEF TraceStart, S

\* Nothing in the detail changes when the tables grow.
LEMMA DetailKept ==
    ASSUME TableInv, TableInv', DetailInv, Grows, detail' = detail,
           before'.classified = before.classified, before'.offsets = before.offsets,
           pc' = pc \/ pc' \notin {"classifications", "offsets", "shown"}
    PROVE  DetailInv'
<1>1. detail' \in [spans : SUBSET stored', class : SUBSET stored', offset : SUBSET offsets']
  BY DEF DetailInv, Grows
<1>2. pc' \in {"classifications", "offsets", "shown"} => detail'.spans # {}
  BY DEF DetailInv
<1>3. pc' \in {"offsets", "shown"} => detail'.spans \cap before'.classified \subseteq detail'.class
  BY DEF DetailInv
<1>4. DetailIsCurrent'
  BY DEF DetailInv, DetailIsCurrent, TraceStart
<1> QED
  BY <1>1, <1>2, <1>3, <1>4 DEF DetailInv

\* The spans of a trace that has some.
LEMMA SpansFetched ==
    ASSUME TableInv, DetailInv, \E t \in Traces : FetchSpans(t)
    PROVE  DetailInv'
<1>1. PICK t \in Traces : FetchSpans(t)
  OBVIOUS
<1>2. /\ pc' = "classifications" /\ stored' = stored /\ offsets' = offsets
      /\ detail' = [NoDetail EXCEPT !.spans = {s \in stored : Trace[s] = t}]
      /\ \E s \in stored : Trace[s] = t
  BY <1>1 DEF FetchSpans, tables
<1>3. detail' = [spans |-> {s \in stored : Trace[s] = t}, class |-> {}, offset |-> {}]
  BY <1>2 DEF NoDetail
<1>4. /\ detail' \in [spans : SUBSET stored', class : SUBSET stored', offset : SUBSET offsets']
      /\ detail'.spans # {}
  <2> DEFINE S == {s \in stored : Trace[s] = t}
  <2>1. S \in SUBSET stored' /\ {} \in SUBSET stored' /\ {} \in SUBSET offsets' /\ S # {}
    BY <1>2
  <2>2. detail' = [spans |-> S, class |-> {}, offset |-> {}]
    BY <1>3
  <2> HIDE DEF S
  <2> QED
    BY <2>1, <2>2
<1> QED
  BY <1>2, <1>4 DEF DetailInv, DetailIsCurrent

\* Classifications are read after the detail was asked for.
LEMMA ClassificationsFetched ==
    ASSUME TableInv, TableInv', DetailInv, FetchClassifications
    PROVE  DetailInv'
<1>1. /\ pc = "classifications" /\ pc' = "offsets" /\ stored' = stored /\ offsets' = offsets
      /\ classified' = classified /\ before' = before
      /\ detail' = [detail EXCEPT !.class = {s \in detail.spans : s \in classified}]
  BY DEF FetchClassifications, tables
<1>2. /\ detail \in [spans : SUBSET stored, class : SUBSET stored, offset : SUBSET offsets]
      /\ detail.spans # {}
  BY <1>1 DEF DetailInv
<1>3. /\ detail'.spans = detail.spans /\ detail'.offset = detail.offset
      /\ detail'.class = {s \in detail.spans : s \in classified}
      /\ detail' \in [spans : SUBSET stored', class : SUBSET stored', offset : SUBSET offsets']
  BY <1>1, <1>2
<1>4. before.classified \subseteq classified
  BY DEF TableInv
<1>5. detail'.spans \cap before'.classified \subseteq detail'.class
  BY <1>1, <1>3, <1>4
<1> QED
  BY <1>1, <1>2, <1>3, <1>5 DEF DetailInv, DetailIsCurrent

\* So are the newest estimates that the trace may use.
LEMMA OffsetsFetched ==
    ASSUME TableInv, TableInv', DetailInv, FetchOffsets
    PROVE  DetailInv'
<1> DEFINE services == {Service[s] : s \in detail.spans}
           known == {o \in offsets : o.service \in services /\ AtOrBeforeStart(o)}
           newest == {o \in known : \A p \in known : p.service = o.service => p.window <= o.window}
<1>1. /\ pc = "offsets" /\ pc' = "shown" /\ stored' = stored /\ offsets' = offsets
      /\ before' = before /\ detail' = [detail EXCEPT !.offset = newest]
  BY DEF FetchOffsets, tables
<1>2. /\ detail \in [spans : SUBSET stored, class : SUBSET stored, offset : SUBSET offsets]
      /\ detail.spans # {} /\ detail.spans \cap before.classified \subseteq detail.class
  BY <1>1 DEF DetailInv
<1>3. newest \subseteq offsets /\ known \subseteq offsets
  OBVIOUS
<1>4. /\ detail'.spans = detail.spans /\ detail'.class = detail.class /\ detail'.offset = newest
      /\ detail' \in [spans : SUBSET stored', class : SUBSET stored', offset : SUBSET offsets']
  <2> HIDE DEF newest
  <2> QED
    BY <1>1, <1>2, <1>3
<1>5. TraceStart' = TraceStart /\ TraceStart \in Nat
  BY <1>2, <1>4, TraceStartNat DEF TraceStart
<1>6. \A o \in offsets : /\ o \in [service : {Service[s] : s \in Spans}, window : Windows]
                         /\ o.window \in Nat
  BY WindowsNat DEF TableInv, TypeOK
<1>7. \A o \in offsets : AtOrBeforeStart(o) <=> o.window <= TraceStart \div WindowTicks
  <2> SUFFICES ASSUME NEW o \in offsets
               PROVE  AtOrBeforeStart(o) <=> o.window <= TraceStart \div WindowTicks
    OBVIOUS
  <2>1. o.window \in Nat
    BY <1>6
  <2> QED
    BY <2>1, <1>5, WindowsBefore DEF AtOrBeforeStart
<1>8. \A o, p \in newest : o.service = p.service => o = p
  <2> SUFFICES ASSUME NEW o \in newest, NEW p \in newest, o.service = p.service
               PROVE  o = p
    OBVIOUS
  <2>1. o \in known /\ p \in known /\ o \in offsets /\ p \in offsets
    OBVIOUS
  <2>2. p.window <= o.window /\ o.window <= p.window
    BY <2>1
  <2>3. o.window \in Nat /\ p.window \in Nat
    BY <1>6, <2>1
  <2>4. o.window = p.window
    BY <2>2, <2>3
  <2>5. /\ o = [service |-> o.service, window |-> o.window]
        /\ p = [service |-> p.service, window |-> p.window]
    BY <1>6, <2>1
  <2> QED
    BY <2>4, <2>5
<1>9. \A o \in newest : o.window <= TraceStart \div WindowTicks
  BY <1>7
<1>10. ASSUME NEW p \in before.offsets, p.service \in services,
              p.window <= TraceStart \div WindowTicks
       PROVE  \E o \in newest : o.service = p.service /\ p.window <= o.window
  <2>1. p \in known
    BY <1>7, <1>10 DEF TableInv
  <2> DEFINE O == {o \in known : o.service = p.service}
             W == {o.window : o \in O}
             f == [o \in O |-> o.window]
  <2>2. O \subseteq offsets /\ p \in O
    BY <2>1
  <2>3. IsFiniteSet(O)
    BY <2>2, FS_Subset DEF TableInv
  <2>4. f \in [O -> W] /\ \A y \in W : \E x \in O : f[x] = y
    OBVIOUS
  <2>5. IsFiniteSet(W)
    <3> HIDE DEF f, W, O
    <3> QED
      BY <2>3, <2>4, ImageFinite
  <2>6. W \subseteq Nat /\ W # {}
    BY <2>2, <1>6
  <2>7. PICK m \in W : \A y \in W : y <= m
    <3> HIDE DEF W
    <3> QED
      BY <2>5, <2>6, LargestOf
  <2>8. PICK o \in O : o.window = m
    OBVIOUS
  <2>9. \A q \in O : q.window <= o.window
    BY <2>7, <2>8
  <2>10. o \in newest /\ o.service = p.service /\ p.window <= o.window
    BY <2>2, <2>9
  <2> QED
    BY <2>10
<1>11. DetailIsCurrent'
  <2> HIDE DEF newest, known
  <2> QED
    BY <1>1, <1>2, <1>4, <1>5, <1>8, <1>9, <1>10 DEF DetailIsCurrent
<1> QED
  <2> HIDE DEF newest, known, services
  <2> QED
    BY <1>1, <1>2, <1>4, <1>11 DEF DetailInv

\* The last part of the invariant is kept by every step.
LEMMA DetailHolds ==
    ASSUME TableInv, TableInv', DetailInv, Next
    PROVE  DetailInv'
<1>1. Grows
  BY TablesGrow
<1>2. CASE Elsewhere
  <2>1. detail' = detail /\ before' = before /\ pc' = pc
    BY <1>2 DEF Elsewhere, detailVars
  <2> QED
    BY <1>1, <2>1, DetailKept
<1>3. CASE OpenSession \/ FetchCandidates \/ FetchDurations
  <2>1. /\ detail' = detail /\ pc' \notin {"classifications", "offsets", "shown"}
        /\ before'.classified = before.classified /\ before'.offsets = before.offsets
    BY <1>3 DEF OpenSession, FetchCandidates, FetchDurations, detailVars, TableInv
  <2> QED
    BY <1>1, <2>1, DetailKept
<1>4. CASE \E t \in Traces : FetchSpans(t)
  BY <1>4, SpansFetched
<1>5. CASE FetchClassifications
  BY <1>5, ClassificationsFetched
<1>6. CASE FetchOffsets
  BY <1>6, OffsetsFetched
<1> QED
  BY <1>2, <1>3, <1>4, <1>5, <1>6, WhoseStep DEF Client

-----------------------------------------------------------------------------

\* The inductive invariant of the API and the tables.
THEOREM Inductive == Spec => []ApiInv
<1>1. Init => ApiInv
  BY InitHolds
<1>2. ASSUME ApiInv, [Next]_vars PROVE ApiInv'
  <2>1. CASE Next
    <3>1. TableInv'
      BY <1>2, <2>1, TablesHold DEF ApiInv
    <3>2. ListInv'
      BY <1>2, <2>1, <3>1, ListHolds DEF ApiInv
    <3>3. PageInv'
      BY <1>2, <2>1, <3>1, <3>2, PageHolds DEF ApiInv
    <3>4. DetailInv'
      BY <1>2, <2>1, <3>1, DetailHolds DEF ApiInv
    <3> QED
      BY <3>1, <3>2, <3>3, <3>4 DEF ApiInv
  <2>2. CASE UNCHANGED vars
    <3>1. Elsewhere /\ Grows /\ UNCHANGED tables
      BY <2>2 DEF vars, Elsewhere, Grows, pageVars, detailVars, tables
    <3>2. TableInv /\ ListInv /\ PageInv /\ DetailInv
      BY <1>2 DEF ApiInv
    <3>3. TableInv'
      BY <2>2, <3>2 DEF vars, TableInv, TypeOK, EveryRowOpens
    <3>4. ListInv'
      BY <3>1, <3>2, <3>3, ListKept DEF Elsewhere, pageVars
    <3>5. PageInv'
      BY <3>1, <3>2, <3>3, PageKept
    <3>6. DetailInv'
      BY <3>1, <3>2, <3>3, DetailKept DEF Elsewhere, detailVars
    <3> QED
      BY <3>3, <3>4, <3>5, <3>6 DEF ApiInv
  <2> QED
    BY <1>2, <2>1, <2>2
<1> QED
  BY <1>1, <1>2, PTL DEF Spec

\* What a client is shown.
LEMMA InvariantImplies == ApiInv => PagingLosesOnlyTies /\ DetailIsCurrent
<1> SUFFICES ASSUME ApiInv PROVE PagingLosesOnlyTies /\ DetailIsCurrent
  OBVIOUS
<1>1. ASSUME pc = "paged", Uncapped, NEW r \in before.summaries,
             InRange(r),
             query.filter => Max(Starts(before.stored, r.trace)) - Min(Starts(before.stored, r.trace))
                               >= MinDuration,
             \A other \in summaries \ {r} : other.window # r.window
      PROVE  r \in seen
  <2>1. Wanted(r) /\ Alone(r)
    BY <1>1 DEF Wanted, Alone
  <2> QED
    BY <1>1, <2>1 DEF ApiInv, PageInv
<1>2. PagingLosesOnlyTies
  <2>1. TypeOK /\ EveryRowOpens
    BY DEF ApiInv, TableInv
  <2> QED
    BY <1>1, <2>1 DEF PagingLosesOnlyTies, Starts
<1>3. DetailIsCurrent
  BY DEF ApiInv, DetailInv
<1> QED
  BY <1>2, <1>3

\* However the analyzer and the writer go on while a client pages, what matched
\* when the session began is on one of its pages, unless a page said that the
\* list was capped or the row shares its window.
THEOREM PagingAlwaysComplete == Spec => []PagingLosesOnlyTies
BY Inductive, InvariantImplies, PTL

\* However they go on while a detail is put together, it is as the analyzer
\* left the trace when it was asked for, or newer.
THEOREM DetailAlwaysCurrent == Spec => []DetailIsCurrent
BY Inductive, InvariantImplies, PTL

HIDE ApiAssumption

-----------------------------------------------------------------------------
(* the data hook *)

\* A status names one of the three states.
LEMMA StatesApart ==
    /\ Loading.status = "loading" /\ Error.status = "error"
    /\ \A d : Success(d).status = "success" /\ Success(d).data = d
    /\ Loading # Error
    /\ \A d : Success(d) # Loading /\ Success(d) # Error
    /\ Loading \in States /\ Error \in States
    /\ \A d \in Deps : Success(d) \in States
<1>1. Loading.status = "loading" /\ Error.status = "error"
  BY DEF Loading, Error
<1>2. \A d : Success(d).status = "success" /\ Success(d).data = d
  BY DEF Success
<1>3. Loading # Error
  BY <1>1
<1>4. \A d : Success(d) # Loading /\ Success(d) # Error
  BY <1>1, <1>2
<1>5. Loading \in States /\ Error \in States /\ \A d \in Deps : Success(d) \in States
  BY DEF States
<1> QED BY <1>1, <1>2, <1>3, <1>4, <1>5

\* The first render establishes the invariant.
LEMMA HookStarts == HookInit => HookInv
<1> SUFFICES ASSUME HookInit PROVE HookInv
  OBVIOUS
<1> USE ApiQueryAssumption, StatesApart DEF HookInit
<1>1. effects \in 0..MaxEffects /\ live \in {NoEffect, effects} /\ polls \in 0..MaxPolls
  OBVIOUS
<1>2. requests \subseteq Request /\ state \in States
  OBVIOUS
<1>3. /\ deps \in Deps /\ closure \in Deps /\ enabled \in BOOLEAN
      /\ dirty \in BOOLEAN /\ mounted \in BOOLEAN /\ hasData \in BOOLEAN
  OBVIOUS
<1>4. HookTypeOK
  BY <1>1, <1>2, <1>3 DEF HookTypeOK
<1> QED BY <1>4 DEF HookInv, ShowsCurrentDeps, RefMatchesScreen, NoEffect

\* A request that the last effect makes.
LEMMA NewRequest ==
    ASSUME NEW e \in 1..MaxEffects, NEW d \in Deps, NEW n \in 0..MaxPolls
    PROVE  /\ [effect |-> e, deps |-> d, nth |-> n] \in Request
           /\ [effect |-> e, deps |-> d, nth |-> n].effect = e
           /\ [effect |-> e, deps |-> d, nth |-> n].deps = d
BY DEF Request

\* The steps of the view and of React's cleanup leave requests and data alone.
LEMMA ViewKeeps ==
    ASSUME HookInv, Rerender \/ Refetch \/ Unmount \/ RunEffectDisabled
    PROVE  HookInv'
<1>1. HookTypeOK'
  BY DEF HookInv, ShowsCurrentDeps, RefMatchesScreen, HookTypeOK, Rerender, Refetch, Unmount, RunEffectDisabled, effectVars
<1>2. \A r \in requests' : r.effect <= effects' /\ (r.effect = effects' => r.deps = closure')
  BY DEF HookInv, ShowsCurrentDeps, RefMatchesScreen, Rerender, Refetch, Unmount, RunEffectDisabled, effectVars
<1>3. (~dirty' /\ enabled') => closure' = deps'
  BY DEF HookInv, ShowsCurrentDeps, RefMatchesScreen, Rerender, Refetch, Unmount, RunEffectDisabled, effectVars
<1>4. ~dirty' /\ enabled' /\ state'.status = "success" => state'.data = deps'
  BY DEF HookInv, ShowsCurrentDeps, RefMatchesScreen, Rerender, Refetch, Unmount, RunEffectDisabled, effectVars
<1>5. /\ hasData' /\ live' # NoEffect => state' # Loading
      /\ state'.status = "success" /\ live' # NoEffect => hasData'
  BY DEF HookInv, ShowsCurrentDeps, RefMatchesScreen, Rerender, Refetch, Unmount, RunEffectDisabled, effectVars
<1> QED BY <1>1, <1>2, <1>3, <1>4, <1>5 DEF HookInv, ShowsCurrentDeps, RefMatchesScreen

\* A new effect starts from nothing, with the deps of the render.
LEMMA RunEffectKeeps ==
    ASSUME HookInv, RunEffect
    PROVE  HookInv'
<1> DEFINE r0 == [effect |-> effects + 1, deps |-> deps, nth |-> 0]
<1> USE ApiQueryAssumption, StatesApart DEF HookInv, ShowsCurrentDeps, RefMatchesScreen, RunEffect
<1>1. effects + 1 \in 1..MaxEffects /\ 0 \in 0..MaxPolls /\ deps \in Deps /\ effects \in Nat
  BY DEF HookTypeOK
<1>2. r0 \in Request /\ r0.effect = effects + 1 /\ r0.deps = deps
  BY <1>1, NewRequest
<1>3. requests' = requests \cup {r0}
  OBVIOUS
<1> HIDE DEF r0
<1>a. requests' \subseteq Request /\ state' \in States
  BY <1>2, <1>3 DEF HookTypeOK
<1>b. effects' \in 0..MaxEffects /\ live' \in {NoEffect, effects'} /\ polls' \in 0..MaxPolls
  BY <1>1
<1>c. /\ deps' \in Deps /\ closure' \in Deps /\ enabled' \in BOOLEAN
      /\ dirty' \in BOOLEAN /\ mounted' \in BOOLEAN /\ hasData' \in BOOLEAN
  BY DEF HookTypeOK
<1>4. HookTypeOK'
  BY <1>a, <1>b, <1>c DEF HookTypeOK
<1>5. \A r \in requests' : r.effect <= effects'
  BY <1>1, <1>2, <1>3 DEF HookTypeOK, Request
<1>6. \A r \in requests' : r.effect = effects' => r.deps = closure'
  BY <1>1, <1>2, <1>3 DEF HookTypeOK, Request
<1> QED BY <1>4, <1>5, <1>6

\* A poll fetches with the closure of the last effect.
LEMMA PollKeeps ==
    ASSUME HookInv, Poll
    PROVE  HookInv'
<1> DEFINE r0 == [effect |-> live, deps |-> closure, nth |-> polls + 1]
<1> USE ApiQueryAssumption DEF HookInv, ShowsCurrentDeps, RefMatchesScreen, Poll, viewVars
<1>1. /\ live = effects /\ live \in 1..MaxEffects
      /\ polls + 1 \in 0..MaxPolls /\ closure \in Deps
  BY DEF HookTypeOK, NoEffect
<1>2. r0 \in Request /\ r0.effect = live /\ r0.deps = closure
  BY <1>1, NewRequest
<1>3. requests' = requests \cup {r0}
  OBVIOUS
<1> HIDE DEF r0
<1>4. HookTypeOK'
  BY <1>1, <1>2, <1>3 DEF HookTypeOK
<1>5. \A r \in requests' : r.effect <= effects' /\ (r.effect = effects' => r.deps = closure')
  BY <1>1, <1>2, <1>3
<1> QED BY <1>4, <1>5

\* An answer is shown only when it belongs to the live effect.
LEMMA SettleKeeps ==
    ASSUME HookInv, NEW r \in requests, Succeeds(r) \/ Fails(r)
    PROVE  HookInv'
<1> USE StatesApart DEF HookInv, ShowsCurrentDeps, RefMatchesScreen, viewVars, effectVars
<1>1. r.deps \in Deps
  BY DEF HookTypeOK, Request
<1>2. HookTypeOK'
  BY <1>1 DEF HookTypeOK, Succeeds, Fails
<1>3. \A q \in requests' : q.effect <= effects' /\ (q.effect = effects' => q.deps = closure')
  BY DEF Succeeds, Fails
<1>4. r.effect = live => r.deps = closure
  BY DEF HookTypeOK, Request, NoEffect
<1>5. ~dirty' /\ enabled' /\ state'.status = "success" => state'.data = deps'
  BY <1>4 DEF Succeeds, Fails
<1>6. /\ hasData' /\ live' # NoEffect => state' # Loading
      /\ state'.status = "success" /\ live' # NoEffect => hasData'
  BY DEF Succeeds, Fails
<1> QED BY <1>2, <1>3, <1>5, <1>6 DEF Succeeds, Fails

\* Every render, effect and answer keeps it.
LEMMA HookKeeps == HookInv /\ [HookNext]_hookVars => HookInv'
<1> SUFFICES ASSUME HookInv, [HookNext]_hookVars PROVE HookInv'
  OBVIOUS
<1>1. CASE Rerender \/ Refetch \/ Unmount \/ RunEffectDisabled
  BY <1>1, ViewKeeps
<1>2. CASE RunEffect
  BY <1>2, RunEffectKeeps
<1>3. CASE Poll
  BY <1>3, PollKeeps
<1>4. CASE Settle
  BY <1>4, SettleKeeps DEF Settle
<1>5. CASE UNCHANGED hookVars
  BY <1>5 DEF HookInv, ShowsCurrentDeps, RefMatchesScreen, HookTypeOK, hookVars
<1> QED BY <1>1, <1>2, <1>3, <1>4, <1>5 DEF HookNext

\* The invariant the runs check is inductive, whatever the bounds.
THEOREM HookInductive == HookSpec => []HookInv
<1> QED BY HookStarts, HookKeeps, PTL DEF HookSpec

\* Every variable of the hook keeps its type (useApiQuery.ts:38-47).
THEOREM HookTypeCorrect == HookSpec => []HookTypeOK
<1>1. HookInv => HookTypeOK
  BY DEF HookInv
<1> QED BY <1>1, HookInductive, PTL

\* The view never shows data fetched for other deps once its effect has run,
\* however many effects, polls and late answers there are
\* (useApiQuery.ts:45-52, 69).
THEOREM CurrentDepsShown == HookSpec => []ShowsCurrentDeps
<1>1. HookInv => ShowsCurrentDeps
  BY DEF HookInv
<1> QED BY <1>1, HookInductive, PTL

\* hasData is never set on a view that is still loading (useApiQuery.ts:46, 53).
THEOREM RefAgrees == HookSpec => []RefMatchesScreen
<1>1. HookInv => RefMatchesScreen
  BY DEF HookInv
<1> QED BY <1>1, HookInductive, PTL

\* One step: a poll's failure is shown only when there was no data to keep.
LEMMA StepKeepsGoodData ==
    ASSUME HookInv, [HookNext]_hookVars, state.status = "success", state'.status = "error"
    PROVE  \E r \in requests \ requests' : r.effect = live /\ ~IsPoll(r)
<1> USE StatesApart
<1>1. CASE Settle
  <2>1. PICK r \in requests : Succeeds(r) \/ Fails(r)
    BY <1>1 DEF Settle
  <2>2. r \in requests \ requests'
    BY <2>1 DEF Succeeds, Fails
  <2>3. ~Succeeds(r)
    BY DEF Succeeds
  <2>4. r.effect = live /\ ~(IsPoll(r) /\ hasData)
    BY <2>1, <2>3 DEF Fails
  <2>5. live # NoEffect
    BY <2>4 DEF HookInv, HookTypeOK, Request, NoEffect
  <2>6. hasData
    BY <2>5 DEF HookInv
  <2> QED BY <2>2, <2>4, <2>6
<1>2. CASE Rerender \/ Refetch \/ Unmount \/ RunEffect \/ RunEffectDisabled \/ Poll
  BY <1>2 DEF Rerender, Refetch, Unmount, RunEffect, RunEffectDisabled, Poll
<1>3. CASE UNCHANGED hookVars
  BY <1>3 DEF hookVars
<1> QED BY <1>1, <1>2, <1>3 DEF HookNext

\* Only the first request of the live effect replaces good data by an error:
\* a poll whose failure is shown had no data to keep (useApiQuery.ts:57).
THEOREM PollsKeepGoodData == HookSpec => PollKeepsGoodData
<1>1. HookInv /\ [HookNext]_hookVars =>
        [(state.status = "success" /\ state'.status = "error") =>
           \E r \in requests \ requests' : r.effect = live /\ ~IsPoll(r)]_hookVars
  BY StepKeepsGoodData
<1> QED BY <1>1, HookInductive, PTL DEF PollKeepsGoodData, HookSpec

=============================================================================
