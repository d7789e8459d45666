---------------------------------- MODULE Api ----------------------------------
(***************************************************************************)
(* The query API (analyzer/src/analyzer/api/queries.py, routes.py) while   *)
(* the analyzer writes the tables it reads (writer.py): a client pages     *)
(* through the traces of a time range, or opens one of them. A response    *)
(* is put together from several queries with no snapshot between them.     *)
(*                                                                         *)
(* Time is in ticks, a span lasts none, so a trace lasts from its first    *)
(* start to its last. The filters on service and completeness only narrow  *)
(* the table and are left out.                                             *)
(***************************************************************************)
EXTENDS Naturals, FiniteSets, FiniteSetsExt, SequencesExt

CONSTANTS
    Spans,
    Trace, Service, Start,  \* of each span: its trace, service, start tick
    NoTrace,                \* no detail is open
    WindowTicks,            \* ticks in a window
    MinDuration,            \* min_duration_ms of the sessions that filter
    Queries,                \* bound: what a client may ask /api/traces
    ApiMaxRows,             \* api_max_rows
    ApiMaxRange,            \* api_max_time_range_seconds, in windows
    MaxCrashes              \* bound: crashes of the analyzer

ASSUME ApiAssumption ==
    /\ IsFiniteSet(Spans) /\ \A s \in Spans : Trace[s] # NoTrace
    /\ Start \in [Spans -> Nat]
    /\ WindowTicks \in Nat \ {0}
    /\ Queries \subseteq [lo : Nat, hi : Nat, limit : Nat \ {0}, filter : BOOLEAN]
    /\ MinDuration \in Nat /\ ApiMaxRows \in Nat \ {0} /\ ApiMaxRange \in Nat /\ MaxCrashes \in Nat

WindowOf(s) == Start[s] \div WindowTicks
Windows     == 0..Max({WindowOf(s) : s \in Spans})
Traces      == {Trace[s] : s \in Spans}

VARIABLES
    stored,     \* table spans
    summaries,  \* table trace_summaries: trace and window
    classified, \* table span_classifications
    offsets,    \* table service_clock_offsets: service and window
    window,     \* the analyzer's next window
    step,       \* its next insert
    rows,       \* the rows of the window
    pc,         \* the client: "idle", "candidates", "durations", "paged",
                \* or "classifications", "offsets", "shown"
    query,      \* the query parameters of the session
    at,         \* offset
    candidates, \* the rows of the first query
    seen,       \* history: summaries on the pages so far
    told,       \* history: some page had duration_filter_truncated
    before,     \* history: what the tables held when the session, or the detail, began
    trace,      \* trace_id of the detail
    detail,     \* its response so far
    crashes     \* bound

vars == <<stored, summaries, classified, offsets, window, step, rows, pc, query,
          at, candidates, seen, told, before, trace, detail, crashes>>

tables       == <<stored, summaries, classified, offsets>>
analyzerVars == <<window, step, rows, crashes>>
pageVars     == <<query, at, candidates, seen, told>>
detailVars   == <<trace, detail>>

Nothing  == [summaries |-> {}, stored |-> {}, classified |-> {}, offsets |-> {}]
NoQuery  == [lo |-> 0, hi |-> 0, limit |-> 1, filter |-> FALSE]
NoDetail == [spans |-> {}, class |-> {}, offset |-> {}]

Init ==
    /\ stored = {} /\ summaries = {} /\ classified = {} /\ offsets = {}
    /\ window = 0 /\ step = "read" /\ rows = {}
    /\ pc = "idle" /\ query = NoQuery /\ at = 0 /\ candidates = <<>>
    /\ seen = {} /\ told = FALSE /\ before = Nothing
    /\ trace = NoTrace /\ detail = NoDetail /\ crashes = 0

-----------------------------------------------------------------------------
(* the other processes *)

\* The writer's insert, before or after the span's window is processed.
Ingest(s) ==
    /\ s \notin stored
    /\ stored' = stored \cup {s}
    /\ UNCHANGED <<summaries, classified, offsets, pc, before>>
    /\ UNCHANGED <<analyzerVars, pageVars, detailVars>>

AnalyzerStep(from, to) ==
    /\ step = from /\ step' = to
    /\ UNCHANGED <<stored, pc, before, crashes>>
    /\ UNCHANGED <<pageVars, detailVars>>

\* A window without rows gets no inserts.
ReadWindow ==
    /\ window \in Windows
    /\ rows' = {s \in stored : WindowOf(s) = window}
    /\ IF rows' = {} THEN window' = window + 1 /\ AnalyzerStep("read", "read")
       ELSE AnalyzerStep("read", "summaries") /\ UNCHANGED window
    /\ UNCHANGED <<summaries, classified, offsets>>

\* write_result: summaries first, then classifications.
WriteSummaries ==
    /\ AnalyzerStep("summaries", "classifications")
    /\ summaries' = summaries \cup {[trace |-> Trace[s], window |-> window] : s \in rows}
    /\ UNCHANGED <<classified, offsets, window, rows>>

WriteClassifications ==
    /\ AnalyzerStep("classifications", "offsets")
    /\ classified' = classified \cup rows
    /\ UNCHANGED <<summaries, offsets, window, rows>>

\* write_clock_offsets: for the services the estimates reach.
WriteClockOffsets ==
    /\ AnalyzerStep("offsets", "read")
    /\ \E known \in SUBSET {Service[s] : s \in rows} :
         offsets' = offsets \cup {[service |-> c, window |-> window] : c \in known}
    /\ window' = window + 1 /\ rows' = {}
    /\ UNCHANGED <<summaries, classified>>

\* A restarted analyzer does not go back to the window it was in.
Crash ==
    /\ crashes < MaxCrashes /\ crashes' = crashes + 1
    /\ window' = window + 1 /\ step' = "read" /\ rows' = {}
    /\ UNCHANGED <<pc, before>> /\ UNCHANGED <<tables, pageVars, detailVars>>

-----------------------------------------------------------------------------
(* list_traces *)

\* _validate_range
ValidRange(lo, hi) == lo < hi /\ hi - lo <= ApiMaxRange

\* _clamp_limit
ClampLimit(limit) == Min({limit, ApiMaxRows})

InRange(r) == query.lo <= r.window /\ r.window <= query.hi

\* ORDER BY window_start DESC: rows of one window in any order.
Listings(found) ==
    {q \in SetToSeqs(found) :
        \A i, j \in DOMAIN q : i < j => q[i].window >= q[j].window}

\* _fetch_trace_durations
Duration(t) ==
    LET starts == {Start[s] : s \in {u \in stored : Trace[u] = t}}
    IN IF starts = {} THEN 0 ELSE Max(starts) - Min(starts)

\* min_duration_ms
LongEnough(r) == ~query.filter \/ Duration(r.trace) >= MinDuration

OpenSession ==
    /\ pc = "idle"
    /\ query' \in {q \in Queries : ValidRange(q.lo, q.hi)}
    /\ pc' = "candidates"
    /\ before' = [before EXCEPT !.summaries = summaries, !.stored = stored]
    /\ UNCHANGED <<at, candidates, seen, told>>
    /\ UNCHANGED <<tables, analyzerVars, detailVars>>

\* The first query, up to candidate_cap rows.
FetchCandidates ==
    /\ pc = "candidates"
    /\ \E q \in Listings({r \in summaries : InRange(r)}) :
         candidates' = SubSeq(q, 1, Min({Len(q), ApiMaxRows}))
    /\ pc' = "durations"
    /\ UNCHANGED <<query, at, seen, told, before>>
    /\ UNCHANGED <<tables, analyzerVars, detailVars>>

\* A flag raised only for more candidates than can come back.
TruncatedPastCap == query.filter /\ Len(candidates) > ApiMaxRows

\* duration_filter_truncated
Truncated == query.filter /\ Len(candidates) >= ApiMaxRows

\* The candidates that pass the filter, by their places, and the place of
\* each of them in the filtered list.
Matching == {i \in DOMAIN candidates : LongEnough(candidates[i])}
Rank(i)  == Cardinality({j \in Matching : j <= i})

PageEnd == at + ClampLimit(query.limit)

\* The page cut out before the filter.
PageThenFilter == {candidates[i] : i \in {j \in Matching : at < j /\ j <= PageEnd}}

Page == {candidates[i] : i \in {j \in Matching : at < Rank(j) /\ Rank(j) <= PageEnd}}

HasMore == Cardinality(Matching) > PageEnd

\* The second query, the filter, the page; the client asks for the next one.
FetchDurations ==
    /\ pc = "durations"
    /\ seen' = seen \cup Page
    /\ told' = (told \/ Truncated)
    /\ IF HasMore THEN pc' = "candidates" /\ at' = at + query.limit
       ELSE pc' = "paged" /\ UNCHANGED at
    /\ candidates' = <<>>
    /\ UNCHANGED <<query, before>> /\ UNCHANGED <<tables, analyzerVars, detailVars>>

-----------------------------------------------------------------------------
(* get_trace: fetch_trace_detail *)

\* 404 when there are no spans.
FetchSpans(t) ==
    /\ pc = "idle"
    /\ \E s \in stored : Trace[s] = t
    /\ trace' = t
    /\ detail' = [NoDetail EXCEPT !.spans = {s \in stored : Trace[s] = t}]
    /\ before' = [before EXCEPT !.classified = classified, !.offsets = offsets]
    /\ pc' = "classifications"
    /\ UNCHANGED <<pageVars, tables, analyzerVars>>

FetchClassifications ==
    /\ pc = "classifications"
    /\ detail' = [detail EXCEPT !.class = {s \in detail.spans : s \in classified}]
    /\ pc' = "offsets"
    /\ UNCHANGED <<trace, before>> /\ UNCHANGED <<pageVars, tables, analyzerVars>>

TraceStart == Min({Start[s] : s \in detail.spans})

\* Only windows that started earlier than the trace.
BeforeStart(o) == o.window * WindowTicks < TraceStart

\* window_start <= %(at)s
AtOrBeforeStart(o) == o.window * WindowTicks <= TraceStart

\* _fetch_clock_offsets_for_services: argMax over window_start.
FetchOffsets ==
    /\ pc = "offsets"
    /\ LET known == {o \in offsets : /\ o.service \in {Service[s] : s \in detail.spans}
                                     /\ AtOrBeforeStart(o)}
       IN detail' = [detail EXCEPT !.offset =
              {o \in known : \A p \in known : p.service = o.service => p.window <= o.window}]
    /\ pc' = "shown"
    /\ UNCHANGED <<trace, before>> /\ UNCHANGED <<pageVars, tables, analyzerVars>>

-----------------------------------------------------------------------------

Analyzer == ReadWindow \/ WriteSummaries \/ WriteClassifications \/ WriteClockOffsets \/ Crash

Client ==
    \/ OpenSession \/ FetchCandidates \/ FetchDurations
    \/ \E t \in Traces : FetchSpans(t)
    \/ FetchClassifications \/ FetchOffsets

Next == (\E s \in Spans : Ingest(s)) \/ Analyzer \/ Client

Spec == Init /\ [][Next]_vars

-----------------------------------------------------------------------------
(* Properties *)

TypeOK ==
    /\ stored \subseteq Spans /\ classified \subseteq stored /\ rows \subseteq stored
    /\ summaries \subseteq [trace : Traces, window : Windows]
    /\ offsets \subseteq [service : {Service[s] : s \in Spans}, window : Windows]
    /\ step \in {"read", "summaries", "classifications", "offsets"}
    /\ pc \in {"idle", "candidates", "durations", "paged", "classifications", "offsets", "shown"}
    /\ seen \subseteq summaries /\ Range(candidates) \subseteq summaries
    /\ told \in BOOLEAN /\ at \in Nat /\ crashes \in 0..MaxCrashes
    /\ trace \in Traces \cup {NoTrace}

\* Every summary written belongs to a trace that can be opened, as long as its
\* spans are kept (30 days, init.sql:68).
EveryRowOpens == \A r \in summaries : \E s \in stored : Trace[s] = r.trace

\* The session held all there was: no page said that the filter looked at a
\* capped list, or, without a filter, the rows of the range fit the cap.
Uncapped == IF query.filter THEN ~told
            ELSE Cardinality({r \in summaries : InRange(r)}) <= ApiMaxRows

\* Windows that are processed and spans that arrive while a client pages only
\* make it see a row twice: when it is done, what matched when it began was on
\* one of its pages, unless a page said that the list was capped or the row
\* shares its window with another one, whose order no query fixes
\* (queries.py:134-170, 115-122). What it saw can be opened.
PagingLosesOnlyTies ==
    /\ TypeOK /\ EveryRowOpens
    /\ (pc = "paged" /\ Uncapped) =>
         \A r \in before.summaries :
            LET starts == {Start[s] : s \in {u \in before.stored : Trace[u] = r.trace}}
            IN (/\ InRange(r)
                /\ query.filter => Max(starts) - Min(starts) >= MinDuration
                /\ \A other \in summaries \ {r} : other.window # r.window)
                 => r \in seen

\* A trace is shown as the analyzer left it, although its parts are queried one
\* after the other: a span without a classification was not classified when the
\* detail was asked for, and each service has its newest estimate of that time
\* or a newer one, from a window that started no later than the trace, its own
\* window included (queries.py:201-280, schemas.py:47).
DetailIsCurrent ==
    pc = "shown" =>
        /\ detail.spans \cap before.classified \subseteq detail.class
        /\ \A o, p \in detail.offset : o.service = p.service => o = p
        /\ \A o \in detail.offset : o.window <= TraceStart \div WindowTicks
        /\ \A p \in before.offsets :
             (/\ p.service \in {Service[s] : s \in detail.spans}
              /\ p.window <= TraceStart \div WindowTicks)
               => \E o \in detail.offset : o.service = p.service /\ p.window <= o.window

=============================================================================
