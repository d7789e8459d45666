------------------------------- MODULE Detection -------------------------------
(***************************************************************************)
(* What the analyzer does with a window after reassembly: statistics per   *)
(* service and per edge (service_agg.py, topology_agg.py), baselines from  *)
(* the trailing lookback (baseline.py), the three detectors (detectors.py),*)
(* and the inserts between them (writer.py), in the order of process_window*)
(* and run_detection in main.py; then what the API and the evaluation read *)
(* back from these tables.                                                 *)
(*                                                                         *)
(* One caller and one callee: the targets are the callee's service and the *)
(* edge to it.  A call is a child span; of the parent spans only those are *)
(* told apart that started in the window before (their pair resolves in no *)
(* window, but does in a lookback over both).  Time is the window index.   *)
(* The quotients of the detectors are compared as products of integers.    *)
(***************************************************************************)
EXTENDS Stats, Sequences, FiniteSetsExt

CONSTANTS
    Loads,          \* bound: what a window may carry, records of
                    \*   lat    the latencies of its calls, a sequence
                    \*   errors the first so many calls failed
                    \*   late   the first so many spans land late
                    \*   split  the last so many have a parent one window earlier
    MaxWindow,      \* bound: the last window
    MaxCrashes,     \* bound: crashes of the analyzer
    Lookback,       \* baseline_lookback_seconds, in windows
    MinSamples,     \* baseline_min_samples
    ErrorMinSample, \* error_rate_min_sample_size
    LatencyLimit, ErrorLimit, CallRateLimit     \* the thresholds, in tenths

ASSUME DetectionAssumption ==
    /\ Loads \subseteq [lat : Seq(Int), errors : Nat, late : Nat, split : Nat]
    /\ MaxWindow \in Nat /\ MaxCrashes \in Nat
    /\ Lookback \in Nat \ {0} /\ MinSamples \in Nat /\ ErrorMinSample \in Nat \ {0}
    /\ LatencyLimit \in Nat /\ ErrorLimit \in Nat /\ CallRateLimit \in Nat

Service == "service"
Edge    == "edge"
Targets == {Service, Edge}
Windows == 0..MaxWindow

VARIABLES
    load,       \* what each window carries
    landed,     \* windows whose late spans have landed
    window,     \* the window to process next, or being processed
    step,       \* "read", "stats", "baseline", "detect": the next insert
    fetched,    \* the calls fetch_window returned
    stats,      \* tables service_stats and service_edges: <<target, window>> -> row
    baselines,  \* tables service_baselines and edge_baselines, likewise
    detections, \* table detections
    judged,     \* history: the windows run_detection has finished
    crashes     \* bound

detectionVars == <<load, landed, window, step, fetched, stats, baselines, detections,
                   judged, crashes>>

-----------------------------------------------------------------------------
(* reader.py *)

\* A call <<w, i>> is the i-th of window w.
Calls(w)   == {<<w, i>> : i \in DOMAIN load[w].lat}
Late(w)    == {c \in Calls(w) : c[2] <= load[w].late}
Split(w)   == {c \in Calls(w) : c[2] > Cardinality(Calls(w)) - load[w].split}
Latency(c) == load[c[1]].lat[c[2]]
Failed(c)  == c[2] <= load[c[1]].errors

\* fetch_window, fetch_lookback_spans: the spans of [lo, hi) in the table now.
FetchSpans(lo, hi) ==
    UNION {Calls(w) \ (IF w \in landed THEN {} ELSE Late(w)) :
              w \in {v \in Windows : lo <= v /\ v < hi}}

\* resolved_parent_child_pairs of the spans fetched from window lo on.
ResolvedPairs(found, lo) == {c \in found : c \in Split(c[1]) => c[1] > lo}

\* The call counts of the windows of [lo, hi) that have a row.
History(target, lo, hi) ==
    [w \in {v \in Windows : lo <= v /\ v < hi /\ <<target, v>> \in DOMAIN stats}
        |-> stats[<<target, w>>].calls]

FetchServiceCallCountHistory(lo, hi) == History(Service, lo, hi)
FetchEdgeCallCountHistory(lo, hi)    == History(Edge, lo, hi)

-----------------------------------------------------------------------------
(* the statistics of a window, and their inserts *)

Latencies(calls) == [c \in calls |-> Latency(c)]
Errors(calls)    == Cardinality({c \in calls : Failed(c)})

WindowStats(calls) ==
    [calls |-> Cardinality(calls), errors |-> Errors(calls),
     p95 |-> Percentile100(Latencies(calls), 95),
     p99 |-> Percentile100(Latencies(calls), 99)]

\* A group-by has no row for a target without calls.
StatsOf(t, w, calls) == [k \in {<<t, w>> : c \in calls} |-> WindowStats(calls)]

AggregateEdges(found, w)    == StatsOf(Edge, w, ResolvedPairs(found, w))
AggregateServices(found, w) == StatsOf(Service, w, found)

\* The rows of a table after an insert.
Inserted(fresh, table) ==
    [k \in DOMAIN fresh \cup DOMAIN table |->
        IF k \in DOMAIN fresh THEN fresh[k] ELSE table[k]]

WriteServiceEdges(found) == stats' = Inserted(AggregateEdges(found, window), stats)
WriteServiceStats(found) == stats' = Inserted(AggregateServices(found, window), stats)

-----------------------------------------------------------------------------
(* baseline.py *)

ComputeBaseline(calls, history) ==
    [observed |-> Cardinality(calls), errors |-> Errors(calls),
     median2 |-> Median2(Latencies(calls)), mad4 |-> Mad4(Latencies(calls)),
     rate2 |-> Median2(history), rateMad4 |-> Mad4(history),
     history |-> DOMAIN history,
     ready |-> Cardinality(calls) >= MinSamples]

\* A lookback that does not stop before the window it is to judge.
RefreshWithOwnWindow(w) ==
    LET lo == w - Lookback
        spans(t)   == IF t = Service THEN FetchSpans(lo, w)
                      ELSE ResolvedPairs(FetchSpans(lo, w), lo)
        history(t) == IF t = Service THEN FetchServiceCallCountHistory(lo, w + 1)
                      ELSE FetchEdgeCallCountHistory(lo, w + 1)
    IN [t \in {u \in Targets : spans(u) # {}} |-> ComputeBaseline(spans(t), history(t))]

\* A baseline for every target with spans in [w - Lookback, w).
RefreshBaselines(w) ==
    LET lo == w - Lookback
        spans(t)   == IF t = Service THEN FetchSpans(lo, w)
                      ELSE ResolvedPairs(FetchSpans(lo, w), lo)
        history(t) == IF t = Service THEN FetchServiceCallCountHistory(lo, w)
                      ELSE FetchEdgeCallCountHistory(lo, w)
    IN [t \in {u \in Targets : spans(u) # {}} |-> ComputeBaseline(spans(t), history(t))]

\* write_service_baselines and write_edge_baselines (main.py:144-145), in one step:
\* no reader relates the two tables.
WriteBaselines(fresh) ==
    baselines' = Inserted([k \in {<<t, window>> : t \in DOMAIN fresh} |-> fresh[k[1]]],
                          baselines)

-----------------------------------------------------------------------------
(* detectors.py *)

\* What run_detection has in memory: this window's statistics and baselines.
CurrentStats == [t \in {u \in Targets : <<u, window>> \in DOMAIN stats} |-> stats[<<t, window>>]]
Baselines == [t \in {u \in Targets : <<u, window>> \in DOMAIN baselines} |-> baselines[<<t, window>>]]
Ready     == {t \in DOMAIN Baselines : Baselines[t].ready}

\* _robust_z of value100 / 100 against center2 / 2 exceeds limit / 10 when
\* Deviation > limit * Spread; of no spread there is no score.
Deviation(value100, center2) == 2000 * (2 * value100 - 100 * center2)
Spread(mad4) == 14826 * mad4

\* _severity
Severity(far) == IF far THEN "critical" ELSE "warning"

Found(t, detector, severity) ==
    [window |-> window, target |-> t, detector |-> detector, severity |-> severity]

DetectPercentileDeviation ==
    LET z(t) == Max({Deviation(CurrentStats[t].p99, Baselines[t].median2),
                     Deviation(CurrentStats[t].p95, Baselines[t].median2)})
        s(t) == Spread(Baselines[t].mad4)
    IN {Found(t, "percentile_deviation", Severity(z(t) > 2 * LatencyLimit * s(t))) :
          t \in {u \in Ready \cap DOMAIN CurrentStats :
                    s(u) > 0 /\ z(u) > LatencyLimit * s(u)}}

\* The pooled two-proportion z of e1 of n1 against e2 of n2, where the pooled
\* rate is neither 0 nor 1, exceeds limit / 10.
ErrorRateExceeds(limit, e1, n1, e2, n2) ==
    LET e == e1 + e2
        n == n1 + n2
        d == e1 * n2 - e2 * n1
    IN 0 < e /\ e < n /\ d > 0
       /\ 100 * d * d * n > limit * limit * n1 * n2 * e * (n - e)

DetectErrorRateChange ==
    LET exceeds(limit, t) ==
            ErrorRateExceeds(limit, CurrentStats[t].errors, CurrentStats[t].calls,
                             Baselines[t].errors, Baselines[t].observed)
    IN {Found(t, "error_rate", Severity(exceeds(2 * ErrorLimit, t))) :
          t \in {u \in Ready \cap DOMAIN CurrentStats :
                    CurrentStats[u].calls >= ErrorMinSample /\ exceeds(ErrorLimit, u)}}

\* The calls of this window; none of a target without a row.
ObservedCalls(t) == IF t \in DOMAIN CurrentStats THEN CurrentStats[t].calls ELSE 0

CallRateScore(t)  == Deviation(100 * ObservedCalls(t), Baselines[t].rate2)
CallRateSpread(t) == Spread(Baselines[t].rateMad4)

\* A steady history whose median is reached, not halved, is left behind.
FiresAtMedian(t) ==
    IF CallRateSpread(t) > 0 THEN CallRateScore(t) < -CallRateLimit * CallRateSpread(t)
    ELSE 2 * ObservedCalls(t) <= Baselines[t].rate2

\* A change of the call rate in either direction.
FiresEitherWay(t) ==
    IF CallRateSpread(t) > 0 THEN Abs(CallRateScore(t)) > CallRateLimit * CallRateSpread(t)
    ELSE 4 * ObservedCalls(t) < Baselines[t].rate2

\* Far below the median; of a history without spread, below half of it.
Fires(t) ==
    IF CallRateSpread(t) > 0 THEN CallRateScore(t) < -CallRateLimit * CallRateSpread(t)
    ELSE 4 * ObservedCalls(t) < Baselines[t].rate2

CallRateSeverity(t) ==
    Severity(CallRateSpread(t) = 0 \/ CallRateScore(t) < -2 * CallRateLimit * CallRateSpread(t))

\* Drops looked for where the window has calls only.
DetectDropAmongCurrent ==
    {Found(t, "call_rate", CallRateSeverity(t)) :
        t \in {u \in Ready \cap DOMAIN CurrentStats : Fires(u)}}

\* Every ready baseline is looked at, with or without calls in the window.
DetectCallRateDrop ==
    {Found(t, "call_rate", CallRateSeverity(t)) : t \in {u \in Ready : Fires(u)}}

\* write_detections
WriteDetections(found) == detections' = detections \cup found

-----------------------------------------------------------------------------

DetectionInit ==
    /\ load \in [Windows -> Loads]
    /\ landed = {} /\ window = 0 /\ step = "read" /\ fetched = {}
    /\ stats = << >> /\ baselines = << >> /\ detections = {} /\ judged = {}
    /\ crashes = 0

\* process_window: the spans are read once; the edges are written first.
ReadWindow ==
    /\ step = "read" /\ window <= MaxWindow
    /\ fetched' = FetchSpans(window, window + 1)
    /\ WriteServiceEdges(fetched')
    /\ step' = "stats"
    /\ UNCHANGED <<load, landed, window, baselines, detections, judged, crashes>>

AggregateWindow ==
    /\ step = "stats"
    /\ WriteServiceStats(fetched)
    /\ step' = "baseline"
    /\ UNCHANGED <<load, landed, window, fetched, baselines, detections, judged, crashes>>

\* run_detection, up to the insert of the baselines ...
Refresh ==
    /\ step = "baseline"
    /\ WriteBaselines(RefreshBaselines(window))
    /\ step' = "detect"
    /\ UNCHANGED <<load, landed, window, fetched, stats, detections, judged, crashes>>

\* ... and the detectors, over services and edges.
Detect ==
    /\ step = "detect"
    /\ WriteDetections(DetectPercentileDeviation \cup DetectErrorRateChange
                          \cup DetectCallRateDrop)
    /\ judged' = judged \cup {window}
    /\ window' = window + 1 /\ step' = "read" /\ fetched' = {}
    /\ UNCHANGED <<load, landed, stats, baselines, crashes>>

\* The late spans of a window that has closed reach the table.
Land(w) ==
    /\ w <= window /\ w \notin landed /\ Late(w) # {}
    /\ landed' = landed \cup {w}
    /\ UNCHANGED <<load, window, step, fetched, stats, baselines, detections, judged, crashes>>

\* The process dies between two inserts; the next one begins at a later window.
Crash ==
    /\ crashes < MaxCrashes /\ window <= MaxWindow
    /\ crashes' = crashes + 1
    /\ \E w \in window + 1 .. MaxWindow + 1 : window' = w
    /\ step' = "read" /\ fetched' = {}
    /\ UNCHANGED <<load, landed, stats, baselines, detections, judged>>

DetectionNext ==
    \/ ReadWindow \/ AggregateWindow \/ Refresh \/ Detect \/ Crash
    \/ \E w \in Windows : Land(w)

DetectionSpec == DetectionInit /\ [][DetectionNext]_detectionVars

-----------------------------------------------------------------------------
(* What is read back: api/queries.py fetch_topology, and eval.py's measure   *)
(* of an incident's magnitude.                                               *)

\* The counts of the newest window in range only.
TopologyOfLatest(lo, hi) ==
    LET W == {w \in lo..hi : <<Edge, w>> \in DOMAIN stats}
    IN [calls |-> stats[<<Edge, Max(W)>>].calls, errors |-> stats[<<Edge, Max(W)>>].errors,
        p99 |-> stats[<<Edge, Max(W)>>].p99, latest |-> Max(W)]

SumOf(f) == MapThenSumSet(LAMBDA i : f[i], DOMAIN f)

\* The edge's row, if any window of lo..hi has one: counts add up, the
\* percentiles are the newest window's.
FetchTopology(lo, hi) ==
    LET W == {w \in lo..hi : <<Edge, w>> \in DOMAIN stats}
    IN [calls  |-> SumOf([w \in W |-> stats[<<Edge, w>>].calls]),
        errors |-> SumOf([w \in W |-> stats[<<Edge, w>>].errors]),
        p99    |-> stats[<<Edge, Max(W)>>].p99,
        latest |-> Max(W)]

NoCalls == [calls |-> 0, errors |-> 0, p95 |-> 0, p99 |-> 0]

\* The newest row at or before w, however old.
StatAtOrBeforeUnbounded(t, w) ==
    LET W == {v \in 0..w : <<t, v>> \in DOMAIN stats}
    IN IF W = {} THEN NoCalls ELSE stats[<<t, Max(W)>>]

\* _fetch_stat_at_or_before, at any time within w: one window back at most,
\* and no row is no calls.
StatAtOrBefore(t, w) ==
    IF <<t, w>> \in DOMAIN stats THEN stats[<<t, w>>] ELSE NoCalls

NoBaseline == [rate2 |-> 0, median2 |-> 0]

\* The newest ready baseline of t as of w or earlier.
LatestReady(t, w) ==
    LET W == {v \in 0..w : <<t, v>> \in DOMAIN baselines /\ baselines[<<t, v>>].ready}
    IN IF W = {} THEN NoBaseline ELSE baselines[<<t, Max(W)>>]

\* _fetch_baseline_at_or_before, _fetch_call_rate_baseline_at_or_before
BaselineAtOrBefore(t, w)         == LatestReady(t, w).median2
CallRateBaselineAtOrBefore(t, w) == LatestReady(t, w).rate2

None == << >>

\* _fetch_observed_magnitude of an incident that starts at first's boundary and
\* has its middle in mid: a quotient, or None.
ObservedMagnitude(type, t, first, mid) ==
    LET now  == StatAtOrBefore(t, mid)
        rate == CallRateBaselineAtOrBefore(t, first)
        typical == BaselineAtOrBefore(t, first)
    IN CASE type = "latency" ->
              IF now.calls = 0 \/ typical = 0 THEN None ELSE <<2 * now.p99, 100 * typical>>
         [] type = "error"   -> IF now.calls = 0 THEN None ELSE <<now.errors, now.calls>>
         [] type = "drop"    -> IF rate = 0 THEN None ELSE <<rate - 2 * now.calls, rate>>

-----------------------------------------------------------------------------
(* Properties *)

\* The calls of a window that a count of the target may include, and those it
\* is sure to include: on time, and with a parent in the same window.
Countable(t, w) == IF t = Service THEN Calls(w) ELSE Calls(w) \ Split(w)
Certain(t, w)   == Countable(t, w) \ Late(w)

DetectionTypeOK ==
    /\ load \in [Windows -> Loads]
    /\ landed \subseteq Windows /\ judged \subseteq Windows
    /\ window \in 0..MaxWindow + 1
    /\ step \in {"read", "stats", "baseline", "detect"}
    /\ fetched \subseteq UNION {Calls(w) : w \in Windows}
    /\ DOMAIN stats \subseteq Targets \X Windows
    /\ DOMAIN baselines \subseteq Targets \X Windows
    /\ detections \subseteq
         [window : Windows, target : Targets, severity : {"warning", "critical"},
          detector : {"percentile_deviation", "error_rate", "call_rate"}]
    /\ crashes \in 0..MaxCrashes

\* A window is judged by what came before it only: the history of a baseline
\* ends before the window although the window's own row is in the table by
\* then, and it never holds more calls than the spans that made the baseline
\* ready, whatever was late, split or crashed (baseline.py:20-26, 80-91).
BaselinesLookBack ==
    /\ DetectionTypeOK
    /\ \A k \in DOMAIN baselines :
         /\ \A w \in baselines[k].history : k[2] - Lookback <= w /\ w < k[2]
         /\ SumOf([w \in baselines[k].history |-> stats[<<k[1], w>>].calls])
              <= baselines[k].observed

\* A reported drop is a drop: some earlier window of the lookback had more
\* calls than this one, unless calls of this window went uncounted, late or
\* with their parent in another window. More calls are never a drop
\* (detectors.py:167-204).
DropsAreReal ==
    \A d \in {e \in detections : e.detector = "call_rate"} :
        LET t == d.target   w == d.window
        IN \/ Calls(w) # Certain(t, w)
           \/ \E v \in Windows :
                 /\ w - Lookback <= v /\ v < w /\ <<t, v>> \in DOMAIN stats
                 /\ Cardinality(Calls(v)) > Cardinality(Calls(w))

\* The lookback of w is full of windows that were judged, carry the same, and
\* have all their calls counted.
Steady(w, l) ==
    /\ w >= Lookback /\ l.late = 0 /\ l.split = 0
    /\ \A v \in (w - Lookback)..(w - 1) : v \in judged /\ load[v] = l

\* After a steady history a target that falls silent is reported, the edge as
\* well as the service, although a window without calls writes no row
\* (detectors.py:176-196).
SilenceIsSeen ==
    \A w \in judged : \A l \in Loads :
        (/\ Steady(w, l) /\ Calls(w) = {}
         /\ Cardinality(DOMAIN l.lat) * Lookback >= MinSamples /\ DOMAIN l.lat # {})
        => \A t \in Targets :
              [window |-> w, target |-> t, detector |-> "call_rate", severity |-> "critical"]
                 \in detections

\* A window like all those before it raises neither a drop nor a change of the
\* error rate, also when calls always fail (detectors.py:126-204).
SteadyIsQuiet ==
    \A d \in detections :
        (\E l \in Loads : Steady(d.window, l) /\ load[d.window] = l)
            => d.detector = "percentile_deviation"

\* After a steady history alarms are neither missed nor made up.
SteadyIsJudged == SilenceIsSeen /\ SteadyIsQuiet

\* An edge's row for a range counts each call at most once, and every call when
\* the windows were all judged with nothing late; its percentiles lie within
\* the latencies of one window's calls, the newest window with any
\* (queries.py:286-291, 299-312).
TopologyAddsUp ==
    \A lo \in Windows : \A hi \in lo..MaxWindow :
        (\E w \in lo..hi : <<Edge, w>> \in DOMAIN stats) =>
            LET row == FetchTopology(lo, hi)
            IN /\ row.calls <= SumOf([w \in lo..hi |-> Cardinality(Countable(Edge, w))])
               /\ lo..hi \subseteq judged =>
                    row.calls >= SumOf([w \in lo..hi |-> Cardinality(Certain(Edge, w))])
               /\ row.errors <= row.calls
               /\ \A w \in judged \cap (row.latest + 1..hi) : Certain(Edge, w) = {}
               /\ \E a, b \in Countable(Edge, row.latest) :
                    100 * Latency(a) <= row.p99 /\ row.p99 <= 100 * Latency(b)

\* The magnitude read for an incident is measured in the window of its middle,
\* not in an older one: of a judged window, the loss is by what that window
\* had, a silent one a total loss, and the share of errors a share of its own
\* calls (eval.py:664-686).
MagnitudeIsMeasured ==
    \A t \in Targets, mid \in judged : \A first \in 0..mid :
        LET drop  == ObservedMagnitude("drop", t, first, mid)
            error == ObservedMagnitude("error", t, first, mid)
        IN /\ drop # None =>
                /\ 2 * Cardinality(Certain(t, mid)) <= drop[2] - drop[1]
                /\ drop[2] - drop[1] <= 2 * Cardinality(Countable(t, mid))
           /\ error # None => error[1] <= error[2] /\ Countable(t, mid) # {}
           /\ Certain(t, mid) # {} => error # None

=============================================================================
