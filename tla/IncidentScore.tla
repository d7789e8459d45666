----------------------------- MODULE IncidentScore -----------------------------
(***************************************************************************)
(* What is made of the analyzer's incidents afterwards: the offline        *)
(* evaluation scores them against the true incidents of a run (eval.py,    *)
(* compute_incident_metrics), the API lists them (api/queries.py,          *)
(* fetch_detections). Pure reads of the tables of Incidents.               *)
(*                                                                         *)
(* A true incident has the key of the detector that is to catch it         *)
(* (_TYPE_TO_DETECTOR) and starts and ends at half windows: window w is    *)
(* from 2 * w to 2 * w + 2.                                                *)
(***************************************************************************)
EXTENDS Incidents

CONSTANT MaxRows    \* cfg.api_max_rows

ASSUME MaxRowsAssumption == MaxRows \in Nat

Times           == 0..2 * (MaxWindow + 1)
TrueIncident(k) == {t \in [key : {k}, start : Times, end : Times] : t.start < t.end}

\* _fetch_analyzer_incidents
FetchAnalyzerIncidents(lo, hi) == {i \in incidents : lo <= i.start /\ i.start <= hi}

\* An incident that began and ended within the true one.
LiesWithin(i, t) == t.start <= 2 * i.start /\ 2 * i.end <= t.end

\* overlaps: windows count as the instants they start at.
OverlapsTrue(i, t) == 2 * i.start <= t.end /\ t.start <= 2 * i.end

Matches(t, found) == {i \in found : i.key = t.key /\ OverlapsTrue(i, t)}

\* detection_latency_seconds, in half windows, of a detected incident.
DetectionLatency(t, found) ==
    LET first == Min({i.start : i \in Matches(t, found)})
    IN Max({0, 2 * (first + 1) - t.start})

\* root_cause_total: derived incidents while something was truly wrong.
Opinions(truth, found) ==
    {i \in found : Derived(i) /\ \E t \in truth : OverlapsTrue(i, t)}

\* root_cause_correct: their root is, by its id, at the place of a true one.
CorrectOpinions(truth, found) ==
    {i \in Opinions(truth, found) :
        \E r \in found, t \in truth : /\ IncidentId(r) = i.root
                                      /\ OverlapsTrue(i, t)
                                      /\ r.key.target = t.key.target}

\* found: the keys presented as problems of their own, during a true incident
\* if there was one.
FoundKeys(truth, found) ==
    {i.key : i \in {j \in found : /\ ~Derived(j)
                                  /\ truth = {} \/ \E t \in truth : OverlapsTrue(j, t)}}

TruePositives(truth, found) == {t \in truth : Matches(t, found) # {}}

NoTarget == [none |-> TRUE]

\* A mistake: only the incidents that started in lo..hi.
StartedIn(lo, hi, target) ==
    {i \in incidents : /\ lo <= i.start /\ i.start <= hi
                       /\ target \in {NoTarget, i.key.target}}

\* The conditions of fetch_detections: incidents that touch lo..hi, of one
\* target if one is given.
Selected(lo, hi, target) ==
    {i \in incidents : /\ lo <= i.end /\ i.start <= hi
                       /\ target \in {NoTarget, i.key.target}}

\* fetch_detections: the newest MaxRows of them (ORDER BY start_window DESC);
\* among rows of one start_window any may be cut off.
FetchDetections(lo, hi, target) ==
    LET rows == Selected(lo, hi, target)
    IN {page \in SUBSET rows :
          \/ page = rows /\ Cardinality(page) <= MaxRows
          \/ /\ Cardinality(page) = MaxRows
             /\ \A i \in page, j \in rows \ page : j.start <= i.start}

\* root_cause_target: the root's target if the root is in the same page.
RootCauseTarget(i, page) ==
    IF \E r \in page : IncidentId(r) = i.root
    THEN (CHOOSE r \in page : IncidentId(r) = i.root).key.target
    ELSE NoTarget

-----------------------------------------------------------------------------
(* Properties *)

Grouped(d) == \E w \in groupedAt : d.window <= w /\ w <= d.window + Lookback

\* The score credits what was detected and nothing else: a detection in a
\* window that starts during a true incident makes it detected, no later than
\* that window closes, across crashes and regrouping; an incident scored as
\* detected has a detection in a window it really touched, and counts among the
\* found ones unless all that matched was suppressed (eval.py:266-293, 371-379).
ScoreFollowsDetections ==
    pc = "detect" => \A k \in {d.key : d \in detections} :
        LET hits  == {d \in detections : d.key = k}
            found == {i \in FetchAnalyzerIncidents(0, MaxWindow) : i.key = k}
        IN \A t \in TrueIncident(k) :
             LET touching == {d \in hits : 2 * d.window <= t.end /\ t.start <= 2 * (d.window + 1)}
             IN IF TruePositives({t}, found) = {}
                THEN \A d \in touching : Grouped(d) => 2 * d.window < t.start
                ELSE /\ touching # {}
                     /\ \A d \in touching : (Grouped(d) /\ t.start <= 2 * d.window) =>
                          DetectionLatency(t, found) <= 2 * (d.window + 1) - t.start
                     /\ k \in FoundKeys({t}, found) \/ \A i \in Matches(t, found) : Derived(i)

\* Trouble with k all the time.
Throughout(k) == [key |-> k, start |-> 0, end |-> 2 * (MaxWindow + 1)]

\* The root a derived incident names is in the table, whichever batch wrote
\* either of them last, it is a service with the same kind of trouble, and the
\* evaluation counts the echo as blamed on the right place exactly when that id
\* names the truly broken one (eval.py:316-330).
RootsAreStored ==
    \A i \in {j \in incidents : Derived(j)} :
        /\ \E r \in incidents : /\ IncidentId(r) = i.root
                                /\ IsService(r) /\ r.key.detector = i.key.detector
        /\ \A k \in Watched :
             i \in CorrectOpinions({Throughout(k)}, incidents) <=> i.root.key.target = k.target

\* Where a page of the API shows a root, it is the stored root's target; where
\* it shows none, the root was asked away by the range or the target filter, or
\* the page is full and no row on it is older (queries.py:333-346, 363-368).
PagesShowRoots ==
    \A lo \in 0..MaxWindow : \A hi \in lo..MaxWindow : \A target \in Target \cup {NoTarget} :
        \A page \in FetchDetections(lo, hi, target) :
            \A i \in page, r \in incidents : Derived(i) /\ IncidentId(r) = i.root =>
                IF RootCauseTarget(i, page) # NoTarget
                THEN RootCauseTarget(i, page) = r.key.target
                ELSE \/ ~(lo <= r.end /\ r.start <= hi)
                     \/ target \notin {NoTarget, r.key.target}
                     \/ Cardinality(page) = MaxRows /\ \A j \in page : r.start <= j.start

\* Roots resolve to where the trouble is, and stay unresolved for a reason.
RootsResolve == pc = "detect" => RootsAreStored /\ PagesShowRoots

=============================================================================
