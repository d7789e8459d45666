------------------------------- MODULE Incidents -------------------------------
(***************************************************************************)
(* From detections to incidents (analyzer/src/analyzer/suppression.py and  *)
(* the end of process_window in main.py).  Window by window the analyzer   *)
(* writes what its detectors found, then reads back a trailing lookback of *)
(* detections, groups back-to-back ones into incidents, marks as derived   *)
(* those that echo an incident deeper in the call graph, and writes them   *)
(* over the older versions in detected_incidents, keyed by incident_id.    *)
(*                                                                         *)
(* Time is the window index (window_seconds = 1).  A service's label is a  *)
(* number, so labels have the order min() uses.  What the detectors find   *)
(* is any set of detections; what the graph shows grows by any calls.      *)
(***************************************************************************)
EXTENDS Naturals, FiniteSets, FiniteSetsExt

CONSTANTS
    Services,   \* labels of the services
    Calls,      \* caller -> callee pairs that may be observed
    Firing,     \* bound: the detections that detectors may make, with their
                \* window, key and severity as a rank (_SEVERITY_RANK): 1 is a
                \* warning, 2 critical
    Lookback,   \* grouping_lookback_seconds, in windows
    MaxWindow,  \* bound: the last window
    MaxCrashes  \* bound: crashes of the analyzer

NoCaller == 0               \* TargetKey.caller of a service

Service(s)   == [kind |-> "service", caller |-> NoCaller, callee |-> s]
Edge(call)   == [kind |-> "edge", caller |-> call[1], callee |-> call[2]]
Target       == {Service(s) : s \in Services} \cup {Edge(c) : c \in Calls}

\* (target_type, target, detector)
Key(target, detector) == [target |-> target, detector |-> detector]

ASSUME IncidentsAssumption ==
    /\ Services \subseteq Nat \ {NoCaller}
    /\ Calls \subseteq Services \X Services
    /\ \A d \in Firing : d.window \in 0..MaxWindow /\ d.key.target \in Target /\ d.severity \in {1, 2}
    /\ IsFiniteSet(Firing)
    /\ Lookback \in Nat /\ MaxWindow \in Nat /\ MaxCrashes \in Nat

Watched == {d.key : d \in Firing}

NoRoot == [none |-> TRUE]   \* root_cause_incident_id = ''

VARIABLES
    window,     \* the window to process next, or being processed
    pc,         \* "detect": before write_detections; "group": after it
    edges,      \* table service_edges: the distinct pairs
    detections, \* table detections
    incidents,  \* table detected_incidents, the latest version of each id
    fresh,      \* new_detections: what this window's detectors found
    batch,      \* history: the incidents last written
    suppressed, \* history: the keys run_suppression counted detections of
    groupedAt,  \* history: the windows run_suppression ran for
    crashes     \* bound

vars == <<window, pc, edges, detections, incidents, fresh, batch, suppressed,
          groupedAt, crashes>>

tables == <<edges, detections, incidents>>

-----------------------------------------------------------------------------
(* group_detections *)

WindowsOf(found, k) == {d.window : d \in {e \in found : e.key = k}}

\* A run: back-to-back windows from first to last that cannot be extended.
IsRun(found, k, first, last) ==
    LET W == WindowsOf(found, k)
    IN /\ first..last \subseteq W /\ first <= last
       /\ last + 1 \notin W
       /\ \A w \in W : w + 1 # first

PeakSeverity(found, k, first, last) ==
    Max({d.severity : d \in {e \in found : e.key = k /\ e.window \in first..last}})

\* _build_incident
BuildIncident(found, k, first, last) ==
    [key |-> k, start |-> first, end |-> last,
     peak |-> PeakSeverity(found, k, first, last), root |-> NoRoot]

\* The last windows of the runs that begin at d.
RunEnds(found, d) == {last \in 0..MaxWindow : IsRun(found, d.key, d.window, last)}

GroupDetections(found) ==
    UNION { {BuildIncident(found, d.key, d.window, last) : last \in RunEnds(found, d)} :
              d \in found }

\* An id that names the end of the run: a run that goes on gets a new one.
IncidentIdOfEnd(i) == [key |-> i.key, start |-> i.end]

\* incident_id
IncidentId(i) == [key |-> i.key, start |-> i.start]

-----------------------------------------------------------------------------
(* suppress_propagated *)

Overlaps(a, b) == a.start <= b.end /\ b.start <= a.end

\* by_target built from the list the wrong way round: the oldest one stays.
ByTargetFirst(found) ==
    {i \in found : \A j \in found : j.key = i.key => i.start <= j.start}

\* by_target: of several incidents of a key the last one in the list stays.
ByTarget(found) ==
    {i \in found : \A j \in found : j.key = i.key => j.start <= i.start}

IsService(i) == i.key.target.kind = "service"
Callee(i)    == i.key.target.callee

\* The incidents of its callees that overlap i.
AffectedCallees(i, known, calls) ==
    {d \in known : /\ IsService(i) /\ IsService(d)
                   /\ <<Callee(i), Callee(d)>> \in calls
                   /\ d.key.detector = i.key.detector
                   /\ Overlaps(i, d)}

\* One hop only: the neighbour, not the deepest.
ResolveOneHop(known, calls) ==
    [i \in known |->
        LET affected == AffectedCallees(i, known, calls)
        IN IF affected = {} THEN i
           ELSE CHOOSE c \in affected : \A e \in affected : Callee(c) <= Callee(e)]

\* resolve_root: the deepest affected incident downstream, the smallest label
\* where branches differ; an incident met again on its own path ends the walk.
ResolveRoot(known, calls) ==
    LET Resolve[at \in known \X SUBSET known] ==
            LET i == at[1]
                visiting == at[2]
                candidates == { Resolve[<<d, visiting \cup {i}>>] :
                                  d \in AffectedCallees(i, known, calls) }
            IN IF ~IsService(i) \/ i \in visiting \/ candidates = {} THEN i
               ELSE CHOOSE c \in candidates :
                        \A e \in candidates : Callee(c) <= Callee(e)
    IN [i \in known |-> Resolve[<<i, {}>>]]

\* The incident of an edge's callee, if it overlaps.
CalleeIncident(i, known) ==
    {d \in known : /\ d.key = Key(Service(Callee(i)), i.key.detector)
                   /\ Overlaps(i, d)}

\* An edge is blamed on its callee, be that derived or not.
RootForNeighbour(i, known, root) ==
    IF IsService(i) THEN root[i]
    ELSE IF CalleeIncident(i, known) = {} THEN i
    ELSE CHOOSE d \in CalleeIncident(i, known) : TRUE

\* The root found for an incident in by_target; itself when there is none.
RootFor(i, known, root) ==
    IF IsService(i) THEN root[i]
    ELSE IF CalleeIncident(i, known) = {} THEN i
    ELSE root[CHOOSE d \in CalleeIncident(i, known) : TRUE]

SuppressPropagated(found, calls) ==
    LET known == ByTarget(found)
        root  == ResolveRoot(known, calls)
        Mark(i) == IF i \in known /\ RootFor(i, known, root) # i
                   THEN [i EXCEPT !.root = IncidentId(RootFor(i, known, root))]
                   ELSE i
    IN {Mark(i) : i \in found}

Derived(i) == i.root # NoRoot

-----------------------------------------------------------------------------

Init ==
    /\ window = 0 /\ pc = "detect"
    /\ edges = {} /\ detections = {} /\ incidents = {}
    /\ fresh = {} /\ batch = {} /\ suppressed = {} /\ groupedAt = {}
    /\ crashes = 0

\* process_window up to write_detections: the window's calls are in the table
\* before its detections.
Detect ==
    /\ pc = "detect" /\ window <= MaxWindow
    /\ \E seen \in SUBSET (Calls \ edges) : edges' = edges \cup seen
    /\ fresh' \in SUBSET {d \in Firing :
           /\ d.window = window
           /\ d.key.target.kind = "edge" =>
                <<d.key.target.caller, d.key.target.callee>> \in edges'}
    /\ \A d, e \in fresh' : d.key = e.key => d = e
    /\ detections' = detections \cup fresh'
    /\ pc' = "group"
    /\ UNCHANGED <<window, incidents, batch, suppressed, groupedAt, crashes>>

\* A lookback that leaves its first window out.
RecentExclusive == {d \in detections : window < d.window + Lookback /\ d.window <= window}

\* fetch_recent_detections: both ends included.
Recent == {d \in detections : window <= d.window + Lookback /\ d.window <= window}

\* The keys that have a derived incident in the batch.
DerivedKeys(found) == {i.key : i \in {j \in found : Derived(j)}}

\* write_detected_incidents: a row replaces the one of the same id.
WriteDetectedIncidents(found) ==
    {i \in incidents : IncidentId(i) \notin {IncidentId(j) : j \in found}} \cup found

\* run_suppression, and on to the next window.
RunSuppression ==
    /\ pc = "group"
    /\ batch' = SuppressPropagated(GroupDetections(Recent), edges)
    /\ incidents' = WriteDetectedIncidents(batch')
    /\ suppressed' = {d.key : d \in fresh} \cap DerivedKeys(batch')
    /\ groupedAt' = groupedAt \cup {window}
    /\ window' = window + 1
    /\ pc' = "detect"
    /\ UNCHANGED <<edges, detections, fresh, crashes>>

\* The process dies before or between the two inserts; the next one begins at
\* a later window, and windows in between are never processed (Windows.tla).
Crash ==
    /\ crashes < MaxCrashes /\ window <= MaxWindow
    /\ crashes' = crashes + 1
    /\ \E w \in window + 1 .. MaxWindow + 1 : window' = w
    /\ pc' = "detect"
    /\ fresh' = {} /\ batch' = {} /\ suppressed' = {}
    /\ UNCHANGED <<edges, detections, incidents, groupedAt>>

Next == Detect \/ RunSuppression \/ Crash

Spec == Init /\ [][Next]_vars

-----------------------------------------------------------------------------
(* Properties *)

Ids == [key : Watched, start : 0..MaxWindow]

IncidentRow == [key : Watched, start : 0..MaxWindow, end : 0..MaxWindow,
                peak : {1, 2}, root : Ids \cup {NoRoot}]

TypeOK ==
    /\ window \in 0..MaxWindow + 1 /\ pc \in {"detect", "group"}
    /\ edges \subseteq Calls
    /\ fresh \subseteq detections
    /\ detections \subseteq Firing
    /\ batch \subseteq incidents /\ incidents \subseteq IncidentRow
    /\ suppressed \subseteq Watched /\ groupedAt \subseteq 0..MaxWindow
    /\ crashes \in 0..MaxCrashes

Covers(i, d) == i.key = d.key /\ d.window \in i.start..i.end

\* However inserts and crashes fall, a detection that any later run of the
\* grouping still had in its lookback lies inside an incident of the table;
\* only an outage longer than the lookback can leave one out
\* (main.py:184, 214-220).
DetectionsAreInIncidents ==
    \A d \in detections :
        (\E w \in groupedAt : d.window <= w /\ w <= d.window + Lookback)
            => \E i \in incidents : Covers(i, d)

\* What is in the tables belongs together (main.py:184-220).
TablesAgree == TypeOK /\ DetectionsAreInIncidents

\* Re-inserting an incident under its id never takes anything back: as rows of
\* detected_incidents are replaced their end only moves on and their peak only
\* rises, although each is computed anew from a sliding lookback
\* (main.py:204-212, init.sql:314-318).
IncidentsOnlyGrow ==
    [][\A i \in incidents :
         \E j \in incidents' : /\ IncidentId(j) = IncidentId(i)
                               /\ i.end <= j.end /\ i.peak <= j.peak]_vars

\* The incidents of the last run, until the next window adds to the graph.
Written == IF pc = "detect" THEN batch ELSE {}

RootOf(i) == {r \in Written : IncidentId(r) = i.root}

\* Calls from an incident's service to one that has the same trouble.
AffectedBy(i, known) == AffectedCallees(i, known, edges)

\* Where suppression points is where the trouble is: the root of a derived
\* incident is in the same batch, is not derived itself, and nothing it calls
\* has an overlapping incident among the latest of their keys; in turn, the
\* latest incident of a service is derived as soon as one of its callees has
\* such an incident (suppression.py:124-159, DECISIONS.md:107).
RootsAreDeepest ==
    LET known == ByTarget(Written)
    IN \A i \in Written :
        /\ Derived(i) =>
             \E r \in RootOf(i) : /\ ~Derived(r) /\ IsService(r)
                                  /\ r.key.detector = i.key.detector
                                  /\ AffectedBy(r, known) = {}
        /\ (i \in known /\ AffectedBy(i, known) # {}) => Derived(i)

\* An edge is blamed on what its callee is blamed on, not on the callee when
\* that is derived itself (suppression.py:161-178).
EdgesFollowCallee ==
    \A i \in ByTarget(Written) : ~IsService(i) =>
        \A c \in CalleeIncident(i, ByTarget(Written)) :
            i.root = (IF Derived(c) THEN c.root ELSE IncidentId(c))

\* Every derived incident, of a service or of a call, is blamed on the service
\* where the trouble is.
BlameIsDeepest == RootsAreDeepest /\ EdgesFollowCallee

\* A detection is counted as suppressed exactly when the incident it lies in
\* is derived, although the count looks at keys only: run_suppression's "how
\* many landed in a derived incident" (main.py:200-202, 225-228).
SuppressedLandedInDerived ==
    Written # {} =>
        \A d \in fresh :
            d.key \in suppressed <=> \E i \in Written : Covers(i, d) /\ Derived(i)

=============================================================================
