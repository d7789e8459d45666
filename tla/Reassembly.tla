------------------------------ MODULE Reassembly ------------------------------
(***************************************************************************)
(* The reassembly of one trace from the spans a window holds               *)
(* (analyzer/src/analyzer/reassembly.py, _reassemble_trace), with the      *)
(* aggregation over its parent-child pairs (topology_agg.py,               *)
(* service_agg.py).                                                        *)
(*                                                                         *)
(* The rows come in any order; wherever the code walks a list in row order *)
(* the model takes any element that is left. A trace is any parent         *)
(* assignment at all: parents may be absent from the rows (dropped, late,  *)
(* or in another window) and may form cycles. Span ids are unique: the     *)
(* query reads spans FINAL, ordered by (trace_id, span_id).                *)
(***************************************************************************)
EXTENDS Naturals, FiniteSets, Functions, FiniteSetsExt

CONSTANTS
    Spans,      \* span ids
    Services,
    MaxStart,   \* bound: start times are 0..MaxStart
    NoParent    \* parent_span_id = ""

ASSUME ReassemblyAssumption ==
    /\ NoParent \notin Spans
    /\ MaxStart \in Nat
    /\ IsFiniteSet(Spans) /\ IsFiniteSet(Services)

VARIABLES
    rows,       \* the spans of the trace that are in the window
    parent,     \* parent_span_id
    service,    \* service_name
    start,      \* start_time_unix_nano
    pc,         \* "mark", "canonical", "depth", "done"
    seeds,      \* roots and orphans not yet handed to _bfs_mark
    frontier,   \* _bfs_mark's queue
    visited,
    canonical,  \* the root chosen for the summary, NoParent before
    layer,      \* _subtree_depth's queue: the spans at the depth being counted
    depth,      \* max_depth
    class       \* the classification written per span

vars == <<rows, parent, service, start, pc, seeds, frontier, visited,
          canonical, layer, depth, class>>

input == <<rows, parent, service, start>>

-----------------------------------------------------------------------------
(* the one pass over the rows *)

Roots   == {s \in rows : parent[s] = NoParent}
Orphans == {s \in rows : parent[s] # NoParent /\ parent[s] \notin rows}

\* Children of a span, in the rows.
Children(s) == {c \in rows : parent[c] = s}

\* Pairs of the reassembled tree only.
PairsInTree == {<<parent[c], c>> : c \in {d \in rows \cap visited : parent[d] \in rows}}

\* The parent-child pairs that resolve (resolved_parent_child_pairs).
Pairs == {<<parent[c], c>> : c \in {d \in rows : parent[d] \in rows}}

\* call_count of each edge (aggregate_edges) and service (aggregate_services).
EdgeCalls(caller, callee) ==
    Cardinality({p \in Pairs : service[p[1]] = caller /\ service[p[2]] = callee})

ServiceCalls(s) == Cardinality({r \in rows : service[r] = s})

\* A seed of roots only: what hangs below an orphan is taken for a cycle.
RootsOnly == Roots

Seeds == Roots \cup Orphans

Init ==
    /\ rows \in SUBSET Spans \ {{}}
    /\ parent \in [rows -> Spans \cup {NoParent}]
    /\ service \in [rows -> Services]
    /\ start \in [rows -> 0..MaxStart]
    /\ pc = "mark"
    /\ seeds = Seeds
    /\ frontier = {} /\ visited = {}
    /\ canonical = NoParent /\ layer = {} /\ depth = 0
    /\ class = [s \in {} |-> "ok"]

-----------------------------------------------------------------------------
(* reachability: _bfs_mark from every seed *)

NextSeed(s) ==
    /\ pc = "mark" /\ frontier = {} /\ s \in seeds
    /\ seeds' = seeds \ {s}
    /\ frontier' = {s}
    /\ UNCHANGED <<pc, visited, canonical, layer, depth, class>>
    /\ UNCHANGED input

\* Pop a span: unless it was visited, mark it and queue its children.
Visit(s) ==
    /\ pc = "mark" /\ s \in frontier
    /\ visited' = visited \cup {s}
    /\ frontier' = (frontier \ {s}) \cup (IF s \in visited THEN {} ELSE Children(s))
    /\ UNCHANGED <<pc, seeds, canonical, layer, depth, class>>
    /\ UNCHANGED input

ClassOf(s) ==
    IF s \in Orphans THEN "orphan_missing_parent"
    ELSE IF s \in visited THEN "ok" ELSE "cycle_rejected"

Classify ==
    /\ pc = "mark" /\ frontier = {} /\ seeds = {}
    /\ class' = [s \in rows |-> ClassOf(s)]
    /\ pc' = "canonical"
    /\ UNCHANGED <<seeds, frontier, visited, canonical, layer, depth>>
    /\ UNCHANGED input

-----------------------------------------------------------------------------
(* the summary *)

\* min() over the roots, in row order: any of those that start first.
ChooseCanonical(r) ==
    /\ pc = "canonical" /\ r \in Roots
    /\ \A q \in Roots : start[r] <= start[q]
    /\ canonical' = r
    /\ layer' = {r}
    /\ depth' = 1
    /\ pc' = "depth"
    /\ UNCHANGED <<seeds, frontier, visited, class>>
    /\ UNCHANGED input

\* No root: depth 0, no root service.
NoCanonical ==
    /\ pc = "canonical" /\ Roots = {}
    /\ pc' = "done"
    /\ UNCHANGED <<seeds, frontier, visited, canonical, layer, depth, class>>
    /\ UNCHANGED input

\* One depth too few: the leaves are not counted.
DeepenToLeaves ==
    /\ pc = "depth"
    /\ layer' = UNION {Children(s) : s \in layer}
    /\ \/ UNION {Children(s) : s \in layer'} # {} /\ depth' = depth + 1 /\ UNCHANGED pc
       \/ UNION {Children(s) : s \in layer'} = {} /\ pc' = "done" /\ UNCHANGED depth
    /\ UNCHANGED <<seeds, frontier, visited, canonical, class>>
    /\ UNCHANGED input

\* All spans of the next depth of the canonical root's tree.
Deepen ==
    /\ pc = "depth"
    /\ layer' = UNION {Children(s) : s \in layer}
    /\ \/ layer' # {} /\ depth' = depth + 1 /\ UNCHANGED pc
       \/ layer' = {} /\ pc' = "done" /\ UNCHANGED depth
    /\ UNCHANGED <<seeds, frontier, visited, canonical, class>>
    /\ UNCHANGED input

\* A reason that stops looking once there is one root.
ReasonByRoots ==
    IF Roots = {} THEN "missing_root"
    ELSE IF Cardinality(Roots) > 1 THEN "multiple_roots"
    ELSE IF Orphans # {} THEN "orphan_missing_parent"
    ELSE ""

Reason ==
    IF Roots = {} THEN "missing_root"
    ELSE IF Cardinality(Roots) > 1 THEN "multiple_roots"
    ELSE IF Orphans # {} THEN "orphan_missing_parent"
    ELSE IF \E s \in rows : class[s] = "cycle_rejected" THEN "cycle_rejected"
    ELSE ""

Complete == Reason = ""

-----------------------------------------------------------------------------

Next ==
    \/ \E s \in rows : NextSeed(s) \/ Visit(s) \/ ChooseCanonical(s)
    \/ Classify \/ NoCanonical \/ Deepen

Spec == Init /\ [][Next]_vars

-----------------------------------------------------------------------------
(* Properties *)

Classes == {"ok", "orphan_missing_parent", "cycle_rejected"}

TypeOK ==
    /\ rows \subseteq Spans
    /\ parent \in [rows -> Spans \cup {NoParent}]
    /\ service \in [rows -> Services]
    /\ start \in [rows -> 0..MaxStart]
    /\ pc \in {"mark", "canonical", "depth", "done"}
    /\ seeds \subseteq rows /\ frontier \subseteq rows /\ visited \subseteq rows
    /\ canonical \in rows \cup {NoParent}
    /\ layer \subseteq rows
    /\ depth \in Nat
    /\ class \in [(IF pc = "mark" THEN {} ELSE rows) -> Classes]

\* The ancestors of s: its parents up to the first that is not in the rows.
Ancestors(s) ==
    LET up[n \in 0..Cardinality(rows)] ==
            IF n = 0 THEN {s}
            ELSE up[n - 1] \cup { parent[a] : a \in {b \in up[n - 1] : parent[b] \in rows} }
    IN up[Cardinality(rows)]

\* The chain from s upwards ends, at a root or at an orphan.
BottomsOut(s) == Ancestors(s) \cap (Roots \cup Orphans) # {}

\* Each span is classified by where its own chain of parents ends, whatever
\* the order of the rows: broken at itself, ended at a root or an orphan, or
\* without an end, that is in a cycle or below one (reassembly.py:8-21).
ClassifiedByChain ==
    pc # "mark" =>
        \A s \in rows :
            class[s] = IF s \in Orphans THEN "orphan_missing_parent"
                       ELSE IF BottomsOut(s) THEN "ok" ELSE "cycle_rejected"

\* What is rejected has no end to its chain: the parent of a rejected span is
\* in the rows and rejected too. What is accepted hangs on a root or below a
\* span that was not rejected (reassembly.py:10-21).
RejectedHaveNoEnd ==
    pc # "mark" =>
        \A s \in rows :
            /\ class[s] = "cycle_rejected" =>
                 parent[s] \in rows /\ class[parent[s]] = "cycle_rejected"
            /\ class[s] = "ok" =>
                 s \in Roots \/ (parent[s] \in rows /\ class[parent[s]] # "cycle_rejected")

\* A trace is complete exactly when its rows are one tree: a single root that
\* every span descends from (reassembly.py:140-149).
CompleteIsOneTree ==
    pc = "done" =>
        (Complete <=> \E r \in Roots : \A s \in rows : r \in Ancestors(s))

\* The depth is that of the canonical root's own tree, the longest chain of
\* spans that ends at it (reassembly.py:133-138, 174-186).
DepthIsLongestChain ==
    (pc = "done" /\ canonical # NoParent) =>
        depth = Max({Cardinality(Ancestors(s)) :
                       s \in {t \in rows : canonical \in Ancestors(t)}})

\* The shape of a trace is told right (reassembly.py:117-149).
TreeIsRight == ClassifiedByChain /\ CompleteIsOneTree /\ DepthIsLongestChain

\* Every row but the roots and the orphans is a call of exactly one edge,
\* those in cycles included, and every row a call of one service
\* (reassembly.py:189-209, topology_agg.py:39-41, service_agg.py:32-34).
CallsConserved ==
    pc = "done" =>
        /\ MapThenSumSet(LAMBDA e : EdgeCalls(e[1], e[2]), Services \X Services)
             = Cardinality(rows) - Cardinality(Roots) - Cardinality(Orphans)
        /\ MapThenSumSet(ServiceCalls, Services) = Cardinality(rows)

=============================================================================
