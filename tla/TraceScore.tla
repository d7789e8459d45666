------------------------------ MODULE TraceScore ------------------------------
(***************************************************************************)
(* The offline evaluation of reassembly (analyzer/src/analyzer/eval.py,    *)
(* compute_metrics and compute_depths), over the trace of Reassembly.      *)
(*                                                                         *)
(* Windows may split a trace: rows is what one of them read of it. Of      *)
(* every other span the ground truth knows the parent, and its fate is one *)
(* of three: it never landed, it landed after its window had been read, or *)
(* another window read it. The classes of rows are those that Reassembly   *)
(* computes; those of another window are what ClassifiedByChain says of    *)
(* its rows, where every chain of parents ends.                            *)
(***************************************************************************)
EXTENDS Reassembly

CONSTANT OtherWindows   \* bound: the windows that read the rest of the trace

ASSUME TraceScoreAssumption ==
    {"lost", "unread", "this"} \cap OtherWindows = {}

Fates == [Spans \ rows -> OtherWindows \cup {"lost", "unread"}]

\* The parents the ground truth may hold: those of the rows are on the rows,
\* and no set of spans has all its parents inside it.
Truths ==
    {truth \in [Spans -> Spans \cup {NoParent}] :
        /\ \A s \in rows : truth[s] = parent[s]
        /\ \A below \in SUBSET Spans : below # {} => \E s \in below : truth[s] \notin below}

\* _fetch_landed_span_ids
Landed(fate) == rows \cup {s \in Spans \ rows : fate[s] # "lost"}

\* The window that read a span.
ReadIn(fate, s) == IF s \in rows THEN "this" ELSE fate[s]

\* _fetch_classifications, and None for a span that no window read.
Classification(truth, fate, s) ==
    IF s \in rows THEN class[s]
    ELSE IF fate[s] = "unread" THEN "none"
    ELSE IF \/ truth[s] = NoParent
            \/ truth[s] \in Landed(fate) /\ ReadIn(fate, truth[s]) = fate[s]
         THEN "ok" ELSE "orphan_missing_parent"

Judged(truth, fate) == {s \in Landed(fate) : truth[s] # NoParent}

\* A mistake: only parents that were read with the span count as landed.
AttachableInWindow(truth, fate) ==
    {s \in Judged(truth, fate) :
        truth[s] \in Landed(fate) /\ ReadIn(fate, truth[s]) = ReadIn(fate, s)}

\* The denominators: whether the parent landed at all.
Attachable(truth, fate) == {s \in Judged(truth, fate) : truth[s] \in Landed(fate)}
Orphaned(truth, fate)   == Judged(truth, fate) \ Attachable(truth, fate)

AttachmentCorrect(truth, fate) ==
    {s \in Attachable(truth, fate) : Classification(truth, fate, s) = "ok"}
OrphanCorrect(truth, fate) ==
    {s \in Orphaned(truth, fate) :
        Classification(truth, fate, s) = "orphan_missing_parent"}

-----------------------------------------------------------------------------
(* compute_depths, of the services that call each other in the trace *)

CallGraph == {<<service[p[1]], service[p[2]]>> : p \in Pairs}

Callers(edges)  == {e[1] : e \in edges}
Called(edges)   == {e[2] : e \in edges}
Sources(edges)  == Callers(edges) \ Called(edges)

\* Breadth first from the services nobody calls.
ComputeDepths(edges) ==
    LET reached[n \in 0..Cardinality(Services)] ==
            IF n = 0 THEN [s \in Sources(edges) |-> 0]
            ELSE [s \in DOMAIN reached[n - 1]
                          \cup {e[2] : e \in {f \in edges : f[1] \in DOMAIN reached[n - 1]}} |->
                     IF s \in DOMAIN reached[n - 1] THEN reached[n - 1][s] ELSE n]
    IN reached[Cardinality(Services)]

-----------------------------------------------------------------------------
(* Properties *)

\* A landed span costs attachment accuracy just when it was not read together
\* with its parent, that landed too: in another window, or one of the two after
\* its window had been read. It costs orphan accuracy just when it was itself
\* read by no window. The orphans of any window, what hangs below them and what
\* the injectors drop are never charged to reassembly (eval.py:86-102).
ScoreChargesOnlyReading ==
    pc = "done" =>
        \A truth \in Truths, fate \in Fates :
            /\ Orphaned(truth, fate) \ OrphanCorrect(truth, fate)
                 = {s \in Spans \ rows : /\ fate[s] = "unread"
                                        /\ truth[s] \in Spans \ Landed(fate)}
            /\ Attachable(truth, fate) \ AttachmentCorrect(truth, fate)
                 = {s \in Landed(fate) :
                      /\ truth[s] \in Landed(fate)
                      /\ \/ ReadIn(fate, s) = "unread"
                         \/ ReadIn(fate, s) # ReadIn(fate, truth[s])}

\* The depth of a service is its distance from the services nobody calls: 0 for
\* those, one more than the nearest caller for the rest, also in call graphs
\* with cycles and shortcuts, and none for a service that they do not reach
\* (eval.py:200-235).
DepthsAreDistances ==
    pc = "done" =>
        LET depths  == ComputeDepths(CallGraph)
            known   == DOMAIN depths
        IN /\ Sources(CallGraph) \subseteq known
           /\ \A e \in CallGraph : e[1] \in known => e[2] \in known
           /\ \A s \in known :
                IF s \in Sources(CallGraph) THEN depths[s] = 0
                ELSE LET callers == {e[1] : e \in {f \in CallGraph : f[2] = s}} \cap known
                     IN callers # {} /\ depths[s] = 1 + Min({depths[c] : c \in callers})

\* What the evaluation says of reassembly is fair to it (eval.py:86-102, 200-235).
EvaluationIsFair == ScoreChargesOnlyReading /\ DepthsAreDistances

=============================================================================
