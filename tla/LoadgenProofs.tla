---------------------------- MODULE LoadgenProofs ----------------------------
(***************************************************************************)
(* Theorems about Loadgen, for every topology, every set of plans and      *)
(* injectors, and any number of traces: every span generated is accounted  *)
(* for, ground truth covers what was sent, its edges have their spans, and *)
(* it explains every clock shift.                                          *)
(*                                                                         *)
(* A trace's rows are together from Generate to ClickHouse: in the batcher, *)
(* in the insert under way, in the tables.  So the three places together   *)
(* hold whole traces, and the edges of their union are the edges of each.  *)
(*                                                                         *)
(* No span is with two senders (GroupInv), so what the senders carry is as *)
(* much as the union of their groups, and a send takes off the union just  *)
(* what it adds to the spans sent or to those of the failed sends.         *)
(***************************************************************************)
EXTENDS Loadgen, Lemmas, FunctionTheorems

USE LoadgenAssumption

EdgeRows == {Edge(sp) : sp \in {q \in Spans : CallerOf[q[2]] # NoSite}}
Rows == [spans : SUBSET Spans, edges : SUBSET EdgeRows]

Kept == tables.spans \cup insert.rows.spans \cup buffer.spans
Edges == tables.edges \cup insert.rows.edges \cup buffer.edges

ParentOf(sp) == <<sp[1], CallerOf[sp[2]]>>

\* Each edge has the rows of both its spans beside it.
Whole(edges, spans) == \A e \in edges : e.of \in spans /\ ParentOf(e.of) \in spans

ShapeInv ==
    /\ traces \in 0 .. MaxTraces
    /\ plan \subseteq Spans
    /\ buffer \in Rows /\ insert \in [stage : {"none", "spans", "edges"}, rows : Rows]
    /\ DOMAIN tables = {"spans", "edges", "offsets", "incidents"}
    /\ tables.spans \subseteq Spans /\ tables.edges \subseteq EdgeRows
    /\ "generated" \in DOMAIN st
    /\ \A g \in groups : DOMAIN g = {"delay", "state", "spans"}

\* Where rows may be at each point of run.
PlaceInv ==
    /\ insert.stage = "none" => insert = NoInsert
    /\ pc \notin {"dispatch", "draining"} => insert = NoInsert
    /\ pc \in {"starting", "draining", "recording", "incidents", "exited"} => buffer = NoRows
    /\ insert.stage = "edges" => insert.rows.spans \subseteq tables.spans

WholeInv ==
    /\ Whole(buffer.edges, buffer.spans) /\ Whole(insert.rows.edges, insert.rows.spans)
    /\ Whole(tables.edges, tables.spans)

\* While no insert has failed, the three places hold all that was generated.
TruthInv ==
    /\ IsFiniteSet(Kept) /\ \A sp \in Kept : sp[1] <= traces
    /\ "rows" \notin failures =>
         /\ Cardinality(Kept) = st.generated
         /\ Edges = ToRows(Kept).edges
         /\ plan \subseteq Kept
         /\ \A w \in wire : w.span \in Kept
         /\ \A g \in groups : \A w \in g.spans : w.span \in Kept

Out == wire \cup UNION {g.spans : g \in groups}

ShiftInv ==
    /\ ServiceOf[Root] \notin DOMAIN offsets
    /\ \A w \in Out :
         /\ w.shift = ShiftOf(offsets, ServiceOf[w.span[2]])
         /\ "clock_skew" \in Injectors =>
               ServiceOf[w.span[2]] \in DOMAIN offsets \cup {ServiceOf[Root]}
    /\ (pc \in {"starting", "incidents", "exited"} /\ "offsets" \notin failures) =>
          tables.offsets = offsets

IInv == ShapeInv /\ PlaceInv /\ WholeInv /\ TruthInv /\ ShiftInv

Carried == UNION {g.spans : g \in groups}

StCounts == [generated : Nat, dropped : Nat, delayed : Nat, sendOK : Nat,
             sendsFailed : Nat]

\* Where run stands, and that a plan is there between a tick and its dispatch.
PlanInv ==
    /\ pc \in {"starting", "loop", "flush", "dispatch", "draining",
               "recording", "incidents", "exited"}
    /\ runDone \in BOOLEAN
    /\ plan # {} <=> pc \in {"flush", "dispatch"}
    /\ IsFiniteSet(plan)
    /\ \A sp \in plan : sp[1] = traces

\* The batcher is below its limit except between a tick and the flush after it.
BatchInv ==
    /\ IsFiniteSet(buffer.spans)
    /\ insert.stage # "none" => buffer = NoRows
    /\ pc # "flush" => Cardinality(buffer.spans) < MaxRows
    /\ BatcherBounded

\* No span is with two senders, nor with a sender while it is still planned.
GroupInv ==
    /\ IsFiniteSet(groups) /\ IsFiniteSet(Carried)
    /\ \A g \in groups : g.state \in {"waiting", "sending"} /\ g.spans # {}
    /\ \A g, h \in groups : g # h => g.spans \cap h.spans = {}
    /\ \A w \in Carried : w.span[1] <= traces /\ w.span \notin plan
    /\ \A w \in Out : w.span \in Spans

MemoInv ==
    /\ DOMAIN offsets \subseteq Services
    /\ \A svc \in DOMAIN offsets : offsets[svc] \in Offsets

CountInv ==
    /\ st \in StCounts
    /\ warned \in Nat
    /\ st.generated = Cardinality(plan) + st.dropped + Cardinality(Carried)
                        + st.sendOK + warned

\* Each send that failed had a span.
WarnedInv == st.sendsFailed <= warned /\ (st.sendsFailed = 0 => warned = 0)

AccountInv == PlanInv /\ BatchInv /\ GroupInv /\ MemoInv /\ CountInv /\ WarnedInv

-----------------------------------------------------------------------------
(* Rows of whole traces *)

\* A row of ToRows is a span of the plan whose parent is in the plan.
LEMMA RowsOfPlan ==
    ASSUME NEW p
    PROVE  /\ ToRows(p).spans = p
           /\ \A e : e \in ToRows(p).edges <=>
                \E sp \in p : CallerOf[sp[2]] # NoSite /\ ParentOf(sp) \in p /\ e = Edge(sp)
BY DEF ToRows, ParentOf

\* An edge row knows the span it was made from.
LEMMA EdgeParts == \A sp : Edge(sp).of = sp
BY DEF Edge

\* A span is the pair of its trace and its site.
LEMMA SpanParts ==
    /\ \A sp \in Spans : sp[1] \in 1 .. MaxTraces /\ sp[2] \in Sites /\ sp = <<sp[1], sp[2]>>
    /\ \A t \in 1 .. MaxTraces : \A s \in Sites : <<t, s>> \in Spans
BY DEF Spans

\* The rows of a plan are rows, with whole edges.
LEMMA PlanRows ==
    ASSUME NEW p \in SUBSET Spans
    PROVE  ToRows(p) \in Rows /\ Whole(ToRows(p).edges, ToRows(p).spans)
<1>1. \A e \in ToRows(p).edges : \E sp \in p : CallerOf[sp[2]] # NoSite /\ ParentOf(sp) \in p /\ e = Edge(sp)
  BY RowsOfPlan
<1>2. Whole(ToRows(p).edges, ToRows(p).spans)
  BY <1>1, RowsOfPlan, EdgeParts DEF Whole
<1>3. ToRows(p).edges \subseteq EdgeRows
  BY <1>1 DEF EdgeRows
<1>4. ToRows(p) = [spans |-> p, edges |-> ToRows(p).edges]
  BY DEF ToRows
<1> QED BY <1>2, <1>3, <1>4 DEF Rows

\* The edges of two sets without a trace in common are those of each.
LEMMA RowsAdd ==
    ASSUME NEW p \in SUBSET Spans, NEW q \in SUBSET Spans, NEW t \in Int,
           \A sp \in p : sp[1] <= t, \A sp \in q : sp[1] = t + 1
    PROVE  ToRows(p \cup q).edges = ToRows(p).edges \cup ToRows(q).edges
<1>1. \A sp \in p : ParentOf(sp) \in p \cup q <=> ParentOf(sp) \in p
  <2>1. \A sp \in p : ParentOf(sp)[1] = sp[1] /\ sp[1] \in Int
    BY SpanParts DEF ParentOf
  <2> QED BY <2>1
<1>2. \A sp \in q : ParentOf(sp) \in p \cup q <=> ParentOf(sp) \in q
  <2>1. \A sp \in q : ParentOf(sp)[1] = sp[1] /\ sp[1] \in Int
    BY SpanParts DEF ParentOf
  <2> QED BY <2>1
<1>3. ASSUME NEW e PROVE e \in ToRows(p \cup q).edges <=> e \in ToRows(p).edges \cup ToRows(q).edges
  <2>1. e \in ToRows(p \cup q).edges <=>
          \E sp \in p \cup q : CallerOf[sp[2]] # NoSite /\ ParentOf(sp) \in p \cup q /\ e = Edge(sp)
    BY RowsOfPlan
  <2>2. e \in ToRows(p).edges <=> \E sp \in p : CallerOf[sp[2]] # NoSite /\ ParentOf(sp) \in p /\ e = Edge(sp)
    BY RowsOfPlan
  <2>3. e \in ToRows(q).edges <=> \E sp \in q : CallerOf[sp[2]] # NoSite /\ ParentOf(sp) \in q /\ e = Edge(sp)
    BY RowsOfPlan
  <2> QED BY <1>1, <1>2, <2>1, <2>2, <2>3
<1> QED BY <1>3

-----------------------------------------------------------------------------
(* The invariant is inductive *)

\* The empty batcher and the insert that does not run.
LEMMA NoRowsType == /\ NoRows \in Rows /\ NoRows.spans = {} /\ NoRows.edges = {}
                    /\ NoInsert \in [stage : {"none", "spans", "edges"}, rows : Rows]
                    /\ NoInsert.rows = NoRows /\ NoInsert.stage = "none"
BY DEF NoRows, Rows, NoInsert

\* The invariant holds when a run starts.
LEMMA InitInv == Init => IInv
<1> SUFFICES ASSUME Init PROVE IInv
  OBVIOUS
<1>1. ShapeInv
  BY NoRowsType DEF Init, ShapeInv
<1>2. PlaceInv
  BY NoRowsType DEF Init, PlaceInv
<1>3. WholeInv
  BY NoRowsType DEF Init, WholeInv, Whole
<1>4. TruthInv
  <2>1. Kept = {} /\ Edges = {}
    BY NoRowsType DEF Init, Kept, Edges
  <2>2. ToRows(Kept).edges = {}
    BY <2>1, RowsOfPlan
  <2>3. \A S : S = {} => IsFiniteSet(S) /\ Cardinality(S) = 0
    BY FS_EmptySet
  <2>4. IsFiniteSet(Kept) /\ Cardinality(Kept) = 0
    BY <2>1, <2>3, Zenon
  <2>5. st.generated = 0 /\ plan = {} /\ wire = {} /\ groups = {}
    BY DEF Init
  <2> QED BY <2>1, <2>2, <2>4, <2>5 DEF TruthInv
<1>5. ShiftInv
  BY DEF Init, ShiftInv, Out, EmptyMemo
<1> QED BY <1>1, <1>2, <1>3, <1>4, <1>5 DEF IInv

\* Steps that touch neither rows nor spans nor offsets.
LEMMA QuietStep ==
    ASSUME IInv, Connect \/ RunCtxDone \/ Wait
    PROVE  IInv'
<1>1. UNCHANGED <<traces, plan, truth, offsets, sending>>
  BY DEF Connect, RunCtxDone, Wait
<1>2. \/ pc' = pc \/ (pc = "starting" /\ pc' \in {"loop", "exited"})
      \/ (pc = "draining" /\ insert.stage = "none" /\ pc' = "recording")
  BY DEF Connect, RunCtxDone, Wait
<1> USE <1>1, <1>2 DEF truth, sending, IInv
<1>3. ShapeInv'
  BY DEF ShapeInv
<1>4. PlaceInv'
  BY DEF PlaceInv
<1>5. WholeInv'
  BY DEF WholeInv
<1>6. TruthInv'
  BY DEF TruthInv, Kept, Edges
<1>7. ShiftInv'
  BY DEF ShiftInv, Out
<1> QED BY <1>3, <1>4, <1>5, <1>6, <1>7

\* A new trace: its rows join the batcher.
LEMMA TickStep == ASSUME IInv, Tick PROVE IInv'
<1>1. PICK sites \in Plans :
         /\ plan' = {traces + 1} \X sites
         /\ buffer' = [spans |-> buffer.spans \cup ToRows({traces + 1} \X sites).spans,
                       edges |-> buffer.edges \cup ToRows({traces + 1} \X sites).edges]
         /\ st' = [st EXCEPT !.generated = @ + Cardinality({traces + 1} \X sites)]
  BY DEF Tick
<1>2. /\ traces' = traces + 1 /\ traces < MaxTraces /\ pc = "loop" /\ pc' = "flush"
      /\ UNCHANGED <<insert, tables, failures, offsets, groups, wire>>
  BY DEF Tick
<1> DEFINE p == {traces + 1} \X sites
<1>3. /\ traces \in Int /\ traces + 1 \in 1 .. MaxTraces
      /\ buffer.spans \subseteq Spans /\ buffer.edges \subseteq EdgeRows /\ buffer \in Rows
      /\ insert.rows.spans \subseteq Spans /\ tables.spans \subseteq Spans
  BY <1>2 DEF IInv, ShapeInv, Rows
<1>4. p \subseteq Spans /\ \A sp \in p : sp[1] = traces + 1
  BY <1>3 DEF Spans
<1>5. ToRows(p).spans = p /\ ToRows(p) \in Rows /\ Whole(ToRows(p).edges, p)
  BY <1>4, PlanRows, RowsOfPlan
<1>6. plan' = p /\ buffer'.spans = buffer.spans \cup p /\ buffer'.edges = buffer.edges \cup ToRows(p).edges
      /\ buffer' = [spans |-> buffer.spans \cup p, edges |-> buffer.edges \cup ToRows(p).edges]
      /\ st' = [st EXCEPT !.generated = @ + Cardinality(p)]
  BY <1>1, <1>5
<1>7. IsFiniteSet(p)
  <2>1. IsFiniteSet(sites) /\ IsFiniteSet({traces + 1})
    BY FS_Subset, FS_Singleton
  <2> QED BY <2>1, FS_Product
<1> HIDE DEF p
<1>8. ShapeInv'
  BY <1>2, <1>3, <1>4, <1>5, <1>6 DEF IInv, ShapeInv, Rows
<1>9. PlaceInv'
  BY <1>2 DEF IInv, PlaceInv
<1>10. WholeInv'
  BY <1>2, <1>5, <1>6 DEF IInv, WholeInv, Whole
<1>11. TruthInv'
  <2>1. Kept' = Kept \cup p /\ Edges' = Edges \cup ToRows(p).edges
    BY <1>2, <1>6 DEF Kept, Edges
  <2>2. Kept \subseteq Spans /\ (\A sp \in Kept : sp[1] <= traces /\ sp[1] \in Int) /\ IsFiniteSet(Kept)
    BY <1>3, SpanParts DEF Kept, IInv, TruthInv
  <2>3. Kept \cap p = {}
    BY <1>3, <1>4, <2>2
  <2>4. IsFiniteSet(Kept \cup p) /\ Cardinality(Kept \cup p) = Cardinality(Kept) + Cardinality(p)
    <3>1. /\ IsFiniteSet(Kept \cup p)
          /\ Cardinality(Kept \cup p) = Cardinality(Kept) + Cardinality(p) - Cardinality(Kept \cap p)
      BY <1>7, <2>2, FS_Union
    <3>2. Cardinality(Kept \cap p) = 0
      <4>1. \A S : S = {} => Cardinality(S) = 0
        BY FS_EmptySet
      <4> QED BY <4>1, <2>3, Zenon
    <3> QED BY <1>7, <2>2, <3>1, <3>2, FS_CardinalityType
  <2>5. \A sp \in Kept' : sp[1] <= traces'
    BY <1>2, <1>3, <1>4, <2>1, <2>2
  <2>6. ASSUME "rows" \notin failures
        PROVE  /\ Cardinality(Kept') = st'.generated /\ Edges' = ToRows(Kept').edges /\ plan' \subseteq Kept'
               /\ \A w \in wire' : w.span \in Kept'
               /\ \A g \in groups' : \A w \in g.spans : w.span \in Kept'
    <3>1. /\ Cardinality(Kept) = st.generated /\ Edges = ToRows(Kept).edges
          /\ \A w \in wire : w.span \in Kept
          /\ \A g \in groups : \A w \in g.spans : w.span \in Kept
      BY <2>6 DEF IInv, TruthInv
    <3>2. st'.generated = st.generated + Cardinality(p)
      BY <1>6 DEF IInv, ShapeInv
    <3>3. ToRows(Kept \cup p).edges = ToRows(Kept).edges \cup ToRows(p).edges
      BY <1>3, <1>4, <2>2, RowsAdd
    <3>4. Cardinality(Kept') = Cardinality(Kept \cup p) /\ ToRows(Kept') = ToRows(Kept \cup p)
      BY <2>1, Zenon
    <3>5. Cardinality(Kept') = st'.generated
      BY <2>4, <3>1, <3>2, <3>4
    <3>6. Edges' = ToRows(Kept').edges
      BY <2>1, <3>1, <3>3, <3>4
    <3> QED BY <1>2, <1>6, <2>1, <3>1, <3>5, <3>6
  <2>7. IsFiniteSet(Kept')
    BY <2>1, <2>4
  <2> QED BY <1>2, <2>5, <2>6, <2>7 DEF TruthInv
<1>12. ShiftInv'
  BY <1>2 DEF IInv, ShiftInv, Out
<1> QED BY <1>8, <1>9, <1>10, <1>11, <1>12 DEF IInv

\* The rows change places: from the batcher into the insert.
LEMMA FlushStep ==
    ASSUME IInv, FlushIfDue \/ BreakLoop
    PROVE  IInv'
<1>1. /\ UNCHANGED <<traces, plan, tables, failures, offsets, groups, wire, st>>
      /\ insert = NoInsert
      /\ (pc = "flush" /\ pc' = "dispatch" /\ (Flush \/ UNCHANGED <<buffer, insert>>))
           \/ (pc = "loop" /\ pc' = "draining" /\ Flush)
  BY DEF FlushIfDue, BreakLoop, sending, IInv, PlaceInv
<1>2. CASE UNCHANGED <<buffer, insert>>
  <2> USE <1>1, <1>2 DEF IInv
  <2>1. ShapeInv'
    BY DEF ShapeInv
  <2>2. PlaceInv'
    BY NoRowsType DEF PlaceInv, Flush
  <2>3. WholeInv'
    BY DEF WholeInv
  <2>4. TruthInv'
    BY DEF TruthInv, Kept, Edges
  <2>5. ShiftInv'
    BY DEF ShiftInv, Out
  <2> QED BY <2>1, <2>2, <2>3, <2>4, <2>5
<1>3. CASE Flush
  <2>1. /\ buffer' = NoRows
        /\ \/ insert' = NoInsert /\ buffer = NoRows
           \/ insert' = [stage |-> "spans", rows |-> buffer]
    BY <1>3 DEF Flush
  <2>2. /\ insert'.rows = buffer /\ insert'.stage # "edges" /\ (insert'.stage = "none" => insert' = NoInsert)
        /\ buffer \in Rows /\ insert' \in [stage : {"none", "spans", "edges"}, rows : Rows]
        /\ buffer'.spans = {} /\ buffer'.edges = {} /\ buffer' \in Rows
        /\ insert.rows.spans = {} /\ insert.rows.edges = {}
    BY <1>1, <2>1, NoRowsType DEF IInv, ShapeInv
  <2> USE <1>1, <2>1, <2>2 DEF IInv
  <2>3. ShapeInv'
    BY DEF ShapeInv
  <2>4. PlaceInv'
    BY DEF PlaceInv
  <2>5. WholeInv'
    BY DEF WholeInv, Whole
  <2>6. TruthInv'
    <3>1. Kept' = Kept /\ Edges' = Edges
      BY DEF Kept, Edges
    <3> QED BY <3>1 DEF TruthInv
  <2>7. ShiftInv'
    BY DEF ShiftInv, Out
  <2> QED BY <2>3, <2>4, <2>5, <2>6, <2>7
<1> QED BY <1>1, <1>2, <1>3

\* The rows move on into the tables, or an insert fails and says so.
LEMMA InsertStep ==
    ASSUME IInv, InsertEnds
    PROVE  IInv'
<1>1. /\ UNCHANGED <<pc, traces, plan, buffer, offsets, groups, wire, st>>
      /\ insert.stage \in {"spans", "edges"} /\ pc \in {"dispatch", "draining"}
      /\ tables'.offsets = tables.offsets
      /\ DOMAIN tables' = {"spans", "edges", "offsets", "incidents"}
      /\ "offsets" \in failures' <=> "offsets" \in failures
  BY DEF InsertEnds, SpansInserted, EdgesInserted, InsertFails, sending, IInv, PlaceInv, ShapeInv, NoInsert
<1>2. /\ insert \in [stage : {"none", "spans", "edges"}, rows : Rows]
      /\ insert.rows.spans \subseteq Spans /\ insert.rows.edges \subseteq EdgeRows
      /\ tables.spans \subseteq Spans /\ tables.edges \subseteq EdgeRows
      /\ Whole(insert.rows.edges, insert.rows.spans) /\ Whole(tables.edges, tables.spans)
      /\ insert.stage = "edges" => insert.rows.spans \subseteq tables.spans
      /\ DOMAIN tables = {"spans", "edges", "offsets", "incidents"}
  BY DEF IInv, ShapeInv, WholeInv, PlaceInv, Rows
<1>3. /\ \/ insert' = NoInsert
         \/ /\ insert' = [insert EXCEPT !.stage = "edges"] /\ insert.stage = "spans"
            /\ insert.rows.spans \subseteq tables'.spans
      /\ tables.spans \subseteq tables'.spans
      /\ \/ tables'.spans = tables.spans
         \/ insert.stage = "spans" /\ tables'.spans = tables.spans \cup insert.rows.spans
      /\ \/ tables'.edges = tables.edges
         \/ insert.stage = "edges" /\ tables'.edges = tables.edges \cup insert.rows.edges
  BY <1>2 DEF InsertEnds, SpansInserted, EdgesInserted, InsertFails
<1>4. /\ insert' \in [stage : {"none", "spans", "edges"}, rows : Rows]
      /\ \/ insert' = NoInsert
         \/ insert'.rows = insert.rows /\ insert'.stage = "edges"
  BY <1>2, <1>3, NoRowsType
<1>5. ShapeInv'
  <2>1. tables'.spans \subseteq Spans /\ tables'.edges \subseteq EdgeRows
    BY <1>2, <1>3
  <2> QED BY <1>1, <1>4, <2>1 DEF IInv, ShapeInv
<1>6. PlaceInv'
  BY <1>1, <1>3, <1>4, NoRowsType DEF IInv, PlaceInv
<1>7. Whole(tables'.edges, tables'.spans)
  BY <1>2, <1>3 DEF Whole
<1>8. WholeInv'
  BY <1>1, <1>2, <1>4, <1>7, NoRowsType DEF IInv, WholeInv, Whole
<1>9. Kept' \subseteq Kept
  BY <1>1, <1>3, <1>4, NoRowsType DEF Kept
<1>10. "rows" \notin failures' => "rows" \notin failures /\ Kept' = Kept /\ Edges' = Edges
  <2> SUFFICES ASSUME "rows" \notin failures' PROVE "rows" \notin failures /\ Kept' = Kept /\ Edges' = Edges
    OBVIOUS
  <2>1. CASE SpansInserted
    <3>1. /\ tables'.spans = tables.spans \cup insert.rows.spans /\ tables'.edges = tables.edges
          /\ failures' = failures /\ buffer' = buffer
          /\ \/ insert' = NoInsert /\ insert.rows.edges = {}
             \/ insert'.rows = insert.rows
      BY <1>2, <2>1 DEF SpansInserted
    <3> QED BY <3>1, NoRowsType DEF Kept, Edges
  <2>2. CASE EdgesInserted
    <3>1. /\ tables'.edges = tables.edges \cup insert.rows.edges /\ tables'.spans = tables.spans
          /\ failures' = failures /\ buffer' = buffer /\ insert' = NoInsert
          /\ insert.rows.spans \subseteq tables.spans
      BY <1>2, <2>2 DEF EdgesInserted
    <3> QED BY <3>1, NoRowsType DEF Kept, Edges
  <2>3. CASE InsertFails
    BY <2>3 DEF InsertFails
  <2> QED BY <2>1, <2>2, <2>3 DEF InsertEnds
<1>11. TruthInv'
  <2>1. IsFiniteSet(Kept') /\ \A sp \in Kept' : sp[1] <= traces'
    BY <1>1, <1>9, FS_Subset DEF IInv, TruthInv
  <2>2. ASSUME "rows" \notin failures'
        PROVE  /\ Cardinality(Kept') = st'.generated /\ Edges' = ToRows(Kept').edges /\ plan' \subseteq Kept'
               /\ \A w \in wire' : w.span \in Kept'
               /\ \A g \in groups' : \A w \in g.spans : w.span \in Kept'
    BY <1>1, <1>10, <2>2 DEF IInv, TruthInv
  <2> QED BY <2>1, <2>2 DEF TruthInv
<1>12. ShiftInv'
  BY <1>1 DEF IInv, ShiftInv, Out
<1> QED BY <1>5, <1>6, <1>8, <1>11, <1>12 DEF IInv

\* The memo keeps what it has decided and decides for every service it sees.
LEMMA MemoGrows ==
    ASSUME NEW p \in SUBSET Spans, NEW memo \in OffsetFor(p), ServiceOf[Root] \notin DOMAIN offsets
    PROVE  /\ \A svc \in DOMAIN offsets : svc \in DOMAIN memo /\ memo[svc] = offsets[svc]
           /\ ServiceOf[Root] \notin DOMAIN memo
           /\ "clock_skew" \in Injectors =>
                 \A sp \in p : ServiceOf[sp[2]] \in DOMAIN memo \cup {ServiceOf[Root]}
           /\ "clock_skew" \notin Injectors => memo = offsets
<1>1. CASE "clock_skew" \notin Injectors
  BY <1>1 DEF OffsetFor
<1>2. CASE "clock_skew" \in Injectors
  <2> DEFINE fresh == {ServiceOf[sp[2]] : sp \in p} \ (DOMAIN offsets \cup {ServiceOf[Root]})
             seen == DOMAIN offsets
  <2>1. PICK draw \in [fresh -> Offsets] :
           memo = [svc \in seen \cup fresh |-> IF svc \in seen THEN offsets[svc] ELSE draw[svc]]
    BY <1>2 DEF OffsetFor
  <2>2. DOMAIN memo = seen \cup fresh /\ \A svc \in seen : memo[svc] = offsets[svc]
    BY <2>1
  <2> QED BY <1>2, <2>2
<1> QED BY <1>1, <1>2

\* The dispatched spans are shifted by what the memo says of their service.
LEMMA DispatchStep == ASSUME IInv, Dispatch PROVE IInv'
<1>1. /\ plan' = {} /\ pc = "dispatch" /\ pc' = "loop" /\ insert.stage = "none"
      /\ UNCHANGED <<traces, buffer, insert, tables, failures, wire>>
  BY DEF Dispatch, truth
<1>2. PICK e \in ChainApply(Pristine(plan)), memo \in OffsetFor(plan) :
        /\ offsets' = memo
        /\ groups' = groups \cup
             {[delay |-> e[sp].delay,
               state |-> IF e[sp].delay <= 0 THEN "sending" ELSE "waiting",
               spans |-> {[span |-> q, shift |-> ShiftOf(memo, ServiceOf[q[2]])] :
                            q \in {x \in {y \in plan : ~e[y].drop} : e[x].delay = e[sp].delay}}]
               : sp \in {y \in plan : ~e[y].drop}}
        /\ st' = [st EXCEPT
                    !.dropped = @ + Cardinality(plan \ {y \in plan : ~e[y].drop}),
                    !.delayed = @ + Cardinality({sp \in {y \in plan : ~e[y].drop} : e[sp].delay > 0})]
  BY DEF Dispatch
<1>3. \A g \in groups' : g \in groups \/
        /\ DOMAIN g = {"delay", "state", "spans"}
        /\ \A w \in g.spans : \E q \in plan : w.span = q /\ w.shift = ShiftOf(memo, ServiceOf[q[2]])
  BY <1>2
<1>4. "generated" \in DOMAIN st' /\ st'.generated = st.generated
  BY <1>2 DEF IInv, ShapeInv
<1>5. ServiceOf[Root] \notin DOMAIN offsets /\ plan \subseteq Spans
  BY DEF IInv, ShiftInv, ShapeInv
<1>6. /\ \A svc \in DOMAIN offsets : svc \in DOMAIN memo /\ memo[svc] = offsets[svc]
      /\ ServiceOf[Root] \notin DOMAIN memo
      /\ "clock_skew" \in Injectors =>
            \A sp \in plan : ServiceOf[sp[2]] \in DOMAIN memo \cup {ServiceOf[Root]}
      /\ "clock_skew" \notin Injectors => memo = offsets
  BY <1>5, MemoGrows
<1>7. ShapeInv'
  BY <1>1, <1>3, <1>4 DEF IInv, ShapeInv
<1>8. PlaceInv'
  BY <1>1 DEF IInv, PlaceInv
<1>9. WholeInv'
  BY <1>1 DEF IInv, WholeInv
<1>10. TruthInv'
  <2>1. Kept' = Kept /\ Edges' = Edges
    BY <1>1 DEF Kept, Edges
  <2>2. IsFiniteSet(Kept') /\ \A sp \in Kept' : sp[1] <= traces'
    BY <1>1, <2>1 DEF IInv, TruthInv
  <2>3. ASSUME "rows" \notin failures'
        PROVE  /\ Cardinality(Kept') = st'.generated /\ Edges' = ToRows(Kept').edges /\ plan' \subseteq Kept'
               /\ \A w \in wire' : w.span \in Kept'
               /\ \A g \in groups' : \A w \in g.spans : w.span \in Kept'
    <3>1. /\ Cardinality(Kept) = st.generated /\ Edges = ToRows(Kept).edges /\ plan \subseteq Kept
          /\ \A w \in wire : w.span \in Kept
          /\ \A g \in groups : \A w \in g.spans : w.span \in Kept
      BY <1>1, <2>3 DEF IInv, TruthInv
    <3>2. \A g \in groups' : \A w \in g.spans : w.span \in Kept
      BY <1>3, <3>1
    <3> QED BY <1>1, <1>4, <2>1, <3>1, <3>2
  <2> QED BY <2>2, <2>3 DEF TruthInv
<1>11. ShiftInv'
  <2>1. \A w \in Out' : w \in Out \/ \E q \in plan : w.span = q /\ w.shift = ShiftOf(memo, ServiceOf[q[2]])
    BY <1>1, <1>3 DEF Out
  <2>2. ASSUME NEW w \in Out
        PROVE  /\ w.shift = ShiftOf(memo, ServiceOf[w.span[2]])
               /\ "clock_skew" \in Injectors =>
                     ServiceOf[w.span[2]] \in DOMAIN memo \cup {ServiceOf[Root]}
    <3>1. /\ w.shift = ShiftOf(offsets, ServiceOf[w.span[2]])
          /\ "clock_skew" \in Injectors =>
                ServiceOf[w.span[2]] \in DOMAIN offsets \cup {ServiceOf[Root]}
      BY DEF IInv, ShiftInv
    <3> QED BY <1>5, <1>6, <3>1 DEF ShiftOf
  <2>3. \A w \in Out' : /\ w.shift = ShiftOf(memo, ServiceOf[w.span[2]])
                        /\ "clock_skew" \in Injectors =>
                              ServiceOf[w.span[2]] \in DOMAIN memo \cup {ServiceOf[Root]}
    BY <1>6, <2>1, <2>2
  <2> QED BY <1>1, <1>2, <1>6, <2>3 DEF ShiftInv
<1> QED BY <1>7, <1>8, <1>9, <1>10, <1>11 DEF IInv

\* At the end the memo is what is recorded, unless that fails.
LEMMA RecordStep ==
    ASSUME IInv, RecordClockOffsets \/ RecordIncidents
    PROVE  IInv'
<1>1. /\ UNCHANGED <<traces, plan, buffer, insert, offsets, groups, wire, st>>
      /\ "rows" \in failures' <=> "rows" \in failures
      /\ failures \subseteq failures'
      /\ tables'.spans = tables.spans /\ tables'.edges = tables.edges
      /\ DOMAIN tables' = {"spans", "edges", "offsets", "incidents"}
  BY DEF RecordClockOffsets, RecordIncidents, Records, sending, IInv, ShapeInv
<1>2. /\ pc = "recording" /\ pc' = "incidents" /\ ("offsets" \notin failures' => tables'.offsets = offsets)
      \/ /\ pc = "incidents" /\ pc' = "exited" /\ tables'.offsets = tables.offsets
  BY DEF RecordClockOffsets, RecordIncidents, Records, IInv, ShapeInv
<1>3. ShapeInv'
  BY <1>1 DEF IInv, ShapeInv
<1>4. PlaceInv'
  BY <1>1, <1>2 DEF IInv, PlaceInv
<1>5. WholeInv'
  BY <1>1 DEF IInv, WholeInv
<1>6. TruthInv'
  <2>1. Kept' = Kept /\ Edges' = Edges
    BY <1>1 DEF Kept, Edges
  <2> QED BY <1>1, <2>1 DEF IInv, TruthInv
<1>7. ShiftInv'
  BY <1>1, <1>2 DEF IInv, ShiftInv, Out
<1> QED BY <1>3, <1>4, <1>5, <1>6, <1>7 DEF IInv

\* A sender hands its spans over or gives them up.
LEMMA SendStep ==
    ASSUME IInv, NEW g \in groups, Sender(g)
    PROVE  IInv'
<1>1. /\ UNCHANGED <<pc, traces, plan, buffer, insert, tables, failures, offsets>>
      /\ "generated" \in DOMAIN st' /\ st'.generated = st.generated
  BY DEF Sender, TimerFires, SendSucceeds, SendFails, truth, IInv, ShapeInv
<1>2. /\ \A h \in groups' : h \in groups \/ (DOMAIN h = {"delay", "state", "spans"} /\ h.spans = g.spans)
      /\ \A w \in wire' : w \in wire \/ w \in g.spans
  BY DEF Sender, TimerFires, SendSucceeds, SendFails, IInv, ShapeInv
<1>3. \A w \in Out' : w \in Out
  BY <1>2 DEF Out
<1>4. ShapeInv'
  BY <1>1, <1>2 DEF IInv, ShapeInv
<1>5. PlaceInv' /\ WholeInv'
  BY <1>1 DEF IInv, PlaceInv, WholeInv
<1>6. TruthInv'
  <2>1. Kept' = Kept /\ Edges' = Edges
    BY <1>1 DEF Kept, Edges
  <2>2. "rows" \notin failures' =>
          /\ \A w \in wire' : w.span \in Kept'
          /\ \A h \in groups' : \A w \in h.spans : w.span \in Kept'
    BY <1>1, <1>2, <2>1 DEF IInv, TruthInv
  <2> QED BY <1>1, <2>1, <2>2 DEF IInv, TruthInv
<1>7. ShiftInv'
  BY <1>1, <1>3 DEF IInv, ShiftInv
<1> QED BY <1>4, <1>5, <1>6, <1>7 DEF IInv

\* The inductive invariant of a run of the load generator.
THEOREM Inductive == Spec => []IInv
<1>1. IInv /\ [Next]_vars => IInv'
  <2> SUFFICES ASSUME IInv, [Next]_vars PROVE IInv'
    OBVIOUS
  <2>1. CASE Next
    BY <2>1, QuietStep, TickStep, FlushStep, InsertStep, DispatchStep, RecordStep, SendStep
    DEF Next, InsertEnds, SenderStep
  <2>2. CASE UNCHANGED vars
    BY <2>2 DEF vars, IInv, ShapeInv, PlaceInv, WholeInv, TruthInv, ShiftInv, Kept, Edges, Out
  <2> QED BY <2>1, <2>2
<1> QED BY <1>1, InitInv, PTL DEF Spec

-----------------------------------------------------------------------------
(* The accounts of a run *)

\* Two sets without a common member.
LEMMA CountsAdd ==
    ASSUME NEW A, IsFiniteSet(A), NEW B, IsFiniteSet(B), A \cap B = {}
    PROVE  /\ IsFiniteSet(A \cup B) /\ Cardinality(A) \in Nat /\ Cardinality(B) \in Nat
           /\ Cardinality(A \cup B) = Cardinality(A) + Cardinality(B)
<1>1. Cardinality(A) \in Nat /\ Cardinality(B) \in Nat
  BY FS_CardinalityType
<1>2. /\ IsFiniteSet(A \cup B)
      /\ Cardinality(A \cup B) = Cardinality(A) + Cardinality(B) - Cardinality(A \cap B)
  BY FS_Union
<1>3. Cardinality(A \cap B) = 0
  <2>1. \A S : S = {} => Cardinality(S) = 0
    BY FS_EmptySet
  <2> QED
    BY <2>1, Zenon
<1> QED
  BY <1>1, <1>2, <1>3

\* What the senders carry is added up by Total, each span once.
LEMMA GroupSum ==
    ASSUME GroupInv
    PROVE  InFlight = Cardinality(Carried)
<1> DEFINE Size(g) == Cardinality(g.spans)
           w == [g \in groups |-> Size(g)]
           Level0(i) == [s \in SUBSET groups |->
                           IF s = {} THEN 0 ELSE Cardinality(AnyOf(s).spans) + i[s \ {AnyOf(s)}]]
           it == CHOOSE i : i = Level0(i)
           by == [x \in Carried |-> CHOOSE g \in groups : x \in g.spans]
<1>0. IsFiniteSet(groups) /\ IsFiniteSet(Carried) /\ groups \in SUBSET groups
  BY DEF GroupInv
<1>1. \A g \in groups : Cardinality(g.spans) \in Nat
  <2> TAKE g \in groups
  <2>1. g.spans \subseteq Carried
    BY DEF Carried
  <2> QED
    BY <1>0, <2>1, FS_Subset, FS_CardinalityType
<1>2. w \in [groups -> Int]
  BY <1>1
<1>3. InFlight = it[groups]
  BY DEF InFlight, MapThenSumSet, MapThenFoldSet, AnyOf
<1>4. \A i : Level0(i) = AddLevel(i, groups, w)
  <2> TAKE i
  <2>1. \A s \in SUBSET groups : s # {} => w[AnyOf(s)] = Cardinality(AnyOf(s).spans)
    BY AnyOfIn
  <2> HIDE DEF w
  <2> QED
    BY <2>1 DEF AddLevel
<1> HIDE DEF Level0
<1>5. PICK i \in [SUBSET groups -> Int] : AddsUp(i, groups, w)
  <2> HIDE DEF w
  <2> QED
    BY <1>0, <1>2, SumExists
<1>6. i = Level0(i)
  BY <1>4, <1>5 DEF AddsUp
<1>7. it = Level0(it)
  BY <1>6
<1> HIDE DEF it
<1>8. AddsUp(it, groups, w)
  BY <1>4, <1>7 DEF AddsUp
<1>9. Total(groups, w) = it[groups]
  <2> HIDE DEF w
  <2> QED
    BY <1>0, <1>2, <1>8, TotalOf
<1>10. \A x \in Carried : by[x] \in groups /\ x \in by[x].spans
  <2> TAKE x \in Carried
  <2>1. \E g \in groups : x \in g.spans
    BY DEF Carried
  <2> QED
    BY <2>1
<1>11. by \in [Carried -> groups]
  BY <1>10
<1>12. \A g \in groups : {x \in Carried : by[x] = g} = g.spans
  <2> TAKE g \in groups
  <2>1. g.spans \subseteq Carried
    BY DEF Carried
  <2>2. \A x \in g.spans : by[x] = g
    <3> TAKE x \in g.spans
    <3>1. by[x] \in groups /\ x \in by[x].spans
      BY <1>10, <2>1
    <3> HIDE DEF by
    <3> QED
      BY <3>1 DEF GroupInv
  <2> HIDE DEF by
  <2> QED
    BY <1>10, <2>1, <2>2
<1>13. \A g \in groups : w[g] = Cardinality({x \in Carried : by[x] = g})
  <2> HIDE DEF by
  <2> QED
    BY <1>12
<1> HIDE DEF w, by
<1>14. Total(groups, w) = Cardinality(Carried)
  BY <1>0, <1>2, <1>11, <1>13, TotalCounts
<1> QED
  BY <1>3, <1>9, <1>14

\* An empty batcher is within its bounds.
LEMMA EmptyBatch == buffer' = NoRows => BatchInv'
<1> SUFFICES ASSUME buffer' = NoRows PROVE BatchInv'
  OBVIOUS
<1>1. buffer'.spans = {}
  BY NoRowsType
<1>2. IsFiniteSet(buffer'.spans) /\ Cardinality(buffer'.spans) = 0
  BY <1>1, FS_EmptySet
<1>3. BatcherBounded'
  <2>1. PICK p \in Plans : TRUE
    OBVIOUS
  <2>2. Cardinality(p) \in Nat
    BY FS_Subset, FS_CardinalityType
  <2> QED
    BY <1>2, <2>2 DEF BatcherBounded
<1> QED
  BY <1>2, <1>3 DEF BatchInv

\* The accounts are in order when a run starts.
LEMMA InitAccounts == Init => AccountInv
<1> SUFFICES ASSUME Init PROVE AccountInv
  OBVIOUS
<1>1. /\ plan = {} /\ groups = {} /\ wire = {} /\ Carried = {} /\ Out = {}
      /\ buffer.spans = {} /\ insert.stage = "none" /\ pc = "starting" /\ runDone = FALSE
      /\ DOMAIN offsets = {}
  BY NoRowsType DEF Init, Carried, Out, EmptyMemo
<1>2. /\ IsFiniteSet(plan) /\ IsFiniteSet(groups) /\ IsFiniteSet(Carried) /\ IsFiniteSet(buffer.spans)
      /\ Cardinality(plan) = 0 /\ Cardinality(Carried) = 0 /\ Cardinality(buffer.spans) = 0
  BY <1>1, FS_EmptySet
<1>3. BatcherBounded
  <2>1. PICK p \in Plans : TRUE
    OBVIOUS
  <2>2. Cardinality(p) \in Nat
    BY FS_Subset, FS_CardinalityType
  <2> QED
    BY <1>2, <2>2 DEF BatcherBounded
<1>4. st \in StCounts /\ st.generated = 0 /\ st.dropped = 0 /\ st.sendOK = 0
      /\ st.sendsFailed = 0 /\ warned = 0
  BY DEF Init, StCounts
<1>5. PlanInv
  BY <1>1, <1>2 DEF PlanInv
<1>6. BatchInv
  BY <1>1, <1>2, <1>3 DEF BatchInv
<1>7. GroupInv
  BY <1>1, <1>2 DEF GroupInv
<1>8. MemoInv
  BY <1>1 DEF MemoInv
<1>9. CountInv /\ WarnedInv
  BY <1>2, <1>4 DEF CountInv, WarnedInv
<1> QED
  BY <1>5, <1>6, <1>7, <1>8, <1>9 DEF AccountInv

\* Steps of the generating goroutine that send nothing and count nothing.
LEMMA QuietAccounts ==
    ASSUME IInv, AccountInv,
           \/ Connect \/ RunCtxDone \/ Wait \/ BreakLoop \/ InsertEnds
           \/ RecordClockOffsets \/ RecordIncidents
    PROVE  AccountInv'
<1>1. UNCHANGED <<traces, plan, offsets, groups, wire, st, warned>>
  BY DEF Connect, RunCtxDone, Wait, BreakLoop, InsertEnds, SpansInserted, EdgesInserted, InsertFails,
         RecordClockOffsets, RecordIncidents, Records, sending
<1>2. /\ pc' = pc \/ (pc \notin {"flush", "dispatch"} /\ pc' \notin {"flush", "dispatch"})
      /\ pc' \in {"starting", "loop", "flush", "dispatch", "draining",
                  "recording", "incidents", "exited"}
      /\ runDone' \in BOOLEAN
  BY DEF AccountInv, PlanInv, Connect, RunCtxDone, Wait, BreakLoop, InsertEnds, SpansInserted,
         EdgesInserted, InsertFails, RecordClockOffsets, RecordIncidents, Records
<1>3. \/ buffer' = buffer /\ (insert' = insert \/ insert.stage # "none")
      \/ pc # "flush" /\ buffer' = NoRows
  BY DEF Connect, RunCtxDone, Wait, BreakLoop, InsertEnds, SpansInserted, EdgesInserted, InsertFails,
         RecordClockOffsets, RecordIncidents, Records, Flush, truth
<1>4. PlanInv'
  BY <1>1, <1>2 DEF AccountInv, PlanInv
<1>5. BatchInv'
  <2>1. CASE buffer' = buffer
    BY <1>2, <1>3, <2>1 DEF AccountInv, BatchInv, BatcherBounded
  <2>2. CASE pc # "flush" /\ buffer' = NoRows
    BY <2>2, EmptyBatch
  <2> QED
    BY <1>3, <2>1, <2>2
<1>6. GroupInv'
  BY <1>1 DEF AccountInv, GroupInv, Carried, Out
<1>7. MemoInv'
  BY <1>1 DEF AccountInv, MemoInv
<1>8. CountInv' /\ WarnedInv'
  BY <1>1 DEF AccountInv, CountInv, WarnedInv, Carried
<1> QED
  BY <1>4, <1>5, <1>6, <1>7, <1>8 DEF AccountInv

\* A flush empties the batcher, and is only left out while it is not full.
LEMMA FlushAccounts == ASSUME IInv, AccountInv, FlushIfDue PROVE AccountInv'
<1>1. /\ UNCHANGED <<runDone, traces, plan, offsets, groups, wire, st, warned>>
      /\ pc = "flush" /\ pc' = "dispatch"
      /\ \/ buffer' = NoRows
         \/ ~Full /\ buffer' = buffer /\ insert' = insert
  BY DEF FlushIfDue, Flush, sending
<1>2. PlanInv'
  BY <1>1 DEF AccountInv, PlanInv
<1>3. BatchInv'
  <2>1. CASE buffer' = NoRows
    BY <1>1, <2>1, EmptyBatch
  <2>2. CASE ~Full /\ buffer' = buffer /\ insert' = insert
    <3>1. Cardinality(buffer.spans) \in Nat
      BY FS_CardinalityType DEF AccountInv, BatchInv
    <3>2. Cardinality(buffer.spans) < MaxRows
      BY <2>2, <3>1 DEF Full
    <3> QED
      BY <1>1, <2>2, <3>2 DEF AccountInv, BatchInv, BatcherBounded
  <2> QED
    BY <1>1, <2>1, <2>2
<1>4. GroupInv'
  BY <1>1 DEF AccountInv, GroupInv, Carried, Out
<1>5. MemoInv'
  BY <1>1 DEF AccountInv, MemoInv
<1>6. CountInv' /\ WarnedInv'
  BY <1>1 DEF AccountInv, CountInv, WarnedInv, Carried
<1> QED
  BY <1>2, <1>3, <1>4, <1>5, <1>6 DEF AccountInv

\* A new plan is counted, and its spans are with no sender.
LEMMA TickAccounts == ASSUME IInv, AccountInv, Tick PROVE AccountInv'
<1>1. PICK sites \in Plans :
         /\ plan' = {traces + 1} \X sites
         /\ buffer' = [spans |-> buffer.spans \cup ToRows({traces + 1} \X sites).spans,
                       edges |-> buffer.edges \cup ToRows({traces + 1} \X sites).edges]
         /\ st' = [st EXCEPT !.generated = @ + Cardinality({traces + 1} \X sites)]
  BY DEF Tick
<1>2. /\ traces' = traces + 1 /\ traces < MaxTraces /\ pc = "loop" /\ pc' = "flush"
      /\ UNCHANGED <<runDone, insert, offsets, groups, wire, warned>>
  BY DEF Tick
<1> DEFINE p == {traces + 1} \X sites
<1>3. traces \in Nat
  BY DEF IInv, ShapeInv
<1>4. IsFiniteSet(sites) /\ IsFiniteSet(p) /\ Cardinality(p) = Cardinality(sites) /\ Cardinality(sites) \in Nat
  <2>1. IsFiniteSet(sites) /\ IsFiniteSet({traces + 1}) /\ Cardinality({traces + 1}) = 1
    BY FS_Subset, FS_Singleton
  <2>2. Cardinality(sites) \in Nat
    BY <2>1, FS_CardinalityType
  <2>3. IsFiniteSet(p) /\ Cardinality(p) = 1 * Cardinality(sites)
    BY <2>1, FS_Product
  <2> QED
    BY <2>1, <2>2, <2>3
<1>5. p # {} /\ \A sp \in p : sp[1] = traces + 1
  <2>1. Root \in sites
    OBVIOUS
  <2>2. <<traces + 1, Root>> \in p
    BY <2>1
  <2> QED
    BY <2>2
<1>6. plan = {}
  BY <1>2 DEF AccountInv, PlanInv
<1>7. plan' = p /\ buffer'.spans = buffer.spans \cup p
  BY <1>1, RowsOfPlan
<1>8. st' = [st EXCEPT !.generated = @ + Cardinality(p)]
  BY <1>1
<1> HIDE DEF p
<1>9. PlanInv'
  BY <1>2, <1>4, <1>5, <1>7 DEF AccountInv, PlanInv
<1>10. BatchInv'
  <2>1. IsFiniteSet(buffer.spans) /\ Cardinality(buffer.spans) < MaxRows
    BY <1>2 DEF AccountInv, BatchInv
  <2>2. /\ IsFiniteSet(buffer.spans \cup p) /\ Cardinality(buffer.spans) \in Nat
        /\ Cardinality(buffer.spans \cup p) <= Cardinality(buffer.spans) + Cardinality(p)
    <3>1. /\ IsFiniteSet(buffer.spans \cup p)
          /\ Cardinality(buffer.spans \cup p) =
               Cardinality(buffer.spans) + Cardinality(p) - Cardinality(buffer.spans \cap p)
      BY <1>4, <2>1, FS_Union
    <3>2. IsFiniteSet(buffer.spans \cap p)
      BY <1>4, FS_Subset
    <3>3. /\ Cardinality(buffer.spans) \in Nat /\ Cardinality(p) \in Nat
          /\ Cardinality(buffer.spans \cap p) \in Nat
      BY <1>4, <2>1, <3>2, FS_CardinalityType
    <3> QED
      BY <3>1, <3>3
  <2>3. BatcherBounded'
    <3>1. Cardinality(buffer'.spans) < MaxRows + Cardinality(sites)
      <4>1. Cardinality(buffer'.spans) = Cardinality(buffer.spans \cup p)
        BY <1>7
      <4>2. Cardinality(buffer.spans \cup p) \in Nat
        BY <2>2, FS_CardinalityType
      <4> QED
        BY <1>4, <2>1, <2>2, <4>1, <4>2
    <3> QED
      BY <3>1 DEF BatcherBounded
  <2>4. insert.stage = "none"
    BY <1>2, NoRowsType DEF IInv, PlaceInv
  <2> QED
    BY <1>2, <1>7, <2>2, <2>3, <2>4 DEF BatchInv
<1>11. GroupInv'
  <2>1. \A w \in Carried : w.span \in Spans /\ w.span[1] <= traces
    BY DEF AccountInv, GroupInv, Carried, Out
  <2>2. \A w \in Carried : w.span[1] <= traces + 1 /\ w.span \notin p
    BY <1>3, <1>5, <2>1, SpanParts
  <2>3. Carried' = Carried /\ Out' = Out
    BY <1>2 DEF Carried, Out
  <2> QED
    BY <1>2, <1>7, <2>2, <2>3 DEF AccountInv, GroupInv
<1>12. MemoInv'
  BY <1>2 DEF AccountInv, MemoInv
<1>13. CountInv'
  <2>1. Carried' = Carried /\ Cardinality(plan) = 0
    BY <1>2, <1>6, FS_EmptySet DEF Carried
  <2>2. Cardinality(Carried) \in Nat
    BY FS_CardinalityType DEF AccountInv, GroupInv
  <2>3. /\ st' \in StCounts /\ st'.generated = st.generated + Cardinality(p)
        /\ st'.dropped = st.dropped /\ st'.sendOK = st.sendOK /\ warned' = warned
        /\ st.generated \in Nat /\ st.dropped \in Nat /\ st.sendOK \in Nat /\ warned \in Nat
    BY <1>2, <1>4, <1>8 DEF AccountInv, CountInv, StCounts
  <2>4. st.generated = Cardinality(plan) + st.dropped + Cardinality(Carried) + st.sendOK + warned
    BY DEF AccountInv, CountInv
  <2>5. Cardinality(plan') = Cardinality(p) /\ Cardinality(p) \in Nat
    BY <1>4, <1>7
  <2>6. st'.generated = Cardinality(plan') + st'.dropped + Cardinality(Carried)
                          + st'.sendOK + warned'
    BY <2>1, <2>2, <2>3, <2>4, <2>5
  <2> QED
    BY <2>1, <2>3, <2>6 DEF CountInv
<1>14. WarnedInv'
  <2>1. st'.sendsFailed = st.sendsFailed
    BY <1>8 DEF AccountInv, CountInv, StCounts
  <2> QED
    BY <1>2, <2>1 DEF AccountInv, WarnedInv
<1> QED
  BY <1>9, <1>10, <1>11, <1>12, <1>13, <1>14 DEF AccountInv

\* The memo gives every service it knows one of the offsets.
LEMMA MemoTypes ==
    ASSUME MemoInv, NEW p \in SUBSET Spans, NEW memo \in OffsetFor(p)
    PROVE  DOMAIN memo \subseteq Services /\ \A svc \in DOMAIN memo : memo[svc] \in Offsets
<1>1. CASE "clock_skew" \notin Injectors
  BY <1>1 DEF OffsetFor, MemoInv
<1>2. CASE "clock_skew" \in Injectors
  <2> DEFINE fresh == {ServiceOf[sp[2]] : sp \in p} \ (DOMAIN offsets \cup {ServiceOf[Root]})
             seen == DOMAIN offsets
  <2>1. PICK draw \in [fresh -> Offsets] :
           memo = [svc \in seen \cup fresh |-> IF svc \in seen THEN offsets[svc] ELSE draw[svc]]
    BY <1>2 DEF OffsetFor
  <2>2. fresh \subseteq Services
    BY SpanParts DEF Services
  <2> HIDE DEF fresh
  <2>3. DOMAIN memo = seen \cup fresh
        /\ \A svc \in seen \cup fresh : memo[svc] = IF svc \in seen THEN offsets[svc] ELSE draw[svc]
    BY <2>1
  <2>4. \A svc \in fresh : draw[svc] \in Offsets
    OBVIOUS
  <2> QED
    BY <2>2, <2>3, <2>4 DEF MemoInv
<1> QED
  BY <1>1, <1>2

\* The dispatched spans are with one sender each, the dropped ones with none.
LEMMA DispatchAccounts == ASSUME IInv, AccountInv, Dispatch PROVE AccountInv'
<1>1. /\ plan' = {} /\ pc = "dispatch" /\ pc' = "loop" /\ insert.stage = "none"
      /\ UNCHANGED <<runDone, traces, buffer, insert, wire, warned>>
  BY DEF Dispatch, truth
<1>2. PICK e \in ChainApply(Pristine(plan)), memo \in OffsetFor(plan) :
        /\ offsets' = memo
        /\ groups' = groups \cup
             {[delay |-> e[sp].delay,
               state |-> IF e[sp].delay <= 0 THEN "sending" ELSE "waiting",
               spans |-> {[span |-> q, shift |-> ShiftOf(memo, ServiceOf[q[2]])] :
                            q \in {x \in {y \in plan : ~e[y].drop} : e[x].delay = e[sp].delay}}]
               : sp \in {y \in plan : ~e[y].drop}}
        /\ st' = [st EXCEPT
                    !.dropped = @ + Cardinality(plan \ {y \in plan : ~e[y].drop}),
                    !.delayed = @ + Cardinality({sp \in {y \in plan : ~e[y].drop} : e[sp].delay > 0})]
  BY DEF Dispatch
<1> DEFINE sent == {y \in plan : ~e[y].drop}
           Shifted(q) == [span |-> q, shift |-> ShiftOf(memo, ServiceOf[q[2]])]
           Group(sp) == [delay |-> e[sp].delay,
                         state |-> IF e[sp].delay <= 0 THEN "sending" ELSE "waiting",
                         spans |-> {Shifted(q) : q \in {x \in sent : e[x].delay = e[sp].delay}}]
           new == {Group(sp) : sp \in sent}
           sends == {Shifted(q) : q \in sent}
<1>3. groups' = groups \cup new
  BY <1>2
<1>4. /\ IsFiniteSet(plan) /\ IsFiniteSet(sent) /\ IsFiniteSet(plan \ sent)
      /\ IsFiniteSet({sp \in sent : e[sp].delay > 0})
  BY FS_Subset DEF AccountInv, PlanInv
<1>5. IsFiniteSet(new) /\ IsFiniteSet(sends)
  <2> DEFINE toGroup == [sp \in sent |-> Group(sp)]
             toSend == [q \in sent |-> Shifted(q)]
  <2> HIDE DEF sent, Group, Shifted
  <2>1. toGroup \in [sent -> new] /\ \A g \in new : \E sp \in sent : toGroup[sp] = g
    OBVIOUS
  <2>2. toSend \in [sent -> sends] /\ \A w \in sends : \E q \in sent : toSend[q] = w
    OBVIOUS
  <2> HIDE DEF toGroup, toSend, new, sends
  <2>3. toGroup \in Surjection(sent, new) /\ toSend \in Surjection(sent, sends)
    BY <2>1, <2>2, Fun_IsSurj
  <2> QED
    BY <1>4, <2>3, FS_Surjection
<1>6. \A sp \in sent : \A w \in Group(sp).spans : \E q \in sent :
          w = Shifted(q) /\ e[q].delay = e[sp].delay
  OBVIOUS
<1>7. \A q \in sent : Shifted(q).span = q /\ Shifted(q) \in Group(q).spans
  OBVIOUS
<1>8. \A sp, r \in sent : e[sp].delay = e[r].delay => Group(sp) = Group(r)
  OBVIOUS
<1>9. \A sp \in sent : Group(sp).state \in {"waiting", "sending"}
  OBVIOUS
<1>10. sent \subseteq plan
  OBVIOUS
<1>11. /\ offsets' = memo
       /\ st' = [st EXCEPT !.dropped = @ + Cardinality(plan \ sent),
                           !.delayed = @ + Cardinality({sp \in sent : e[sp].delay > 0})]
  BY <1>2
<1>12. \A w \in sends : \E q \in sent : w = Shifted(q)
  OBVIOUS
<1>13. \A q \in sent : Shifted(q) \in sends
  OBVIOUS
<1> HIDE DEF Shifted, Group, sent
<1>14. UNION {g.spans : g \in new} = sends
  <2>1. ASSUME NEW w, w \in UNION {g.spans : g \in new} PROVE w \in sends
    <3>1. PICK sp \in sent : w \in Group(sp).spans
      BY <2>1
    <3>2. PICK q \in sent : w = Shifted(q)
      BY <3>1, <1>6
    <3> QED
      BY <3>2, <1>13
  <2>2. ASSUME NEW w \in sends PROVE w \in UNION {g.spans : g \in new}
    <3>1. PICK q \in sent : w = Shifted(q)
      BY <1>12
    <3>2. w \in Group(q).spans /\ Group(q) \in new
      BY <3>1, <1>7
    <3> QED
      BY <3>2
  <2> QED
    BY <2>1, <2>2
<1>15. Carried' = Carried \cup sends
  BY <1>3, <1>14 DEF Carried
<1>16. \A w \in sends : w.span \in plan
  BY <1>7, <1>10, <1>12
<1>17. Carried \cap sends = {}
  BY <1>16 DEF AccountInv, GroupInv
<1>18. Cardinality(sends) = Cardinality(sent)
  <2> DEFINE f == [q \in sent |-> Shifted(q)]
  <2>1. f \in [sent -> sends]
    BY <1>13
  <2>2. \A a, b \in sent : f[a] = f[b] => a = b
    BY <1>7
  <2>3. \A w \in sends : \E q \in sent : f[q] = w
    BY <1>12
  <2> HIDE DEF f, sends
  <2>4. f \in Bijection(sent, sends)
    BY <2>1, <2>2, <2>3, Fun_IsBij
  <2>5. ExistsBijection(sent, sends)
    BY <2>4 DEF ExistsBijection
  <2> QED
    BY <1>4, <2>5, FS_Bijection
<1> HIDE DEF sends
<1>19. PlanInv'
  BY <1>1, FS_EmptySet DEF AccountInv, PlanInv
<1>20. BatchInv'
  BY <1>1 DEF AccountInv, BatchInv, BatcherBounded
<1>21. GroupInv'
  <2>1. IsFiniteSet(groups') /\ IsFiniteSet(Carried')
    <3>1. IsFiniteSet(groups) /\ IsFiniteSet(Carried)
      BY DEF AccountInv, GroupInv
    <3> HIDE DEF new
    <3>2. IsFiniteSet(groups \cup new) /\ IsFiniteSet(Carried \cup sends)
      BY <1>5, <3>1, FS_Union
    <3> QED
      BY <1>3, <1>15, <3>2
  <2>2. \A g \in new : \E sp \in sent : g = Group(sp)
    OBVIOUS
  <2>3. \A g \in new : g.state \in {"waiting", "sending"} /\ g.spans # {} /\ g.spans \subseteq sends
    <3> TAKE g \in new
    <3>1. PICK sp \in sent : g = Group(sp)
      BY <2>2
    <3> QED
      BY <3>1, <1>6, <1>7, <1>9, <1>14
  <2>4. \A g \in groups : g.spans \subseteq Carried
    BY DEF Carried
  <2>5. \A g, h \in new : g # h => g.spans \cap h.spans = {}
    <3> SUFFICES ASSUME NEW g \in new, NEW h \in new, NEW w \in g.spans, w \in h.spans
                 PROVE  g = h
      OBVIOUS
    <3>1. PICK sp \in sent, r \in sent : g = Group(sp) /\ h = Group(r)
      BY <2>2
    <3>2. PICK q \in sent : w = Shifted(q) /\ e[q].delay = e[sp].delay
      BY <3>1, <1>6
    <3>3. PICK u \in sent : w = Shifted(u) /\ e[u].delay = e[r].delay
      BY <3>1, <1>6
    <3>4. q = u
      BY <3>2, <3>3, <1>7
    <3> QED
      BY <3>1, <3>2, <3>3, <3>4, <1>8
  <2>6. \A g, h \in groups' : g # h => g.spans \cap h.spans = {}
    <3>1. \A g \in groups : \A h \in new : g.spans \cap h.spans = {}
      BY <1>17, <2>3, <2>4
    <3>2. \A g, h \in groups : g # h => g.spans \cap h.spans = {}
      BY DEF AccountInv, GroupInv
    <3> HIDE DEF new
    <3> QED
      BY <1>3, <2>5, <3>1, <3>2
  <2>7. \A g \in groups' : g.state \in {"waiting", "sending"} /\ g.spans # {}
    BY <1>3, <2>3 DEF AccountInv, GroupInv
  <2>8. \A w \in Carried' : w.span[1] <= traces' /\ w.span \notin plan'
    <3>1. \A sp \in plan : sp[1] = traces
      BY DEF AccountInv, PlanInv
    <3>2. traces \in Nat
      BY DEF IInv, ShapeInv
    <3>3. \A w \in sends : w.span[1] <= traces
      BY <1>16, <3>1, <3>2
    <3>4. \A w \in Carried : w.span[1] <= traces
      BY DEF AccountInv, GroupInv
    <3> QED
      BY <1>1, <1>15, <3>3, <3>4
  <2>9. \A w \in Out' : w.span \in Spans
    <3>1. Out' = Out \cup sends
      BY <1>1, <1>15 DEF Out, Carried
    <3>2. plan \subseteq Spans
      BY DEF IInv, ShapeInv
    <3> QED
      BY <1>16, <3>1, <3>2 DEF AccountInv, GroupInv
  <2> QED
    BY <2>1, <2>6, <2>7, <2>8, <2>9 DEF GroupInv
<1>22. MemoInv'
  <2>1. plan \in SUBSET Spans
    BY DEF IInv, ShapeInv
  <2>2. DOMAIN memo \subseteq Services /\ \A svc \in DOMAIN memo : memo[svc] \in Offsets
    BY <2>1, MemoTypes DEF AccountInv
  <2> QED
    BY <1>11, <2>2 DEF MemoInv
<1>23. CountInv' /\ WarnedInv'
  <2> DEFINE late == {sp \in sent : e[sp].delay > 0}
  <2>1. /\ Cardinality(plan) = Cardinality(sent) + Cardinality(plan \ sent)
        /\ Cardinality(sent) \in Nat /\ Cardinality(plan \ sent) \in Nat
    <3>1. sent \cap (plan \ sent) = {} /\ sent \cup (plan \ sent) = plan
      BY <1>10
    <3>2. Cardinality(sent \cup (plan \ sent)) = Cardinality(sent) + Cardinality(plan \ sent)
      BY <1>4, <3>1, CountsAdd
    <3> QED
      BY <1>4, <3>1, <3>2, FS_CardinalityType
  <2>2. /\ Cardinality(Carried') = Cardinality(Carried) + Cardinality(sent)
        /\ Cardinality(Carried) \in Nat
    <3>1. IsFiniteSet(Carried)
      BY DEF AccountInv, GroupInv
    <3>2. /\ Cardinality(Carried \cup sends) = Cardinality(Carried) + Cardinality(sends)
          /\ Cardinality(Carried) \in Nat
      BY <1>5, <1>17, <3>1, CountsAdd
    <3>3. Cardinality(Carried') = Cardinality(Carried \cup sends)
      BY <1>15
    <3> QED
      BY <1>18, <3>2, <3>3
  <2>3. Cardinality(late) \in Nat
    BY <1>4, FS_CardinalityType
  <2>4. st' = [st EXCEPT !.dropped = @ + Cardinality(plan \ sent), !.delayed = @ + Cardinality(late)]
    BY <1>11
  <2> HIDE DEF late
  <2>5. /\ st' \in StCounts /\ st'.generated = st.generated
        /\ st'.dropped = st.dropped + Cardinality(plan \ sent)
        /\ st'.sendOK = st.sendOK /\ st'.sendsFailed = st.sendsFailed
        /\ st.generated \in Nat /\ st.dropped \in Nat /\ st.sendOK \in Nat
    <3> DEFINE d == st.dropped + Cardinality(plan \ sent)
               l == st.delayed + Cardinality(late)
    <3>1. st \in StCounts
      BY DEF AccountInv, CountInv
    <3>2. d \in Nat /\ l \in Nat
      BY <2>1, <2>3, <3>1 DEF StCounts
    <3>3. st' = [st EXCEPT !.dropped = d, !.delayed = l]
      BY <2>4
    <3> HIDE DEF l
    <3>4. st'.dropped = d
      BY <3>1, <3>3 DEF StCounts
    <3> HIDE DEF d
    <3>5. /\ st' \in StCounts /\ st'.generated = st.generated /\ st'.sendOK = st.sendOK
          /\ st'.sendsFailed = st.sendsFailed
      BY <3>1, <3>2, <3>3 DEF StCounts
    <3> QED
      BY <3>1, <3>4, <3>5 DEF StCounts, d
  <2>6. st.generated = Cardinality(plan) + st.dropped + Cardinality(Carried) + st.sendOK + warned
    BY DEF AccountInv, CountInv
  <2>7. Cardinality(plan') = 0 /\ warned \in Nat
    BY <1>1, FS_EmptySet DEF AccountInv, CountInv
  <2>8. st'.generated = Cardinality(plan') + st'.dropped + Cardinality(Carried')
                          + st'.sendOK + warned'
    BY <1>1, <2>1, <2>2, <2>5, <2>6, <2>7
  <2>9. WarnedInv'
    BY <1>1, <2>5 DEF AccountInv, WarnedInv
  <2> QED
    BY <1>1, <2>5, <2>7, <2>8, <2>9 DEF CountInv
<1> QED
  BY <1>19, <1>20, <1>21, <1>22, <1>23 DEF AccountInv

\* A timer that fires leaves a sender's spans with it.
LEMMA TimerAccounts ==
    ASSUME IInv, AccountInv, NEW g \in groups, TimerFires(g)
    PROVE  GroupInv' /\ Carried' = Carried /\ st' = st /\ warned' = warned
<1> DEFINE h == [g EXCEPT !.state = "sending"]
<1>1. groups' = (groups \ {g}) \cup {h} /\ UNCHANGED <<traces, plan, wire, st, warned>>
  BY DEF TimerFires
<1>2. h.spans = g.spans /\ h.state = "sending"
  BY DEF IInv, ShapeInv
<1> HIDE DEF h
<1>3. Carried' = Carried /\ Out' = Out
  <2>1. {x.spans : x \in groups'} = {x.spans : x \in groups}
    BY <1>1, <1>2
  <2> QED
    BY <1>1, <2>1 DEF Carried, Out
<1>4. IsFiniteSet(groups')
  <2>1. IsFiniteSet(groups \ {g})
    BY FS_RemoveElement DEF AccountInv, GroupInv
  <2>2. IsFiniteSet((groups \ {g}) \cup {h})
    BY <2>1, FS_AddElement
  <2> QED
    BY <1>1, <2>2
<1>5. \A x, y \in groups' : x # y => x.spans \cap y.spans = {}
  <2>1. \A x, y \in groups : x # y => x.spans \cap y.spans = {}
    BY DEF AccountInv, GroupInv
  <2> QED
    BY <1>1, <1>2, <2>1
<1>6. \A x \in groups' : x.state \in {"waiting", "sending"} /\ x.spans # {}
  BY <1>1, <1>2 DEF AccountInv, GroupInv
<1> QED
  BY <1>1, <1>3, <1>4, <1>5, <1>6 DEF AccountInv, GroupInv

\* A send that ends takes its spans, and no others, off the senders.
LEMMA SendAccounts ==
    ASSUME IInv, AccountInv, NEW g \in groups, groups' = groups \ {g},
           wire' \in {wire, wire \cup g.spans}, UNCHANGED <<traces, plan>>
    PROVE  /\ GroupInv' /\ Cardinality(g.spans) \in Nat /\ Cardinality(Carried') \in Nat
           /\ Cardinality(Carried) = Cardinality(Carried') + Cardinality(g.spans)
<1>1. \A x, y \in groups : x # y => x.spans \cap y.spans = {}
  BY DEF AccountInv, GroupInv
<1>2. Carried' \cap g.spans = {} /\ Carried' \cup g.spans = Carried /\ Carried' \subseteq Carried
  BY <1>1 DEF Carried
<1>3. IsFiniteSet(Carried) /\ IsFiniteSet(groups)
  BY DEF AccountInv, GroupInv
<1>4. IsFiniteSet(Carried') /\ IsFiniteSet(g.spans)
  BY <1>2, <1>3, FS_Subset
<1>5. /\ Cardinality(Carried' \cup g.spans) = Cardinality(Carried') + Cardinality(g.spans)
      /\ Cardinality(g.spans) \in Nat /\ Cardinality(Carried') \in Nat
  BY <1>2, <1>4, CountsAdd
<1>6. Cardinality(Carried) = Cardinality(Carried') + Cardinality(g.spans)
  BY <1>2, <1>5
<1>7. IsFiniteSet(groups')
  BY <1>3, FS_Subset
<1>8. Out' \subseteq Out
  BY DEF Out
<1>9. GroupInv'
  BY <1>1, <1>2, <1>4, <1>7, <1>8 DEF AccountInv, GroupInv
<1> QED
  BY <1>5, <1>6, <1>9

\* A sender's spans are with it until they are counted as sent or failed.
LEMMA SenderAccounts ==
    ASSUME IInv, AccountInv, NEW g \in groups, Sender(g)
    PROVE  AccountInv'
<1>1. UNCHANGED <<pc, runDone, traces, plan, buffer, insert, offsets>>
  BY DEF Sender, TimerFires, SendSucceeds, SendFails, truth
<1>2. PlanInv' /\ BatchInv' /\ MemoInv'
  BY <1>1 DEF AccountInv, PlanInv, BatchInv, BatcherBounded, MemoInv
<1>3. /\ st \in StCounts
      /\ st.generated = Cardinality(plan) + st.dropped + Cardinality(Carried)
                          + st.sendOK + warned
      /\ warned \in Nat /\ st.sendsFailed <= warned /\ (st.sendsFailed = 0 => warned = 0)
      /\ Cardinality(plan) \in Nat /\ Cardinality(plan') = Cardinality(plan)
  BY <1>1, FS_CardinalityType DEF AccountInv, CountInv, WarnedInv, PlanInv
<1>4. CASE TimerFires(g)
  <2>1. GroupInv' /\ Carried' = Carried /\ st' = st /\ warned' = warned
    BY <1>4, TimerAccounts
  <2>2. CountInv' /\ WarnedInv'
    BY <1>1, <1>3, <2>1 DEF CountInv, WarnedInv
  <2> QED
    BY <1>2, <2>1, <2>2 DEF AccountInv
<1>5. CASE SendSucceeds(g)
  <2>1. groups' = groups \ {g} /\ wire' = wire \cup g.spans /\ warned' = warned
        /\ st' = [st EXCEPT !.sendOK = @ + Cardinality(g.spans)]
    BY <1>5 DEF SendSucceeds
  <2>2. /\ GroupInv' /\ Cardinality(g.spans) \in Nat /\ Cardinality(Carried') \in Nat
        /\ Cardinality(Carried) = Cardinality(Carried') + Cardinality(g.spans)
    BY <1>1, <2>1, SendAccounts
  <2>3. /\ st' \in StCounts /\ st'.generated = st.generated /\ st'.dropped = st.dropped
        /\ st'.sendOK = st.sendOK + Cardinality(g.spans) /\ st'.sendsFailed = st.sendsFailed
        /\ st.generated \in Nat /\ st.dropped \in Nat /\ st.sendOK \in Nat /\ warned \in Nat
    BY <1>3, <2>1, <2>2 DEF StCounts
  <2>4. st'.generated = Cardinality(plan') + st'.dropped + Cardinality(Carried')
                          + st'.sendOK + warned'
    BY <1>3, <2>1, <2>2, <2>3
  <2>5. WarnedInv'
    BY <1>3, <2>1, <2>3 DEF WarnedInv
  <2> QED
    BY <1>2, <1>3, <2>1, <2>2, <2>3, <2>4, <2>5 DEF AccountInv, CountInv
<1>6. CASE SendFails(g)
  <2>1. groups' = groups \ {g} /\ wire' \in {wire, wire \cup g.spans}
        /\ st' = [st EXCEPT !.sendsFailed = @ + 1]
        /\ warned' = warned + Cardinality(g.spans)
    BY <1>6 DEF SendFails
  <2>2. /\ GroupInv' /\ Cardinality(g.spans) \in Nat /\ Cardinality(Carried') \in Nat
        /\ Cardinality(Carried) = Cardinality(Carried') + Cardinality(g.spans)
    BY <1>1, <2>1, SendAccounts
  <2>3. /\ st' \in StCounts /\ st'.generated = st.generated /\ st'.dropped = st.dropped
        /\ st'.sendOK = st.sendOK /\ st'.sendsFailed = st.sendsFailed + 1
        /\ st.generated \in Nat /\ st.dropped \in Nat /\ st.sendOK \in Nat /\ st.sendsFailed \in Nat
    BY <1>3, <2>1 DEF StCounts
  <2>4. st'.generated = Cardinality(plan') + st'.dropped + Cardinality(Carried')
                          + st'.sendOK + warned'
    BY <1>3, <2>1, <2>2, <2>3
  <2>5. Cardinality(g.spans) > 0
    <3>1. g.spans # {} /\ IsFiniteSet(g.spans)
      <4>1. g.spans \subseteq Carried
        BY DEF Carried
      <4> QED
        BY <4>1, FS_Subset DEF AccountInv, GroupInv
    <3> QED
      BY <2>2, <3>1, FS_EmptySet
  <2>6. /\ warned' \in Nat /\ st'.sendsFailed <= warned'
        /\ (st'.sendsFailed = 0 => warned' = 0)
    BY <1>3, <2>1, <2>2, <2>3, <2>5
  <2> QED
    BY <1>2, <2>2, <2>3, <2>4, <2>6 DEF AccountInv, CountInv, WarnedInv
<1> QED
  BY <1>4, <1>5, <1>6 DEF Sender

\* The accounts are in order in every state of a run.
LEMMA AccountsAlways == Spec => [](IInv /\ AccountInv)
<1>1. IInv /\ AccountInv /\ [Next]_vars => AccountInv'
  <2> SUFFICES ASSUME IInv, AccountInv, [Next]_vars PROVE AccountInv'
    OBVIOUS
  <2>1. CASE Next
    BY <2>1, QuietAccounts, TickAccounts, FlushAccounts, DispatchAccounts, SenderAccounts
    DEF Next, InsertEnds, SenderStep
  <2>2. CASE UNCHANGED vars
    BY <2>2 DEF vars, AccountInv, PlanInv, BatchInv, BatcherBounded, GroupInv, MemoInv, CountInv,
                WarnedInv, Carried, Out
  <2> QED
    BY <2>1, <2>2
<1> QED
  BY <1>1, InitAccounts, Inductive, PTL DEF Spec

-----------------------------------------------------------------------------
(* Theorems *)

\* Every generated span is still planned, dropped, with one sender, sent, or in
\* a send that failed: the counters and the warnings of a run together add up
\* at every moment, the counters alone until a send fails.
THEOREM SpansAlwaysAccounted == Spec => []SpansAccounted
<1>1. IInv /\ AccountInv => SpansAccounted
  <2> SUFFICES ASSUME IInv, AccountInv PROVE SpansAccounted
    OBVIOUS
  <2>1. InFlight = Cardinality(Carried)
    BY GroupSum DEF AccountInv
  <2>2. st.generated = Cardinality(plan) + st.dropped + InFlight + st.sendOK + warned
    BY <2>1 DEF AccountInv, CountInv
  <2>3. \A e \in EdgeRows : e = Edge(e.of)
    BY EdgeParts DEF EdgeRows
  <2>4. /\ buffer.spans \subseteq Spans /\ buffer.edges \subseteq EdgeRows
        /\ insert.stage \in {"none", "spans", "edges"} /\ insert.rows.spans \subseteq Spans
        /\ tables.spans \subseteq Spans /\ tables.edges \subseteq EdgeRows
        /\ traces \in 0 .. MaxTraces /\ plan \subseteq Spans
    BY DEF IInv, ShapeInv, Rows
  <2>5. /\ \A e \in buffer.edges : e.of \in buffer.spans
        /\ \A e \in tables.edges : e.of \in tables.spans
    BY DEF IInv, WholeInv, Whole
  <2>6. Range(offsets) \subseteq Offsets
    BY DEF AccountInv, MemoInv, Range
  <2>7. \A n \in Range(st) : n \in Nat
    BY DEF AccountInv, CountInv, StCounts, Range
  <2>8. \A w \in wire : w.span \in Spans /\ w.shift \in Offsets
    <3> TAKE w \in wire
    <3>1. w \in Out
      BY DEF Out
    <3>2. w.span \in Spans /\ w.shift = ShiftOf(offsets, ServiceOf[w.span[2]])
      BY <3>1 DEF AccountInv, GroupInv, IInv, ShiftInv
    <3> QED
      BY <3>2 DEF AccountInv, MemoInv, ShiftOf, Offsets
  <2>9. insert.stage # "none" => pc \in {"dispatch", "draining"}
    BY NoRowsType DEF IInv, PlaceInv
  <2>10. TypeOK
    BY <2>3, <2>4, <2>5, <2>6, <2>7, <2>8, <2>9
    DEF TypeOK, AccountInv, PlanInv, BatchInv, GroupInv, MemoInv, CountInv
  <2> QED
    BY <2>2, <2>10 DEF SpansAccounted, AccountInv, WarnedInv
<1> QED
  BY <1>1, AccountsAlways, PTL

\* Until an insert fails ground truth has every generated span, dropped or
\* sent, and at the end of a clean run the edges of all their calls; and no
\* edge is ever stored without its spans, whatever fails.
THEOREM TruthAlwaysComplete == Spec => []TruthIsComplete
<1>1. IInv => TruthIsComplete
  <2> SUFFICES ASSUME IInv PROVE TruthCoversRun /\ EdgesHaveSpans
    BY DEF TruthIsComplete
  <2>1. TruthCoversRun
    BY DEF IInv, TruthInv, TruthCoversRun, Kept
  <2>2. \A e \in tables.edges : {e.of, <<e.of[1], CallerOf[e.of[2]]>>} \subseteq tables.spans
    BY DEF IInv, WholeInv, Whole, ParentOf
  <2>3. ASSUME pc = "exited", failures = {} PROVE tables.edges = ToRows(tables.spans).edges
    <3>1. Kept = tables.spans /\ Edges = tables.edges
      BY <2>3, NoRowsType DEF IInv, PlaceInv, Kept, Edges
    <3>2. Edges = ToRows(Kept).edges
      BY <2>3 DEF IInv, TruthInv
    <3> QED BY <3>1, <3>2, Zenon
  <2> QED BY <2>1, <2>2, <2>3 DEF EdgesHaveSpans
<1> QED BY <1>1, Inductive, PTL

\* Every shift a span carries is the one offset of its service that is
\* recorded at the end, however late the span leaves.
THEOREM ShiftsAlwaysExplained == Spec => []ShiftsExplained
<1>1. IInv => ShiftsExplained
  <2> SUFFICES ASSUME IInv PROVE ShiftsExplained
    OBVIOUS
  <2>1. (pc = "exited" /\ "offsets" \notin failures) => tables.offsets = offsets
    BY DEF IInv, ShiftInv
  <2>2. \A w \in Out : /\ w.shift = ShiftOf(offsets, ServiceOf[w.span[2]])
                       /\ ServiceOf[w.span[2]] = ServiceOf[Root] => w.shift = 0
    BY DEF IInv, ShiftInv, ShiftOf
  <2> QED BY <2>1, <2>2 DEF ShiftsExplained, Out
<1> QED BY <1>1, Inductive, PTL

\* When run returns no row waits for an insert.
THEOREM NoRowsLeft == Spec => [](pc = "exited" => buffer = NoRows /\ insert = NoInsert)
<1>1. IInv => (pc = "exited" => buffer = NoRows /\ insert = NoInsert)
  BY DEF IInv, PlaceInv
<1> QED BY <1>1, Inductive, PTL

=============================================================================
