------------------------------ MODULE Loadgen ------------------------------
(***************************************************************************)
(* The load generator, from src/loadgen/.  One goroutine generates traces  *)
(* on a ticker, buffers their ground truth, passes them through the fault  *)
(* injectors and hands them to sender goroutines: one for the spans that   *)
(* leave at once and one for each distinct delay.  At the end it flushes   *)
(* the buffer, waits for the senders and records what the run decided.     *)
(*                                                                         *)
(* A trace is a set of Sites, the places of the call tree its spans come   *)
(* from; a span is the pair of its trace and its site.  A draw of the      *)
(* random generator is a choice.  Counters and ids are unbounded in the    *)
(* code; MaxTraces bounds the traces of one run.                           *)
(***************************************************************************)
EXTENDS Integers, FiniteSets, Functions, FiniteSetsExt

CONSTANTS
    Sites,           \* the call sites of the topology
    CallerOf,        \* [Sites -> Sites \cup {NoSite}]: the site that calls it
    ServiceOf,       \* [Sites -> services]
    NoSite,          \* the parent of the root span
    Plans,           \* the sets of sites topology.Generate may return
    Injectors,       \* the fault injectors the flags switch on
    OutOfOrderDelay, \* -out-of-order-delay, in ticks
    LateDelays,      \* the draws in [-late-arrival-min, -late-arrival-max]
    Skews,           \* the draws of a skewed service's offset
    MaxRows,         \* the batcher's maxRows
    MaxTraces        \* bound: traces generated in the run

Root == CHOOSE s \in Sites : CallerOf[s] = NoSite
Services == {ServiceOf[s] : s \in Sites}

ASSUME LoadgenAssumption ==
    /\ NoSite \notin Sites /\ IsFiniteSet(Sites)
    /\ CallerOf \in [Sites -> Sites \cup {NoSite}]
    /\ \A s \in Sites : CallerOf[s] = NoSite => s = Root
    /\ Plans \subseteq SUBSET Sites /\ Plans # {}
    /\ \A p \in Plans : Root \in p /\ \A s \in p : CallerOf[s] \in p \cup {NoSite}
    /\ Injectors \subseteq {"out_of_order", "drop", "late_arrival", "clock_skew"}
    /\ OutOfOrderDelay \in Nat /\ LateDelays \subseteq Nat
    /\ Skews \subseteq Int \ {0}
    /\ MaxRows \in Nat \ {0} /\ MaxTraces \in Nat

VARIABLES
    pc,       \* where run stands
    runDone,  \* runCtx is done: -duration is over, or a signal came
    traces,   \* traces generated so far
    plan,     \* the plan of the current tick, {} between ticks
    buffer,   \* the batcher's [spans, edges]
    insert,   \* the insert under way: its stage and its [spans, edges]
    tables,   \* what ClickHouse holds of the run's ground truth
    failures, \* the ground-truth writes that returned an error
    offsets,  \* the clock-skew injector's memo, service -> offset
    groups,   \* the sender goroutines that wg still counts
    wire,     \* the spans that reached the collector
    st,       \* the run's counters
    warned    \* history: the spans of all the sends that failed so far

vars == <<pc, runDone, traces, plan, buffer, insert, tables, failures,
          offsets, groups, wire, st, warned>>
truth == <<buffer, insert, tables, failures>>
sending == <<groups, wire, st, warned>>

Spans == (1..MaxTraces) \X Sites
NoRows == [spans |-> {}, edges |-> {}]
NoInsert == [stage |-> "none", rows |-> NoRows]
Offsets == Skews \cup {0}
EmptyMemo == [x \in {} |-> 0]

(* An edge row, kept with the span it was made from.                       *)
Edge(sp) == [of |-> sp,
             caller |-> ServiceOf[CallerOf[sp[2]]],
             callee |-> ServiceOf[sp[2]]]

(* The rows of one plan: a row per span, and an edge row per span that has *)
(* a parent in the plan.                                                   *)
ToRows(p) ==
    [spans |-> p,
     edges |-> {Edge(sp) : sp \in {q \in p : CallerOf[q[2]] # NoSite
                                           /\ <<q[1], CallerOf[q[2]]>> \in p}}]

(* The batcher holds fewer than maxRows spans and one trace more, although *)
(* it is looked at only once per trace (batcher.go:60).                    *)
BatcherBounded == \E p \in Plans : Cardinality(buffer.spans) < MaxRows + Cardinality(p)

TypeOK ==
    /\ pc \in {"starting", "loop", "flush", "dispatch", "draining",
               "recording", "incidents", "exited"}
    /\ runDone \in BOOLEAN
    /\ traces \in 0..MaxTraces
    /\ plan \subseteq Spans
    /\ plan # {} <=> pc \in {"flush", "dispatch"}
    /\ buffer.spans \subseteq Spans /\ BatcherBounded
    /\ \A e \in buffer.edges : e.of \in buffer.spans /\ e = Edge(e.of)
    /\ insert.stage \in {"none", "spans", "edges"}
    /\ insert.stage # "none" => pc \in {"dispatch", "draining"} /\ buffer = NoRows
    /\ insert.rows.spans \subseteq Spans
    /\ tables.spans \subseteq Spans
    /\ \A e \in tables.edges : e.of \in Spans /\ e = Edge(e.of)
    /\ DOMAIN offsets \subseteq Services /\ Range(offsets) \subseteq Offsets
    /\ \A g \in groups : g.state \in {"waiting", "sending"} /\ g.spans # {}
    /\ \A w \in wire : w.span \in Spans /\ w.shift \in Offsets
    /\ \A n \in Range(st) : n \in Nat
    /\ warned \in Nat

Init ==
    /\ pc = "starting"
    /\ runDone = FALSE
    /\ traces = 0
    /\ plan = {}
    /\ buffer = NoRows
    /\ insert = NoInsert
    /\ tables = [spans |-> {}, edges |-> {}, offsets |-> EmptyMemo, incidents |-> FALSE]
    /\ failures = {}
    /\ offsets = EmptyMemo
    /\ groups = {}
    /\ wire = {}
    /\ st = [generated |-> 0, dropped |-> 0, delayed |-> 0, sendOK |-> 0,
             sendsFailed |-> 0]
    /\ warned = 0

-----------------------------------------------------------------------------
(* The fault injectors.  An emission plan gives each span a delay and says *)
(* whether it is dropped; an injector is the set of plans it may return.   *)

Pristine(p) == [sp \in p |-> [delay |-> 0, drop |-> FALSE]]

Later(d, e) == IF d > e THEN d ELSE e

Parents(p) == {sp \in p : \E q \in p : q[1] = sp[1] /\ CallerOf[q[2]] = sp[2]}

OutOfOrder(e) ==
    IF "out_of_order" \notin Injectors THEN {e} ELSE
    {[sp \in DOMAIN e |->
        IF sp \in chosen THEN [e[sp] EXCEPT !.delay = Later(OutOfOrderDelay, @)] ELSE e[sp]]
     : chosen \in SUBSET Parents(DOMAIN e)}

DropSpans(e) ==
    IF "drop" \notin Injectors THEN {e} ELSE
    {[sp \in DOMAIN e |-> [e[sp] EXCEPT !.drop = @ \/ sp \in chosen]]
     : chosen \in SUBSET DOMAIN e}

LateArrival(e) ==
    IF "late_arrival" \notin Injectors THEN {e} ELSE
    {[sp \in DOMAIN e |-> [e[sp] EXCEPT !.delay = Later(draw[sp], @)]]
     : draw \in [DOMAIN e -> LateDelays \cup {0}]}

ChainApply(e) == UNION {LateArrival(d) : d \in UNION {DropSpans(o) : o \in OutOfOrder(e)}}

(* A mistake: an offset is drawn anew for each trace.                      *)
OffsetPerTrace(p) == [{ServiceOf[sp[2]] : sp \in p} \ {ServiceOf[Root]} -> Offsets]

(* The memo after the clock-skew injector has seen the services of a plan: *)
(* what is decided stays, every other service but the root's is drawn.     *)
OffsetFor(p) ==
    LET fresh == {ServiceOf[sp[2]] : sp \in p} \ (DOMAIN offsets \cup {ServiceOf[Root]})
        seen == DOMAIN offsets
    IN IF "clock_skew" \notin Injectors THEN {offsets} ELSE
       {[svc \in seen \cup fresh |-> IF svc \in seen THEN offsets[svc] ELSE draw[svc]]
        : draw \in [fresh -> Offsets]}

ShiftOf(memo, svc) == IF svc \in DOMAIN memo THEN memo[svc] ELSE 0

-----------------------------------------------------------------------------
(* The generating goroutine.                                               *)

(* Dial and Ping: either run goes on, or it returns the error.             *)
Connect ==
    /\ pc = "starting"
    /\ pc' \in {"loop", "exited"}
    /\ UNCHANGED <<runDone, traces, plan, truth, offsets, sending>>

(* The -duration timer fires, or SIGTERM or SIGINT arrives.                *)
RunCtxDone ==
    /\ pc \notin {"starting", "exited"}
    /\ ~runDone
    /\ runDone' = TRUE
    /\ UNCHANGED <<pc, traces, plan, truth, offsets, sending>>

(* A tick: Generate a trace, count it, and Add its rows to the batcher.    *)
(* The select may still take a tick when runCtx is done as well.  When     *)
(* Generate returns an error the loop goes on: a step that changes nothing.*)
Tick ==
    /\ pc = "loop"
    /\ traces < MaxTraces
    /\ \E sites \in Plans :
          LET p == {traces + 1} \X sites
              rows == ToRows(p)
          IN /\ plan' = p
             /\ st' = [st EXCEPT !.generated = @ + Cardinality(p)]
             /\ buffer' = [spans |-> buffer.spans \cup rows.spans,
                           edges |-> buffer.edges \cup rows.edges]
    /\ traces' = traces + 1
    /\ pc' = "flush"
    /\ UNCHANGED <<runDone, insert, tables, failures, offsets, groups, wire, warned>>

(* A mistake: a batch without edges is taken for an empty one.             *)
FlushOnlyEdges ==
    /\ insert' = IF buffer.edges = {} THEN NoInsert ELSE [stage |-> "spans", rows |-> buffer]
    /\ buffer' = NoRows

(* Flush takes the rows out of the batcher before it inserts them.         *)
Flush ==
    /\ insert' = IF buffer = NoRows THEN NoInsert ELSE [stage |-> "spans", rows |-> buffer]
    /\ buffer' = NoRows

(* A mistake: the batcher is full only past maxRows.                       *)
FullPastMax == Cardinality(buffer.spans) > MaxRows

(* FlushIfDue: full, or flushAfter has passed since the last flush.        *)
Full == Cardinality(buffer.spans) >= MaxRows
FlushIfDue ==
    /\ pc = "flush"
    /\ \/ Flush
       \/ ~Full /\ UNCHANGED <<buffer, insert>>
    /\ pc' = "dispatch"
    /\ UNCHANGED <<runDone, traces, plan, tables, failures, offsets, sending>>

(* The span insert succeeds and the edge insert follows, if it has rows.   *)
SpansInserted ==
    /\ insert.stage = "spans"
    /\ tables' = [tables EXCEPT !.spans = @ \cup insert.rows.spans]
    /\ insert' = IF insert.rows.edges = {} THEN NoInsert ELSE [insert EXCEPT !.stage = "edges"]
    /\ UNCHANGED <<pc, runDone, traces, plan, buffer, failures, offsets, sending>>

EdgesInserted ==
    /\ insert.stage = "edges"
    /\ tables' = [tables EXCEPT !.edges = @ \cup insert.rows.edges]
    /\ insert' = NoInsert
    /\ UNCHANGED <<pc, runDone, traces, plan, buffer, failures, offsets, sending>>

(* A mistake: the edge insert follows although the span insert failed.     *)
InsertErrorIgnored ==
    /\ insert.stage \in {"spans", "edges"}
    /\ UNCHANGED tables
    /\ insert' = IF insert.stage = "spans" /\ insert.rows.edges # {}
                 THEN [insert EXCEPT !.stage = "edges"] ELSE NoInsert
    /\ failures' = failures \cup {"rows"}
    /\ UNCHANGED <<pc, runDone, traces, plan, buffer, offsets, sending>>

(* An insert returns an error, whether or not ClickHouse kept the rows: a  *)
(* warning is logged, and the rows are in the batcher no longer.           *)
InsertFails ==
    /\ insert.stage \in {"spans", "edges"}
    /\ \/ UNCHANGED tables
       \/ tables' = IF insert.stage = "spans"
                    THEN [tables EXCEPT !.spans = @ \cup insert.rows.spans]
                    ELSE [tables EXCEPT !.edges = @ \cup insert.rows.edges]
    /\ insert' = NoInsert
    /\ failures' = failures \cup {"rows"}
    /\ UNCHANGED <<pc, runDone, traces, plan, buffer, offsets, sending>>

(* dispatch: the injectors have run; the dropped spans are left out, the   *)
(* others form one group for each distinct delay, each with its goroutine. *)
Dispatch ==
    /\ pc = "dispatch" /\ insert.stage = "none"
    /\ \E e \in ChainApply(Pristine(plan)), memo \in OffsetFor(plan) :
          LET sent == {sp \in plan : ~e[sp].drop}
              Out(sp) == [span |-> sp, shift |-> ShiftOf(memo, ServiceOf[sp[2]])]
              Group(d) == [delay |-> d,
                           state |-> IF d <= 0 THEN "sending" ELSE "waiting",
                           spans |-> {Out(sp) : sp \in {q \in sent : e[q].delay = d}}]
          IN /\ offsets' = memo
             /\ groups' = groups \cup {Group(e[sp].delay) : sp \in sent}
             /\ st' = [st EXCEPT
                          !.dropped = @ + Cardinality(plan \ sent),
                          !.delayed = @ + Cardinality({sp \in sent : e[sp].delay > 0})]
    /\ plan' = {}
    /\ pc' = "loop"
    /\ UNCHANGED <<runDone, traces, truth, wire, warned>>

(* The loop breaks and the final Flush starts.                             *)
BreakLoop ==
    /\ pc = "loop" /\ runDone
    /\ Flush
    /\ pc' = "draining"
    /\ UNCHANGED <<runDone, traces, plan, tables, failures, offsets, sending>>

(* A mistake: a sender is counted only once its timer has fired.           *)
DrainedOfSends == \A g \in groups : g.state # "sending"

(* wg.Wait returns once no sender goroutine is left.                       *)
Drained == groups = {}
Wait ==
    /\ pc = "draining" /\ insert.stage = "none"
    /\ Drained
    /\ pc' = "recording"
    /\ UNCHANGED <<runDone, traces, plan, truth, offsets, sending>>

(* RecordClockOffsets and RecordIncidents each write one table, or fail    *)
(* and are only logged, whether or not ClickHouse kept the rows.           *)
Records(stage, field, value) ==
    /\ pc = stage
    /\ \/ tables' = [tables EXCEPT ![field] = value] /\ UNCHANGED failures
       \/ /\ value # tables[field]
          /\ tables' \in {tables, [tables EXCEPT ![field] = value]}
          /\ failures' = failures \cup {field}
    /\ UNCHANGED <<runDone, traces, plan, buffer, insert, offsets, sending>>

RecordClockOffsets == Records("recording", "offsets", offsets) /\ pc' = "incidents"

RecordIncidents ==
    /\ \E configured \in BOOLEAN : Records("incidents", "incidents", configured)
    /\ pc' = "exited"

-----------------------------------------------------------------------------
(* The sender goroutines.                                                  *)

TimerFires(g) ==
    /\ pc # "exited"
    /\ g.state = "waiting"
    /\ groups' = (groups \ {g}) \cup {[g EXCEPT !.state = "sending"]}
    /\ UNCHANGED <<pc, runDone, traces, plan, truth, offsets, wire, st, warned>>

SendSucceeds(g) ==
    /\ pc # "exited"
    /\ g.state = "sending"
    /\ wire' = wire \cup g.spans
    /\ groups' = groups \ {g}
    /\ st' = [st EXCEPT !.sendOK = @ + Cardinality(g.spans)]
    /\ UNCHANGED <<pc, runDone, traces, plan, truth, offsets, warned>>

(* A mistake: a failed send does not give its count back.                  *)
SendFailsKeepsCount(g) ==
    /\ g.state = "sending"
    /\ groups' = (groups \ {g}) \cup {[g EXCEPT !.state = "failed"]}
    /\ st' = [st EXCEPT !.sendsFailed = @ + 1]
    /\ warned' = warned + Cardinality(g.spans)
    /\ UNCHANGED <<pc, runDone, traces, plan, truth, offsets, wire>>

(* A mistake: a failed send is tried once more, and counted both times.    *)
SendFailsAndRetries(g) ==
    /\ g.state = "sending"
    /\ wire' \in {wire, wire \cup g.spans}
    /\ UNCHANGED groups
    /\ st.sendsFailed = 0
    /\ st' = [st EXCEPT !.sendsFailed = @ + 1]
    /\ warned' = warned + Cardinality(g.spans)
    /\ UNCHANGED <<pc, runDone, traces, plan, truth, offsets>>

(* Export returns an error or sendTimeout ends it.  The collector may have *)
(* taken the spans all the same.  Nothing is sent again.  The counter is   *)
(* of sends; how many spans were in it only the warning says.              *)
SendFails(g) ==
    /\ pc # "exited"
    /\ g.state = "sending"
    /\ wire' \in {wire, wire \cup g.spans}
    /\ groups' = groups \ {g}
    /\ st' = [st EXCEPT !.sendsFailed = @ + 1]
    /\ warned' = warned + Cardinality(g.spans)
    /\ UNCHANGED <<pc, runDone, traces, plan, truth, offsets>>

InsertEnds == SpansInserted \/ EdgesInserted \/ InsertFails
Sender(g) == TimerFires(g) \/ SendSucceeds(g) \/ SendFails(g)
SenderStep == \E g \in groups : Sender(g)

Next ==
    \/ Connect \/ RunCtxDone \/ Tick \/ FlushIfDue
    \/ SpansInserted \/ EdgesInserted \/ InsertFails
    \/ Dispatch \/ BreakLoop \/ Wait \/ RecordClockOffsets \/ RecordIncidents
    \/ SenderStep

Spec == Init /\ [][Next]_vars

(* The duration ends, timers fire and sendTimeout ends every send; a       *)
(* ground-truth insert returns.  The select of the loop picks at random    *)
(* among what is ready, so Done is taken in the end although ticks go on.  *)
FairSpec ==
    /\ Spec
    /\ WF_vars(Connect) /\ WF_vars(RunCtxDone)
    /\ WF_vars(FlushIfDue) /\ WF_vars(InsertEnds) /\ WF_vars(Dispatch)
    /\ SF_vars(BreakLoop) /\ WF_vars(Wait)
    /\ WF_vars(RecordClockOffsets) /\ WF_vars(RecordIncidents)
    /\ WF_vars(SenderStep)

-----------------------------------------------------------------------------
(* Properties.                                                             *)

InFlight == MapThenSumSet(LAMBDA g : Cardinality(g.spans), groups)

(* Every generated span is in exactly one place: still to be dispatched,   *)
(* dropped, with a sender goroutine, sent, or in a send that failed.  No   *)
(* counter of main.go holds the last of these: what is logged at the end   *)
(* adds up to the spans generated only with the span counts of the "send   *)
(* failed" warnings, and by itself just when sends_failed is 0.            *)
SpansAccounted ==
    /\ TypeOK
    /\ st.generated = Cardinality(plan) + st.dropped + InFlight + st.sendOK + warned
    /\ st.sendsFailed <= warned
    /\ st.sendsFailed = 0 => warned = 0

(* Ground truth covers what was generated, the dropped spans included, and *)
(* so all that the collector can see: until an insert fails every span's   *)
(* row is in the batcher, in the insert under way or in ClickHouse.        *)
TruthCoversRun ==
    "rows" \notin failures =>
        LET kept == tables.spans \cup insert.rows.spans \cup buffer.spans
        IN /\ Cardinality(kept) = st.generated
           /\ \A w \in wire : w.span \in kept

(* An edge of the ground truth has the rows of both its spans beside it,   *)
(* also when an insert failed half-way; without a failure a finished run   *)
(* has recorded the edge of every call.                                    *)
EdgesHaveSpans ==
    /\ \A e \in tables.edges :
          {e.of, <<e.of[1], CallerOf[e.of[2]]>>} \subseteq tables.spans
    /\ pc = "exited" /\ failures = {} => tables.edges = ToRows(tables.spans).edges

(* Ground truth misses nothing the collector saw and has whole calls.      *)
TruthIsComplete == TruthCoversRun /\ EdgesHaveSpans

(* One clock per service: the spans of a service that are out or on their  *)
(* way are all shifted by the offset that ground truth records in the end, *)
(* and those of the root service by none.                                  *)
ShiftsExplained ==
    LET recorded == IF pc = "exited" /\ "offsets" \notin failures
                    THEN tables.offsets ELSE offsets
    IN \A w \in wire \cup UNION {g.spans : g \in groups} :
          LET svc == ServiceOf[w.span[2]]
          IN w.shift = IF svc = ServiceOf[Root] THEN 0 ELSE ShiftOf(recorded, svc)

(* When the process exits and its connections close, no span waits for a   *)
(* timer or a send, and no row of ground truth for an insert.              *)
ExitLeavesNothing ==
    pc = "exited" => groups = {} /\ buffer = NoRows /\ insert = NoInsert

(* The run ends: no sender, insert or injector can keep it from exiting,   *)
(* and nothing is left when it does.                                       *)
RunEnds == <>(pc = "exited") /\ []ExitLeavesNothing

=============================================================================
