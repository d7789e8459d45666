# Formal models of the distributed tracing platform

TLA+ modules for the parts of this repository that carry its own logic, TLC
configurations that model-check them on small instances, and TLAPS proofs of
what matters most. Paths and line numbers refer to `src/`.

    tlc -workers 2 -config writer_safety.cfg MCWriter      # one run
    tlapm WriterProofs.tla                                 # one set of proofs

## 1. The system

Spans travel from clients to the dashboard through four processes and two
stores; a load generator feeds the first of them and writes down what is true.

    loadgen --OTLP--> collector --Kafka "spans"--> writer(s) --> ClickHouse
       |                                                        |      ^
       +------------- ground truth ----------------------------->      |
                                                       analyzer -------+
                                                          |
                                                   API --> dashboard

| Component | State | Operations | Talks to |
|---|---|---|---|
| collector | admission semaphore, in-flight channel, gauge and counters, the Kafka client's buffer | `Export`, `PublishSpan`, produce callback, graceful stop, `Close` | OTLP clients by gRPC, Kafka by an asynchronous produce |
| writer | bounded queue, batch, `flushMu`, group membership, fetch positions | `fetchLoop`, `batchLoop`, `flush` with backoff, `onPartitionsRevoked`, `onPartitionsLost`, shutdown | Kafka (poll, commit, rebalance callbacks), ClickHouse (insert) |
| analyzer: poll loop | `WindowTracker._next_index`, the late-check cursor, the stop event | read a due window, write its tables, mark it, count late spans | ClickHouse |
| analyzer: reassembly | none between windows | seeds, search, classification, summary, parent-child pairs | rows of one window |
| analyzer: incidents | tables `detections`, `detected_incidents` | write detections, regroup the lookback, link, overwrite incidents | ClickHouse |
| analyzer: clock skew | none between windows | record violations, estimate offsets outward from the root service | rows of one window |
| analyzer: baselines and detectors | tables `service_stats`, `service_edges`, the two baseline tables, `detections` | aggregate a window, refresh the baselines over the lookback, three detectors | ClickHouse |
| analyzer: offline evaluation | none | score reassembly and incidents against the ground truth, measure magnitudes | ClickHouse, once a run is over |
| API | none | one or more queries per request, one list of them paged | ClickHouse |
| dashboard | `useApiQuery`: state, `hasData`, effect closures | render, effect, poll, settle, unmount | API |
| load generator | batcher, clock-offset memo, sender goroutines, counters | tick, flush, inject faults, dispatch, send, record | collector, ClickHouse |

What is hard about each, and what makes it correct:

* **Collector.** Handlers of concurrent requests and produce callbacks share
  two semaphores and a gauge; a request may be published in part and refused;
  the answer is given before the broker has acknowledged. Correct: every slot
  and place comes back, the Kafka client never blocks a handler, an answer of
  success leads to the topic or to a logged drop, nothing is produced after
  closing.
* **Writer.** Two loops and the consumer-group callbacks flush the same batch;
  inserts and commits fail separately; replicas hand partitions to each other,
  are killed, stopped, or expelled while they hold records. Correct: no
  committed offset passes a span that is not in ClickHouse; memory is bounded
  in an outage; every span arrives; a stop ends.
* **Poll loop.** The clock runs on while a window is processed, spans come in
  late and twice, and all cursors are lost in a crash. Correct: no window is
  skipped, none is read twice while the wall clock does not step back, on-time
  spans are in their window's rows, late ones are counted.
* **Reassembly.** Parents may be missing or form cycles. Correct: the
  classification of every span says what its chain of parents is.
* **Incidents.** The same incident is rebuilt every window from a sliding
  lookback and overwritten by key, between crashes. Correct: no detection is
  left out, an incident does not shrink, a derived one names its deepest cause.
* **Clock skew.** One wrong clock shifts every edge that touches its service.
  Correct: the estimates are the true offsets as long as one calling pair agrees.
* **Baselines and detectors.** A window is judged by tables the analyzer itself
  fills, whose rows may be missing (silence, crashes) or short (late spans).
  Correct: a window never judges itself, a reported drop is one, silence is
  seen, steady traffic is quiet.
* **Evaluation.** Ground truth, landed spans and the rows of a window are three
  different sets. Correct: reassembly is not charged with what the injectors
  dropped, only with what no window read together, an incident is scored by the detections there were, magnitudes are of
  the right window.
* **API.** An answer is put together from several queries while the analyzer
  writes, a list from several answers. Correct: nothing is lost between pages
  without a word, a detail is no older than its request, a root that is not
  shown was asked away or cut off.
* **Dashboard.** Answers of several effects and polls arrive in any order.
  Correct: no data of an earlier range or trace, no good data lost to a poll,
  no view that loads for ever.
* **Load generator.** Ground truth is buffered and inserted in two tables
  while the spans are already on their way; senders outlive the loop by
  minutes. Correct: the recorded truth covers and explains what was sent.

## 2. The modules

| Module | Models | Kind |
|---|---|---|
| `AtLeastOnce` | what the writer promises of the topic | abstract specification |
| `Writer` | `writer/internal/{consumer,boundedqueue,batcher,chwriter}`, Kafka's group as the writer sees it | component, implements `AtLeastOnce` |
| `Lemmas` | induction, iteration, sums over finite sets, elements of a sequence | lemmas |
| `WriterProofs` | theorems about `Writer`: what is committed, what is held in memory | proofs |
| `Collector`, `CollectorProofs` | `collector/internal/{admission,otlpreceiver,kafkaproducer}`, `cmd/collector` | component, proofs |
| `Windows`, `WindowsProofs` | `analyzer/{main,windowing,reader}.py`: the loop | component, proofs |
| `Reassembly` | `analyzer/reassembly.py` and its aggregations | component |
| `Stats` | `analyzer/statutil.py` in exact arithmetic | operators |
| `ClockSkew` | `analyzer/clockskew.py`, over the traces of `Reassembly` | algorithm |
| `TraceScore` | `analyzer/eval.py`: `compute_metrics`, `compute_depths`, over `Reassembly` | algorithm |
| `Detection` | `analyzer/{service_agg,topology_agg,baseline,detectors,writer}.py`, what `queries.py` and `eval.py` read back | component |
| `AnalysisProofs` | theorems about `Reassembly`, `ClockSkew`, `TraceScore` and `Detection` | proofs |
| `Incidents` | `analyzer/suppression.py` and the end of `process_window` | component |
| `IncidentScore` | `analyzer/eval.py`: `compute_incident_metrics`, and `fetch_detections`, over `Incidents` | algorithm |
| `IncidentsProofs` | theorems about `Incidents` and `IncidentScore` | proofs |
| `Api` | `analyzer/api/{queries,routes}.py` against the analyzer's inserts | component, composed |
| `ApiQuery` | `dashboard/src/hooks/useApiQuery.ts` | component |
| `ApiProofs` | theorems about `Api` and `ApiQuery` | proofs |
| `Loadgen`, `LoadgenProofs` | `loadgen/cmd`, `groundtruth`, `fault`, `emitter` | component, proofs |
| `MC*` | instances for TLC: the sets the configurations name | model checking |

Each module models a handler per action: its guard is the handler's conditions,
and an action ends where another goroutine, process or crash can come between.
`MC*` modules define constants only. In each component a definition headed
"mutant" or "mistake", or described as an error, is a wrong version of the one
after it and belongs to no specification: it documents what the properties can
tell apart.

### Writer and AtLeastOnce

A record is `<<partition, offset>>` and the log is finite. A member's memory is
a pipeline: `poll` (records of the fetch still to be pushed) -> `queue` ->
`batch` -> `flight` (rows a flush has drained). `loop` and `callback` say where
`batchLoop` and the group goroutine are, `lock` who holds `flushMu`, `phase`
how far the flush in progress is. `Poll`, `Push`, `SkipUndecodable` and
`PushCancelled` are `fetchLoop`; `Take`, `Tick` and `CtxDone` are the three arms
of `batchLoop`'s select; `StartFlush` to `CommitFails` are `flush`, one action
per point where it waits; `Revoke`, `Lost` and `DropLostBatch` are the
callbacks. A flush whose context is done already gets no batch from the driver
(`PrepareBatch` refuses it): `AttemptInsert` sends it to its backoff without an
insert. An insert that is reported as failed may have been done
(`InsertFails`), and so may a commit. Fetched records may be pushed in any order
across partitions and in offset order within one. `Assign`, `Evict` and
`ReleaseRevoked` are Kafka's part, modelled from how franz-go is used, and
marked external. `dropped` is history: the records that left memory at one of
the three sites that lose them (abandoned flush, cancelled push, lost batch).

`AtLeastOnce` knows only committed offsets and delivered records. The mapping
is `delivered <- stored \cup Dropped`: with it the writers implement the promise
in every run; what the mapping must add to `stored` is exactly what the three
drop sites lose.

### Collector

`call[c]` is the position of client c's handler in `Export` (`span`,
`acquired`, `marshal`, `unwind`), so that handlers interleave at the semaphore,
at the gauge and at `Produce`. `promise` is the produce callback that runs (the
Kafka client runs one at a time); its three effects are separate steps.
`server` goes from serving over draining (GracefulStop) and closing to exited.
A client sends its request again after `ResourceExhausted` or a lost answer. A
buffered record is settled by the broker's answer, by a delivery timeout or by
the close (`Settle`); once it is, the Kafka client calls back.

### Windows

`clock` advances between any two steps up to `MaxTime`. `Ingest` inserts a span
at any time, again after a redelivery. The loop: `loop` -> `read` -> one
`insert` per table -> mark -> `late` (the late query) -> `cursor`
(`last_late_check = now()`) -> `wait`. A crash may come at any of them;
everything but ClickHouse is then lost. The wall clock never steps back.

### Reassembly

The input (rows, parents, services, starts) is any assignment, chosen in
`Init`; an action is one turn of a loop of the code, and where the code walks a
list the model takes any element left. Properties compare the result with
definitions by chains of parents. `CallsConserved` covers the counts of
`topology_agg.py` and `service_agg.py`.

### Incidents

Time is the window index. A window's detections are any subset of the watched
keys, its calls any set that contains those seen before. `Detect` is
`run_detection` up to its insert, `RunSuppression` the regrouping and the write
of `detected_incidents`, a crash may separate the two. Linking
(`ByTarget`, `ResolveRoot`, `RootFor`) is written as functions over the set of
incidents.

### ClockSkew and TraceScore

Both extend `Reassembly` and are pure reads of its result, so every trace of the
run is also a test of the estimates and of the score. In truth every call of
`ClockSkew` takes one tick on either side; `Start` and `End` add the clock of
the span's service. `EstimateOffsets` is the breadth-first walk as a recursive
function, its choices among equals (the baseline gap, the main caller) universally
quantified in the property. `TraceScore` adds the spans of the trace that are
not in the rows: what the ground truth says of their parents (`Truths`), and
their fate (`Fates`), lost, landed too late for any window, or read by one of
`OtherWindows`. It scores every landed span, as `compute_metrics` does; the
classes of the rows are those `Reassembly` has computed, those of another window
are what `ClassifiedByChain` says of its rows.

### Detection

One caller, one callee, four windows; what a window carries is one of `Loads`.
Late spans land by `Land` at any time after their window, split ones have a
parent in the window before and resolve in a lookback only. `ReadWindow`,
`AggregateWindow`, `Refresh` and `Detect` end at the inserts of `process_window`
and `run_detection`, and `Crash` may come between; the two inserts of the baselines are one step
(`WriteBaselines`). The detectors divide; here
both sides are multiplied out, so that thresholds are exact. `FetchTopology`
(the API) and `ObservedMagnitude` (the evaluation) read the same tables.

### Incidents' readers

`IncidentScore` extends `Incidents` with half-window time, so that a true
incident can lie inside a window. `ScoreFollowsDetections` relates the score to
the detections the incidents were made of, `RootsResolve` the root ids to the
rows that carry them, in whatever batch either was written last. A page of the
API (`FetchDetections`) is any choice of the newest `MaxRows` rows that touch the
range and have the target, if one is given.

### Api

`stored`, `summaries`, `classified` and `offsets` are the tables; the writer
inserts spans at any time, the analyzer writes a window's tables one by one.
The client either pages (`OpenSession`, then `FetchCandidates` and
`FetchDurations` per page, two queries with the analyzer between them) or opens
a trace (`FetchSpans`, `FetchClassifications`, `FetchOffsets`). Rows of one
window come in any order, anew in every query.

### ApiQuery

`effects` numbers the runs of the effect, `live` is the one not cancelled,
`closure` the deps its `fetchFn` was rendered with, `requests` all calls waiting
for an answer, of whatever effect. `dirty` is a render whose effect has not run
yet.

### Loadgen

A trace is the set of call sites that `Generate` made spans for; `Plans` are the
sets it may return. An injector is the set of plans it may give back, so that
`ChainApply` is the code's chain with each random draw a choice. A tick whose
`Generate` returns an error is logged and changes nothing. `groups` are the
sender goroutines `wg` counts, `st` the counters of the code. `warned` is
history, the spans of all the sends that failed: no counter has them, only the
`span_count` of the warnings (`main.go:326`). A send that fails may have been
received, an insert that fails may have been done.

## 3. The runs

`CHECK_DEADLOCK FALSE` is in every configuration: logs, attempts, the clock,
windows and traces are finite in the models, and a system that has handled all
of them is at rest.

| Run | Question | Instance |
|---|---|---|
| `writer_safety` | Is anything lost when partitions move? | 2 members, 1 partition of 3 records, the first undecodable; queue 1, batch 2; 1 crash, 1 expulsion, 1 revocation |
| `writer_live` | Does every span arrive, and does a stop end? | 1 member, 2 records; 1 stop, 1 crash, 1 revocation; fair |
| `writer_abandon` | Is an abandoned batch redelivered? (no) | 1 member, 2 records, batch 2 |
| `collector` | Do the books balance, do answers mean what they say, does the process come to rest? | 3 clients with two spans, one that does not marshal and one invalid; 2 places, 1 slot, 3 attempts, 1 crash; fair |
| `windows` | Does the cursor skip, repeat or miss anything? | windows of 2, watermark 1, late check every 2, clock to 7, one span inserted up to twice, 2 inserts per window, 1 crash; fair |
| `windows_late` | Is every late span counted? (no) | the same without a crash |
| `query` | Is stale data ever shown? | 2 deps, 3 effects, 1 poll each; fair |
| `incidents` | Is the grouping complete and stable, the blame right, the score true? | 3 services with a shortcut, an edge, two detectors, 4 windows, lookback 2, pages of 2 rows, 1 crash |
| `detection` | Are windows judged by what came before, and rightly? | 4 windows, 6 loads, lookback 2, 3 samples, 1 crash |
| `reassembly` | Does the classification say what the chains are; are skew and score right on it? | all traces of up to 4 spans over 3 services, two other windows, clocks 0 or 3 off |
| `api` | Does an answer made of several queries hold together? | 5 spans in 4 traces, 3 windows, cap 3, 6 requests, 1 crash |
| `loadgen` | Does ground truth cover and explain what was sent? | 2 traces of up to 2 spans, all four injectors; fair |

What each run checks; the comment above a property states it in full.

* `writer_safety`: `IInv`, the inductive invariant of the proofs;
  `CommittedAreStored`, no record below a committed offset is missing from
  ClickHouse while no replica is stopped or expelled; `MemoryBounded`, the rows
  in memory stay bounded through an outage; `PromiseKept`, the refinement of
  `AtLeastOnce`.
* `writer_live`: `LossOnlyAtDropSites`, what is lost was dropped at one of the
  three named sites; under fairness `EverySpanStored`, and `StopEnds`, which
  includes that a loop that has ended leaves no batch.
* `writer_abandon`: `AbandonedBatchRedelivered`, the comment's promise, violated.
* `collector`: `BooksBalance` (`SlotsConserved`, `ProduceNeverBlocks`,
  `GaugeTracksSlots`, `SpansAccounted`), slots, gauge and counters against the
  records in flight, and room in the producer's own buffer whenever a slot was
  had; `AnswersAreHonest` (`SuccessIsTraceable`, `ExhaustedMeansRefused`), every
  span answered OK is in the topic, in the client, in the log of dropped spans,
  or was in the memory of a process that ended, and a refusal refused
  something; `NoProduceAfterClose`; under fairness `ComesToRest`
  (`SlotsComeBack`, `StopEnds`), the first if the broker comes back.
* `windows`: `CursorSound` (`NoGapBehindCursor`, `ReadAtMostOnce`), no
  window behind the cursor is unwritten, and none is read twice, crashes
  included: the cursor starts again at the clock, which does not step back; `SpansFindAWindow` (`OnTimeIsSeen`, `NothingElseMissed`), an on-time
  span is in its window's rows, and any span behind the cursor was read, counted
  late or awaits the next late check, but for the gap between the late query and
  the cursor update and for spans that waited for a dead process; under fairness
  `EveryWindowWritten`.
* `windows_late`: `LateIsCounted`, violated.
* `query`: `HookInv`, the inductive invariant, with its parts `ShowsCurrentDeps`,
  no data of other deps once the effect has run, and `RefMatchesScreen`;
  `PollKeepsGoodData`; under fairness `LeavesLoading`.
* `detection`: `BaselinesLookBack`, no window judges itself and a history never
  holds more calls than the baseline saw; `DropsAreReal`, a reported drop has a
  busier window before it or uncounted calls; `SteadyIsJudged` (`SilenceIsSeen`,
  `SteadyIsQuiet`); `TopologyAddsUp`, the sums per edge against the calls there
  were; `MagnitudeIsMeasured`, an incident's magnitude is that of its window.
* `incidents`: `TablesAgree` (`DetectionsAreInIncidents`), a detection some run
  of the grouping had in its lookback lies in an incident; `BlameIsDeepest`
  (`RootsAreDeepest`, `EdgesFollowCallee`) and `SuppressedLandedInDerived`, the
  linking of derived incidents to their cause; `ScoreFollowsDetections`;
  `RootsResolve` (`RootsAreStored`, `PagesShowRoots`), a root is in the table and
  on the page, unless the range or the target was another or the page is full of
  rows no older; `IncidentsOnlyGrow`, a later window never shrinks one.
* `reassembly`: `RejectedHaveNoEnd` and `TreeIsRight` (`ClassifiedByChain`,
  `CompleteIsOneTree`, `DepthIsLongestChain`), the search against the chains of
  parents it stands for; `CallsConserved`, the edge counts against the spans
  they came from; `SkewIsRecovered`; `EvaluationIsFair`
  (`ScoreChargesOnlyReading`, `DepthsAreDistances`): of all landed spans just
  those cost accuracy that were not read, or not with their parent.
* `api`: `PagingLosesOnlyTies`, what matched when paging began was on a page
  unless a page said the list was capped or its window holds another row;
  `DetailIsCurrent`, a detail is no older than the request for it.
* `loadgen`: `SpansAccounted` with the batcher's bound, where each generated span
  is, by the counters and the warnings together; `TruthIsComplete`
  (`TruthCoversRun`, `EdgesHaveSpans`) and `ShiftsExplained`, ground truth
  against what was sent; under fairness `RunEnds`, with nothing left to send.

**Why the bounds are enough.** Two replicas and one partition give every
hand-over; three records let one be in ClickHouse, one in a batch and one in
the queue, and a batch of two with a queue of one makes both fill. One slot
and three handlers for two places make both semaphores full in every handler
position; the attempts are those of
all clients together, so that three are one of each client, or a retry after a
partial publish beside another client. A clock of seven and windows of two give three
whole windows, one of them due while another is processed. Three effects give an
answer that is two effects old. Three services are the least for a cause two
calls away with a shortcut to it; a lookback shorter than the run makes
incidents start outside it, and lets a service fall ill, be blamed and recover. A page of two rows is full
as soon as two incidents are newer than a root.
Four windows and a lookback of two give two judged windows with a full history,
one of which may follow a crash or a silence; the six loads are steady traffic,
a slow tail, more calls that all fail, few calls, none, and late and split ones,
each on one side of a threshold. A cap of three over four traces makes a list
capped and a page end at the cap, three windows let rows come above and among
those paged. A clock that is three ticks off is off by more than a call takes,
which is what `clockskew.py` assumes of an estimate worth having. Four spans hold a root, an orphan with a child, and
a cycle with a tail; with two other windows a span, its parent and its child may
each have been read by another one. Two traces, with a batcher of two rows, let a batch fill
exactly, overflow and be inserted while a send of the earlier trace waits.
Bounds are the constants commented "bound" in each module, and every one stands
in a guard.

**Symmetry** is used for the two members of `writer_safety`, whose properties
are safety properties that treat members alike.

**Fairness.**

* Writer: goroutines are scheduled (weak fairness of each blocking step); a
  select picks at random among ready arms and `flushMu` is starvation-free
  (strong fairness of the arms and of taking the lock); a replica that exits is
  started again (`restart: unless-stopped`). `EverySpanStored` and `StopEnds`
  also need `InsertsSucceed`: not all inserts fail for ever.
* Collector: handlers and callbacks run, and the Kafka client calls back for what
  is settled. That a record is settled at all is not assumed: the producer is
  idempotent (`producer.go:50-59`), so the client may hold an issued record for as
  long as the broker is away, whatever `RecordDeliveryTimeout` says.
  `SlotsComeBack` therefore has `BrokerAnswers`, the broker is not away for ever,
  as its hypothesis; `StopEnds` needs nothing of broker or clients, since the
  close settles what is left.
* Windows: time passes, the loop runs, a dead container is restarted.
* ApiQuery: React runs the effects of what it rendered, fetches settle.
* Loadgen: the duration ends, timers fire, `sendTimeout` ends a send, inserts
  return; the loop's select does not prefer the ticker for ever (strong fairness
  of `BreakLoop`).
* Reassembly, Incidents, Detection and Api state safety only and assume none:
  each of their steps is followed by the next or by a crash, and that windows go
  on being processed is `EveryWindowWritten`.

## 4. What is proved

TLAPS checks these for every value of the constants, from the named `ASSUME` of
each module, which TLC evaluates in the runs.

* **Writer** (`WriterProofs`). `TypeCorrect`; `Inductive`, the invariant `IInv`;
  `LossAccounted`: `LossOnlyAtDropSites`; `AtLeastOnceUndisturbed`:
  `CommittedAreStored`; `WritersKeepPromise`: `Writer` implements `AtLeastOnce`.
  That committed offsets are backed is not inductive: a commit carries the
  highest offset of each partition in the batch, so everything below must
  already be done. `IInv` says why it is. Every stage of a member's pipeline
  holds a record only if all before it in the partition are done, ahead of it
  in the stage, or in a stage further on (`CoverInv`); everything below a fetch
  position is done or held; and the lock's holder is in its flush and commits
  only what is stored (`FlushConsistent`). A second invariant (`CalmInv`) shows
  that until a replica is stopped or expelled none of the drop sites is
  reached; with it the loss account becomes `CommittedAreStored`.
  Of its memory: `MemoryStaysBounded`: `MemoryBounded`; `ExitLeavesNoBatch`, a
  conjunct of `StopEnds`. The invariant `Room` adds to the capacities where
  `batchLoop` is: it takes a record only in its select, leaves the select when
  the batch is full, and is back there only after the batch was drained, so a
  batch never grows past its capacity and a loop that has returned leaves none.
* **Collector** (`CollectorProofs`). `BooksAlwaysBalance`: `BooksBalance`;
  `AnswersAlwaysHonest`: `AnswersAreHonest`; `ProducesBeforeClose`:
  `NoProduceAfterClose`. The books are equations between counters and
  cardinalities of the sets of records. They survive `Produce` because the
  record is new (a handler's position and a client's attempts only grow), and a
  callback because its record is still buffered until it is done. Where a
  handler stands says which spans of its request it has disposed of
  (`AnswerInv`), and a server that closes has no handler left (`HandlerInv`).
* **Windows** (`WindowsProofs`). `CursorIsSound`: `CursorSound`;
  `EverySpanFindsAWindow`: `SpansFindAWindow`. The invariant says where the
  tracker's index stands in each phase of the loop (`TrackerInv`), that of the
  windows at or past it only the one in progress was read (`ReadsInv`), and
  which query has seen each stored span or will (`SpanInv`). `ReadAtMostOnce`
  holds across crashes because the clock of the model never steps back.
* **Reassembly** (`AnalysisProofs`). `TypeCorrect`; `RejectionIsForever`:
  `RejectedHaveNoEnd`, because a finished search is closed under children;
  `AcceptedHaveChain`: what the search reaches has a chain to a seed. Then, from
  one invariant (`Inductive`), `TreeAlwaysRight`: `TreeIsRight`, for any rows
  and parents, with cycles and several roots. The ancestors of a span are the
  least set that holds it and, with a span, its parent (`AncestorsLeast`); the
  loop that measures the depth removes one level of the canonical root's tree
  each turn, so it ends at the longest chain. `CallsAlwaysConserved`:
  `CallsConserved`; `EvaluationAlwaysFair`: `EvaluationIsFair`, for any number of
  other windows and any fate of the spans - a rejected row would make a set of
  spans with all parents inside it, which no truth has, so the rows have the
  classes any window gives its own - and distances in any call graph; `SkewAlwaysRecovered`: `SkewIsRecovered`, whatever is chosen among
  equals, for clocks that satisfy `ClearClocks`. That hypothesis is real: a clock
  off by one or two ticks hides inside a call, where `clockskew.py` sees no
  violation and estimates nothing; the clocks of the run satisfy it.
* **Detection** (`AnalysisProofs`). `BaselinesAlwaysLookBack`:
  `BaselinesLookBack`; `DropsAlwaysReal`: `DropsAreReal`; `SteadyAlwaysJudged`:
  `SteadyIsJudged`; `TopologyAlwaysAddsUp`: `TopologyAddsUp`;
  `MagnitudeAlwaysMeasured`: `MagnitudeIsMeasured`; for any loads, lookback,
  thresholds and number of windows. The tables hold numbers, and none of the
  five is inductive over numbers: the invariant (`DetectionInductive`) says of
  which calls they are. A row is `WindowStats` of a set of calls between those
  sure to be found (`Certain`) and those the table holds now (`Available`), and
  a window that has been counted without a row had nothing to count
  (`StatsInv`). A baseline is made of a set of calls of its lookback that has
  all those sure to be found and, of each row in its history, all the row
  counts; no later step writes a row of that lookback (`BaselineInv`). The rest
  is arithmetic of sets: a k-th smallest value exists and is one of the values
  (`NthIs`), so a median above `n` has a value above `n` (`MedianIs`) and a
  percentile, whose ranks never leave the list, is between two (`PercentileIs`); the
  median of equal values is theirs and their deviation nothing (`ConstantMedian`,
  `ConstantMad`); a sum over more, of greater numbers, is greater
  (`TotalGrows`). After steady traffic the baseline is a product, of the
  lookback and the calls of one window, and the error rates cancel.
* **Incidents** (`IncidentsProofs`). `TablesAlwaysAgree`: `TablesAgree`;
  `RowsOnlyGrow`: `IncidentsOnlyGrow`; `SuppressedIsDerived`:
  `SuppressedLandedInDerived`; `BlameAlwaysDeepest`: `BlameIsDeepest`, whose
  hypothesis is that calls have no cycle, and `EdgesAlwaysFollow`, its second
  half, without it; `RootsAlwaysResolve`: `RootsResolve`, for pages of any size;
  `ScoreAlwaysFollows`:
  `ScoreFollowsDetections`. The invariant (`Inductive`) holds that there are
  detections behind every stored row, in each window of it; that ids are unique;
  and that until the next window begins the batch is the grouping of what is in
  the tables. A row written later under the same id covers the earlier one
  because the lookback only ever cuts the front of an incident, and with the
  front its id.
* **Api** (`ApiProofs`). `PagingAlwaysComplete`: `PagingLosesOnlyTies`;
  `DetailAlwaysCurrent`: `DetailIsCurrent`. Rows are only added, above and among
  those paged, so the number of rows ahead of one never falls. A wanted row that
  is alone in its window is thus either on a page or has at least as many rows
  ahead as the next page skips (`PageInv`), and when the pages are done there is
  no place left for it but beyond a cap that some page has reported. A detail is
  compared with the tables at the request: what was there is still there when
  its query runs, and the estimate taken is the newest usable one.
* **ApiQuery** (`ApiProofs`). `HookTypeCorrect`, `HookInductive`: `HookInv`,
  `CurrentDepsShown`, `RefAgrees`, `PollsKeepGoodData`. `HookInv` ties the
  requests of the last effect to its closure, the closure to the rendered deps,
  and the ref to the screen.
* **Loadgen** (`LoadgenProofs`). `TruthAlwaysComplete`: `TruthIsComplete`;
  `ShiftsAlwaysExplained`: `ShiftsExplained`; `SpansAlwaysAccounted`:
  `SpansAccounted`; `NoRowsLeft`, part of `RunEnds`. The rows of a trace enter
  the batcher together and leave it together, so the calls derived per insert
  are those of whole traces and their union is the calls of the run; an offset
  once drawn is never changed. No span is with two senders (`GroupInv`), so what
  a send takes off their union it adds to the spans sent or to those of the
  failed sends, of which each had at least one (`WarnedInv`).
* `Lemmas`, which the others extend.

**How inductions are done.** A theorem that takes an operator as a parameter
cannot be used here, so induction is stated of sets: a set that has 0, and with
a number the next, has all of them (`SetInduction`, from `SmallestOf`, which
follows from the library's well-foundedness of `<` on `Nat`). A recursive
function is shown to exist as an iteration of its step (`Iteration`) before its
equation is used. Sums are the folds of `MapThenSumSet`; `Total` is the same
fold with its recursion in the open, and `SumSplit` and `TotalCounts` are what
is needed of it. Every loop of the analyzer that runs until nothing changes is
shown to be at rest after as many rounds as there are rows or services, by
counting: a round adds a member, or there is none left to add.

**Assumed of the constants.** Beyond that bounds are numbers: sets the code
holds in memory are finite (`Spans`, `Services`, `Firing`), a topology can make
at least one trace (`Plans`), a page limit, a window length, a lookback and the
sample an error rate needs are at least one, and what a window may carry
(`Loads`) is a sequence of latencies with three counts.

**Only model-checked.** Liveness (the prover has no fairness or `ENABLED`):
`EverySpanStored`, `StopEnds`, `ComesToRest`, `EveryWindowWritten`,
`LeavesLoading`, `RunEnds`. Every safety property of a passing run is a theorem.

## 5. What the models found

Runs that end in a violation, each with a trace of the code's own steps:

* `writer_abandon` - a stop cancels the context, the ticker's flush is then
  refused an insert and abandons its batch, the loop takes the next record, and
  the final flush, whose context is fresh, commits past the abandoned one
  (`consumer.go:150, 154-158, 191`); the comment there promises redelivery.
* `windows_late` - the late-check cursor is set to the clock *after* the query
  (`main.py:70-71`); a late span ingested between the two is never counted.

Met while modelling, not among the runs:

* `onPartitionsLost` empties the batch but not the queue; when the partition
  comes back, records from the queue commit past the dropped ones
  (`consumer.go:240`). A `Push` cancelled by shutdown drops one record while a
  later one of the same poll may be queued and committed (`consumer.go:138`).
  `LossOnlyAtDropSites` admits both by name.
* With ClickHouse down for good a stopping writer never returns: the last flush
  has a context that is never done (`consumer.go:150`).
* `producer.Close` does not flush, although its comment says so
  (`producer.go:114-116`); buffered records are failed and logged.
* After a restart the windows due or half written at the crash are never
  finished (`windowing.py:63`); the boundary passes over them. The schema expects
  the opposite, that a restarted analyzer may process a window again
  (`init.sql:106-109`): it does so only if the clock has stepped back by then,
  and `ReadAtMostOnce` assumes that it has not.
* While the broker is away the idempotent producer may hold every slot of
  `collector` (`producer.go:54-57`): a delivery timeout fails a record only when
  that is safe.
* A poll that fails while the first fetch is unanswered shows the error, against
  the doc comment (`useApiQuery.ts:18-21, 57`); a hook that becomes disabled
  keeps its data instead of loading (`useApiQuery.ts:24, 43`).
* An incident that overlaps an earlier incident of its callee is not derived
  when the callee has had another since (`suppression.py:114-116`); a service
  that calls itself may resolve to itself (`suppression.py:150`); an incident
  older than the lookback gets a new id every window (`main.py:214`).
* A list that is exactly at the candidate cap reports `has_more` false and,
  without a duration filter, no truncation, though more rows exist
  (`queries.py:119-121, 139, 170`); rows of one window have no order, so a page
  boundary inside a window can repeat one and skip another
  (`queries.py:138`). `PagingLosesOnlyTies` admits exactly these.
* A span that lands after its window is never classified: the detail shows null
  for good, not only until its window is processed
  (`queries.py:232`, `schemas.py:47`).
* After an outage as long as the lookback a service's first windows have a
  ready baseline with an empty history, and the call-rate detector is silent
  (`baseline.py:80-91`, `detectors.py:184-186`). Windows without calls write no
  row, so the median of the call rate leaves them out.
* The latency detector compares a p99 with the median and MAD of all calls: a
  service whose tail is always heavy alarms in every window
  (`detectors.py:88-123`); `SteadyIsQuiet` therefore leaves it out.
* A window that was never judged has no row, and the evaluation reads it as a
  total loss of calls (`eval.py:664-686`); `MagnitudeIsMeasured` is about judged
  windows.
* A span that landed after its window was read has no class, and costs the
  evaluation attachment or orphan accuracy (`eval.py:93`), as does one whose
  parent another window read: the late-arrival injector lowers both scores
  though nothing was reassembled wrongly. `ScoreChargesOnlyReading` names them.
* With a target filter the page has rows of that target only, so a root
  elsewhere is never on it: `root_cause_target` stays empty however wide the
  range, which the comment offers as the remedy (`queries.py:335-337, 363-367`).
  A page full of newer rows hides it too. `PagesShowRoots` admits both by name.
* What the load generator logs at the end does not add up once a send has
  failed: `sends_failed` counts groups, and no counter the spans in them
  (`main.go:249-257, 324-327`).
* The evaluation takes windows for the instants they start at: a true incident
  inside one window is scored as missed although that window detected it
  (`eval.py:259-273`). `found` counts keys and `true_positive` incidents, so with
  two true incidents on one key, or one matched only by a derived incident, the
  precision exceeds 1 (`eval.py:371-382`).
* A service that calls itself more often than anyone else calls it gets no
  offset (`clockskew.py:131`), and a root that calls itself leaves no source at
  all: every depth is missing (`eval.py:212-216`).
* Of two roots with the same start time the first in row order is canonical
  (`reassembly.py:136`).
* A failed ground-truth insert loses the rows for good, since they have left the
  batcher, while the spans are sent (`batcher.go:74`): `TruthCoversRun` holds
  until then. Nested parents chosen by the out-of-order injector share one delay
  and leave together, the outer one not after the inner (`outoforder.go:47`).

## 6. What is not modelled

* The expiry of tables. Spans are kept for 30 days (`init.sql:68`) and their
  summaries are not, so `EveryRowOpens`, part of `PagingLosesOnlyTies`, is about
  traces younger than that.
* A crash between the inserts of the service and the edge baselines
  (`main.py:144-145`), one step of `Detection`. No reader relates the two tables:
  the detectors use the baselines in memory, and the evaluation looks up the
  newest row of the one target it asks for.
* Configuration, metrics, health endpoints, logging, table clients: no state the
  pipelines depend on. Conversion of columns and rows.
* The evaluation's ratios, printed summary and the comparison of edges and
  offsets, which divide and count what is modelled; its time margins.
* The API's filters that only narrow a query, its schemas and start-up.
* Rendering and layouts of the dashboard. The layouts walk a tree that
  `Reassembly` says is one; what they compute is coordinates.
* The generated topology and the choice of incidents in the load generator:
  random draws from a configuration, `Loadgen` takes their result as `Plans`.
* Scripts, integration tests and continuous integration drive the system from
  outside.

## 7. The order it was built in, and what is left

The delivery path came first (`Writer` with `AtLeastOnce`, `Collector`), then
the analysis path (`Windows`, `Reassembly`, `Incidents`), the two ends
(`ApiQuery`, `Loadgen`), and after them what is derived from a window:
`ClockSkew` and `TraceScore` over the traces, `Detection` over the statistics,
`IncidentScore` over the incidents, and `Api` over the tables all of these
write. Left, in this order:

1. `Delivery`: collector, topic, writer and poll loop composed at the level of
   their promises, with an abstract collector that `Collector` implements.
2. `Topology`: `generate.go` and `incident.go` - no service twice on a chain,
   children inside their parents, incidents active by the caller's start.
