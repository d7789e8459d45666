------------------------------ MODULE Collector ------------------------------
(***************************************************************************)
(* The OTLP collector (collector/): Export calls pass a non-blocking       *)
(* admission semaphore (internal/admission), a handler walks the spans of  *)
(* the request (internal/otlpreceiver) and hands each one to the Kafka     *)
(* producer (internal/kafkaproducer), which takes one of MaxInFlight slots *)
(* without blocking and produces asynchronously.  The slot comes back in   *)
(* the produce callback, long after the caller had its answer.             *)
(*                                                                         *)
(* One client makes one request, a sequence of spans; it sends the whole   *)
(* request again while it is answered ResourceExhausted or loses the       *)
(* connection (the OTLP retry the comment of Export relies on).            *)
(* A record is the triple <<client, attempt, position of the span>>.       *)
(***************************************************************************)
EXTENDS Integers, Sequences, FiniteSets

CONSTANTS
    Clients,              \* callers of Export
    Request,              \* Request[c]: the spans c sends: "good", "invalid" (no
                          \* trace or span id), "unmarshalable" (proto.Marshal fails)
    MaxConcurrentExports, \* Config.MaxConcurrentExports
    MaxInFlight,          \* Options.MaxInFlight
    MaxAttempts,          \* bound: attempts of all clients together
    MaxCrashes            \* bound: crashes of the process

ASSUME CollectorAssumption ==
    /\ Request \in [Clients -> Seq({"good", "invalid", "unmarshalable"})]
    /\ MaxAttempts \in Nat /\ MaxCrashes \in Nat
    /\ MaxConcurrentExports \in Nat /\ MaxInFlight \in Nat
    /\ IsFiniteSet(Clients)

Record == UNION {{c} \X (1..MaxAttempts) \X (1..Len(Request[c])) : c \in Clients}

\* A client buffer no larger than the slots.
BufferAsLargeAsSlots == MaxInFlight

\* kgo.MaxBufferedRecords: Produce blocks while the client holds this many.
MaxBufferedRecords == 2 * MaxInFlight

VARIABLES
    server,    \* "serving", "draining", "closing" (producer.Close), "exited"
    try,       \* try[c]: attempts client c has made
    attempts,  \* bound: attempts of all clients
    reply,     \* reply[c]: the last answer c had: none, ok, exhausted, lost
    call,      \* call[c]: where c's handler stands, "none" when it has none
    at,        \* at[c]: position of the next span of the request
    full,      \* full[c]: bufferFull
    sem,       \* length of the admission channel
    inflight,  \* length of the producer's channel
    gauge,     \* InflightMessages
    buffered,  \* records the Kafka client holds
    promise,   \* the produce callback being run, if any
    topic,     \* records the broker has appended
    count,     \* the counters, and the sum of the logged invalid_count
    dropped,   \* "span publish failed, dropped": the logged records
    accepted,  \* history: records handed to Produce
    gone,      \* history: records in memory when a process ended
    crashes    \* bound

vars == <<server, try, attempts, reply, call, at, full, sem, inflight, gauge, buffered,
          promise, topic, count, dropped, accepted, gone, crashes>>

clientVars == <<try, attempts, reply, sem, server, crashes, gone>>
kafkaVars  == <<buffered, promise, topic, dropped, accepted>>

NoPromise == [rec |-> <<>>, result |-> "ok", step |-> "idle"]
Counters  == {"received", "invalid", "buffer_full", "marshal_error",
              "produce_failed", "published", "rejected"}
Zero      == [k \in Counters |-> 0]

Init ==
    /\ server = "serving" /\ crashes = 0
    /\ try = [c \in Clients |-> 0] /\ attempts = 0
    /\ reply = [c \in Clients |-> "none"]
    /\ call = [c \in Clients |-> "none"]
    /\ at = [c \in Clients |-> 1]
    /\ full = [c \in Clients |-> FALSE]
    /\ sem = 0 /\ inflight = 0 /\ gauge = 0
    /\ buffered = {} /\ promise = NoPromise
    /\ topic = {} /\ dropped = {} /\ accepted = {} /\ gone = {}
    /\ count = Zero

Bump(k)     == count' = [count EXCEPT ![k] = @ + 1]
BumpTwo(k, l) == count' = [count EXCEPT ![k] = @ + 1, ![l] = @ + 1]
Goto(c, l)  == call' = [call EXCEPT ![c] = l]
NextSpan(c) == at' = [at EXCEPT ![c] = @ + 1]

Rec(c) == <<c, try[c], at[c]>>

-----------------------------------------------------------------------------
(* admission: UnaryInterceptor around Export *)

MaySend(c) ==
    /\ server = "serving"
    /\ call[c] = "none"
    /\ reply[c] # "ok"
    /\ attempts < MaxAttempts

\* A handler that starts with the flag of the attempt before.
AdmitKeepsFlag(c) ==
    /\ MaySend(c)
    /\ sem < MaxConcurrentExports
    /\ sem' = sem + 1
    /\ try' = [try EXCEPT ![c] = @ + 1] /\ attempts' = attempts + 1
    /\ reply' = [reply EXCEPT ![c] = "none"]
    /\ Goto(c, "span")
    /\ at' = [at EXCEPT ![c] = 1]
    /\ UNCHANGED <<server, full, inflight, gauge, count, gone, crashes>>
    /\ UNCHANGED kafkaVars

\* A call gets a place: the handler starts with its locals at zero.
Admit(c) ==
    /\ MaySend(c)
    /\ sem < MaxConcurrentExports
    /\ sem' = sem + 1
    /\ try' = [try EXCEPT ![c] = @ + 1] /\ attempts' = attempts + 1
    /\ reply' = [reply EXCEPT ![c] = "none"]
    /\ Goto(c, "span")
    /\ at' = [at EXCEPT ![c] = 1]
    /\ full' = [full EXCEPT ![c] = FALSE]
    /\ UNCHANGED <<server, inflight, gauge, count, gone, crashes>>
    /\ UNCHANGED kafkaVars

\* No place: rejected at once, before any span is looked at.
RejectCall(c) ==
    /\ MaySend(c)
    /\ sem >= MaxConcurrentExports
    /\ try' = [try EXCEPT ![c] = @ + 1] /\ attempts' = attempts + 1
    /\ reply' = [reply EXCEPT ![c] = "exhausted"]
    /\ Bump("rejected")
    /\ UNCHANGED <<server, call, at, full, sem, inflight, gauge, gone, crashes>>
    /\ UNCHANGED kafkaVars

-----------------------------------------------------------------------------
(* otlpreceiver: Export, one span per turn of the loop *)

AtSpan(c) == call[c] = "span" /\ at[c] <= Len(Request[c])

SkipInvalid(c) ==
    /\ AtSpan(c) /\ Request[c][at[c]] = "invalid"
    /\ BumpTwo("received", "invalid")
    /\ NextSpan(c)
    /\ UNCHANGED <<call, full, inflight, gauge>>
    /\ UNCHANGED clientVars /\ UNCHANGED kafkaVars

\* A full buffer that Export forgets to report.
BufferFullUnreported(c) ==
    /\ AtSpan(c) /\ Request[c][at[c]] # "invalid"
    /\ inflight >= MaxInFlight
    /\ BumpTwo("received", "buffer_full")
    /\ NextSpan(c)
    /\ UNCHANGED <<call, full, inflight, gauge>>
    /\ UNCHANGED clientVars /\ UNCHANGED kafkaVars

\* PublishSpan finds no slot: ErrBufferFull, and Export goes on with the rest.
BufferFull(c) ==
    /\ AtSpan(c) /\ Request[c][at[c]] # "invalid"
    /\ inflight >= MaxInFlight
    /\ BumpTwo("received", "buffer_full")
    /\ full' = [full EXCEPT ![c] = TRUE]
    /\ NextSpan(c)
    /\ UNCHANGED <<call, inflight, gauge>>
    /\ UNCHANGED clientVars /\ UNCHANGED kafkaVars

AcquireSlot(c) ==
    /\ AtSpan(c) /\ Request[c][at[c]] # "invalid"
    /\ inflight < MaxInFlight
    /\ inflight' = inflight + 1
    /\ Bump("received")
    /\ Goto(c, "acquired")
    /\ UNCHANGED <<at, full, gauge>>
    /\ UNCHANGED clientVars /\ UNCHANGED kafkaVars

IncGauge(c) ==
    /\ call[c] = "acquired"
    /\ gauge' = gauge + 1
    /\ Goto(c, "marshal")
    /\ UNCHANGED <<at, full, inflight, count>>
    /\ UNCHANGED clientVars /\ UNCHANGED kafkaVars

\* An early return that keeps the slot.
MarshalFailsKeepsSlot(c) ==
    /\ call[c] = "marshal" /\ Request[c][at[c]] = "unmarshalable"
    /\ Goto(c, "unwind")
    /\ UNCHANGED <<at, full, inflight, gauge, count>>
    /\ UNCHANGED clientVars /\ UNCHANGED kafkaVars

\* A deferred release next to the explicit one.
MarshalFailsReleasesTwice(c) ==
    /\ call[c] = "marshal" /\ Request[c][at[c]] = "unmarshalable"
    /\ inflight > 1
    /\ inflight' = inflight - 2
    /\ Goto(c, "unwind")
    /\ UNCHANGED <<at, full, gauge, count>>
    /\ UNCHANGED clientVars /\ UNCHANGED kafkaVars

\* proto.Marshal fails: the slot goes back, then the gauge and the counter.
MarshalFails(c) ==
    /\ call[c] = "marshal" /\ Request[c][at[c]] = "unmarshalable"
    /\ inflight > 0
    /\ inflight' = inflight - 1
    /\ Goto(c, "unwind")
    /\ UNCHANGED <<at, full, gauge, count>>
    /\ UNCHANGED clientVars /\ UNCHANGED kafkaVars

\* The error is not ErrBufferFull: Export logs it and goes on.
Unwind(c) ==
    /\ call[c] = "unwind"
    /\ gauge' = gauge - 1
    /\ Bump("marshal_error")
    /\ Goto(c, "span")
    /\ NextSpan(c)
    /\ UNCHANGED <<full, inflight>>
    /\ UNCHANGED clientVars /\ UNCHANGED kafkaVars

\* client.Produce, which waits while the client's own buffer is at its limit.
Produce(c) ==
    /\ call[c] = "marshal" /\ Request[c][at[c]] # "unmarshalable"
    /\ Cardinality(buffered) < MaxBufferedRecords
    /\ buffered' = buffered \cup {Rec(c)}
    /\ accepted' = accepted \cup {Rec(c)}
    /\ Goto(c, "span")
    /\ NextSpan(c)
    /\ UNCHANGED <<full, inflight, gauge, count, promise, topic, dropped>>
    /\ UNCHANGED clientVars

\* Export returns and the deferred functions give the place back.
Return(c) ==
    /\ call[c] = "span" /\ at[c] > Len(Request[c])
    /\ reply' = [reply EXCEPT ![c] = IF full[c] THEN "exhausted" ELSE "ok"]
    /\ sem' = sem - 1
    /\ Goto(c, "none")
    /\ UNCHANGED <<server, try, attempts, at, full, inflight, gauge, count, gone, crashes>>
    /\ UNCHANGED kafkaVars

-----------------------------------------------------------------------------
(* kafkaproducer: the broker and the produce callback *)

Running == server \in {"serving", "draining", "closing"}

BrokerAppends(r) ==
    /\ server \in {"serving", "draining"}
    /\ r \in buffered \ topic
    /\ promise.rec # r
    /\ topic' = topic \cup {r}
    /\ UNCHANGED <<call, at, full, inflight, gauge, buffered, promise, count,
                   dropped, accepted>>
    /\ UNCHANGED clientVars

\* The client runs one callback at a time.  A record fails ("timeout") when
\* the broker refuses it or RecordDeliveryTimeout passes, appended or not, and
\* when the client is closed under it.
StartPromise(r) ==
    /\ Running
    /\ promise = NoPromise
    /\ r \in buffered
    /\ \E result \in {"ok", "timeout", "closed"} :
         /\ result = "ok" => r \in topic
         /\ result = "closed" => server = "closing"
         /\ promise' = [rec |-> r, result |-> result, step |-> "release"]
    /\ UNCHANGED <<call, at, full, inflight, gauge, buffered, topic, count,
                   dropped, accepted>>
    /\ UNCHANGED clientVars

\* <-p.inflight: would block for ever on an empty channel.
CallbackReleases ==
    /\ Running /\ promise.step = "release"
    /\ inflight > 0
    /\ inflight' = inflight - 1
    /\ promise' = [promise EXCEPT !.step = "count"]
    /\ UNCHANGED <<call, at, full, gauge, buffered, topic, count, dropped, accepted>>
    /\ UNCHANGED clientVars

\* A callback that returns on an error before it counts and logs it.
CallbackSilentOnError ==
    /\ Running /\ promise.step = "count"
    /\ gauge' = gauge - 1
    /\ IF promise.result = "ok" THEN Bump("published") ELSE UNCHANGED count
    /\ promise' = [promise EXCEPT !.step = "unbuffer"]
    /\ UNCHANGED <<call, at, full, inflight, buffered, topic, dropped, accepted>>
    /\ UNCHANGED clientVars

CallbackCounts ==
    /\ Running /\ promise.step = "count"
    /\ gauge' = gauge - 1
    /\ IF promise.result = "ok"
       THEN Bump("published") /\ UNCHANGED dropped
       ELSE /\ Bump("produce_failed")
            /\ dropped' = dropped \cup {<<promise.rec, promise.result>>}
    /\ promise' = [promise EXCEPT !.step = "unbuffer"]
    /\ UNCHANGED <<call, at, full, inflight, buffered, topic, accepted>>
    /\ UNCHANGED clientVars

\* The client forgets a record only after its callback has returned.
Unbuffer ==
    /\ Running /\ promise.step = "unbuffer"
    /\ buffered' = buffered \ {promise.rec}
    /\ promise' = NoPromise
    /\ UNCHANGED <<call, at, full, inflight, gauge, topic, count, dropped, accepted>>
    /\ UNCHANGED clientVars

-----------------------------------------------------------------------------
(* cmd/collector: run *)

Terminate ==
    /\ server = "serving"
    /\ server' = "draining"
    /\ UNCHANGED <<try, attempts, reply, call, at, full, sem, inflight, gauge, count, gone, crashes>>
    /\ UNCHANGED kafkaVars

\* A stop that does not wait for the handlers.
CloseProducerAtOnce ==
    /\ server = "draining"
    /\ server' = "closing"
    /\ UNCHANGED <<try, attempts, reply, call, at, full, sem, inflight, gauge, count, gone, crashes>>
    /\ UNCHANGED kafkaVars

\* GracefulStop has returned, producer.Close() is called.
CloseProducer ==
    /\ server = "draining"
    /\ \A c \in Clients : call[c] = "none"
    /\ server' = "closing"
    /\ UNCHANGED <<try, attempts, reply, call, at, full, sem, inflight, gauge, count, gone, crashes>>
    /\ UNCHANGED kafkaVars

\* run returns: callbacks that have not run by then never do.
Exit ==
    /\ server = "closing"
    /\ server' = "exited"
    /\ gone' = gone \cup buffered
    /\ UNCHANGED <<try, attempts, reply, call, at, full, sem, inflight, gauge, count, crashes>>
    /\ UNCHANGED kafkaVars

\* The process dies (or run returns a listener's error) and is started again.
Crash ==
    /\ Running
    /\ crashes < MaxCrashes
    /\ crashes' = crashes + 1
    /\ server' = "serving"
    /\ reply' = [c \in Clients |-> IF call[c] = "none" THEN reply[c] ELSE "lost"]
    /\ call' = [c \in Clients |-> "none"]
    /\ at' = [c \in Clients |-> 1]
    /\ full' = [c \in Clients |-> FALSE]
    /\ sem' = 0 /\ inflight' = 0 /\ gauge' = 0
    /\ buffered' = {} /\ promise' = NoPromise
    /\ gone' = gone \cup buffered
    /\ count' = Zero
    /\ UNCHANGED <<try, attempts, topic, dropped, accepted>>

-----------------------------------------------------------------------------

Handler(c) ==
    \/ SkipInvalid(c) \/ BufferFull(c) \/ AcquireSlot(c) \/ IncGauge(c)
    \/ MarshalFails(c) \/ Unwind(c) \/ Produce(c) \/ Return(c)

Callback == CallbackReleases \/ CallbackCounts \/ Unbuffer

Next ==
    \/ \E c \in Clients : Admit(c) \/ RejectCall(c) \/ Handler(c)
    \/ \E r \in Record : BrokerAppends(r) \/ StartPromise(r)
    \/ Callback
    \/ Terminate \/ CloseProducer \/ Exit \/ Crash

Spec == Init /\ [][Next]_vars

\* The callback of a record whose fate is known: the broker has answered, or
\* the client is closed.
Settle(r) == StartPromise(r) /\ promise'.result # "timeout"

\* Goroutines are scheduled and the client calls back for what is settled.
\* RecordDeliveryTimeout is not relied on: the producer is idempotent, and the
\* client fails a record only when that is safe, which a record sent and not
\* answered is not.  Nothing is assumed of the clients or of SIGTERM.
Fairness ==
    /\ \A c \in Clients : WF_vars(Handler(c))
    /\ WF_vars(\E r \in Record : Settle(r))
    /\ WF_vars(Callback)
    /\ WF_vars(CloseProducer) /\ WF_vars(Exit)

\* The broker may be away for any time, but not for ever.
BrokerAnswers == WF_vars(\E r \in Record : BrokerAppends(r))

FairSpec == Spec /\ Fairness

-----------------------------------------------------------------------------
(* Properties *)

TypeOK ==
    /\ server \in {"serving", "draining", "closing", "exited"}
    /\ attempts \in 0..MaxAttempts /\ try \in [Clients -> 0..attempts]
    /\ reply \in [Clients -> {"none", "ok", "exhausted", "lost"}]
    /\ call \in [Clients -> {"none", "span", "acquired", "marshal", "unwind"}]
    /\ at \in [Clients -> Nat] /\ \A c \in Clients : at[c] \in 1..Len(Request[c]) + 1
    /\ full \in [Clients -> BOOLEAN]
    /\ sem \in 0..MaxConcurrentExports
    /\ inflight \in 0..MaxInFlight
    /\ gauge \in Nat
    /\ buffered \subseteq Record /\ topic \subseteq Record
    /\ accepted \subseteq Record /\ gone \subseteq Record
    /\ dropped \subseteq Record \X {"timeout", "closed"}
    /\ count \in [Counters -> Nat]
    /\ crashes \in 0..MaxCrashes
    /\ \/ promise = NoPromise
       \/ promise \in [rec : Record, result : {"ok", "timeout", "closed"},
                       step : {"release", "count", "unbuffer"}]

At(l) == {c \in Clients : call[c] = l}

\* Records whose callback has not given the slot back.
Holding == IF promise.step \in {"count", "unbuffer"}
           THEN buffered \ {promise.rec} ELSE buffered

\* Every taken slot belongs to exactly one span on its way to an answer from
\* Kafka, and every place of the admission semaphore to one running handler:
\* no path through PublishSpan, its error return or the callback keeps a slot
\* or gives one back twice (producer.go:75-112, admission.go:53-59).
SlotsConserved ==
    /\ inflight = Cardinality(At("acquired")) + Cardinality(At("marshal"))
                  + Cardinality(Holding)
    /\ sem = Cardinality({c \in Clients : call[c] # "none"})

\* The client library's own buffer is never at its limit when Produce is
\* called, so PublishSpan "does not block" even though a record leaves that
\* buffer only after its slot was given to another span (producer.go:53-56,
\* 73-74).
ProduceNeverBlocks ==
    At("marshal") # {} => Cardinality(buffered) < MaxBufferedRecords

\* The gauge of in-flight messages counts the slots in use, give or take the
\* spans between the two updates, and never goes below zero or stays up
\* (producer.go:82, 86-87, 97-98).
GaugeTracksSlots ==
    gauge + Cardinality(At("acquired"))
      = inflight + Cardinality(At("unwind"))
        + (IF promise.step = "count" THEN 1 ELSE 0)

\* Every span received is counted exactly once as invalid, refused, failed to
\* marshal, failed to produce or published, or is still on its way: the
\* counters leave no silent loss while the process lives (receiver.go:57-78,
\* producer.go:79-108).
SpansAccounted ==
    count["received"] =
        count["invalid"] + count["buffer_full"] + count["marshal_error"]
      + count["produce_failed"] + count["published"]
      + Cardinality({c \in Clients : call[c] \in {"acquired", "marshal", "unwind"}})
      + Cardinality(IF promise.step = "unbuffer"
                    THEN buffered \ {promise.rec} ELSE buffered)

\* The books balance at every step of handlers and callbacks: slots, places,
\* gauge and counters account for the same spans, and Produce finds room.
BooksBalance ==
    TypeOK /\ SlotsConserved /\ ProduceNeverBlocks /\ GaugeTracksSlots /\ SpansAccounted

\* A request answered with success had every valid span accepted, and each of
\* them is in the topic, still in the client, in the "span publish failed,
\* dropped" log, or was in memory when a process ended: no span vanishes
\* between the answer and the broker (receiver.go:86-90, producer.go:100-106).
SuccessIsTraceable ==
    \A c \in Clients : reply[c] = "ok" =>
        \A i \in {j \in DOMAIN Request[c] : Request[c][j] = "good"} :
            LET r == <<c, try[c], i>>
            IN /\ r \in accepted
               /\ \/ r \in topic \cup buffered \cup gone
                  \/ \E why \in {"timeout", "closed"} : <<r, why>> \in dropped

\* ResourceExhausted asks the client to send the whole request again, which
\* duplicates what was published; it is answered only when some span of
\* the attempt was not taken, or none was looked at (receiver.go:48-52, 86-88).
ExhaustedMeansRefused ==
    \A c \in Clients : (reply[c] = "exhausted" /\ Request[c] # <<>>) =>
        \E i \in DOMAIN Request[c] : <<c, try[c], i>> \notin accepted

\* Both answers of Export mean what they say (receiver.go:80-90).
AnswersAreHonest == SuccessIsTraceable /\ ExhaustedMeansRefused

\* Nothing is handed to the client once it is closed: GracefulStop waits for
\* every handler before producer.Close (main.go:115-129).
NoProduceAfterClose ==
    [][accepted' # accepted => server \in {"serving", "draining"}]_vars

\* After its last request the process comes back to rest with every slot and
\* place free, provided the broker comes back: what the callback returns is
\* returned for every record, however late its answer (producer.go:94-108).
SlotsComeBack ==
    BrokerAnswers =>
        <>[](server = "exited" \/ (sem = 0 /\ inflight = 0 /\ gauge = 0))

\* A SIGTERM ends the process even when the broker never answers again, because
\* no handler ever waits on Kafka (main.go:115-132).
StopEnds == server = "draining" ~> server \in {"exited", "serving"}

\* The collector comes to rest: every slot comes back once the broker answers,
\* every stop ends whether it does or not.
ComesToRest == SlotsComeBack /\ StopEnds

=============================================================================
