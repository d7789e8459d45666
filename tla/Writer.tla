------------------------------- MODULE Writer -------------------------------
(***************************************************************************)
(* The ClickHouse writer (writer/internal/consumer): replicas of one       *)
(* process, all members of one Kafka consumer group, that move spans from  *)
(* the "spans" topic to ClickHouse.                                        *)
(*                                                                         *)
(* A replica runs three goroutines over shared state:                      *)
(*   - fetchLoop polls Kafka and pushes decoded records, one at a time,    *)
(*     onto a bounded queue (poll, queue);                                 *)
(*   - batchLoop takes them off the queue into a batch and flushes it when *)
(*     full, when due by time, and once more on shutdown (batch, loop);    *)
(*   - franz-go's group goroutine calls OnPartitionsRevoked, which also    *)
(*     flushes, and OnPartitionsLost, which drops the batch (callback).    *)
(* flush is guarded by flushMu (lock): it drains the batch (flight),       *)
(* inserts it, retrying with backoff, and then commits its offsets.        *)
(*                                                                         *)
(* A record is <<partition, offset>>: what the properties tell apart. The  *)
(* topic is a finite log that is there from the start; a Poll that returns *)
(* fewer records than there are stands for one that came before the rest.  *)
(* Time is abstract: a timer that may have fired may fire.                 *)
(***************************************************************************)
EXTENDS Naturals, Sequences, FiniteSets, Functions

CONSTANTS
    Members,        \* the writer replicas
    Partitions,     \* the partitions of the topic
    LogLength,      \* records in each partition: offsets 0 .. LogLength - 1
    Undecodable,    \* the records whose value is no valid span
    QueueCapacity,  \* Options.QueueCapacity
    BatchMaxSize,   \* Options.MaxBatchSize
    MaxShutdowns,   \* bound: SIGTERMs (each replica stop is one)
    MaxCrashes,     \* bound: replicas killed without warning
    MaxEvictions,   \* bound: members the coordinator expels (timeouts)
    MaxRevocations, \* bound: revocations by the coordinator
    NoMember        \* the owner of a partition nobody owns

Record == Partitions \X (0 .. LogLength - 1)

ASSUME WriterAssumption ==
    /\ NoMember \notin Members
    /\ LogLength \in Nat
    /\ Undecodable \subseteq Record
    /\ QueueCapacity \in Nat \ {0}
    /\ BatchMaxSize \in Nat \ {0}
    /\ MaxShutdowns \in Nat /\ MaxCrashes \in Nat
    /\ MaxEvictions \in Nat /\ MaxRevocations \in Nat

VARIABLES
    \* Kafka and ClickHouse, as the writers see them
    committed,  \* partition -> the group's committed offset
    stored,     \* the records ClickHouse holds
    inGroup,    \* the members whose generation the coordinator accepts
    owner,      \* partition -> the member the coordinator gave it to
    \* each replica
    up,         \* "running", "stopping" (its ctx is done) or "down"
    assigned,   \* the partitions its client fetches from
    pos,        \* partition -> the next offset its client fetches
    poll,       \* what is left to push of the fetches EachRecord walks
    queue,      \* boundedqueue.Queue
    batch,      \* batcher.Batch
    loop,       \* batchLoop: "select", "flush", "final" or "exited"
    callback,   \* the group goroutine: "idle", "revoke", "lost", "left"
    lock,       \* who holds flushMu: "free", "loop" or "callback"
    phase,      \* the flush in progress: "none", "insert", "backoff", "commit"
    flight,     \* the rows that flush has drained
    \* history and bounds
    dropped,    \* site -> records that left memory there without being stored
    budget      \* kind of fault -> how many may still happen

groupVars  == <<inGroup, owner>>
fetchVars  == <<assigned, pos, poll>>
flushVars  == <<lock, phase, flight>>
memberVars == <<up, fetchVars, queue, batch, loop, callback, flushVars>>
vars == <<committed, stored, groupVars, memberVars, dropped, budget>>

(***************************************************************************)
(* The three places of consumer.go where a record leaves memory unstored   *)
(* while its process lives on.                                             *)
(***************************************************************************)
DropSites == {"push", "flush", "lost"}
FaultKinds == {"shutdown", "crash", "eviction", "revocation"}

Dropped == UNION Range(dropped)

\* What a commit may pass over: stored, never decodable, or dropped.
Done == stored \cup Undecodable \cup Dropped

Live(m) == up[m] # "down"

Spend(kind) ==
    /\ budget[kind] > 0
    /\ budget' = [budget EXCEPT ![kind] = @ - 1]

Drop(site, records) ==
    dropped' = [dropped EXCEPT ![site] = @ \cup records]

-----------------------------------------------------------------------------
(* fetchLoop                                                               *)

\* PollFetches returns what the client has buffered: for every assigned
\* partition a run, possibly empty, from its position on.
Poll(m) ==
    /\ up[m] = "running"
    /\ poll[m] = {}
    /\ \E next \in [assigned[m] -> 0 .. LogLength] :
          LET fetched == { r \in Record : /\ r[1] \in assigned[m]
                                          /\ pos[m][r[1]] <= r[2]
                                          /\ r[2] < next[r[1]] }
          IN  /\ fetched # {}
              /\ poll' = [poll EXCEPT ![m] = fetched]
              /\ pos' = [pos EXCEPT ![m] =
                           [p \in Partitions |->
                              IF p \in assigned[m] /\ next[p] > pos[m][p]
                              THEN next[p] ELSE pos[m][p]]]
    /\ UNCHANGED <<committed, stored, groupVars, up, assigned, queue, batch,
                   loop, callback, flushVars, dropped, budget>>

\* EachRecord walks a partition's records in offset order; in which order it
\* takes the partitions is left open.
NextOfPoll(m, r) ==
    /\ r \in poll[m]
    /\ \A s \in poll[m] : s[1] = r[1] => r[2] <= s[2]

\* The body of EachRecord: a record that does not decode is skipped; Push
\* blocks while the queue is full, and once ctx is done its select may give
\* up on the record even when there is room. The error is ignored: the walk
\* goes on with the next record.
SkipUndecodable(m, r) ==
    /\ Live(m)
    /\ NextOfPoll(m, r)
    /\ r \in Undecodable
    /\ poll' = [poll EXCEPT ![m] = @ \ {r}]
    /\ UNCHANGED <<committed, stored, groupVars, up, assigned, pos, queue,
                   batch, loop, callback, flushVars, dropped, budget>>

\* Mutant of Push: a send that does not block drops the record when full.
PushNeverBlocks(m, r) ==
    /\ Live(m)
    /\ NextOfPoll(m, r)
    /\ r \notin Undecodable
    /\ poll' = [poll EXCEPT ![m] = @ \ {r}]
    /\ queue' = [queue EXCEPT ![m] =
                   IF Len(@) < QueueCapacity THEN Append(@, r) ELSE @]
    /\ UNCHANGED <<committed, stored, groupVars, up, assigned, pos, batch,
                   loop, callback, flushVars, dropped, budget>>

Push(m, r) ==
    /\ Live(m)
    /\ NextOfPoll(m, r)
    /\ r \notin Undecodable
    /\ Len(queue[m]) < QueueCapacity
    /\ poll' = [poll EXCEPT ![m] = @ \ {r}]
    /\ queue' = [queue EXCEPT ![m] = Append(@, r)]
    /\ UNCHANGED <<committed, stored, groupVars, up, assigned, pos, batch,
                   loop, callback, flushVars, dropped, budget>>

\* Mutant of PushCancelled: a send that does not select on ctx.Done.
PushIgnoresCtx(m, r) == FALSE

PushCancelled(m, r) ==
    /\ up[m] = "stopping"
    /\ NextOfPoll(m, r)
    /\ r \notin Undecodable
    /\ poll' = [poll EXCEPT ![m] = @ \ {r}]
    /\ Drop("push", {r})
    /\ UNCHANGED <<committed, stored, groupVars, up, assigned, pos, queue,
                   batch, loop, callback, flushVars, budget>>

-----------------------------------------------------------------------------
(* batchLoop: the three cases of its select                                *)

\* Mutant of Take: Add reports full one row too late.
TakeOneTooMany(m) ==
    /\ Live(m)
    /\ loop[m] = "select"
    /\ queue[m] # <<>>
    /\ queue' = [queue EXCEPT ![m] = Tail(@)]
    /\ batch' = [batch EXCEPT ![m] = Append(@, Head(queue[m]))]
    /\ loop' = [loop EXCEPT ![m] =
                  IF Len(batch[m]) >= BatchMaxSize THEN "flush" ELSE @]
    /\ UNCHANGED <<committed, stored, groupVars, up, fetchVars, callback,
                   flushVars, dropped, budget>>

\* Batch.Add is not guarded by flushMu: it may run while a callback flushes.
Take(m) ==
    /\ Live(m)
    /\ loop[m] = "select"
    /\ queue[m] # <<>>
    /\ queue' = [queue EXCEPT ![m] = Tail(@)]
    /\ batch' = [batch EXCEPT ![m] = Append(@, Head(queue[m]))]
    /\ loop' = [loop EXCEPT ![m] =
                  IF Len(batch[m]) + 1 >= BatchMaxSize THEN "flush" ELSE @]
    /\ UNCHANGED <<committed, stored, groupVars, up, fetchVars, callback,
                   flushVars, dropped, budget>>

\* Mutant of Tick: the timer flushes full batches only.
TickWhenFull(m) ==
    /\ Live(m)
    /\ loop[m] = "select"
    /\ Len(batch[m]) >= BatchMaxSize
    /\ loop' = [loop EXCEPT ![m] = "flush"]
    /\ UNCHANGED <<committed, stored, groupVars, up, fetchVars, queue, batch,
                   callback, flushVars, dropped, budget>>

Tick(m) ==
    /\ Live(m)
    /\ loop[m] = "select"
    /\ batch[m] # <<>>
    /\ loop' = [loop EXCEPT ![m] = "flush"]
    /\ UNCHANGED <<committed, stored, groupVars, up, fetchVars, queue, batch,
                   callback, flushVars, dropped, budget>>

\* Mutant of CtxDone: batchLoop returns without its last flush.
ReturnsUnflushed(m) ==
    /\ up[m] = "stopping"
    /\ loop[m] = "select"
    /\ loop' = [loop EXCEPT ![m] = "exited"]
    /\ UNCHANGED <<committed, stored, groupVars, up, fetchVars, queue, batch,
                   callback, flushVars, dropped, budget>>

CtxDone(m) ==
    /\ up[m] = "stopping"
    /\ loop[m] = "select"
    /\ loop' = [loop EXCEPT ![m] = "final"]
    /\ UNCHANGED <<committed, stored, groupVars, up, fetchVars, queue, batch,
                   callback, flushVars, dropped, budget>>

-----------------------------------------------------------------------------
(* flush, called by batchLoop and by the revoke callback                   *)

\* The caller goes on: batchLoop returns to its select, or out of it after
\* the last flush; the callback returns and the partitions it was called for
\* go back to the coordinator.
ReleaseRevoked(m) ==
    owner' = [p \in Partitions |-> IF owner[p] = m /\ p \notin assigned[m]
                                   THEN NoMember ELSE owner[p]]

LoopGoesOn(m) ==
    /\ loop' = [loop EXCEPT ![m] = IF @ = "final" THEN "exited" ELSE "select"]
    /\ UNCHANGED <<callback, owner>>

CallbackGoesOn(m) ==
    /\ callback' = [callback EXCEPT ![m] = "idle"]
    /\ ReleaseRevoked(m)
    /\ UNCHANGED loop

CallerGoesOn(m, caller) ==
    IF caller = "loop" THEN LoopGoesOn(m) ELSE CallbackGoesOn(m)

WantsFlush(m, caller) ==
    \/ caller = "loop" /\ loop[m] \in {"flush", "final"}
    \/ caller = "callback" /\ callback[m] = "revoke"

\* Drain found nothing: flush returns at once.
FlushNothing(m, caller) ==
    /\ Live(m)
    /\ WantsFlush(m, caller)
    /\ lock[m] = "free"
    /\ batch[m] = <<>>
    /\ CallerGoesOn(m, caller)
    /\ UNCHANGED <<committed, stored, inGroup, up, fetchVars, queue, batch,
                   flushVars, dropped, budget>>

\* Only batchLoop's own flushes get the ctx that SIGTERM cancels: the last
\* one gets context.Background() and the callback the client's context.
FlushCtxDone(m, caller) ==
    caller = "loop" /\ loop[m] = "flush" /\ up[m] = "stopping"

\* InsertRows is called. Under a ctx that is done PrepareBatch refuses and
\* nothing is sent: flush is at its select again. Only an insert begun before
\* SIGTERM may still be answered after it.
AttemptInsert(m, caller) ==
    phase' = [phase EXCEPT ![m] = IF FlushCtxDone(m, caller) THEN "backoff"
                                                             ELSE "insert"]

StartFlush(m, caller) ==
    /\ Live(m)
    /\ WantsFlush(m, caller)
    /\ lock[m] = "free"
    /\ batch[m] # <<>>
    /\ lock' = [lock EXCEPT ![m] = caller]
    /\ AttemptInsert(m, caller)
    /\ flight' = [flight EXCEPT ![m] = Range(batch[m])]
    /\ batch' = [batch EXCEPT ![m] = <<>>]
    /\ UNCHANGED <<committed, stored, groupVars, up, fetchVars, queue, loop,
                   callback, dropped, budget>>

InsertOk(m) ==
    /\ phase[m] = "insert"
    /\ stored' = stored \cup flight[m]
    /\ phase' = [phase EXCEPT ![m] = "commit"]
    /\ UNCHANGED <<committed, groupVars, up, fetchVars, queue, batch, loop,
                   callback, lock, flight, dropped, budget>>

\* Mutant of InsertFails: the error is logged and the batch committed.
InsertErrorIgnored(m) ==
    /\ phase[m] = "insert"
    /\ UNCHANGED stored
    /\ phase' = [phase EXCEPT ![m] = "commit"]
    /\ UNCHANGED <<committed, groupVars, up, fetchVars, queue, batch, loop,
                   callback, lock, flight, dropped, budget>>

\* An insert that fails may have stored any part of the rows: the error may
\* be that the answer did not come.
InsertFails(m) ==
    /\ phase[m] = "insert"
    /\ \E part \in SUBSET flight[m] : stored' = stored \cup part
    /\ phase' = [phase EXCEPT ![m] = "backoff"]
    /\ UNCHANGED <<committed, groupVars, up, fetchVars, queue, batch, loop,
                   callback, lock, flight, dropped, budget>>

BackoffElapsed(m) ==
    /\ phase[m] = "backoff"
    /\ AttemptInsert(m, lock[m])
    /\ UNCHANGED <<committed, stored, groupVars, up, fetchVars, queue, batch,
                   loop, callback, lock, flight, dropped, budget>>

ReleaseFlush(m) ==
    /\ lock' = [lock EXCEPT ![m] = "free"]
    /\ phase' = [phase EXCEPT ![m] = "none"]
    /\ flight' = [flight EXCEPT ![m] = {}]
    /\ CallerGoesOn(m, lock[m])

FlushAbandoned(m) ==
    /\ phase[m] = "backoff"
    /\ FlushCtxDone(m, lock[m])
    /\ Drop("flush", flight[m])
    /\ ReleaseFlush(m)
    /\ UNCHANGED <<committed, stored, inGroup, up, fetchVars, queue, batch,
                   budget>>

\* Mutant of CommitOffsets: the offset after the next one.
CommitOffsetsTooFar(records, offsets) ==
    \A p \in Partitions :
        IF \E r \in records : r[1] = p
        THEN /\ \E r \in records : r[1] = p /\ offsets[p] = r[2] + 2
             /\ \A r \in records : r[1] = p => r[2] + 1 < offsets[p]
        ELSE offsets[p] = committed[p]

\* CommitRecords commits, per partition, one past the largest offset of the
\* records, be that forward or back. The broker checks the member's
\* generation, not who owns the partition.
CommitOffsets(records, offsets) ==
    \A p \in Partitions :
        IF \E r \in records : r[1] = p
        THEN /\ \E r \in records : r[1] = p /\ offsets[p] = r[2] + 1
             /\ \A r \in records : r[1] = p => r[2] < offsets[p]
        ELSE offsets[p] = committed[p]

CommitOk(m) ==
    /\ phase[m] = "commit"
    /\ m \in inGroup
    /\ \E offsets \in [Partitions -> 0 .. LogLength] :
          CommitOffsets(flight[m], offsets) /\ committed' = offsets
    /\ ReleaseFlush(m)
    /\ UNCHANGED <<stored, inGroup, up, fetchVars, queue, batch, dropped,
                   budget>>

CommitFails(m) ==
    /\ phase[m] = "commit"
    /\ ReleaseFlush(m)
    /\ UNCHANGED <<committed, stored, inGroup, up, fetchVars, queue, batch,
                   dropped, budget>>

-----------------------------------------------------------------------------
(* the consumer group                                                      *)

\* The coordinator gives a free partition to a member, whose client starts
\* from the group's committed offset.
Assign(m, p) ==
    /\ Live(m)
    /\ m \in inGroup
    /\ callback[m] = "idle"
    /\ owner[p] = NoMember
    /\ owner' = [owner EXCEPT ![p] = m]
    /\ assigned' = [assigned EXCEPT ![m] = @ \cup {p}]
    /\ pos' = [pos EXCEPT ![m][p] = committed[p]]
    /\ UNCHANGED <<committed, stored, inGroup, up, poll, queue, batch, loop,
                   callback, flushVars, dropped, budget>>

\* The client stops fetching the revoked partitions and then calls
\* onPartitionsRevoked, which flushes: see FlushNothing and StartFlush.
Revoke(m) ==
    /\ Spend("revocation")
    /\ Live(m)
    /\ m \in inGroup
    /\ callback[m] = "idle"
    /\ \E revoked \in SUBSET assigned[m] \ {{}} :
          assigned' = [assigned EXCEPT ![m] = @ \ revoked]
    /\ callback' = [callback EXCEPT ![m] = "revoke"]
    /\ UNCHANGED <<committed, stored, groupVars, up, pos, poll, queue, batch,
                   loop, flushVars, dropped>>

\* A session or rebalance timeout: the coordinator takes the partitions away
\* and refuses the member's generation; the member does not know yet.
LeavesGroup(m) ==
    /\ inGroup' = inGroup \ {m}
    /\ owner' = [p \in Partitions |-> IF owner[p] = m THEN NoMember
                                      ELSE owner[p]]

Evict(m) ==
    /\ Spend("eviction")
    /\ Live(m)
    /\ m \in inGroup
    /\ LeavesGroup(m)
    /\ UNCHANGED <<committed, stored, memberVars, dropped>>

\* The member learns of it: its client calls onPartitionsLost, which waits for
\* flushMu and drops the batch, and only then forgets its partitions and joins
\* anew; until then polls go on.
Lost(m) ==
    /\ Live(m)
    /\ m \notin inGroup
    /\ callback[m] = "idle"
    /\ callback' = [callback EXCEPT ![m] = "lost"]
    /\ UNCHANGED <<committed, stored, groupVars, up, fetchVars, queue, batch,
                   loop, flushVars, dropped, budget>>

DropLostBatch(m) ==
    /\ callback[m] = "lost"
    /\ lock[m] = "free"
    /\ Drop("lost", Range(batch[m]))
    /\ batch' = [batch EXCEPT ![m] = <<>>]
    /\ callback' = [callback EXCEPT ![m] = "left"]
    /\ UNCHANGED <<committed, stored, groupVars, up, fetchVars, queue, loop,
                   flushVars, budget>>

Rejoin(m) ==
    /\ callback[m] = "left"
    /\ callback' = [callback EXCEPT ![m] = "idle"]
    /\ assigned' = [assigned EXCEPT ![m] = {}]
    /\ inGroup' = inGroup \cup {m}
    /\ UNCHANGED <<committed, stored, owner, up, pos, poll, queue, batch,
                   loop, flushVars, dropped, budget>>

-----------------------------------------------------------------------------
(* the life of a replica                                                   *)

\* All a process holds in memory is gone with it.
Ends(m) ==
    /\ up' = [up EXCEPT ![m] = "down"]
    /\ assigned' = [assigned EXCEPT ![m] = {}]
    /\ pos' = [pos EXCEPT ![m] = [p \in Partitions |-> 0]]
    /\ poll' = [poll EXCEPT ![m] = {}]
    /\ queue' = [queue EXCEPT ![m] = <<>>]
    /\ batch' = [batch EXCEPT ![m] = <<>>]
    /\ loop' = [loop EXCEPT ![m] = "select"]
    /\ callback' = [callback EXCEPT ![m] = "idle"]
    /\ lock' = [lock EXCEPT ![m] = "free"]
    /\ phase' = [phase EXCEPT ![m] = "none"]
    /\ flight' = [flight EXCEPT ![m] = {}]
    /\ LeavesGroup(m)

\* SIGTERM: signal.NotifyContext cancels ctx.
Shutdown(m) ==
    /\ Spend("shutdown")
    /\ up[m] = "running"
    /\ up' = [up EXCEPT ![m] = "stopping"]
    /\ UNCHANGED <<committed, stored, groupVars, fetchVars, queue, batch,
                   loop, callback, flushVars, dropped>>

\* Run returns once both loops have: fetchLoop leaves when EachRecord is
\* through. Close leaves the group; the flush of the revoke callback it runs
\* finds the batch empty (see ExitedLoopLeavesNoBatch).
Close(m) ==
    /\ up[m] = "stopping"
    /\ loop[m] = "exited"
    /\ poll[m] = {}
    /\ callback[m] \in {"idle", "left"}
    /\ Ends(m)
    /\ UNCHANGED <<committed, stored, dropped, budget>>

Crash(m) ==
    /\ Spend("crash")
    /\ Live(m)
    /\ Ends(m)
    /\ UNCHANGED <<committed, stored, dropped>>

Start(m) ==
    /\ up[m] = "down"
    /\ up' = [up EXCEPT ![m] = "running"]
    /\ inGroup' = inGroup \cup {m}
    /\ UNCHANGED <<committed, stored, owner, fetchVars, queue, batch, loop,
                   callback, flushVars, dropped, budget>>

-----------------------------------------------------------------------------
Init ==
    /\ committed = [p \in Partitions |-> 0]
    /\ stored = {}
    /\ inGroup = {}
    /\ owner = [p \in Partitions |-> NoMember]
    /\ up = [m \in Members |-> "down"]
    /\ assigned = [m \in Members |-> {}]
    /\ pos = [m \in Members |-> [p \in Partitions |-> 0]]
    /\ poll = [m \in Members |-> {}]
    /\ queue = [m \in Members |-> <<>>]
    /\ batch = [m \in Members |-> <<>>]
    /\ loop = [m \in Members |-> "select"]
    /\ callback = [m \in Members |-> "idle"]
    /\ lock = [m \in Members |-> "free"]
    /\ phase = [m \in Members |-> "none"]
    /\ flight = [m \in Members |-> {}]
    /\ dropped = [s \in DropSites |-> {}]
    /\ budget = [shutdown |-> MaxShutdowns, crash |-> MaxCrashes,
                 eviction |-> MaxEvictions, revocation |-> MaxRevocations]

FetchLoop(m) ==
    \/ Poll(m)
    \/ \E r \in poll[m] :
          SkipUndecodable(m, r) \/ Push(m, r) \/ PushCancelled(m, r)

BatchLoop(m) == Take(m) \/ Tick(m) \/ CtxDone(m)

Flush(m) ==
    \/ \E caller \in {"loop", "callback"} :
          FlushNothing(m, caller) \/ StartFlush(m, caller)
    \/ InsertOk(m) \/ InsertFails(m) \/ BackoffElapsed(m)
    \/ FlushAbandoned(m) \/ CommitOk(m) \/ CommitFails(m)

Group(m) ==
    \/ \E p \in Partitions : Assign(m, p)
    \/ Revoke(m) \/ Evict(m) \/ Lost(m) \/ DropLostBatch(m) \/ Rejoin(m)

Process(m) == Shutdown(m) \/ Close(m) \/ Crash(m) \/ Start(m)

Next ==
    \E m \in Members :
        FetchLoop(m) \/ BatchLoop(m) \/ Flush(m) \/ Group(m) \/ Process(m)

Spec == Init /\ [][Next]_vars

-----------------------------------------------------------------------------
(* Type and safety                                                         *)

\* Every variable has its type, and a member that is down holds nothing.
TypeOK ==
    /\ committed \in [Partitions -> 0 .. LogLength]
    /\ stored \subseteq Record
    /\ inGroup \subseteq Members
    /\ owner \in [Partitions -> Members \cup {NoMember}]
    /\ up \in [Members -> {"running", "stopping", "down"}]
    /\ assigned \in [Members -> SUBSET Partitions]
    /\ pos \in [Members -> [Partitions -> 0 .. LogLength]]
    /\ poll \in [Members -> SUBSET Record]
    /\ queue \in [Members -> Seq(Record)]
    /\ batch \in [Members -> Seq(Record)]
    /\ loop \in [Members -> {"select", "flush", "final", "exited"}]
    /\ callback \in [Members -> {"idle", "revoke", "lost", "left"}]
    /\ lock \in [Members -> {"free", "loop", "callback"}]
    /\ phase \in [Members -> {"none", "insert", "backoff", "commit"}]
    /\ flight \in [Members -> SUBSET Record]
    /\ dropped \in [DropSites -> SUBSET Record]
    /\ budget \in [FaultKinds -> Nat]

\* No replica has been told to stop or been expelled from the group so far.
NobodyStopped ==
    /\ budget["shutdown"] = MaxShutdowns
    /\ budget["eviction"] = MaxEvictions

\* At-least-once as the code and ARCHITECTURE.md promise it: a committed
\* offset never passes a decodable record that ClickHouse does not hold
\* (flush commits only what it has inserted, consumer.go:187-216), whatever
\* crashes, outages, failed commits and revocations there are.
CommittedAreStored ==
    NobodyStopped =>
        \A r \in Record :
            r[2] < committed[r[1]] => r \in stored \cup Undecodable

\* What the code does when replicas are stopped and expelled: a committed
\* offset passes only records that are stored, do not decode, or were dropped
\* at one of the three DropSites; no interleaving loses one anywhere else.
LossOnlyAtDropSites ==
    \A r \in Record : r[2] < committed[r[1]] => r \in Done

\* "Stall, never buffer unboundedly" (boundedqueue/queue.go:1-5): while a
\* flush holds flushMu through an outage the rows in memory stay bounded, even
\* though Add does not take flushMu.
MemoryBounded ==
    \A m \in Members :
        /\ Len(batch[m]) <= BatchMaxSize
        /\ Len(queue[m]) <= QueueCapacity
        /\ Cardinality(flight[m]) <= BatchMaxSize

\* After batchLoop has returned nothing is left in the batch, so Close's
\* revoke callback has nothing to flush (cmd/writer/main.go:108-115).
ExitedLoopLeavesNoBatch ==
    \A m \in Members : loop[m] = "exited" => batch[m] = <<>>

\* A record can still reach ClickHouse: some process holds it, or a client
\* that owns its partition has not fetched it, or it will be fetched from the
\* committed offset.
Held(m) == poll[m] \cup Range(queue[m]) \cup Range(batch[m]) \cup flight[m]

Deliverable(r) ==
    \/ committed[r[1]] <= r[2]
    \/ \E m \in Members : r \in Held(m)
    \/ \E m \in Members : r[1] \in assigned[m] /\ pos[m][r[1]] <= r[2]

-----------------------------------------------------------------------------
(* The inductive invariant behind LossOnlyAtDropSites                      *)

\* The records of r's partition before r are done or in the set held.
Covered(r, held) ==
    \A s \in Record : s[1] = r[1] /\ s[2] < r[2] => s \in Done \cup held

\* A member's memory is a pipeline, flight <- batch <- queue <- poll, and no
\* stage holds a record unless everything before it in its partition is done,
\* in the same stage ahead of it, or in a stage further on.
FlightCovered(m) == \A r \in flight[m] : Covered(r, flight[m])

BatchCovered(m) ==
    \A r \in Range(batch[m]) : Covered(r, flight[m] \cup Range(batch[m]))

QueueCovered(m) ==
    \A i \in 1 .. Len(queue[m]) :
        Covered(queue[m][i], flight[m] \cup Range(batch[m])
                              \cup { queue[m][j] : j \in 1 .. (i - 1) })

PollCovered(m) == \A r \in poll[m] : Covered(r, Held(m))

PosCovered(m) ==
    \A r \in Record : r[1] \in assigned[m] /\ r[2] < pos[m][r[1]]
                        => r \in Done \cup Held(m)

CoverInv(m) ==
    /\ FlightCovered(m) /\ BatchCovered(m) /\ QueueCovered(m)
    /\ PollCovered(m) /\ PosCovered(m)

\* flushMu: only its holder has rows in flight, it is still in its flush, and
\* it commits only rows it has stored. A member that is down holds nothing.
FlushConsistent(m) ==
    /\ lock[m] = "free" <=> phase[m] = "none"
    /\ lock[m] = "free" => flight[m] = {}
    /\ lock[m] = "loop" => loop[m] \in {"flush", "final"}
    /\ lock[m] = "callback" => callback[m] = "revoke"
    /\ phase[m] = "commit" => flight[m] \subseteq stored
    /\ up[m] = "down" => /\ poll[m] = {} /\ queue[m] = <<>> /\ batch[m] = <<>>
                         /\ assigned[m] = {} /\ lock[m] = "free"
                         /\ callback[m] = "idle" /\ loop[m] = "select"

PipelineInv == \A m \in Members : CoverInv(m) /\ FlushConsistent(m)

IInv == TypeOK /\ PipelineInv /\ LossOnlyAtDropSites

-----------------------------------------------------------------------------
(* The abstract promise                                                    *)

\* Every step of the writers is a step of AtLeastOnce or changes nothing it
\* sees, when a record that leaves memory at a DropSite counts as delivered;
\* without such drops, what is delivered is exactly what is stored.
Promise == INSTANCE AtLeastOnce WITH delivered <- stored \cup Dropped

PromiseKept == Promise!Spec

-----------------------------------------------------------------------------
(* What comments and documents say of the drops                            *)

\* flush, on shutdown: "Offsets are uncommitted, so this batch is safely
\* redelivered to whoever consumes next" (consumer.go:192-193).
AbandonedBatchRedelivered ==
    \A r \in dropped["flush"] : r \in stored \/ Deliverable(r)

-----------------------------------------------------------------------------
(* Liveness                                                                *)
(*                                                                         *)
(* Goroutines are scheduled fairly and Go's select chooses at random among *)
(* the cases that are ready, so one that is ready again and again is taken *)
(* in the end (SF); sync.Mutex starves nobody (SF on the flush's start).   *)
(* The group coordinator gives a free partition away, a stopped replica is *)
(* restarted (deploy/docker-compose.yml), and a member that lost its group *)
(* notices. Whether ClickHouse ever accepts an insert is a separate        *)
(* assumption: InsertsSucceed.                                             *)

Fairness ==
    /\ \A m \in Members :
          /\ WF_vars(Poll(m))
          /\ WF_vars(\E r \in poll[m] : SkipUndecodable(m, r) \/ Push(m, r)
                                          \/ PushCancelled(m, r))
          /\ SF_vars(Take(m)) /\ SF_vars(Tick(m)) /\ SF_vars(CtxDone(m))
          /\ SF_vars(\E caller \in {"loop", "callback"} :
                        FlushNothing(m, caller) \/ StartFlush(m, caller))
          /\ WF_vars(InsertOk(m) \/ InsertFails(m))
          /\ WF_vars(BackoffElapsed(m) \/ FlushAbandoned(m))
          /\ WF_vars(CommitOk(m) \/ CommitFails(m))
          /\ WF_vars(Lost(m)) /\ SF_vars(DropLostBatch(m))
          /\ WF_vars(Rejoin(m)) /\ WF_vars(Close(m)) /\ WF_vars(Start(m))
    /\ \A p \in Partitions : WF_vars(\E m \in Members : Assign(m, p))

\* ClickHouse may fail any number of inserts, but not all of them for ever.
InsertsSucceed == \A m \in Members : SF_vars(InsertOk(m))

FairSpec == Spec /\ Fairness

FairSpecUp == FairSpec /\ InsertsSucceed

\* Every decodable span is stored in the end, whatever crashes, revocations,
\* failed inserts and failed commits come in between, unless a stop or an
\* expulsion made its process give it up.
EverySpanStored ==
    \A r \in Record \ Undecodable : <>(r \in stored \cup Dropped)

\* A replica told to stop stops: fetchLoop gets through what it has fetched
\* even though nobody takes from the queue any more, and the last flush ends
\* with nothing left in the batch.
StopEnds ==
    /\ \A m \in Members : up[m] = "stopping" ~> up[m] = "down"
    /\ []ExitedLoopLeavesNoBatch
=============================================================================
