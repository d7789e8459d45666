---------------------------- MODULE WriterProofs ----------------------------
(***************************************************************************)
(* Proofs about Writer, for every set of members and partitions and every  *)
(* length of log, queue and batch.                                         *)
(***************************************************************************)
EXTENDS Writer, Lemmas

USE WriterAssumption

-----------------------------------------------------------------------------
(* Type correctness                                                        *)

\* The types hold at the start.
LEMMA InitTypeOK == Init => TypeOK
  BY DEF Init, TypeOK, DropSites, FaultKinds

\* The poll loop keeps them.
LEMMA FetchLoopTypeOK ==
  ASSUME TypeOK, NEW m \in Members, FetchLoop(m)
  PROVE  TypeOK'
<1>1. CASE Poll(m)
  <2>1. PICK next \in [assigned[m] -> 0 .. LogLength],
             fetched \in SUBSET Record :
          /\ poll' = [poll EXCEPT ![m] = fetched]
          /\ pos' = [pos EXCEPT ![m] =
                       [p \in Partitions |->
                          IF p \in assigned[m] /\ next[p] > pos[m][p]
                          THEN next[p] ELSE pos[m][p]]]
    BY <1>1 DEF Poll
  <2>2. [p \in Partitions |-> IF p \in assigned[m] /\ next[p] > pos[m][p]
                              THEN next[p] ELSE pos[m][p]]
          \in [Partitions -> 0 .. LogLength]
    BY DEF TypeOK
  <2>3. /\ poll' \in [Members -> SUBSET Record]
        /\ pos' \in [Members -> [Partitions -> 0 .. LogLength]]
    BY <2>1, <2>2 DEF TypeOK
  <2>4. QED
    BY <1>1, <2>3 DEF TypeOK, Poll, groupVars, flushVars
<1>2. ASSUME NEW r \in poll[m], SkipUndecodable(m, r)
      PROVE  TypeOK'
  BY <1>2 DEF TypeOK, SkipUndecodable, groupVars, flushVars
<1>3. ASSUME NEW r \in poll[m], Push(m, r)
      PROVE  TypeOK'
  <2>1. r \in Record /\ queue[m] \in Seq(Record)
    BY DEF TypeOK
  <2>2. Append(queue[m], r) \in Seq(Record)
    BY <2>1
  <2>3. QED
    BY <1>3, <2>2 DEF TypeOK, Push, groupVars, flushVars
<1>4. ASSUME NEW r \in poll[m], PushCancelled(m, r)
      PROVE  TypeOK'
  <2>1. {r} \subseteq Record
    BY DEF TypeOK
  <2>2. dropped' \in [DropSites -> SUBSET Record]
    BY <1>4, <2>1 DEF TypeOK, PushCancelled, Drop
  <2>3. QED
    BY <1>4, <2>2 DEF TypeOK, PushCancelled, groupVars, flushVars
<1>5. QED
  BY <1>1, <1>2, <1>3, <1>4 DEF FetchLoop

\* The batch loop keeps them.
LEMMA BatchLoopTypeOK ==
  ASSUME TypeOK, NEW m \in Members, BatchLoop(m)
  PROVE  TypeOK'
<1>1. CASE Take(m)
  <2>1. queue[m] \in Seq(Record) /\ batch[m] \in Seq(Record) /\ queue[m] # <<>>
    BY <1>1 DEF TypeOK, Take
  <2>2. Tail(queue[m]) \in Seq(Record) /\ Head(queue[m]) \in Record
    BY <2>1, RangeHeadTail
  <2>3. Append(batch[m], Head(queue[m])) \in Seq(Record)
    BY <2>1, <2>2
  <2>4. QED
    BY <1>1, <2>2, <2>3 DEF TypeOK, Take, groupVars, fetchVars, flushVars
<1>2. CASE Tick(m)
  BY <1>2 DEF TypeOK, Tick, groupVars, fetchVars, flushVars
<1>3. CASE CtxDone(m)
  BY <1>3 DEF TypeOK, CtxDone, groupVars, fetchVars, flushVars
<1>4. QED
  BY <1>1, <1>2, <1>3 DEF BatchLoop

\* Whoever called flush goes on within the types.
LEMMA CallerGoesOnTypeOK ==
  ASSUME TypeOK, NEW m \in Members, NEW caller, CallerGoesOn(m, caller)
  PROVE  /\ loop' \in [Members -> {"select", "flush", "final", "exited"}]
         /\ callback' \in [Members -> {"idle", "revoke", "lost", "left"}]
         /\ owner' \in [Partitions -> Members \cup {NoMember}]
<1>1. CASE LoopGoesOn(m)
  BY <1>1 DEF TypeOK, LoopGoesOn
<1>2. CASE CallbackGoesOn(m)
  BY <1>2 DEF TypeOK, CallbackGoesOn, ReleaseRevoked
<1>3. QED
  BY <1>1, <1>2 DEF CallerGoesOn

\* Giving up the flush lock leaves what it touches well typed.
LEMMA ReleaseFlushTypeOK ==
  ASSUME TypeOK, NEW m \in Members, ReleaseFlush(m)
  PROVE  /\ loop' \in [Members -> {"select", "flush", "final", "exited"}]
         /\ callback' \in [Members -> {"idle", "revoke", "lost", "left"}]
         /\ owner' \in [Partitions -> Members \cup {NoMember}]
         /\ lock' \in [Members -> {"free", "loop", "callback"}]
         /\ phase' \in [Members -> {"none", "insert", "backoff", "commit"}]
         /\ flight' \in [Members -> SUBSET Record]
<1>1. CallerGoesOn(m, lock[m])
  BY DEF ReleaseFlush
<1>2. QED
  BY <1>1, CallerGoesOnTypeOK DEF ReleaseFlush, TypeOK

\* A flush keeps the types.
LEMMA FlushTypeOK ==
  ASSUME TypeOK, NEW m \in Members, Flush(m)
  PROVE  TypeOK'
<1>1. ASSUME NEW caller \in {"loop", "callback"}, FlushNothing(m, caller)
      PROVE  TypeOK'
  <2>1. CallerGoesOn(m, caller)
    BY <1>1 DEF FlushNothing
  <2>2. QED
    BY <1>1, <2>1, CallerGoesOnTypeOK
    DEF TypeOK, FlushNothing, fetchVars, flushVars
<1>2. ASSUME NEW caller \in {"loop", "callback"}, StartFlush(m, caller)
      PROVE  TypeOK'
  <2>1. Range(batch[m]) \subseteq Record
    BY RangeInSet DEF TypeOK
  <2>2. <<>> \in Seq(Record)
    OBVIOUS
  <2>3. QED
    BY <1>2, <2>1, <2>2 DEF TypeOK, StartFlush, AttemptInsert, groupVars, fetchVars
<1>3. CASE InsertOk(m)
  BY <1>3 DEF TypeOK, InsertOk, groupVars, fetchVars
<1>4. CASE InsertFails(m)
  BY <1>4 DEF TypeOK, InsertFails, groupVars, fetchVars
<1>5. CASE BackoffElapsed(m)
  BY <1>5 DEF TypeOK, BackoffElapsed, AttemptInsert, groupVars, fetchVars
<1>6. CASE FlushAbandoned(m)
  BY <1>6, ReleaseFlushTypeOK DEF TypeOK, FlushAbandoned, Drop, fetchVars
<1>7. CASE CommitOk(m)
  BY <1>7, ReleaseFlushTypeOK DEF TypeOK, CommitOk, fetchVars
<1>8. CASE CommitFails(m)
  BY <1>8, ReleaseFlushTypeOK DEF TypeOK, CommitFails, fetchVars
<1>9. QED
  BY <1>1, <1>2, <1>3, <1>4, <1>5, <1>6, <1>7, <1>8 DEF Flush

\* The steps of the consumer group keep them.
LEMMA GroupTypeOK ==
  ASSUME TypeOK, NEW m \in Members, Group(m)
  PROVE  TypeOK'
<1>1. ASSUME NEW p \in Partitions, Assign(m, p)
      PROVE  TypeOK'
  BY <1>1 DEF TypeOK, Assign, flushVars
<1>2. CASE Revoke(m)
  BY <1>2 DEF TypeOK, Revoke, Spend, FaultKinds, groupVars, flushVars
<1>3. CASE Evict(m)
  BY <1>3 DEF TypeOK, Evict, Spend, FaultKinds, LeavesGroup, memberVars,
              fetchVars, flushVars
<1>4. CASE Lost(m)
  BY <1>4 DEF TypeOK, Lost, groupVars, fetchVars, flushVars
<1>5. CASE DropLostBatch(m)
  <2>1. Range(batch[m]) \subseteq Record
    BY RangeInSet DEF TypeOK
  <2>2. <<>> \in Seq(Record)
    OBVIOUS
  <2>3. QED
    BY <1>5, <2>1, <2>2
    DEF TypeOK, DropLostBatch, Drop, groupVars, fetchVars, flushVars
<1>6. CASE Rejoin(m)
  BY <1>6 DEF TypeOK, Rejoin, flushVars
<1>7. QED
  BY <1>1, <1>2, <1>3, <1>4, <1>5, <1>6 DEF Group

\* Starts, stops and crashes keep them.
LEMMA ProcessTypeOK ==
  ASSUME TypeOK, NEW m \in Members, Process(m)
  PROVE  TypeOK'
<1>1. CASE Shutdown(m)
  BY <1>1 DEF TypeOK, Shutdown, Spend, FaultKinds, groupVars, fetchVars,
              flushVars
<1>2. ASSUME Ends(m), UNCHANGED <<committed, stored, dropped>>,
             budget' \in [FaultKinds -> Nat]
      PROVE  TypeOK'
  <2>1. <<>> \in Seq(Record)
    OBVIOUS
  <2>2. QED
    BY <1>2, <2>1 DEF TypeOK, Ends, LeavesGroup
<1>3. CASE Close(m)
  BY <1>2, <1>3 DEF TypeOK, Close
<1>4. CASE Crash(m)
  BY <1>2, <1>4 DEF TypeOK, Crash, Spend, FaultKinds
<1>5. CASE Start(m)
  BY <1>5 DEF TypeOK, Start, fetchVars, flushVars
<1>6. QED
  BY <1>1, <1>3, <1>4, <1>5 DEF Process

\* So every step does.
LEMMA NextTypeOK == TypeOK /\ [Next]_vars => TypeOK'
<1>1. CASE UNCHANGED vars
  BY <1>1 DEF TypeOK, vars, groupVars, memberVars, fetchVars, flushVars
<1>2. CASE Next
  BY <1>2, FetchLoopTypeOK, BatchLoopTypeOK, FlushTypeOK, GroupTypeOK,
     ProcessTypeOK DEF Next
<1>3. QED
  BY <1>1, <1>2

\* Every variable keeps its type, whatever the faults: see TypeOK.
THEOREM TypeCorrect == Spec => []TypeOK
  BY InitTypeOK, NextTypeOK, PTL DEF Spec

-----------------------------------------------------------------------------
(* Steps only ever add to what is done                                     *)

\* A drop is recorded and none is forgotten.
LEMMA DropGrows ==
  ASSUME TypeOK, NEW site \in DropSites, NEW records, Drop(site, records)
  PROVE  /\ Dropped \subseteq Dropped'
         /\ records \subseteq Dropped'
<1>1. DOMAIN dropped = DropSites /\ DOMAIN dropped' = DropSites
  BY DEF TypeOK, Drop
<1>2. \A s \in DropSites : dropped[s] \subseteq dropped'[s]
  BY DEF TypeOK, Drop
<1>3. records \subseteq dropped'[site]
  BY DEF TypeOK, Drop
<1>4. ASSUME NEW x \in Dropped
      PROVE  x \in Dropped'
  <2>1. PICK s \in DropSites : x \in dropped[s]
    BY <1>1 DEF Dropped, Range
  <2>2. x \in dropped'[s]
    BY <2>1, <1>2
  <2>3. QED
    BY <2>2, <1>1 DEF Dropped, Range
<1>5. ASSUME NEW x \in records
      PROVE  x \in Dropped'
  BY <1>3, <1>1 DEF Dropped, Range
<1>6. QED
  BY <1>4, <1>5

\* What is stored or dropped stays so.
LEMMA DoneGrows ==
  ASSUME TypeOK, [Next]_vars
  PROVE  stored \subseteq stored' /\ Done \subseteq Done'
<1>1. stored \subseteq stored' /\ Dropped \subseteq Dropped'
  <2>1. CASE UNCHANGED vars
    BY <2>1 DEF vars, Dropped
  <2>2. ASSUME NEW m \in Members, FetchLoop(m)
        PROVE  stored' = stored /\ Dropped \subseteq Dropped'
    <3>1. CASE UNCHANGED <<stored, dropped>>
      BY <3>1 DEF Dropped
    <3>2. ASSUME NEW r, PushCancelled(m, r)
          PROVE  stored' = stored /\ Dropped \subseteq Dropped'
      BY <3>2, DropGrows DEF PushCancelled, DropSites
    <3>3. QED
      BY <2>2, <3>1, <3>2 DEF FetchLoop, Poll, SkipUndecodable, Push
  <2>3. ASSUME NEW m \in Members, BatchLoop(m)
        PROVE  UNCHANGED <<stored, dropped>>
    BY <2>3 DEF BatchLoop, Take, Tick, CtxDone
  <2>4. ASSUME NEW m \in Members, Flush(m)
        PROVE  stored \subseteq stored' /\ Dropped \subseteq Dropped'
    <3>1. CASE UNCHANGED dropped /\ stored \subseteq stored'
      BY <3>1 DEF Dropped
    <3>2. CASE FlushAbandoned(m)
      BY <3>2, DropGrows DEF FlushAbandoned, DropSites
    <3>3. QED
      BY <2>4, <3>1, <3>2 DEF Flush, FlushNothing, StartFlush, InsertOk,
         InsertFails, BackoffElapsed, CommitOk, CommitFails
  <2>5. ASSUME NEW m \in Members, Group(m)
        PROVE  stored' = stored /\ Dropped \subseteq Dropped'
    <3>1. CASE UNCHANGED <<stored, dropped>>
      BY <3>1 DEF Dropped
    <3>2. CASE DropLostBatch(m)
      BY <3>2, DropGrows DEF DropLostBatch, DropSites
    <3>3. QED
      BY <2>5, <3>1, <3>2 DEF Group, Assign, Revoke, Evict, Lost, Rejoin
  <2>6. ASSUME NEW m \in Members, Process(m)
        PROVE  UNCHANGED <<stored, dropped>>
    BY <2>6 DEF Process, Shutdown, Close, Crash, Start
  <2>7. CASE UNCHANGED <<stored, dropped>>
    BY <2>7 DEF Dropped
  <2>8. QED
    BY <2>1, <2>2, <2>3, <2>4, <2>5, <2>6, <2>7 DEF Next
<1>2. QED
  BY <1>1 DEF Done

\* A member whose memory a step leaves alone keeps its part of the invariant.
SameData(m) ==
    /\ assigned'[m] = assigned[m] /\ pos'[m] = pos[m] /\ poll'[m] = poll[m]
    /\ queue'[m] = queue[m] /\ batch'[m] = batch[m] /\ flight'[m] = flight[m]

SameControl(m) ==
    /\ up'[m] = up[m] /\ loop'[m] = loop[m] /\ callback'[m] = callback[m]
    /\ lock'[m] = lock[m] /\ phase'[m] = phase[m]

\* A member whose data stand still stays covered.
LEMMA CoverKept ==
  ASSUME NEW m \in Members, CoverInv(m), SameData(m), Done \subseteq Done'
  PROVE  CoverInv(m)'
<1>1. FlightCovered(m)' /\ BatchCovered(m)' /\ PollCovered(m)'
  BY DEF CoverInv, FlightCovered, BatchCovered, PollCovered, Covered, Held,
         SameData
<1>2. QueueCovered(m)'
  BY DEF CoverInv, QueueCovered, Covered, SameData
<1>3. PosCovered(m)'
  BY DEF CoverInv, PosCovered, Held, SameData
<1>4. QED
  BY <1>1, <1>2, <1>3 DEF CoverInv

\* A step of one member leaves the data and control of the others alone.
LEMMA OthersKept ==
  ASSUME TypeOK, PipelineInv, NEW m \in Members, NEW n \in Members, n # m,
         FetchLoop(m) \/ BatchLoop(m) \/ Flush(m) \/ Group(m) \/ Process(m)
  PROVE  SameData(n) /\ SameControl(n)
<1>1. CASE FetchLoop(m)
  BY <1>1 DEF FetchLoop, Poll, SkipUndecodable, Push, PushCancelled, TypeOK,
              SameData, SameControl, flushVars
<1>2. CASE BatchLoop(m)
  BY <1>2 DEF BatchLoop, Take, Tick, CtxDone, TypeOK, SameData, SameControl,
              fetchVars, flushVars
<1>3. CASE Flush(m)
  BY <1>3 DEF Flush, FlushNothing, StartFlush, InsertOk, InsertFails,
              BackoffElapsed, AttemptInsert, FlushAbandoned, CommitOk, CommitFails,
              ReleaseFlush, CallerGoesOn, LoopGoesOn, CallbackGoesOn, TypeOK,
              SameData, SameControl, fetchVars, flushVars
<1>4. CASE Group(m)
  BY <1>4 DEF Group, Assign, Revoke, Evict, Lost, DropLostBatch, Rejoin,
              TypeOK, SameData, SameControl, memberVars, fetchVars, flushVars
<1>5. CASE Process(m)
  BY <1>5 DEF Process, Shutdown, Close, Crash, Start, Ends, TypeOK, SameData,
              SameControl, fetchVars, flushVars
<1>6. QED
  BY <1>1, <1>2, <1>3, <1>4, <1>5

-----------------------------------------------------------------------------
(* CoverInv: the actions that move data along the member's pipeline        *)

\* A poll moves the position past what it puts into the pipeline.
LEMMA PollCovers ==
  ASSUME TypeOK, NEW m \in Members, CoverInv(m), Poll(m)
  PROVE  CoverInv(m)'
<1>1. PICK next \in [assigned[m] -> 0 .. LogLength] :
        LET fetched == { r \in Record : /\ r[1] \in assigned[m]
                                        /\ pos[m][r[1]] <= r[2]
                                        /\ r[2] < next[r[1]] }
        IN  /\ poll' = [poll EXCEPT ![m] = fetched]
            /\ pos' = [pos EXCEPT ![m] =
                         [p \in Partitions |->
                            IF p \in assigned[m] /\ next[p] > pos[m][p]
                            THEN next[p] ELSE pos[m][p]]]
  BY DEF Poll
<1>2. /\ poll[m] = {}
      /\ UNCHANGED <<stored, dropped, assigned, queue, batch, flight>>
  BY DEF Poll, flushVars
<1>3. Done' = Done
  BY <1>2 DEF Done, Dropped
<1>4. \A r \in Record :
        r \in poll'[m] <=> /\ r[1] \in assigned[m]
                           /\ pos[m][r[1]] <= r[2]
                           /\ r[2] < next[r[1]]
  BY <1>1 DEF TypeOK
<1>5. poll'[m] \subseteq Record
  BY <1>1 DEF TypeOK
<1>6. \A p \in assigned[m] :
        pos'[m][p] = IF next[p] > pos[m][p] THEN next[p] ELSE pos[m][p]
  BY <1>1 DEF TypeOK
<1>7. \A r \in Record : r[1] \in Partitions /\ r[2] \in 0 .. LogLength - 1
  BY DEF Record
<1>8. \A p \in assigned[m] : next[p] \in Nat /\ pos[m][p] \in Nat
  BY DEF TypeOK
<1>9. Held(m)' = Held(m) \cup poll'[m]
  BY <1>2 DEF Held
<1>10. FlightCovered(m)' /\ BatchCovered(m)' /\ QueueCovered(m)'
  BY <1>2, <1>3 DEF CoverInv, FlightCovered, BatchCovered, QueueCovered,
                    Covered
<1>11. ASSUME NEW s \in Record, s[1] \in assigned[m], s[2] < pos[m][s[1]]
       PROVE  s \in Done' \cup Held(m)'
  BY <1>11, <1>3, <1>9 DEF CoverInv, PosCovered
<1>12. PosCovered(m)'
  <2>1. ASSUME NEW r \in Record, r[1] \in assigned[m], r[2] < pos'[m][r[1]]
        PROVE  r \in Done' \cup Held(m)'
    <3>1. CASE r[2] < pos[m][r[1]]
      BY <2>1, <3>1, <1>11
    <3>2. CASE ~(r[2] < pos[m][r[1]])
      <4>1. pos[m][r[1]] <= r[2] /\ r[2] < next[r[1]]
        BY <2>1, <3>2, <1>6, <1>7, <1>8
      <4>2. QED
        BY <4>1, <2>1, <1>4, <1>9
    <3>3. QED
      BY <3>1, <3>2
  <2>2. QED
    BY <2>1, <1>2 DEF PosCovered
<1>13. PollCovered(m)'
  <2>1. ASSUME NEW r \in poll'[m], NEW s \in Record, s[1] = r[1], s[2] < r[2]
        PROVE  s \in Done' \cup Held(m)'
    <3>1. /\ r \in Record /\ r[1] \in assigned[m] /\ pos[m][r[1]] <= r[2]
          /\ r[2] < next[r[1]]
      BY <1>4, <1>5
    <3>2. CASE s[2] < pos[m][s[1]]
      BY <2>1, <3>1, <3>2, <1>11
    <3>3. CASE ~(s[2] < pos[m][s[1]])
      <4>1. pos[m][s[1]] <= s[2] /\ s[2] < next[s[1]]
        BY <2>1, <3>1, <3>3, <1>7, <1>8
      <4>2. QED
        BY <4>1, <2>1, <3>1, <1>4, <1>9
    <3>4. QED
      BY <3>2, <3>3
  <2>2. QED
    BY <2>1 DEF PollCovered, Covered
<1>14. QED
  BY <1>10, <1>12, <1>13 DEF CoverInv

\* A record that leaves the poll when all before it are done, or held, and
\* that is done or held afterwards, leaves no hole.
LEMMA PollHeadLeaves ==
  ASSUME TypeOK, NEW m \in Members, CoverInv(m), NEW r \in poll[m],
         NextOfPoll(m, r), Done \subseteq Done',
         poll'[m] = poll[m] \ {r},
         UNCHANGED <<assigned, pos, batch, flight>>,
         \/ r \in Done' /\ UNCHANGED queue
         \/ queue' = [queue EXCEPT ![m] = Append(@, r)]
  PROVE  CoverInv(m)'
<1>1. r \in Record /\ queue[m] \in Seq(Record) /\ poll[m] \subseteq Record
  BY DEF TypeOK
<1>2. FlightCovered(m)' /\ BatchCovered(m)'
  BY DEF CoverInv, FlightCovered, BatchCovered, Covered
<1>3. /\ Range(queue[m]) \subseteq Range(queue'[m])
      /\ r \in Done' \cup Range(queue'[m])
  <2>1. CASE r \in Done' /\ UNCHANGED queue
    BY <2>1
  <2>2. CASE queue' = [queue EXCEPT ![m] = Append(@, r)]
    <3>1. queue'[m] = Append(queue[m], r)
      BY <2>2 DEF TypeOK
    <3>2. QED
      BY <1>1, <3>1, RangeAppend
  <2>3. QED
    BY <2>1, <2>2
<1>4. Done \cup Held(m) \subseteq Done' \cup Held(m)'
  BY <1>3 DEF Held
<1>5. PollCovered(m)'
  BY <1>4 DEF CoverInv, PollCovered, Covered
<1>6. PosCovered(m)'
  BY <1>4 DEF CoverInv, PosCovered
<1>7. QueueCovered(m)'
  <2>1. CASE r \in Done' /\ UNCHANGED queue
    BY <2>1 DEF CoverInv, QueueCovered, Covered
  <2>2. CASE queue' = [queue EXCEPT ![m] = Append(@, r)]
    <3>1. queue'[m] = Append(queue[m], r)
      BY <2>2 DEF TypeOK
    <3>2. /\ Len(queue'[m]) = Len(queue[m]) + 1
          /\ \A i \in 1 .. Len(queue[m]) : queue'[m][i] = queue[m][i]
          /\ queue'[m][Len(queue[m]) + 1] = r
          /\ Len(queue[m]) \in Nat
      BY <1>1, <3>1, RangeAppend
    <3>3. ASSUME NEW i \in 1 .. Len(queue'[m]), NEW s \in Record,
                 s[1] = queue'[m][i][1], s[2] < queue'[m][i][2]
          PROVE  s \in Done' \cup (flight[m] \cup Range(batch[m])
                          \cup { queue'[m][j] : j \in 1 .. (i - 1) })
      <4>1. CASE i <= Len(queue[m])
        <5>1. i \in 1 .. Len(queue[m]) /\ queue'[m][i] = queue[m][i]
          BY <4>1, <3>2
        <5>2. s \in Done \cup (flight[m] \cup Range(batch[m])
                          \cup { queue[m][j] : j \in 1 .. (i - 1) })
          BY <5>1, <3>3 DEF CoverInv, QueueCovered, Covered
        <5>3. \A j \in 1 .. (i - 1) : queue'[m][j] = queue[m][j]
          BY <5>1, <3>2
        <5>4. QED
          BY <5>2, <5>3
      <4>2. CASE i = Len(queue[m]) + 1
        <5>1. queue'[m][i] = r
          BY <4>2, <3>2
        <5>2. s \notin poll[m]
          BY <5>1, <3>3, <1>1 DEF NextOfPoll, Record
        <5>3. s \in Done \cup Held(m)
          BY <5>1, <3>3 DEF CoverInv, PollCovered, Covered
        <5>4. CASE s \in Range(queue[m])
          <6>1. PICK j \in 1 .. Len(queue[m]) : queue[m][j] = s
            BY <5>4, <1>1, RangeOf
          <6>2. j \in 1 .. (i - 1) /\ queue'[m][j] = s
            BY <6>1, <4>2, <3>2
          <6>3. QED
            BY <6>2
        <5>5. QED
          BY <5>2, <5>3, <5>4 DEF Held
      <4>3. QED
        BY <4>1, <4>2, <3>2
    <3>4. QED
      BY <3>3 DEF QueueCovered, Covered
  <2>3. QED
    BY <2>1, <2>2
<1>8. QED
  BY <1>2, <1>5, <1>6, <1>7 DEF CoverInv

\* A record taken from the queue is in the batch.
LEMMA TakeCovers ==
  ASSUME TypeOK, NEW m \in Members, CoverInv(m), Take(m)
  PROVE  CoverInv(m)'
<1> DEFINE h == Head(queue[m])
<1>1. queue[m] \in Seq(Record) /\ batch[m] \in Seq(Record) /\ queue[m] # <<>>
  BY DEF TypeOK, Take
<1>2. /\ queue'[m] = Tail(queue[m]) /\ batch'[m] = Append(batch[m], h)
      /\ UNCHANGED <<stored, dropped, assigned, pos, poll, flight>>
  BY DEF TypeOK, Take, fetchVars, flushVars
<1>3. Done' = Done
  BY <1>2 DEF Done, Dropped
<1>4. /\ h \in Record /\ h = queue[m][1] /\ Len(queue[m]) \in Nat \ {0}
      /\ Len(Tail(queue[m])) = Len(queue[m]) - 1
      /\ \A i \in 1 .. Len(queue[m]) - 1 : queue'[m][i] = queue[m][i + 1]
      /\ Range(queue[m]) = {h} \cup Range(queue'[m])
  BY <1>1, <1>2, RangeHeadTail
<1>5. Range(batch'[m]) = Range(batch[m]) \cup {h}
  BY <1>1, <1>2, <1>4, RangeAppend
<1>6. Held(m)' = Held(m)
  BY <1>2, <1>4, <1>5 DEF Held
<1>7. FlightCovered(m)' /\ PollCovered(m)' /\ PosCovered(m)'
  BY <1>2, <1>3, <1>6 DEF CoverInv, FlightCovered, PollCovered, PosCovered,
                          Covered
<1>8. BatchCovered(m)'
  <2>1. ASSUME NEW s \in Record, s[1] = h[1], s[2] < h[2]
        PROVE  s \in Done \cup (flight[m] \cup Range(batch[m]))
    <3>1. 1 \in 1 .. Len(queue[m])
      BY <1>4
    <3>2. s \in Done \cup (flight[m] \cup Range(batch[m])
                            \cup { queue[m][j] : j \in 1 .. (1 - 1) })
      BY <2>1, <3>1, <1>4 DEF CoverInv, QueueCovered, Covered
    <3>3. 1 .. (1 - 1) = {}
      OBVIOUS
    <3>4. QED
      BY <3>2, <3>3
  <2>2. QED
    BY <1>2, <1>3, <1>5, <2>1 DEF CoverInv, BatchCovered, Covered
<1>9. QueueCovered(m)'
  <2>1. ASSUME NEW i \in 1 .. Len(queue'[m]), NEW s \in Record,
               s[1] = queue'[m][i][1], s[2] < queue'[m][i][2]
        PROVE  s \in Done' \cup (flight'[m] \cup Range(batch'[m])
                        \cup { queue'[m][j] : j \in 1 .. (i - 1) })
    <3>1. /\ i + 1 \in 1 .. Len(queue[m]) /\ i \in 1 .. Len(queue[m]) - 1
          /\ queue'[m][i] = queue[m][i + 1] /\ (i + 1) - 1 = i
      BY <1>2, <1>4
    <3>2. s \in Done \cup (flight[m] \cup Range(batch[m])
                            \cup { queue[m][j] : j \in 1 .. ((i + 1) - 1) })
      BY <2>1, <3>1 DEF CoverInv, QueueCovered, Covered
    <3>3. ASSUME NEW j \in 1 .. i, s = queue[m][j]
          PROVE  s = h \/ s \in { queue'[m][k] : k \in 1 .. (i - 1) }
      <4>1. CASE j = 1
        BY <4>1, <3>3, <1>4
      <4>2. CASE j # 1
        <5>1. /\ j - 1 \in 1 .. (i - 1) /\ j - 1 \in 1 .. Len(queue[m]) - 1
              /\ (j - 1) + 1 = j
          BY <4>2, <3>1
        <5>2. queue'[m][j - 1] = s
          BY <5>1, <3>3, <1>4
        <5>3. QED
          BY <5>1, <5>2
      <4>3. QED
        BY <4>1, <4>2
    <3>4. QED
      BY <3>1, <3>2, <3>3, <1>2, <1>3, <1>5
  <2>2. QED
    BY <2>1 DEF QueueCovered, Covered
<1>10. QED
  BY <1>7, <1>8, <1>9 DEF CoverInv

\* A batch that is drained is in flight, and so are its offsets.
LEMMA StartFlushCovers ==
  ASSUME TypeOK, NEW m \in Members, CoverInv(m), FlushConsistent(m),
         NEW caller, StartFlush(m, caller)
  PROVE  CoverInv(m)'
<1>1. /\ flight[m] = {} /\ flight'[m] = Range(batch[m]) /\ batch'[m] = <<>>
      /\ UNCHANGED <<stored, dropped, assigned, pos, poll, queue>>
  BY DEF TypeOK, FlushConsistent, StartFlush, AttemptInsert, fetchVars
<1>2. Range(batch'[m]) = {}
  BY <1>1, RangeEmpty
<1>3. Done' = Done
  BY <1>1 DEF Done, Dropped
<1>4. Held(m)' = Held(m)
  BY <1>1, <1>2 DEF Held
<1>5. FlightCovered(m)' /\ BatchCovered(m)'
  BY <1>1, <1>2, <1>3 DEF CoverInv, FlightCovered, BatchCovered, Covered
<1>6. QueueCovered(m)'
  BY <1>1, <1>2, <1>3 DEF CoverInv, QueueCovered, Covered
<1>7. PollCovered(m)' /\ PosCovered(m)'
  BY <1>1, <1>3, <1>4 DEF CoverInv, PollCovered, PosCovered, Covered
<1>8. QED
  BY <1>5, <1>6, <1>7 DEF CoverInv

\* Rows leave the flight, or the batch, once they are done.
LEMMA RowsDone ==
  ASSUME TypeOK, NEW m \in Members, CoverInv(m), Done \subseteq Done',
         \/ flight'[m] = {} /\ batch'[m] = batch[m] /\ flight[m] \subseteq Done'
         \/ /\ flight'[m] = flight[m] /\ batch'[m] = <<>>
            /\ Range(batch[m]) \subseteq Done',
         UNCHANGED <<assigned, pos, poll, queue>>
  PROVE  CoverInv(m)'
<1>1. Range(<<>>) = {}
  BY RangeEmpty
<1>2. flight[m] \cup Range(batch[m])
        \subseteq Done' \cup flight'[m] \cup Range(batch'[m])
  BY <1>1
<1>3. Done \cup Held(m) \subseteq Done' \cup Held(m)'
  BY <1>2 DEF Held
<1>4. FlightCovered(m)'
  BY DEF CoverInv, FlightCovered, Covered
<1>5. BatchCovered(m)'
  BY <1>1, <1>2 DEF CoverInv, BatchCovered, Covered
<1>6. QueueCovered(m)'
  BY <1>2 DEF CoverInv, QueueCovered, Covered
<1>7. PollCovered(m)' /\ PosCovered(m)'
  BY <1>3 DEF CoverInv, PollCovered, PosCovered, Covered
<1>8. QED
  BY <1>4, <1>5, <1>6, <1>7 DEF CoverInv

\* A client fetches from the committed offset, and all below it is done.
LEMMA AssignCovers ==
  ASSUME TypeOK, LossOnlyAtDropSites, NEW m \in Members, CoverInv(m),
         NEW p \in Partitions, Assign(m, p)
  PROVE  CoverInv(m)'
<1>1. /\ UNCHANGED <<stored, dropped, poll, queue, batch, flight>>
      /\ assigned'[m] = assigned[m] \cup {p}
      /\ \A q \in Partitions :
            pos'[m][q] = IF q = p THEN committed[p] ELSE pos[m][q]
  BY DEF TypeOK, Assign, flushVars
<1>2. Done' = Done /\ Held(m)' = Held(m)
  BY <1>1 DEF Done, Dropped, Held
<1>3. FlightCovered(m)' /\ BatchCovered(m)' /\ QueueCovered(m)'
      /\ PollCovered(m)'
  BY <1>1, <1>2 DEF CoverInv, FlightCovered, BatchCovered, QueueCovered,
                    PollCovered, Covered
<1>4. \A r \in Record : r[1] \in Partitions
  BY DEF Record
<1>5. PosCovered(m)'
  BY <1>1, <1>2, <1>4 DEF CoverInv, PosCovered, LossOnlyAtDropSites
<1>6. QED
  BY <1>3, <1>5 DEF CoverInv

\* Partitions that leave take their position's obligation with them.
LEMMA UnassignCovers ==
  ASSUME TypeOK, NEW m \in Members, CoverInv(m), Done \subseteq Done',
         assigned'[m] \subseteq assigned[m],
         UNCHANGED <<pos, poll, queue, batch, flight>>
  PROVE  CoverInv(m)'
<1>1. Held(m)' = Held(m)
  BY DEF Held
<1>2. FlightCovered(m)' /\ BatchCovered(m)' /\ QueueCovered(m)'
  BY DEF CoverInv, FlightCovered, BatchCovered, QueueCovered, Covered
<1>3. PollCovered(m)' /\ PosCovered(m)'
  BY <1>1 DEF CoverInv, PollCovered, PosCovered, Covered
<1>4. QED
  BY <1>2, <1>3 DEF CoverInv

\* A member with nothing assigned covers everything.
LEMMA EmptyCovers ==
  ASSUME NEW m \in Members, assigned[m] = {}, poll[m] = {}, queue[m] = <<>>,
         batch[m] = <<>>, flight[m] = {}
  PROVE  CoverInv(m)
  BY RangeEmpty DEF CoverInv, FlightCovered, BatchCovered, QueueCovered,
                    PollCovered, PosCovered

-----------------------------------------------------------------------------
(* CoverInv: every action of the member                                    *)

\* Every step of a member keeps what it covers.
LEMMA StepCovers ==
  ASSUME TypeOK, LossOnlyAtDropSites, NEW m \in Members, CoverInv(m),
         FlushConsistent(m), Done \subseteq Done', stored \subseteq stored',
         FetchLoop(m) \/ BatchLoop(m) \/ Flush(m) \/ Group(m) \/ Process(m)
  PROVE  CoverInv(m)'
<1>1. CASE FetchLoop(m)
  <2>1. CASE Poll(m)
    BY <2>1, PollCovers
  <2>2. ASSUME NEW r \in poll[m],
               SkipUndecodable(m, r) \/ Push(m, r) \/ PushCancelled(m, r)
        PROVE  CoverInv(m)'
    <3>1. /\ NextOfPoll(m, r)
          /\ poll'[m] = poll[m] \ {r}
          /\ UNCHANGED <<assigned, pos, batch, flight>>
      BY <2>2 DEF SkipUndecodable, Push, PushCancelled, TypeOK, flushVars
    <3>2. \/ r \in Done' /\ UNCHANGED queue
          \/ queue' = [queue EXCEPT ![m] = Append(@, r)]
      <4>1. CASE SkipUndecodable(m, r)
        BY <4>1 DEF SkipUndecodable, Done
      <4>2. CASE Push(m, r)
        BY <4>2 DEF Push
      <4>3. CASE PushCancelled(m, r)
        <5>1. {r} \subseteq Dropped'
          BY <4>3, DropGrows DEF PushCancelled, DropSites
        <5>2. QED
          BY <4>3, <5>1 DEF PushCancelled, Done
      <4>4. QED
        BY <2>2, <4>1, <4>2, <4>3
    <3>3. QED
      BY <3>1, <3>2, PollHeadLeaves
  <2>3. QED
    BY <1>1, <2>1, <2>2 DEF FetchLoop
<1>2. CASE BatchLoop(m)
  <2>1. CASE Take(m)
    BY <2>1, TakeCovers
  <2>2. CASE Tick(m) \/ CtxDone(m)
    <3>1. SameData(m)
      BY <2>2 DEF Tick, CtxDone, SameData, fetchVars, flushVars
    <3>2. QED
      BY <3>1, CoverKept
  <2>3. QED
    BY <1>2, <2>1, <2>2 DEF BatchLoop
<1>3. CASE Flush(m)
  <2>1. ASSUME NEW caller \in {"loop", "callback"}, StartFlush(m, caller)
        PROVE  CoverInv(m)'
    BY <2>1, StartFlushCovers
  <2>2. CASE \/ \E caller \in {"loop", "callback"} : FlushNothing(m, caller)
             \/ InsertOk(m) \/ InsertFails(m) \/ BackoffElapsed(m)
    <3>1. SameData(m)
      BY <2>2 DEF FlushNothing, InsertOk, InsertFails, BackoffElapsed,
                  SameData, fetchVars, flushVars
    <3>2. QED
      BY <3>1, CoverKept
  <2>3. CASE FlushAbandoned(m) \/ CommitOk(m) \/ CommitFails(m)
    <3>1. /\ flight'[m] = {} /\ batch'[m] = batch[m]
          /\ UNCHANGED <<assigned, pos, poll, queue>>
      BY <2>3 DEF FlushAbandoned, CommitOk, CommitFails, ReleaseFlush, TypeOK,
                  fetchVars
    <3>2. flight[m] \subseteq Done'
      <4>1. CASE FlushAbandoned(m)
        <5>1. flight[m] \subseteq Dropped'
          BY <4>1, DropGrows DEF FlushAbandoned, DropSites
        <5>2. QED
          BY <5>1 DEF Done
      <4>2. CASE CommitOk(m) \/ CommitFails(m)
        BY <4>2 DEF CommitOk, CommitFails, FlushConsistent, Done
      <4>3. QED
        BY <2>3, <4>1, <4>2
    <3>3. QED
      BY <3>1, <3>2, RowsDone
  <2>4. QED
    BY <1>3, <2>1, <2>2, <2>3 DEF Flush
<1>4. CASE Group(m)
  <2>1. ASSUME NEW p \in Partitions, Assign(m, p)
        PROVE  CoverInv(m)'
    BY <2>1, AssignCovers
  <2>2. CASE Revoke(m) \/ Rejoin(m)
    <3>1. /\ assigned'[m] \subseteq assigned[m]
          /\ UNCHANGED <<pos, poll, queue, batch, flight>>
      BY <2>2 DEF Revoke, Rejoin, TypeOK, flushVars
    <3>2. QED
      BY <3>1, UnassignCovers
  <2>3. CASE Evict(m) \/ Lost(m)
    <3>1. SameData(m)
      BY <2>3 DEF Evict, Lost, SameData, memberVars, fetchVars, flushVars
    <3>2. QED
      BY <3>1, CoverKept
  <2>4. CASE DropLostBatch(m)
    <3>1. /\ flight'[m] = flight[m] /\ batch'[m] = <<>>
          /\ UNCHANGED <<assigned, pos, poll, queue>>
      BY <2>4 DEF DropLostBatch, TypeOK, fetchVars, flushVars
    <3>2. Range(batch[m]) \subseteq Dropped'
      BY <2>4, DropGrows DEF DropLostBatch, DropSites
    <3>3. Range(batch[m]) \subseteq Done'
      BY <3>2 DEF Done
    <3>4. QED
      BY <3>1, <3>3, RowsDone
  <2>5. QED
    BY <1>4, <2>1, <2>2, <2>3, <2>4 DEF Group
<1>5. CASE Process(m)
  <2>1. CASE Shutdown(m) \/ Start(m)
    <3>1. SameData(m)
      BY <2>1 DEF Shutdown, Start, SameData, fetchVars, flushVars
    <3>2. QED
      BY <3>1, CoverKept
  <2>2. CASE Ends(m)
    <3>1. /\ assigned'[m] = {} /\ poll'[m] = {} /\ queue'[m] = <<>>
          /\ batch'[m] = <<>> /\ flight'[m] = {}
      BY <2>2 DEF Ends, TypeOK
    <3>2. QED
      BY <3>1, RangeEmpty
      DEF CoverInv, FlightCovered, BatchCovered, QueueCovered, PollCovered,
          PosCovered
  <2>3. QED
    BY <1>5, <2>1, <2>2 DEF Process, Close, Crash
<1>6. QED
  BY <1>1, <1>2, <1>3, <1>4, <1>5

-----------------------------------------------------------------------------
(* flushMu and the last flush                                              *)

\* A flush that does not move stays consistent.
LEMMA ControlKept ==
  ASSUME NEW m \in Members, FlushConsistent(m), SameData(m), SameControl(m),
         stored \subseteq stored'
  PROVE  FlushConsistent(m)'
  BY DEF FlushConsistent, SameData, SameControl

\* Every step of a member keeps its flush consistent.
LEMMA StepConsistent ==
  ASSUME TypeOK, NEW m \in Members, FlushConsistent(m),
         stored \subseteq stored',
         FetchLoop(m) \/ BatchLoop(m) \/ Flush(m) \/ Group(m) \/ Process(m)
  PROVE  FlushConsistent(m)'
<1>1. CASE FetchLoop(m)
  BY <1>1 DEF FetchLoop, Poll, SkipUndecodable, Push, PushCancelled, Live,
              FlushConsistent, TypeOK, flushVars
<1>2. CASE BatchLoop(m)
  BY <1>2 DEF BatchLoop, Take, Tick, CtxDone, Live, FlushConsistent, TypeOK,
              fetchVars, flushVars
<1>3. CASE Flush(m)
  <2>1. ASSUME NEW caller \in {"loop", "callback"}, FlushNothing(m, caller)
        PROVE  FlushConsistent(m)'
    BY <2>1 DEF FlushNothing, WantsFlush, CallerGoesOn, LoopGoesOn,
       CallbackGoesOn, Live, FlushConsistent, TypeOK, fetchVars, flushVars
  <2>2. ASSUME NEW caller \in {"loop", "callback"}, StartFlush(m, caller)
        PROVE  FlushConsistent(m)'
    BY <2>2 DEF StartFlush, AttemptInsert, WantsFlush, Live, FlushConsistent, TypeOK,
                fetchVars
  <2>3. CASE InsertOk(m) \/ InsertFails(m) \/ BackoffElapsed(m)
    BY <2>3 DEF InsertOk, InsertFails, BackoffElapsed, AttemptInsert, FlushConsistent, TypeOK,
                fetchVars
  <2>4. CASE FlushAbandoned(m) \/ CommitOk(m) \/ CommitFails(m)
    <3>1. /\ ReleaseFlush(m) /\ lock[m] \in {"loop", "callback"}
          /\ UNCHANGED <<up, poll, assigned, queue, batch>>
          /\ up[m] # "down"
      BY <2>4 DEF FlushAbandoned, CommitOk, CommitFails, FlushConsistent,
                  TypeOK, fetchVars
    <3>2. QED
      BY <3>1 DEF ReleaseFlush, CallerGoesOn, LoopGoesOn, CallbackGoesOn,
                  FlushConsistent, TypeOK
  <2>5. QED
    BY <1>3, <2>1, <2>2, <2>3, <2>4 DEF Flush
<1>4. CASE Group(m)
  BY <1>4 DEF Group, Assign, Revoke, Evict, Lost, DropLostBatch, Rejoin, Live,
              FlushConsistent, TypeOK, memberVars, fetchVars, flushVars
<1>5. CASE Process(m)
  BY <1>5 DEF Process, Shutdown, Close, Crash, Start, Ends, FlushConsistent,
              TypeOK, fetchVars, flushVars
<1>6. QED
  BY <1>1, <1>2, <1>3, <1>4, <1>5

-----------------------------------------------------------------------------
(* What a commit may pass over                                             *)

\* What a commit moves past is stored, skipped or dropped.
LEMMA CommitCovered ==
  ASSUME TypeOK, LossOnlyAtDropSites, NEW m \in Members, CoverInv(m),
         FlushConsistent(m), CommitOk(m), NEW r \in Record,
         r[2] < committed'[r[1]]
  PROVE  r \in Done
<1>1. CommitOffsets(flight[m], committed')
  BY DEF CommitOk
<1>2. flight[m] \subseteq stored /\ flight[m] \subseteq Record
  BY DEF CommitOk, FlushConsistent, TypeOK
<1>3. r[1] \in Partitions /\ r[2] \in 0 .. LogLength - 1 /\ r = <<r[1], r[2]>>
  BY DEF Record
<1>4. CASE \E f \in flight[m] : f[1] = r[1]
  <2>1. PICK f \in flight[m] : f[1] = r[1] /\ committed'[r[1]] = f[2] + 1
    BY <1>1, <1>3, <1>4 DEF CommitOffsets
  <2>2. f \in Record /\ f[2] \in 0 .. LogLength - 1 /\ f = <<f[1], f[2]>>
    BY <1>2 DEF Record
  <2>3. r[2] < f[2] \/ r[2] = f[2]
    BY <2>1, <2>2, <1>3
  <2>4. CASE r[2] < f[2]
    BY <2>1, <2>4, <1>2 DEF CoverInv, FlightCovered, Covered, Done
  <2>5. CASE r[2] = f[2]
    BY <2>1, <2>2, <2>5, <1>2, <1>3 DEF Done
  <2>6. QED
    BY <2>3, <2>4, <2>5
<1>5. CASE ~ \E f \in flight[m] : f[1] = r[1]
  BY <1>1, <1>3, <1>5 DEF CommitOffsets, LossOnlyAtDropSites
<1>6. QED
  BY <1>4, <1>5

\* No step loses a committed record but at a drop site.
LEMMA NextLoss ==
  ASSUME IInv, Next
  PROVE  LossOnlyAtDropSites'
<1>1. Done \subseteq Done'
  BY DoneGrows DEF IInv
<1>2. CASE UNCHANGED committed
  BY <1>1, <1>2 DEF IInv, LossOnlyAtDropSites
<1>3. ASSUME NEW m \in Members, CommitOk(m)
      PROVE  LossOnlyAtDropSites'
  <2>1. CoverInv(m) /\ FlushConsistent(m)
    BY DEF IInv, PipelineInv
  <2>2. QED
    BY <1>1, <1>3, <2>1, CommitCovered DEF IInv, LossOnlyAtDropSites
<1>4. (\E m \in Members : CommitOk(m)) \/ UNCHANGED committed
  BY DEF Next, FetchLoop, Poll, SkipUndecodable, Push, PushCancelled,
         BatchLoop, Take, Tick, CtxDone, Flush, FlushNothing, StartFlush,
         InsertOk, InsertFails, BackoffElapsed, FlushAbandoned, CommitFails,
         Group, Assign, Revoke, Evict, Lost, DropLostBatch, Rejoin,
         Process, Shutdown, Close, Crash, Start
<1>5. QED
  BY <1>2, <1>3, <1>4

-----------------------------------------------------------------------------
(* The inductive invariant                                                 *)

\* The invariant holds at the start.
LEMMA InitIInv == Init => IInv
<1> SUFFICES ASSUME Init PROVE IInv
  OBVIOUS
<1>1. TypeOK
  BY InitTypeOK
<1>2. \A m \in Members : CoverInv(m) /\ FlushConsistent(m)
  BY EmptyCovers DEF Init, FlushConsistent
<1>3. LossOnlyAtDropSites
  BY DEF Init, LossOnlyAtDropSites, Record
<1>4. QED
  BY <1>1, <1>2, <1>3 DEF IInv, PipelineInv

\* Every step keeps it.
LEMMA NextIInv == IInv /\ [Next]_vars => IInv'
<1> SUFFICES ASSUME IInv, [Next]_vars PROVE IInv'
  OBVIOUS
<1>1. TypeOK /\ PipelineInv /\ LossOnlyAtDropSites
  BY DEF IInv
<1>2. TypeOK'
  BY <1>1, NextTypeOK
<1>3. Done \subseteq Done' /\ stored \subseteq stored'
  BY <1>1, DoneGrows
<1>4. CASE UNCHANGED vars
  <2>1. \A m \in Members : SameData(m) /\ SameControl(m)
    BY <1>4 DEF vars, memberVars, fetchVars, flushVars, SameData, SameControl
  <2>2. PipelineInv'
    BY <2>1, <1>1, <1>3, CoverKept, ControlKept DEF PipelineInv
  <2>3. LossOnlyAtDropSites'
    BY <1>1, <1>3, <1>4 DEF vars, LossOnlyAtDropSites
  <2>4. QED
    BY <1>2, <2>2, <2>3 DEF IInv
<1>5. CASE Next
  <2>1. PICK m \in Members : FetchLoop(m) \/ BatchLoop(m) \/ Flush(m)
                               \/ Group(m) \/ Process(m)
    BY <1>5 DEF Next
  <2>2. CoverInv(m)' /\ FlushConsistent(m)'
    BY <2>1, <1>1, <1>3, StepCovers, StepConsistent DEF PipelineInv
  <2>3. ASSUME NEW n \in Members, n # m
        PROVE  CoverInv(n)' /\ FlushConsistent(n)'
    <3>1. SameData(n) /\ SameControl(n)
      BY <2>1, <2>3, <1>1, OthersKept
    <3>2. QED
      BY <3>1, <1>1, <1>3, CoverKept, ControlKept DEF PipelineInv
  <2>4. PipelineInv'
    BY <2>2, <2>3 DEF PipelineInv
  <2>5. LossOnlyAtDropSites'
    BY <1>5, NextLoss
  <2>6. QED
    BY <1>2, <2>4, <2>5 DEF IInv
<1>6. QED
  BY <1>4, <1>5

\* The invariant holds in every state that the writers reach.
THEOREM Inductive == Spec => []IInv
  BY InitIInv, NextIInv, PTL DEF Spec

\* Whatever crashes, outages, failed commits, rebalances, expulsions and
\* shutdowns happen, and however the goroutines interleave, the committed
\* offsets pass an undelivered span only if it was dropped at one of the three
\* DropSites of consumer.go.
THEOREM LossAccounted == Spec => []LossOnlyAtDropSites
<1>1. IInv => LossOnlyAtDropSites
  BY DEF IInv
<1>2. QED
  BY <1>1, Inductive, PTL

-----------------------------------------------------------------------------
(* Until a replica is stopped or expelled nothing is dropped               *)

Calm ==
    /\ \A m \in Members : /\ up[m] # "stopping"
                          /\ callback[m] \in {"idle", "revoke"}
                          /\ up[m] # "down" => m \in inGroup
    /\ \A s \in DropSites : dropped[s] = {}

CalmInv ==
    /\ budget["shutdown"] <= MaxShutdowns
    /\ budget["eviction"] <= MaxEvictions
    /\ NobodyStopped => Calm

\* A step that stops or expels nobody leaves both budgets alone.
LEMMA CalmStep ==
  ASSUME TypeOK, PipelineInv, CalmInv, [Next]_vars
  PROVE  CalmInv'
<1> USE DEF CalmInv, NobodyStopped
<1>1. CASE UNCHANGED vars
  BY <1>1 DEF Calm, vars, groupVars, memberVars
<1>2. ASSUME NEW m \in Members, FetchLoop(m)
      PROVE  CalmInv'
  <2>1. /\ UNCHANGED <<inGroup, up, callback, budget>>
        /\ dropped' = dropped \/ up[m] = "stopping"
    BY <1>2 DEF FetchLoop, Poll, SkipUndecodable, Push, PushCancelled,
                groupVars
  <2>2. QED
    BY <2>1 DEF Calm
<1>3. ASSUME NEW m \in Members, BatchLoop(m)
      PROVE  CalmInv'
  <2>1. UNCHANGED <<inGroup, up, callback, budget, dropped>>
    BY <1>3 DEF BatchLoop, Take, Tick, CtxDone, groupVars
  <2>2. QED
    BY <2>1 DEF Calm
<1>4. ASSUME NEW m \in Members, Flush(m)
      PROVE  CalmInv'
  <2>1. CASE FlushAbandoned(m)
    <3>1. ~ Calm /\ budget' = budget
      BY <2>1 DEF FlushAbandoned, FlushCtxDone, Calm
    <3>2. QED
      BY <3>1
  <2>2. CASE ~ FlushAbandoned(m)
    <3>1. /\ UNCHANGED <<inGroup, up, dropped, budget>>
          /\ \A n \in Members : callback'[n] \in {callback[n], "idle"}
      BY <1>4, <2>2 DEF Flush, FlushNothing, StartFlush, InsertOk,
         InsertFails, BackoffElapsed, CommitOk, CommitFails, ReleaseFlush,
         CallerGoesOn, LoopGoesOn, CallbackGoesOn, groupVars, TypeOK
    <3>2. QED
      BY <3>1 DEF Calm
  <2>3. QED
    BY <2>1, <2>2
<1>5. ASSUME NEW m \in Members, Group(m)
      PROVE  CalmInv'
  <2>1. CASE Evict(m)
    <3>1. budget["eviction"] \in Nat /\ MaxEvictions \in Nat
      BY WriterAssumption DEF TypeOK, FaultKinds
    <3>2. /\ budget'["eviction"] = budget["eviction"] - 1
          /\ budget'["shutdown"] = budget["shutdown"]
      BY <2>1 DEF Evict, Spend, TypeOK, FaultKinds
    <3>3. QED
      BY <3>1, <3>2
  <2>2. CASE Lost(m) \/ DropLostBatch(m) \/ Rejoin(m)
    <3>1. ~ Calm /\ budget' = budget
      BY <2>2 DEF Lost, Live, DropLostBatch, Rejoin, Calm
    <3>2. QED
      BY <3>1
  <2>3. CASE Revoke(m)
    BY <2>3 DEF Revoke, Spend, Calm, groupVars, TypeOK, FaultKinds
  <2>4. ASSUME NEW p \in Partitions, Assign(m, p)
        PROVE  CalmInv'
    BY <2>4 DEF Assign, Calm
  <2>5. QED
    BY <1>5, <2>1, <2>2, <2>3, <2>4 DEF Group
<1>6. ASSUME NEW m \in Members, Process(m)
      PROVE  CalmInv'
  <2>1. CASE Shutdown(m)
    <3>1. budget["shutdown"] \in Nat /\ MaxShutdowns \in Nat
      BY WriterAssumption DEF TypeOK, FaultKinds
    <3>2. /\ budget'["shutdown"] = budget["shutdown"] - 1
          /\ budget'["eviction"] = budget["eviction"]
      BY <2>1 DEF Shutdown, Spend, TypeOK, FaultKinds
    <3>3. QED
      BY <3>1, <3>2
  <2>2. CASE Close(m)
    <3>1. ~ Calm /\ budget' = budget
      BY <2>2 DEF Close, Calm
    <3>2. QED
      BY <3>1
  <2>3. CASE Crash(m)
    BY <2>3 DEF Crash, Spend, Ends, LeavesGroup, Calm, TypeOK, FaultKinds
  <2>4. CASE Start(m)
    BY <2>4 DEF Start, Calm, TypeOK
  <2>5. QED
    BY <1>6, <2>1, <2>2, <2>3, <2>4 DEF Process
<1>7. QED
  BY <1>1, <1>2, <1>3, <1>4, <1>5, <1>6 DEF Next

\* While no replica is stopped or expelled no drop site is reached.
LEMMA CalmAlways == Spec => []CalmInv
<1>1. Init => CalmInv
  BY WriterAssumption DEF Init, CalmInv, Calm, NobodyStopped, DropSites,
                          FaultKinds
<1>2. IInv /\ CalmInv /\ [Next]_vars => CalmInv'
  BY CalmStep DEF IInv
<1>3. QED
  BY <1>1, <1>2, Inductive, PTL DEF Spec

\* In calm nothing has been dropped.
LEMMA CalmDropsNothing ==
  ASSUME TypeOK, Calm
  PROVE  Dropped = {}
<1>1. DOMAIN dropped = DropSites
  BY DEF TypeOK
<1>2. QED
  BY <1>1 DEF Calm, Dropped, Range

\* As long as no replica has been stopped or expelled, the writers deliver at
\* least once: a committed offset never passes a span that is not in
\* ClickHouse, whatever crashes, outages, failed commits and revocations
\* happen.
THEOREM AtLeastOnceUndisturbed == Spec => []CommittedAreStored
<1>1. IInv /\ CalmInv => CommittedAreStored
  BY CalmDropsNothing
  DEF IInv, LossOnlyAtDropSites, CommittedAreStored, Done, CalmInv
<1>2. QED
  BY <1>1, Inductive, CalmAlways, PTL

-----------------------------------------------------------------------------
(* The writers implement AtLeastOnce                                       *)

\* A step of the writers is a step of AtLeastOnce or leaves it alone.
LEMMA StepImplements ==
  ASSUME IInv, IInv', [Next]_vars
  PROVE  [Promise!Next]_<<committed, stored \cup Dropped>>
<1>1. TypeOK /\ TypeOK' /\ PipelineInv /\ LossOnlyAtDropSites
  BY DEF IInv
<1>2. Promise!Record = Record
  BY DEF Promise!Record, Record
<1>3. stored \cup Dropped \subseteq stored' \cup Dropped'
  <2>1. stored \subseteq stored' /\ Done \subseteq Done'
    BY <1>1, DoneGrows
  <2>2. CASE UNCHANGED dropped
    BY <2>1, <2>2 DEF Dropped
  <2>3. ASSUME NEW site \in DropSites, NEW records, Drop(site, records)
        PROVE  Dropped \subseteq Dropped'
    BY <1>1, <2>3, DropGrows
  <2>4. \/ UNCHANGED dropped
        \/ \E site \in DropSites : \E records : Drop(site, records)
    BY ZenonT(60) DEF Next, FetchLoop, Poll, SkipUndecodable, Push, PushCancelled,
         BatchLoop, Take, Tick, CtxDone, Flush, FlushNothing, StartFlush,
         InsertOk, InsertFails, BackoffElapsed, FlushAbandoned, CommitOk,
         CommitFails, Group, Assign, Revoke, Evict, Lost, DropLostBatch,
         Rejoin, Process, Shutdown, Close, Crash, Start, vars, DropSites
  <2>5. QED
    BY <2>1, <2>2, <2>3, <2>4
<1>4. stored' \cup Dropped' \subseteq Record
  BY <1>1 DEF TypeOK, Dropped, Range
<1>5. CASE UNCHANGED committed
  <2>1. stored' \cup Dropped'
          = (stored \cup Dropped) \cup (stored' \cup Dropped')
    BY <1>3
  <2>2. QED
    BY <1>2, <1>4, <1>5, <2>1 DEF Promise!Next, Promise!Deliver
<1>6. ASSUME NEW m \in Members, CommitOk(m)
      PROVE  Promise!Commit
  <2>1. CoverInv(m) /\ FlushConsistent(m)
    BY <1>1 DEF PipelineInv
  <2>2. \A r \in Record : r[2] < committed'[r[1]] => r \in Done
    BY <1>1, <1>6, <2>1, CommitCovered
  <2>3. Promise!Backed(committed')
    BY <1>2, <2>2 DEF Promise!Backed, Done
  <2>4. committed' \in [Partitions -> 0 .. LogLength]
    BY <1>1 DEF TypeOK
  <2>5. UNCHANGED (stored \cup Dropped)
    BY <1>6 DEF CommitOk, Dropped
  <2>6. QED
    BY <2>3, <2>4, <2>5 DEF Promise!Commit
<1>7. (\E m \in Members : CommitOk(m)) \/ UNCHANGED committed
  BY DEF Next, FetchLoop, Poll, SkipUndecodable, Push, PushCancelled,
         BatchLoop, Take, Tick, CtxDone, Flush, FlushNothing, StartFlush,
         InsertOk, InsertFails, BackoffElapsed, FlushAbandoned, CommitFails,
         Group, Assign, Revoke, Evict, Lost, DropLostBatch, Rejoin,
         Process, Shutdown, Close, Crash, Start, vars
<1>8. QED
  BY <1>5, <1>6, <1>7 DEF Promise!Next

\* The detailed specification implements the abstract one.
THEOREM WritersKeepPromise == Spec => PromiseKept
<1>1. Init => Promise!Init
  BY DEF Init, Promise!Init, Dropped, Range, DropSites
<1>2. IInv /\ IInv' /\ [Next]_vars
        => [Promise!Next]_<<committed, stored \cup Dropped>>
  BY StepImplements
<1>3. QED
  BY <1>1, <1>2, Inductive, PTL DEF Spec, PromiseKept, Promise!Spec

-----------------------------------------------------------------------------
(* a writer's memory stays bounded and its loop leaves nothing behind      *)
(*                                                                         *)
(* Batch.Add is not guarded by flushMu, so a batch may grow while a flush  *)
(* waits for ClickHouse.  What bounds it is the position of batchLoop: it  *)
(* takes from the queue only in its select, which it leaves when the batch *)
(* is full and comes back to only after a flush that has drained it.       *)

\* A batch in batchLoop's select has room, and one that batchLoop has drained
\* stays empty until it is back there.
Room(m) ==
    /\ Len(batch[m]) <= BatchMaxSize
    /\ Len(queue[m]) <= QueueCapacity
    /\ IsFiniteSet(flight[m]) /\ Cardinality(flight[m]) <= BatchMaxSize
    /\ loop[m] = "select" => Len(batch[m]) < BatchMaxSize
    /\ loop[m] = "exited" \/ lock[m] = "loop" => batch[m] = <<>>

RoomInv == \A m \in Members : Room(m)

\* A batch has no more records than places.
LEMMA RangeIsSmall ==
  ASSUME NEW S, NEW s \in Seq(S)
  PROVE  IsFiniteSet(Range(s)) /\ Cardinality(Range(s)) <= Len(s) /\ Cardinality(Range(s)) \in Nat
<1>1. Len(s) \in Nat /\ DOMAIN s = 1 .. Len(s) /\ s \in [1 .. Len(s) -> Range(s)]
  BY LenProperties DEF Range
<1>2. s \in Surjection(1 .. Len(s), Range(s))
  BY <1>1 DEF Surjection, Range
<1>3. IsFiniteSet(1 .. Len(s)) /\ Cardinality(1 .. Len(s)) = Len(s)
  BY <1>1, FS_Interval
<1>4. IsFiniteSet(Range(s)) /\ Cardinality(Range(s)) <= Cardinality(1 .. Len(s))
  BY <1>2, <1>3, FS_Surjection
<1> QED BY <1>3, <1>4, FS_CardinalityType

\* The buffers are empty at the start.
LEMMA InitRoom == Init => RoomInv
<1>1. IsFiniteSet({}) /\ Cardinality({}) = 0 /\ Len(<<>>) = 0
  BY FS_EmptySet
<1> QED BY <1>1 DEF Init, RoomInv, Room

\* What Room(m) reads.
LEMMA RoomKept ==
  ASSUME NEW m \in Members, Room(m), batch'[m] = batch[m], queue'[m] = queue[m],
         flight'[m] = flight[m], loop'[m] = loop[m], lock'[m] = lock[m]
  PROVE  Room(m)'
BY DEF Room

\* The poll loop keeps the bounds.
LEMMA FetchRoom ==
  ASSUME IInv, NEW m \in Members, Room(m), FetchLoop(m)
  PROVE  Room(m)'
<1>1. ASSUME NEW r \in poll[m], Push(m, r) PROVE Room(m)'
  <2>1. queue[m] \in Seq(Record) /\ r \in Record /\ m \in DOMAIN queue
    BY DEF IInv, TypeOK
  <2>2. queue'[m] = Append(queue[m], r) /\ Len(queue[m]) < QueueCapacity
        /\ UNCHANGED <<batch, flight, loop, lock>>
    BY <1>1, <2>1 DEF Push, flushVars
  <2>3. Len(Append(queue[m], r)) = Len(queue[m]) + 1 /\ Len(queue[m]) \in Nat
    BY <2>1, RangeAppend
  <2>4. Len(queue'[m]) <= QueueCapacity
    BY <2>2, <2>3
  <2> QED BY <2>2, <2>4 DEF Room
<1>2. ASSUME Poll(m) \/ \E r \in poll[m] : SkipUndecodable(m, r) \/ PushCancelled(m, r)
      PROVE  Room(m)'
  BY <1>2, RoomKept DEF Poll, SkipUndecodable, PushCancelled, flushVars
<1> QED BY <1>1, <1>2 DEF FetchLoop

\* The batch loop keeps them.
LEMMA BatchRoom ==
  ASSUME IInv, NEW m \in Members, Room(m), BatchLoop(m)
  PROVE  Room(m)'
<1>0. /\ batch[m] \in Seq(Record) /\ queue[m] \in Seq(Record)
      /\ m \in DOMAIN batch /\ m \in DOMAIN queue /\ m \in DOMAIN loop
      /\ lock[m] = "loop" => loop[m] \in {"flush", "final"}
  BY DEF IInv, TypeOK, PipelineInv, FlushConsistent
<1>1. CASE Take(m)
  <2>1. /\ queue[m] # <<>> /\ loop[m] = "select" /\ queue'[m] = Tail(queue[m])
        /\ batch'[m] = Append(batch[m], Head(queue[m]))
        /\ loop'[m] = (IF Len(batch[m]) + 1 >= BatchMaxSize THEN "flush" ELSE "select")
        /\ UNCHANGED <<flight, lock>>
    BY <1>0, <1>1 DEF Take, flushVars
  <2>2. Head(queue[m]) \in Record /\ Len(Tail(queue[m])) = Len(queue[m]) - 1 /\ Len(queue[m]) \in Nat
    BY <1>0, <2>1, RangeHeadTail
  <2>3. Len(batch'[m]) = Len(batch[m]) + 1 /\ Len(batch[m]) \in Nat
    BY <1>0, <2>1, <2>2, RangeAppend
  <2>4. Len(batch[m]) < BatchMaxSize /\ lock[m] # "loop"
    BY <1>0, <2>1 DEF Room
  <2>5. Len(queue'[m]) <= QueueCapacity
    BY <2>1, <2>2 DEF Room
  <2> QED BY <2>1, <2>3, <2>4, <2>5 DEF Room
<1>2. CASE Tick(m) \/ CtxDone(m)
  <2>1. /\ loop'[m] \in {"flush", "final"} /\ loop[m] = "select"
        /\ UNCHANGED <<batch, queue, flight, lock>>
    BY <1>0, <1>2 DEF Tick, CtxDone, flushVars
  <2> QED BY <2>1 DEF Room
<1> QED BY <1>1, <1>2 DEF BatchLoop

\* A flush keeps them.
LEMMA FlushRoom ==
  ASSUME IInv, NEW m \in Members, Room(m), Flush(m)
  PROVE  Room(m)'
<1>0. /\ batch[m] \in Seq(Record) /\ queue[m] \in Seq(Record)
      /\ m \in DOMAIN batch /\ m \in DOMAIN queue /\ m \in DOMAIN loop
      /\ m \in DOMAIN lock /\ m \in DOMAIN flight
      /\ lock[m] \in {"free", "loop", "callback"} /\ Len(<<>>) = 0
      /\ phase[m] # "none" => lock[m] # "free"
  BY DEF IInv, TypeOK, PipelineInv, FlushConsistent
<1>1. ASSUME NEW caller \in {"loop", "callback"}, FlushNothing(m, caller) PROVE Room(m)'
  <2>1. batch[m] = <<>> /\ UNCHANGED <<batch, queue, flight, lock>>
    BY <1>1 DEF FlushNothing, flushVars
  <2> QED BY <1>0, <2>1 DEF Room
<1>2. ASSUME NEW caller \in {"loop", "callback"}, StartFlush(m, caller) PROVE Room(m)'
  <2>1. /\ batch'[m] = <<>> /\ flight'[m] = Range(batch[m]) /\ UNCHANGED <<queue, loop>>
    BY <1>0, <1>2 DEF StartFlush
  <2>2. IsFiniteSet(Range(batch[m])) /\ Cardinality(Range(batch[m])) <= Len(batch[m])
        /\ Cardinality(Range(batch[m])) \in Nat /\ Len(batch[m]) \in Nat
    BY <1>0, RangeIsSmall
  <2> QED BY <1>0, <2>1, <2>2 DEF Room
<1>3. CASE InsertOk(m) \/ InsertFails(m) \/ BackoffElapsed(m)
  BY <1>3, RoomKept DEF InsertOk, InsertFails, BackoffElapsed
<1>4. CASE FlushAbandoned(m) \/ CommitOk(m) \/ CommitFails(m)
  <2>1. /\ phase[m] # "none" /\ flight'[m] = {} /\ lock'[m] = "free" /\ CallerGoesOn(m, lock[m])
        /\ UNCHANGED <<batch, queue>>
    BY <1>0, <1>4 DEF FlushAbandoned, CommitOk, CommitFails, ReleaseFlush
  <2>2. IsFiniteSet({}) /\ Cardinality({}) = 0
    BY FS_EmptySet
  <2>3. CASE lock[m] = "loop"
    BY <1>0, <2>1, <2>2, <2>3 DEF Room
  <2>4. CASE lock[m] = "callback"
    <3>1. loop' = loop
      BY <2>1, <2>4 DEF CallerGoesOn, CallbackGoesOn
    <3> QED BY <1>0, <2>1, <2>2, <2>4, <3>1 DEF Room
  <2> QED BY <1>0, <2>1, <2>3, <2>4
<1> QED BY <1>1, <1>2, <1>3, <1>4 DEF Flush

\* Group, starts, stops and crashes keep them.
LEMMA GroupRoom ==
  ASSUME IInv, NEW m \in Members, Room(m), Group(m) \/ Process(m)
  PROVE  Room(m)'
<1>0. /\ m \in DOMAIN batch /\ m \in DOMAIN queue /\ m \in DOMAIN loop
      /\ m \in DOMAIN lock /\ m \in DOMAIN flight /\ Len(<<>>) = 0
  BY DEF IInv, TypeOK
<1>1. CASE (\E p \in Partitions : Assign(m, p)) \/ Revoke(m) \/ Evict(m) \/ Lost(m) \/ Rejoin(m)
           \/ Shutdown(m) \/ Start(m)
  <2>1. UNCHANGED <<batch, queue, flight, loop, lock>>
    BY <1>1 DEF Assign, Revoke, Evict, Lost, Rejoin, Shutdown, Start, memberVars, flushVars
  <2> QED BY <2>1, RoomKept
<1>2. CASE DropLostBatch(m)
  <2>1. batch'[m] = <<>> /\ UNCHANGED <<queue, flight, loop, lock>>
    BY <1>0, <1>2 DEF DropLostBatch, flushVars
  <2> QED BY <1>0, <2>1 DEF Room
<1>3. CASE Close(m) \/ Crash(m)
  <2>1. /\ batch'[m] = <<>> /\ queue'[m] = <<>> /\ flight'[m] = {} /\ loop'[m] = "select"
        /\ lock'[m] = "free"
    BY <1>0, <1>3 DEF Close, Crash, Ends
  <2>2. IsFiniteSet({}) /\ Cardinality({}) = 0
    BY FS_EmptySet
  <2> QED BY <1>0, <2>1, <2>2 DEF Room
<1> QED BY <1>1, <1>2, <1>3 DEF Group, Process

\* So every step does.
LEMMA NextRoom == IInv /\ RoomInv /\ [Next]_vars => RoomInv'
<1> SUFFICES ASSUME IInv, RoomInv, [Next]_vars, NEW n \in Members PROVE Room(n)'
  BY DEF RoomInv
<1>1. Room(n)
  BY DEF RoomInv
<1>2. CASE UNCHANGED vars
  BY <1>1, <1>2, RoomKept DEF vars, memberVars, flushVars
<1>3. ASSUME NEW m \in Members, FetchLoop(m) \/ BatchLoop(m) \/ Flush(m) \/ Group(m) \/ Process(m)
      PROVE  Room(n)'
  <2>1. CASE n = m
    BY <1>1, <1>3, <2>1, FetchRoom, BatchRoom, FlushRoom, GroupRoom
  <2>2. CASE n # m
    <3>1. SameData(n) /\ SameControl(n)
      BY <1>3, <2>2, OthersKept DEF IInv
    <3> QED BY <1>1, <3>1, RoomKept DEF SameData, SameControl
  <2> QED BY <2>1, <2>2
<1> QED BY <1>2, <1>3 DEF Next

\* The stages of the pipeline keep within their rooms in every behaviour
\* (boundedqueue.New, batcher.Add, batchLoop).
THEOREM RoomAlways == Spec => []RoomInv
BY InitRoom, NextRoom, Inductive, PTL DEF Spec

\* Through any outage, rebalance, stop or crash, a writer holds at most one
\* full queue, one full batch and one full batch in flight.
THEOREM MemoryStaysBounded == Spec => []MemoryBounded
<1>1. RoomInv => MemoryBounded
  BY DEF RoomInv, Room, MemoryBounded
<1> QED BY <1>1, RoomAlways, PTL

\* When batchLoop has returned its batch is empty, so the revoke callback that
\* Close runs has nothing to flush.
THEOREM ExitLeavesNoBatch == Spec => []ExitedLoopLeavesNoBatch
<1>1. RoomInv => ExitedLoopLeavesNoBatch
  BY DEF RoomInv, Room, ExitedLoopLeavesNoBatch
<1> QED BY <1>1, RoomAlways, PTL

=============================================================================
