---------------------------- MODULE AtLeastOnce ----------------------------
(***************************************************************************)
(* What the writer promises of the topic (ARCHITECTURE.md, "Backpressure": *)
(* nothing is acknowledged to Kafka that was not durably written), without *)
(* members, queues, batches or flushes: records are delivered, any number  *)
(* at a time, and the group's committed offsets move, forward or back, but *)
(* never to a point with an undelivered record below it.                   *)
(***************************************************************************)
EXTENDS Naturals

CONSTANTS
    Partitions,   \* the partitions of the topic
    LogLength,    \* records in each partition
    Undecodable   \* records there is nothing to deliver of

Record == Partitions \X (0 .. LogLength - 1)

VARIABLES
    committed,    \* partition -> the group's committed offset
    delivered     \* the records the promise no longer concerns

Backed(offsets) ==
    \A r \in Record :
        r[2] < offsets[r[1]] => r \in delivered \cup Undecodable

Init ==
    /\ committed = [p \in Partitions |-> 0]
    /\ delivered = {}

Deliver ==
    /\ \E records \in SUBSET Record : delivered' = delivered \cup records
    /\ UNCHANGED committed

Commit ==
    /\ \E offsets \in [Partitions -> 0 .. LogLength] :
          Backed(offsets) /\ committed' = offsets
    /\ UNCHANGED delivered

Next == Deliver \/ Commit

Spec == Init /\ [][Next]_<<committed, delivered>>
=============================================================================
