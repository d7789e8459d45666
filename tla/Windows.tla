------------------------------- MODULE Windows -------------------------------
(***************************************************************************)
(* The analyzer's poll loop (analyzer/src/analyzer/main.py, windowing.py): *)
(* a window of wall-clock time is due once its end plus the watermark has  *)
(* passed; the loop reads it once, writes a row of inserts derived from    *)
(* what it read, marks it processed, and now and then counts the spans     *)
(* that landed in windows already behind the cursor.  Spans arrive in      *)
(* ClickHouse at any time, more than once (the writer is at-least-once),   *)
(* and the process may die at any step and be started again: all of        *)
(* WindowTracker and the late-check cursor live in memory.                 *)
(*                                                                         *)
(* Timestamps of ingestion are compared only with last_late_check, so      *)
(* "fresh" stands for ingested_at > last_late_check.                       *)
(*                                                                         *)
(* Assumed: the wall clock (time.time, now64) never steps back.            *)
(***************************************************************************)
EXTENDS Integers, Sequences

CONSTANTS
    Spans,
    Start,          \* Start[s]: start_time of span s
    WindowSeconds,
    WatermarkSeconds,
    LateCheckInterval,
    Inserts,        \* inserts process_window makes for one window, in order
    MaxTime,        \* bound: the clock
    MaxIngests,     \* bound: inserts of one span by the writer
    MaxCrashes      \* bound: crashes of the analyzer

ASSUME WindowsAssumption ==
    /\ WindowSeconds \in Nat \ {0} /\ WatermarkSeconds \in Nat
    /\ LateCheckInterval \in Nat /\ Inserts \in Nat \ {0}
    /\ MaxTime \in Nat /\ MaxIngests \in Nat /\ MaxCrashes \in Nat
    /\ Start \in [Spans -> 0..MaxTime]

NoIndex == -1

VARIABLES
    clock,     \* wall clock, and the monotonic clock
    ingests,   \* ingests[s]: times the writer inserted span s
    arrived,   \* history: arrived[s], clock at the first of them
    fresh,     \* spans with ingested_at > last_late_check
    pc,        \* "down", "loop", "read", "insert", "late", "cursor", "wait", "done"
    due,       \* windows due_windows returned that are not handled yet
    nextIndex, \* WindowTracker._next_index
    lateMono,  \* last_late_check_monotonic
    stop,      \* stop_event
    written,   \* written[w]: inserts made for window w
    seen,      \* history: spans that were among the rows of their window
    counted,   \* history: spans counted in analyzer_late_spans_total
    reads,     \* history: reads[w], times window w was read
    missed,    \* history: spans ingested between a late query and the cursor
               \* update, while nobody ran, or unread when a process died,
               \* and not ingested again since
    first,     \* history: first index of this process, NoIndex before it is set
    crashes    \* bound

vars == <<clock, ingests, arrived, fresh, pc, due, nextIndex, lateMono, stop,
          written, seen, counted, reads, missed, first, crashes>>

storeVars   == <<ingests, arrived>>
trackerVars == <<nextIndex, first>>
outputVars  == <<written, seen, counted, reads>>

\* window_index and window_bounds
WindowIndex(t) == t \div WindowSeconds
EndOf(w)       == (w + 1) * WindowSeconds
StartOf(w)     == w * WindowSeconds

Windows == 0..WindowIndex(MaxTime)

Stored     == {s \in Spans : ingests[s] > 0}
SpansOf(w) == {s \in Stored : StartOf(w) <= Start[s] /\ Start[s] < EndOf(w)}

Init ==
    /\ clock \in 0..MaxTime
    /\ ingests = [s \in Spans |-> 0]
    /\ arrived = [s \in Spans |-> 0]
    /\ fresh = {} /\ missed = {}
    /\ pc = "loop" /\ due = <<>> /\ nextIndex = NoIndex /\ first = NoIndex
    /\ lateMono = 0 /\ stop = FALSE
    /\ written = [w \in Windows |-> 0]
    /\ reads = [w \in Windows |-> 0]
    /\ seen = {} /\ counted = {}
    /\ crashes = 0

-----------------------------------------------------------------------------
(* the environment *)

Tick ==
    /\ clock < MaxTime
    /\ clock' = clock + 1
    /\ UNCHANGED <<fresh, pc, due, lateMono, stop, missed, crashes>>
    /\ UNCHANGED storeVars /\ UNCHANGED trackerVars /\ UNCHANGED outputVars

\* The writer inserts a span, or inserts it again with a newer ingested_at.
\* A span is not in the table before it has started.
Ingest(s) ==
    /\ Start[s] <= clock
    /\ ingests[s] < MaxIngests
    /\ ingests' = [ingests EXCEPT ![s] = @ + 1]
    /\ arrived' = IF ingests[s] = 0 THEN [arrived EXCEPT ![s] = clock] ELSE arrived
    /\ fresh' = fresh \cup {s}
    /\ missed' = IF pc \in {"cursor", "down"} THEN missed \cup {s} ELSE missed \ {s}
    /\ UNCHANGED <<clock, pc, due, lateMono, stop, crashes>>
    /\ UNCHANGED trackerVars /\ UNCHANGED outputVars

Signal ==
    /\ ~stop /\ pc # "down"
    /\ stop' = TRUE
    /\ UNCHANGED <<clock, fresh, pc, due, lateMono, missed, crashes>>
    /\ UNCHANGED storeVars /\ UNCHANGED trackerVars /\ UNCHANGED outputVars

-----------------------------------------------------------------------------
(* the poll loop *)

Exit ==
    /\ pc = "loop" /\ stop
    /\ pc' = "done"
    /\ UNCHANGED <<clock, fresh, due, lateMono, stop, missed, crashes>>
    /\ UNCHANGED storeVars /\ UNCHANGED trackerVars /\ UNCHANGED outputVars

\* The first call of due_windows, one window back.
FirstIndexOneBack(now) ==
    IF WindowIndex(now) = 0 THEN 0 ELSE WindowIndex(now) - 1

\* The first call of due_windows starts at the window the clock is in.
FirstIndex(now) == WindowIndex(now)

\* A due test that forgets the watermark.
IsDueWithoutWatermark(w, now) == now >= EndOf(w)

IsDue(w, now) == now >= EndOf(w) + WatermarkSeconds

\* Every window from the cursor up to the first that is not due.
DueFrom(index, now) ==
    LET n == CHOOSE k \in 0..MaxTime + 1 :
                 /\ \A j \in 0..k - 1 : IsDue(index + j, now)
                 /\ ~IsDue(index + k, now)
    IN [j \in 1..n |-> index + j - 1]

DueWindows ==
    /\ pc = "loop" /\ ~stop
    /\ LET index == IF nextIndex = NoIndex THEN FirstIndex(clock) ELSE nextIndex
       IN /\ nextIndex' = index
          /\ first' = IF nextIndex = NoIndex THEN index ELSE first
          /\ due' = DueFrom(index, clock)
          /\ pc' = IF due' = <<>> THEN "late" ELSE "read"
    /\ UNCHANGED <<clock, fresh, lateMono, stop, missed, crashes>>
    /\ UNCHANGED storeVars /\ UNCHANGED outputVars

\* process_window: fetch_window.
Read ==
    /\ pc = "read"
    /\ seen' = seen \cup SpansOf(Head(due))
    /\ reads' = [reads EXCEPT ![Head(due)] = @ + 1]
    /\ pc' = "insert"
    /\ UNCHANGED <<clock, fresh, due, lateMono, stop, missed, crashes,
                   written, counted>>
    /\ UNCHANGED storeVars /\ UNCHANGED trackerVars

\* process_window: the next insert of what was derived from the rows.
Insert ==
    /\ pc = "insert"
    /\ written[Head(due)] < Inserts
    /\ written' = [written EXCEPT ![Head(due)] = @ + 1]
    /\ UNCHANGED <<clock, fresh, pc, due, lateMono, stop, missed, crashes,
                   seen, counted, reads>>
    /\ UNCHANGED storeVars /\ UNCHANGED trackerVars

\* A cursor that jumps to the window the clock is in.
MarkToNow ==
    /\ pc = "insert"
    /\ written[Head(due)] = Inserts
    /\ nextIndex' = WindowIndex(clock)
    /\ due' = <<>>
    /\ pc' = "late"
    /\ UNCHANGED <<clock, fresh, lateMono, stop, missed, crashes, first>>
    /\ UNCHANGED storeVars /\ UNCHANGED outputVars

\* mark_processed, and on to the next due window.
MarkProcessed ==
    /\ pc = "insert"
    /\ written[Head(due)] = Inserts
    /\ nextIndex' = IF Head(due) >= nextIndex THEN Head(due) + 1 ELSE nextIndex
    /\ due' = Tail(due)
    /\ pc' = IF due' = <<>> THEN "late" ELSE "read"
    /\ UNCHANGED <<clock, fresh, lateMono, stop, missed, crashes, first>>
    /\ UNCHANGED storeVars /\ UNCHANGED outputVars

Boundary == StartOf(nextIndex)

\* A late check that looks only behind the cursor's last window.
LateBehindOneMore == {s \in fresh \cap Stored : Start[s] < Boundary - WindowSeconds}

\* Rows of fetch_late_spans: landed since the last check, before the boundary.
Late == {s \in fresh \cap Stored : Start[s] < Boundary}

LateQuery ==
    /\ pc = "late"
    /\ clock - lateMono >= LateCheckInterval
    /\ counted' = counted \cup Late
    /\ pc' = "cursor"
    /\ UNCHANGED <<clock, fresh, due, lateMono, stop, missed, crashes,
                   written, seen, reads>>
    /\ UNCHANGED storeVars /\ UNCHANGED trackerVars

NoLateCheckYet ==
    /\ pc = "late"
    /\ clock - lateMono < LateCheckInterval
    /\ pc' = "wait"
    /\ UNCHANGED <<clock, fresh, due, lateMono, stop, missed, crashes>>
    /\ UNCHANGED storeVars /\ UNCHANGED trackerVars /\ UNCHANGED outputVars

\* last_late_check becomes the time after the query, not before it.
MoveCursor ==
    /\ pc = "cursor"
    /\ fresh' = {}
    /\ lateMono' = clock
    /\ pc' = "wait"
    /\ UNCHANGED <<clock, due, stop, missed, crashes>>
    /\ UNCHANGED storeVars /\ UNCHANGED trackerVars /\ UNCHANGED outputVars

\* stop_event.wait returns, after the poll interval or because of the event.
Wake ==
    /\ pc = "wait"
    /\ pc' = "loop"
    /\ UNCHANGED <<clock, fresh, due, lateMono, stop, missed, crashes>>
    /\ UNCHANGED storeVars /\ UNCHANGED trackerVars /\ UNCHANGED outputVars

-----------------------------------------------------------------------------
(* crash and restart *)

\* The process is killed, or a query or an insert raises: run has no handler.
Crash ==
    /\ pc \notin {"down", "done"}
    /\ crashes < MaxCrashes
    /\ crashes' = crashes + 1
    /\ pc' = "down"
    /\ due' = <<>> /\ nextIndex' = NoIndex /\ first' = NoIndex
    /\ stop' = FALSE
    /\ missed' = missed \cup (Stored \ (seen \cup counted))
    /\ UNCHANGED <<clock, fresh, lateMono>>
    /\ UNCHANGED storeVars /\ UNCHANGED outputVars

\* run from the top: a new tracker, last_late_check = now.
Restart ==
    /\ pc = "down"
    /\ pc' = "loop"
    /\ fresh' = {}
    /\ lateMono' = 0
    /\ UNCHANGED <<clock, due, stop, missed, crashes>>
    /\ UNCHANGED storeVars /\ UNCHANGED trackerVars /\ UNCHANGED outputVars

-----------------------------------------------------------------------------

Loop ==
    \/ Exit \/ DueWindows \/ Read \/ Insert \/ MarkProcessed
    \/ LateQuery \/ NoLateCheckYet \/ MoveCursor \/ Wake

Next ==
    \/ Tick \/ Signal
    \/ \E s \in Spans : Ingest(s)
    \/ Loop
    \/ Crash \/ Restart

Spec == Init /\ [][Next]_vars

\* Time passes, the process is scheduled, and a container that exits is
\* started again (restart: unless-stopped).
Fairness == WF_vars(Tick) /\ WF_vars(Loop) /\ WF_vars(Restart)

FairSpec == Spec /\ Fairness

-----------------------------------------------------------------------------
(* Properties *)

TypeOK ==
    /\ clock \in 0..MaxTime /\ lateMono \in 0..MaxTime
    /\ ingests \in [Spans -> 0..MaxIngests]
    /\ arrived \in [Spans -> 0..MaxTime]
    /\ fresh \subseteq Spans /\ missed \subseteq Spans
    /\ seen \subseteq Spans /\ counted \subseteq Spans
    /\ pc \in {"down", "loop", "read", "insert", "late", "cursor", "wait", "done"}
    /\ due \in Seq(Windows)
    /\ nextIndex \in {NoIndex} \cup 0..WindowIndex(clock)
    /\ first \in {NoIndex} \cup Nat
    /\ stop \in BOOLEAN
    /\ written \in [Windows -> 0..Inserts]
    /\ reads \in [Windows -> Nat]
    /\ crashes \in 0..MaxCrashes

\* Within one life of the process the cursor leaves nothing behind it: every
\* window between the first one and the cursor was written completely, and a
\* window is never skipped because processing fell behind the clock
\* (windowing.py:56-84, main.py:63-65).
NoGapBehindCursor ==
    nextIndex # NoIndex =>
        \A w \in Windows : first <= w /\ w < nextIndex => written[w] = Inserts

\* No window is read twice while the wall clock does not step back, whatever
\* crashes come between: a restarted analyzer begins at the window the clock is
\* in, which cannot have been due (windowing.py:62-63, 69).  init.sql:106-109
\* expects otherwise of a restart ("a window can, in principle, be reprocessed")
\* and pays for it with ReplacingMergeTree; the code gets there only when the
\* clock steps back across the restart.
ReadAtMostOnce == \A w \in Windows : reads[w] <= 1

\* The cursor of windows neither skips nor repeats (windowing.py:56-84).
CursorSound == TypeOK /\ NoGapBehindCursor /\ ReadAtMostOnce

\* A span that was in ClickHouse before its window's watermark passed is among
\* the rows of that window, whenever the window is read
\* (windowing.py:12-18, reader.py:76-91).
OnTimeIsSeen ==
    \A s \in Spans :
        /\ ingests[s] > 0
        /\ WindowIndex(Start[s]) \in Windows
        /\ reads[WindowIndex(Start[s])] > 0
        /\ arrived[s] < EndOf(WindowIndex(Start[s])) + WatermarkSeconds
        => s \in seen

Behind(s) == nextIndex # NoIndex /\ Start[s] < StartOf(nextIndex)

\* Every stored span behind the cursor was read with its window, was counted
\* late, or is still ahead of the next late check; the only ones outside are
\* those ingested between a late query and the cursor update after it, and
\* those that waited for a process that died (main.py:67-72).
NothingElseMissed ==
    \A s \in Stored : Behind(s) =>
        s \in seen \cup counted \cup fresh \cup missed

\* No span falls between being read in time and being counted late.
SpansFindAWindow == OnTimeIsSeen /\ NothingElseMissed

\* A window that ends after the analyzer started is written in the end, if the
\* process neither dies nor is stopped (main.py:55-74).
EveryWindowWritten ==
    \A w \in Windows :
        (first # NoIndex /\ first <= w /\ EndOf(w) + WatermarkSeconds <= MaxTime)
            ~> (written[w] = Inserts \/ pc = "down" \/ stop)

\* docs/ARCHITECTURE.md:251: "Late spans are never silently dropped. A span
\* that lands after its window was already finalized is detected [...] and
\* counted in analyzer_late_spans_total".
LateIsCounted ==
    \A s \in Spans :
        (Behind(s) /\ first <= WindowIndex(Start[s]) /\ s \in Stored \ seen)
            ~> (s \in counted \/ stop)

=============================================================================
