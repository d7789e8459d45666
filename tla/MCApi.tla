--------------------------------- MODULE MCApi ---------------------------------
(* Instances of Api for TLC. *)
EXTENDS Api

\* Four traces: one of some length, alone in the oldest window, and two that
\* share the newest.
FiveSpans    == 1..5
TraceOf      == <<"t1", "t1", "t2", "t3", "t4">>
ServiceOf    == <<"a", "b", "a", "a", "a">>
StartOf      == <<0, 1, 2, 4, 4>>

Session(lo, hi, limit, filter) == [lo |-> lo, hi |-> hi, limit |-> limit, filter |-> filter]

\* Row by row with and without the filter, more than is allowed, a range whose
\* end passes, one that is too long and one that is empty.
SomeQueries == {Session(0, 2, 1, FALSE), Session(0, 2, 1, TRUE), Session(0, 2, 4, FALSE),
                Session(0, 1, 1, FALSE), Session(0, 3, 1, FALSE), Session(1, 1, 1, FALSE)}
=============================================================================
