----------------------------- MODULE MCReassembly -----------------------------
(* Instances of Reassembly, with the clocks and the scores of its traces, for TLC. *)
EXTENDS ClockSkew, TraceScore

CONSTANTS s1, s2, s3, s4, a, b, c, w1, w2

FourSpans     == {s1, s2, s3, s4}
ThreeServices == {a, b, c}

\* Clocks that agree or are off by more than a call takes.
OnOrOff == [Services -> {0, 3}]
=============================================================================
