------------------------------ MODULE MCDetection ------------------------------
(* Instances of Detection for TLC. *)
EXTENDS Detection

L(lat, errors, late, split) == [lat |-> lat, errors |-> errors, late |-> late, split |-> split]

\* Steady traffic; a slow tail and one failure; twice the calls, all failing;
\* a few calls; none; three late spans and a parent in the window before.
MixedLoads == { L(<<10, 10, 11, 12>>, 0, 0, 0), L(<<10, 10, 11, 60>>, 1, 0, 0),
                L(<<10, 10, 11, 12, 10, 10, 11, 12>>, 8, 0, 0), L(<<10, 10, 12>>, 0, 0, 0),
                L(<< >>, 0, 0, 0), L(<<10, 10, 11, 12>>, 0, 3, 1) }
=============================================================================
