------------------------------ MODULE MCWindows ------------------------------
(* Instances of Windows for TLC. *)
EXTENDS Windows

CONSTANT s1

OneSpan == {s1}
StartsAtZero == [s \in Spans |-> 0]

=============================================================================
