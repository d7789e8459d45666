----------------------------- MODULE MCApiQuery ------------------------------
(* Instances of ApiQuery for TLC. *)
EXTENDS ApiQuery

CONSTANTS d1, d2

TwoDeps == {d1, d2}

=============================================================================
