----------------------------- MODULE MCCollector -----------------------------
(* Instances of Collector for TLC. *)
EXTENDS Collector

CONSTANTS c1, c2, c3

ThreeClients == {c1, c2, c3}

\* Two good spans, one that does not marshal, and an invalid one.
MixedRequests ==
    [c \in Clients |-> CASE c = c1 -> <<"good", "good">>
                        [] c = c2 -> <<"unmarshalable">>
                        [] c = c3 -> <<"invalid">>]
=============================================================================
