------------------------------ MODULE MCIncidents ------------------------------
(* Instances of Incidents for TLC. *)
EXTENDS IncidentScore

Three == {1, 2, 3}

\* A call graph with a shortcut: 1 calls 2 and 3, and 2 calls 3.
Shortcut == {<<1, 2>>, <<1, 3>>, <<2, 3>>}

\* Every service, the call from 1 to 2, and a second kind of trouble at 3.
ServiceKeys == {Key(Service(s), "latency") : s \in Services}
MixedKeys   == ServiceKeys \cup {Key(Edge(<<1, 2>>), "latency"), Key(Service(3), "error_rate")}

\* Critical, but in window 1; the later windows have less to find.
MixedFiring ==
    { d \in [window : 0..MaxWindow, key : MixedKeys, severity : {1, 2}] :
        /\ d.severity = 1 <=> d.window = 1
        /\ d.window = 1 => d.key \in ServiceKeys
        /\ d.window = 2 => d.key \in ServiceKeys \ {Key(Service(2), "latency")}
        /\ d.window = 3 => d.key = Key(Service(3), "latency") }
=============================================================================
