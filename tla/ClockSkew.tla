------------------------------- MODULE ClockSkew -------------------------------
(***************************************************************************)
(* Clock violations and offset estimates from the spans of a window        *)
(* (analyzer/src/analyzer/clockskew.py), over the trace of Reassembly.     *)
(*                                                                         *)
(* In truth every call starts one unit after its parent and ends one unit  *)
(* before it; what is recorded is off by the clock of the span's service.  *)
(* Where the code takes the first of equals in dict order, any of them is  *)
(* taken here.                                                             *)
(***************************************************************************)
EXTENDS Reassembly, Stats

CONSTANTS
    RootService,    \* root_service: the service whose clock is the reference
    Skews           \* bound: how the services' clocks may be set

ASSUME ClockSkewAssumption ==
    /\ RootService \in Services
    /\ Skews \subseteq [Services -> Int]

\* The recorded start and end of a span.
Start(s, skew) == Cardinality(Ancestors(s)) + skew[service[s]]
End(s, skew)   == 2 * Cardinality(Spans) - Cardinality(Ancestors(s)) + skew[service[s]]

\* detect_violations
StartsBeforeParent(skew) == {p \in Pairs : Start(p[2], skew) < Start(p[1], skew)}
EndsAfterParent(skew) ==
    {p \in Pairs \ StartsBeforeParent(skew) : End(p[2], skew) > End(p[1], skew)}

-----------------------------------------------------------------------------
(* estimate_offsets *)

ServiceEdges == {<<service[p[1]], service[p[2]]>> : p \in Pairs}

\* gaps_by_edge
Gaps(edge, skew) ==
    [p \in {q \in Pairs : service[q[1]] = edge[1] /\ service[q[2]] = edge[2]}
        |-> Start(p[2], skew) - Start(p[1], skew)]

EdgeMedian2(edge, skew) == Median2(Gaps(edge, skew))

\* The median of the edges' medians.
MedianOfMedians2(skew) == {Median2([e \in ServiceEdges |-> EdgeMedian2(e, skew)]) \div 2}

\* typical_gap: of the edges' medians the one closest to zero.
TypicalGap2(skew) ==
    LET medians == {EdgeMedian2(e, skew) : e \in ServiceEdges}
    IN {m \in medians : \A n \in medians : Abs(m) <= Abs(n)}

\* Any caller of the service.
AnyCaller(callee) == {e[1] : e \in {f \in ServiceEdges : f[2] = callee}}

\* primary_caller: a caller with the most calls.
PrimaryCaller(callee) ==
    {c \in AnyCaller(callee) :
        \A d \in AnyCaller(callee) : EdgeCalls(d, callee) <= EdgeCalls(c, callee)}

\* round() of half a number, halves to the even neighbour.
Round2(n) == IF n % 2 = 0 THEN n \div 2 ELSE (n \div 2) + ((n \div 2) % 2)

\* offsets: outward from the root, each service from its primary caller.
EstimateOffsets(skew, gap2, primary) ==
    LET next(known) ==
            [s \in DOMAIN known \cup {c \in DOMAIN primary : primary[c] \in DOMAIN known} |->
                IF s \in DOMAIN known THEN known[s]
                ELSE Round2(2 * known[primary[s]]
                              + EdgeMedian2(<<primary[s], s>>, skew) - gap2)]
        round[n \in 0..Cardinality(Services)] ==
            IF n = 0 THEN [s \in {RootService} |-> 0] ELSE next(round[n - 1])
    IN round[Cardinality(Services)]

-----------------------------------------------------------------------------
(* Properties *)

Callees  == {e[2] : e \in ServiceEdges}
Resolved == \A s \in rows : BottomsOut(s)

\* As long as the clocks of one calling pair agree, the estimates are right:
\* every service reached from the root over main callers is found to be off by
\* exactly its true offset, whichever other clocks are skewed, the root's own
\* or most of them (clockskew.py:80-94). A violation is recorded for a call
\* exactly when the two clocks differ by more than the call's own gaps.
SkewIsRecovered ==
    (pc = "done" /\ Resolved /\ Pairs # {}) =>
        \A skew \in Skews :
            LET off(p) == skew[service[p[2]]] - skew[service[p[1]]]
            IN /\ StartsBeforeParent(skew) = {p \in Pairs : off(p) < -1}
               /\ EndsAfterParent(skew) = {p \in Pairs : off(p) > 1}
               /\ (\E e \in ServiceEdges : skew[e[1]] = skew[e[2]]) =>
                    \A gap2 \in TypicalGap2(skew) :
                    \A primary \in {f \in [Callees -> Services] :
                                       \A c \in Callees : f[c] \in PrimaryCaller(c)} :
                        LET estimate == EstimateOffsets(skew, gap2, primary)
                        IN /\ \A s \in DOMAIN estimate :
                                estimate[s] = skew[s] - skew[RootService]
                           /\ \A c \in Callees : primary[c] \in DOMAIN estimate
                                                    => c \in DOMAIN estimate

=============================================================================
