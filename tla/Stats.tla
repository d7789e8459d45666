--------------------------------- MODULE Stats ---------------------------------
(***************************************************************************)
(* The order statistics of analyzer/src/analyzer/statutil.py, exactly.     *)
(* A list of values is a function from any finite set to the integers; the *)
(* fractions the code computes in floats are scaled to whole numbers.      *)
(***************************************************************************)
EXTENDS Integers, FiniteSets

Count(f) == Cardinality(DOMAIN f)

\* The k-th smallest value.
Nth(f, k) ==
    CHOOSE v \in {f[i] : i \in DOMAIN f} :
        /\ Cardinality({i \in DOMAIN f : f[i] < v}) < k
        /\ k <= Cardinality({i \in DOMAIN f : f[i] <= v})

\* Twice the median; 0 of no values.
Median2(f) ==
    IF DOMAIN f = {} THEN 0
    ELSE Nth(f, (Count(f) + 1) \div 2) + Nth(f, Count(f) \div 2 + 1)

Abs(n) == IF n < 0 THEN -n ELSE n

\* Four times the median absolute deviation.
Mad4(f) == Median2([i \in DOMAIN f |-> Abs(2 * f[i] - Median2(f))])

\* A hundred times the percentile, between two ranks by linear interpolation.
Percentile100(f, pct) ==
    IF DOMAIN f = {} THEN 0
    ELSE LET rank == pct * (Count(f) - 1)
             low  == Nth(f, rank \div 100 + 1)
             high == Nth(f, IF rank % 100 = 0 THEN rank \div 100 + 1 ELSE rank \div 100 + 2)
         IN 100 * low + (high - low) * (rank % 100)

=============================================================================
