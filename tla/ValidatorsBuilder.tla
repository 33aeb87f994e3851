-------------------------- MODULE ValidatorsBuilder -------------------------
(***************************************************************************)
(* How the weights of an epoch are made (inter/pos): a builder collects    *)
(* weights, that of big numbers scales them down by a power of two, and    *)
(* Build refuses a total that does not fit.                                *)
(***************************************************************************)
EXTENDS Integers, FiniteSets

MaxUint32 == 4294967295

\* The largest total weight: math.MaxUint32/2.
MaxTotal == MaxUint32 \div 2

\* Set, of both builders: a weight of zero removes the validator.
Set(values, id, weight) ==
    IF weight = 0 THEN [v \in DOMAIN values \ {id} |-> values[v]]
    ELSE [v \in DOMAIN values \cup {id} |-> IF v = id THEN weight ELSE values[v]]

\* A validator of weight w holds w units of stake.
Stakes(values) == UNION {{v} \X (1 .. values[v]) : v \in DOMAIN values}

Total(values) == Cardinality(Stakes(values))

\* calcCaches, at the end of Build.  A sum that wraps around is less than before, and more
\* than MaxTotal when it is not taken modulo 2^32.
Panics(values) == Total(values) > MaxTotal

\* Validators.Quorum in 32 bits.
Quorum32(total) == (((total * 2) % (MaxUint32 + 1)) \div 3 + 1) % (MaxUint32 + 1)

\* Rsh by the bits that the total has beyond 31, the ratio being the power of two.
Fits(big, ratio) == ratio \in Nat \ {0} /\ Total(big) \div ratio <= MaxTotal

Shifted(big, ratio) == [v \in DOMAIN big |-> big[v] \div ratio]

\* Weight(weight.Uint64()), and Set leaves out those of which nothing remains.
BigBuild(big, ratio) ==
    LET weight == [v \in DOMAIN big |-> Shifted(big, ratio)[v] % (MaxUint32 + 1)]
    IN  [v \in {u \in DOMAIN big : weight[u] # 0} |-> weight[v]]
=============================================================================
