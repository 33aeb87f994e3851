------------------------------ MODULE PosProofs -----------------------------
(***************************************************************************)
(* Weights and quorums: the arithmetic behind every vote, for any weights, *)
(* and that of the builders that make the weights.                         *)
(***************************************************************************)
EXTENDS Pos, ValidatorsBuilder, FiniteSetTheorems, TLAPS

\* A set of validators holds finitely many units of stake.
LEMMA UnitsFinite ==
    ASSUME NEW S \in SUBSET Validators
    PROVE  IsFiniteSet(Units(S))
<1> DEFINE P == {{v} \X (1 .. Weight[v]) : v \in S}
<1>1. IsFiniteSet(S)
  BY WeightType, FS_Subset
<1>2. IsFiniteSet(P)
  <2> DEFINE f == [v \in S |-> {v} \X (1 .. Weight[v])]
  <2>1. f \in Surjection(S, P)
    BY DEF Surjection
  <2> QED
    BY <1>1, <2>1, FS_Surjection
<1>3. ASSUME NEW v \in S PROVE IsFiniteSet({v} \X (1 .. Weight[v]))
  <2>1. IsFiniteSet({v})
    BY FS_Singleton
  <2>2. IsFiniteSet(1 .. Weight[v])
    BY WeightType, FS_Interval
  <2> QED
    BY <2>1, <2>2, FS_Product
<1>4. \A p \in P : IsFiniteSet(p)
  BY <1>3
<1>5. IsFiniteSet(UNION P)
  BY <1>2, <1>4, FS_UNION
<1> QED
  BY <1>5 DEF Units

\* The weight of validators is a natural number, and that of disjoint groups adds up.
LEMMA SumLaws ==
    /\ \A S \in SUBSET Validators : Sum(S) \in Nat
    /\ \A S, T \in SUBSET Validators :
          S \cap T = {} => Sum(S \cup T) = Sum(S) + Sum(T)
<1>1. ASSUME NEW S \in SUBSET Validators PROVE Sum(S) \in Nat
  BY UnitsFinite, FS_CardinalityType DEF Sum
<1>2. ASSUME NEW S \in SUBSET Validators, NEW T \in SUBSET Validators, S \cap T = {}
      PROVE  Sum(S \cup T) = Sum(S) + Sum(T)
  <2>1. Units(S \cup T) = Units(S) \cup Units(T)
    BY DEF Units
  <2>2. Units(S) \cap Units(T) = {}
    BY <1>2 DEF Units
  <2>3. IsFiniteSet(Units(S)) /\ IsFiniteSet(Units(T))
    BY UnitsFinite
  <2>4. Cardinality(Units(S) \cup Units(T))
          = Cardinality(Units(S)) + Cardinality(Units(T)) - Cardinality(Units(S) \cap Units(T))
    BY <2>3, FS_Union
  <2>5. Cardinality(Units(S) \cap Units(T)) = 0
    BY <2>2, FS_EmptySet
  <2>6. Cardinality(Units(S)) \in Nat /\ Cardinality(Units(T)) \in Nat
    BY <2>3, FS_CardinalityType
  <2> DEFINE a == Cardinality(Units(S))
             b == Cardinality(Units(T))
  <2>7. Sum(S \cup T) = a + b - 0
    BY <2>1, <2>4, <2>5 DEF Sum
  <2> HIDE DEF a, b
  <2>8. a + b - 0 = a + b
    BY <2>6 DEF a, b
  <2> QED
    BY <2>7, <2>8 DEF Sum, a, b
<1> QED
  BY <1>1, <1>2

\* More validators weigh no less, and no validators weigh nothing.
LEMMA SumMonotone ==
    ASSUME NEW S \in SUBSET Validators, NEW T \in SUBSET Validators, S \subseteq T
    PROVE  Sum(S) <= Sum(T)
<1>1. T = S \cup (T \ S) /\ S \cap (T \ S) = {} /\ T \ S \in SUBSET Validators
  OBVIOUS
<1>2. Sum(T) = Sum(S) + Sum(T \ S)
  BY <1>1, SumLaws
<1> QED
  BY <1>1, <1>2, SumLaws

LEMMA SumEmpty == Sum({}) = 0
<1>1. Sum({} \cup {}) = Sum({}) + Sum({})
  BY SumLaws
<1>2. {} \cup {} = {}
  OBVIOUS
<1> QED
  BY <1>1, <1>2, SumLaws

\* Quorum() is more than two thirds of the total weight.
LEMMA QuorumBound ==
    /\ TotalWeight \in Nat
    /\ Quorum \in Nat
    /\ 3 * Quorum > 2 * TotalWeight
<1>1. TotalWeight \in Nat
  BY SumLaws DEF TotalWeight
<1> QED
  BY <1>1 DEF Quorum

\* If a quorum does not vote no, then among any quorum of voters yes outweighs no.
LEMMA Majority ==
    ASSUME NEW Q \in SUBSET Validators, NEW Y \in SUBSET Validators, NEW N \in SUBSET Validators,
           HasQuorum(Q), HasQuorum(Y \cup N), Y \cap N = {}, Q \cap N = {}
    PROVE  Sum(Y) > Sum(N)
<1>1. Sum(Q \cup N) = Sum(Q) + Sum(N)
  BY SumLaws
<1>2. Sum(Q \cup N) <= TotalWeight
  BY SumMonotone DEF TotalWeight
<1>3. Sum(Y \cup N) = Sum(Y) + Sum(N)
  BY SumLaws
<1>4. Sum(Q) \in Nat /\ Sum(N) \in Nat /\ Sum(Y) \in Nat
  BY SumLaws
<1>5. Sum(Q) >= Quorum /\ Sum(Y \cup N) >= Quorum
  BY DEF HasQuorum
<1> HIDE DEF Sum, Quorum, TotalWeight
<1> QED
  BY <1>1, <1>2, <1>3, <1>4, <1>5, QuorumBound

\* Two quorums share validators of more than a third of the weight.
LEMMA QuorumsIntersect ==
    ASSUME NEW Q \in SUBSET Validators, NEW R \in SUBSET Validators,
           HasQuorum(Q), HasQuorum(R)
    PROVE  3 * Sum(Q \cap R) > TotalWeight
<1>1. Q = (Q \ R) \cup (Q \cap R) /\ (Q \ R) \cap (Q \cap R) = {}
  OBVIOUS
<1>2. Sum(Q) = Sum(Q \ R) + Sum(Q \cap R)
  BY <1>1, SumLaws
<1>3. Sum(R \cup (Q \ R)) = Sum(R) + Sum(Q \ R)
  BY SumLaws
<1>4. Sum(R \cup (Q \ R)) <= TotalWeight
  BY SumMonotone DEF TotalWeight
<1>5. Sum(Q) >= Quorum /\ Sum(R) >= Quorum
  BY DEF HasQuorum
<1>6. Sum(Q \ R) \in Nat /\ Sum(Q \cap R) \in Nat /\ Sum(R) \in Nat
  BY SumLaws
<1> HIDE DEF Sum, Quorum, TotalWeight
<1> QED
  BY <1>2, <1>3, <1>4, <1>5, <1>6, QuorumBound
-----------------------------------------------------------------------------
\* Integer division: the quotient times the divisor is not more than the dividend, and
\* every bound of such a product is a bound of the quotient.
LEMMA Quotient ==
    ASSUME NEW b \in Nat, NEW r \in Nat \ {0}
    PROVE  /\ b \div r \in Nat
           /\ (b \div r) * r <= b
           /\ \A a \in Nat : a * r <= b => a <= b \div r
<1>1. b \div r \in Nat /\ b % r \in 0 .. r - 1 /\ b = r * (b \div r) + (b % r)
  OBVIOUS
<1> DEFINE q == b \div r
           m == b % r
<1>2. q \in Nat /\ m \in 0 .. r - 1 /\ b = r * q + m
  BY <1>1
<1> HIDE DEF q, m
<1>3. q * r <= b
  BY <1>2
<1>4. ASSUME NEW a \in Nat, a * r <= b, ~(a <= q) PROVE FALSE
  <2>1. PICK d \in Nat : a = q + 1 + d
    <3>1. a - q - 1 \in Nat /\ a = q + 1 + (a - q - 1)
      BY <1>2, <1>4
    <3> QED
      BY <3>1
  <2>2. a * r = q * r + r + d * r /\ d * r \in Nat
    BY <1>2, <2>1
  <2> QED
    BY <1>2, <1>4, <2>2
<1> QED
  BY <1>2, <1>3, <1>4 DEF q

\* Of the numbers 1..r, k times in a row: position j of row k, and no two at the same place.
LEMMA Places ==
    ASSUME NEW b \in Nat, NEW r \in Nat \ {0}
    PROVE  /\ \A k \in 1 .. (b \div r), j \in 1 .. r : (k - 1) * r + j \in 1 .. b
           /\ \A k, l \in Nat, i, j \in 1 .. r : (k - 1) * r + i = (l - 1) * r + j => k = l /\ i = j
<1> DEFINE q == b \div r
<1>1. q \in Nat /\ q * r <= b
  BY Quotient
<1> HIDE DEF q
<1>2. ASSUME NEW k \in 1 .. q, NEW j \in 1 .. r PROVE (k - 1) * r + j \in 1 .. b
  <2>1. (q - k) \in Nat /\ (k - 1) \in Nat
    BY <1>1
  <2>2. (q - k) * r \in Nat /\ (k - 1) * r \in Nat
    BY <2>1
  <2>3. q * r = (q - k) * r + (k - 1) * r + r
    BY <1>1
  <2> QED
    BY <1>1, <2>2, <2>3
<1>3. ASSUME NEW k \in Nat, NEW l \in Nat, NEW i \in 1 .. r, NEW j \in 1 .. r,
             (k - 1) * r + i = (l - 1) * r + j, k < l
      PROVE  FALSE
  <2>1. PICK d \in Nat : l = k + 1 + d
    <3>1. l - k - 1 \in Nat /\ l = k + 1 + (l - k - 1)
      BY <1>3
    <3> QED
      BY <3>1
  <2>2. (l - 1) * r = (k - 1) * r + r + d * r /\ d * r \in Nat /\ (k - 1) * r \in Int
    BY <2>1
  <2> QED
    BY <1>3, <2>2
<1>4. ASSUME NEW k \in Nat, NEW l \in Nat, NEW i \in 1 .. r, NEW j \in 1 .. r,
             (k - 1) * r + i = (l - 1) * r + j
      PROVE  k = l /\ i = j
  <2>1. ~(k < l) /\ ~(l < k)
    BY <1>3, <1>4
  <2>2. k = l
    BY <2>1
  <2>3. (k - 1) * r \in Int
    OBVIOUS
  <2> QED
    BY <1>4, <2>2, <2>3
<1> QED
  BY <1>2, <1>4 DEF q

\* What is below the modulus is its own remainder.
LEMMA Remainder ==
    ASSUME NEW x \in Nat, NEW m \in Nat, x < m
    PROVE  x % m = x
  OBVIOUS

\* The largest total has one bit less than a uint32.
LEMMA Widths == MaxTotal \in Nat /\ MaxUint32 \in Nat /\ 2 * MaxTotal < MaxUint32
  BY SMT DEF MaxTotal, MaxUint32

\* The stakes of finitely many validators are finitely many.
LEMMA StakesFinite ==
    ASSUME NEW S, IsFiniteSet(S), NEW values \in [S -> Nat]
    PROVE  IsFiniteSet(Stakes(values))
<1> DEFINE P == {{v} \X (1 .. values[v]) : v \in S}
<1>1. IsFiniteSet(P)
  <2> DEFINE f == [v \in S |-> {v} \X (1 .. values[v])]
  <2>1. f \in Surjection(S, P)
    BY DEF Surjection
  <2> QED
    BY <2>1, FS_Surjection
<1>2. ASSUME NEW v \in S PROVE IsFiniteSet({v} \X (1 .. values[v]))
  <2>1. IsFiniteSet({v})
    BY FS_Singleton
  <2>2. values[v] \in Int /\ 1 \in Int
    OBVIOUS
  <2>3. IsFiniteSet(1 .. values[v])
    BY <2>2, FS_Interval
  <2> QED
    BY <2>1, <2>3, FS_Product
<1>3. \A p \in P : IsFiniteSet(p)
  BY <1>2
<1>4. IsFiniteSet(UNION P)
  BY <1>1, <1>3, FS_UNION
<1>5. Stakes(values) = UNION P
  BY DEF Stakes
<1> QED
  BY <1>4, <1>5

\* No validator has more than the total.
LEMMA WeightWithinTotal ==
    ASSUME NEW S, IsFiniteSet(S), NEW values \in [S -> Nat], NEW v \in S
    PROVE  values[v] <= Total(values)
<1>1. {v} \X (1 .. values[v]) \in SUBSET Stakes(values)
  BY DEF Stakes
<1>2. IsFiniteSet(Stakes(values))
  BY StakesFinite
<1>3. Cardinality({v} \X (1 .. values[v])) <= Cardinality(Stakes(values))
  BY <1>1, <1>2, FS_Subset
<1>4. values[v] \in Nat /\ values[v] \in Int /\ 1 \in Int
  OBVIOUS
<1>5. IsFiniteSet(1 .. values[v]) /\ Cardinality(1 .. values[v]) = values[v]
  BY <1>4, FS_Interval
<1>6. IsFiniteSet({v}) /\ Cardinality({v}) = 1
  BY FS_Singleton
<1>7. Cardinality({v} \X (1 .. values[v])) = 1 * values[v]
  <2> DEFINE R == 1 .. values[v]
  <2>1. IsFiniteSet(R) /\ Cardinality(R) = values[v]
    BY <1>5
  <2> HIDE DEF R
  <2>2. Cardinality({v} \X R) = Cardinality({v}) * Cardinality(R)
    BY <1>6, <2>1, FS_Product
  <2> QED
    BY <1>6, <2>1, <2>2 DEF R
<1> QED
  BY <1>3, <1>4, <1>7 DEF Total

\* Each unit that remains stands for ratio units of the same validator: what remains of
\* all, times the ratio, is not more than there was.
LEMMA ShiftedTotal ==
    ASSUME NEW S, IsFiniteSet(S), NEW big \in [S -> Nat], NEW ratio \in Nat \ {0}
    PROVE  /\ Shifted(big, ratio) \in [S -> Nat]
           /\ Total(Shifted(big, ratio)) \in Nat
           /\ Total(big) \in Nat
           /\ Total(Shifted(big, ratio)) * ratio <= Total(big)
<1> DEFINE sh == Shifted(big, ratio)
           A == Stakes(sh)
           B == Stakes(big)
           f == [x \in A \X (1 .. ratio) |-> <<x[1][1], (x[1][2] - 1) * ratio + x[2]>>]
<1>1. \A v \in S : big[v] \in Nat /\ sh[v] = big[v] \div ratio /\ sh[v] \in Nat
  BY Quotient DEF Shifted
<1>2. sh \in [S -> Nat]
  BY <1>1 DEF Shifted
<1>3. /\ \A x \in A : \E v \in S : \E k \in 1 .. (big[v] \div ratio) : x = <<v, k>>
      /\ \A v \in S : \A n \in 1 .. big[v] : <<v, n>> \in B
  BY <1>1, <1>2 DEF Stakes
<1>4. IsFiniteSet(A) /\ IsFiniteSet(B)
  BY <1>2, StakesFinite
<1> HIDE DEF A, B, sh
<1>5. ASSUME NEW x \in A \X (1 .. ratio) PROVE f[x] \in B
  <2>1. x[1] \in A /\ x[2] \in 1 .. ratio
    OBVIOUS
  <2>2. PICK v \in S : \E k \in 1 .. (big[v] \div ratio) : x[1] = <<v, k>>
    BY <1>3, <2>1
  <2>3. PICK k \in 1 .. (big[v] \div ratio) : x[1] = <<v, k>>
    BY <2>2
  <2>4. (k - 1) * ratio + x[2] \in 1 .. big[v]
    <3>1. big[v] \in Nat
      OBVIOUS
    <3>2. \A m \in 1 .. (big[v] \div ratio), j \in 1 .. ratio : (m - 1) * ratio + j \in 1 .. big[v]
      BY <3>1, Places
    <3> QED
      BY <2>1, <3>2
  <2>5. f[x] = <<v, (k - 1) * ratio + x[2]>>
    BY <2>3
  <2> QED
    BY <1>3, <2>4, <2>5
<1>6. ASSUME NEW x \in A \X (1 .. ratio), NEW y \in A \X (1 .. ratio), f[x] = f[y] PROVE x = y
  <2>1. x[1] \in A /\ x[2] \in 1 .. ratio /\ y[1] \in A /\ y[2] \in 1 .. ratio
    OBVIOUS
  <2>2. PICK v \in S : \E k \in 1 .. (big[v] \div ratio) : x[1] = <<v, k>>
    BY <1>3, <2>1
  <2>3. PICK k \in 1 .. (big[v] \div ratio) : x[1] = <<v, k>>
    BY <2>2
  <2>4. PICK w \in S : \E l \in 1 .. (big[w] \div ratio) : y[1] = <<w, l>>
    BY <1>3, <2>1
  <2>5. PICK l \in 1 .. (big[w] \div ratio) : y[1] = <<w, l>>
    BY <2>4
  <2>6. v = w /\ (k - 1) * ratio + x[2] = (l - 1) * ratio + y[2]
    BY <1>6, <2>3, <2>5
  <2>7. k \in Nat /\ l \in Nat
    BY <1>1
  <2>8. k = l /\ x[2] = y[2]
    <3>1. 0 \in Nat
      OBVIOUS
    <3>2. \A m, n \in Nat, i, j \in 1 .. ratio :
             (m - 1) * ratio + i = (n - 1) * ratio + j => m = n /\ i = j
      BY <3>1, Places
    <3> QED
      BY <2>1, <2>6, <2>7, <3>2
  <2> QED
    BY <2>3, <2>5, <2>6, <2>8
<1>7. f \in Injection(A \X (1 .. ratio), B)
  <2>1. f \in [A \X (1 .. ratio) -> B]
    BY <1>5
  <2>2. \A x, y \in A \X (1 .. ratio) : f[x] = f[y] => x = y
    BY <1>6
  <2> HIDE DEF f
  <2> QED
    BY <2>1, <2>2 DEF Injection, IsInjective
<1>8. Cardinality(A \X (1 .. ratio)) <= Cardinality(B)
  <2> HIDE DEF f
  <2> QED
    BY <1>4, <1>7, FS_Injection
<1>9. IsFiniteSet(1 .. ratio) /\ Cardinality(1 .. ratio) = ratio
  <2>1. ratio \in Int /\ 1 \in Int
    OBVIOUS
  <2> QED
    BY <2>1, FS_Interval
<1>10. Cardinality(A \X (1 .. ratio)) = Cardinality(A) * ratio
  BY <1>4, <1>9, FS_Product
<1>11. Cardinality(A) \in Nat /\ Cardinality(B) \in Nat
  BY <1>4, FS_CardinalityType
<1> QED
  BY <1>2, <1>8, <1>10, <1>11 DEF Total, A, B, sh

\* Build of the builder of big numbers does not panic, whatever the weights: when the ratio
\* brings the total to 31 bits, the sum of the scaled weights fits as well, and none of them
\* is cut to 32 bits.
THEOREM BigBuildFits ==
    ASSUME NEW S, IsFiniteSet(S), NEW big \in [S -> Nat], NEW ratio, Fits(big, ratio)
    PROVE  /\ ~Panics(BigBuild(big, ratio))
           /\ \A v \in DOMAIN BigBuild(big, ratio) : BigBuild(big, ratio)[v] = big[v] \div ratio
<1> DEFINE sh == Shifted(big, ratio)
           weight == [v \in DOMAIN big |-> Shifted(big, ratio)[v] % (MaxUint32 + 1)]
<1>1. ratio \in Nat \ {0}
  BY DEF Fits
<1>2. /\ sh \in [S -> Nat] /\ Total(sh) \in Nat /\ Total(big) \in Nat
      /\ Total(sh) * ratio <= Total(big)
  BY <1>1, ShiftedTotal
<1>3. Total(sh) <= Total(big) \div ratio
  BY <1>1, <1>2, Quotient
<1>4. Total(big) \div ratio \in Nat
  BY <1>1, <1>2, Quotient
<1>5. Total(sh) <= MaxTotal
  BY <1>2, <1>3, <1>4, Widths DEF Fits
<1>6. ASSUME NEW v \in S PROVE sh[v] % (MaxUint32 + 1) = sh[v]
  <2>1. sh[v] <= Total(sh) /\ sh[v] \in Nat
    BY <1>2, WeightWithinTotal
  <2> HIDE DEF sh
  <2>2. sh[v] < MaxUint32 + 1 /\ MaxUint32 + 1 \in Nat
    BY <1>2, <1>5, <2>1, Widths
  <2> QED
    BY <2>1, <2>2, Remainder
<1>7. BigBuild(big, ratio) = [v \in {u \in S : sh[u] # 0} |-> sh[v]]
  <2>1. DOMAIN big = S
    OBVIOUS
  <2>2. \A v \in S : weight[v] = sh[v]
    BY <1>6
  <2>3. BigBuild(big, ratio) = [v \in {u \in S : weight[u] # 0} |-> weight[v]]
    BY DEF BigBuild
  <2> HIDE DEF weight, sh
  <2> QED
    BY <2>2, <2>3
<1>8. Stakes(BigBuild(big, ratio)) = Stakes(sh)
  <2> HIDE DEF sh
  <2>1. \A v \in S : sh[v] \in Nat /\ (sh[v] = 0 => 1 .. sh[v] = {})
    BY <1>2
  <2>2. Stakes(sh) = UNION {{v} \X (1 .. sh[v]) : v \in S}
    BY <1>2 DEF Stakes
  <2>3. Stakes(BigBuild(big, ratio)) = UNION {{v} \X (1 .. sh[v]) : v \in {u \in S : sh[u] # 0}}
    BY <1>7 DEF Stakes
  <2> QED
    BY <2>1, <2>2, <2>3
<1>9. \A v \in S : sh[v] = big[v] \div ratio
  BY DEF Shifted
<1> QED
  <2>1. Total(BigBuild(big, ratio)) <= MaxTotal
    BY <1>5, <1>8 DEF Total
  <2>2. ~Panics(BigBuild(big, ratio))
    BY <1>2, <1>8, <2>1, Widths DEF Panics, Total
  <2> HIDE DEF sh
  <2> QED
    BY <1>7, <1>9, <2>2

\* Quorum computes in 32 bits what it says, for every total that Build lets through: the
\* total times two is the largest number on the way.
THEOREM QuorumDoesNotOverflow ==
    ASSUME NEW values, Total(values) \in Nat, ~Panics(values)
    PROVE  Quorum32(Total(values)) = (Total(values) * 2) \div 3 + 1
<1> DEFINE t == Total(values)
<1>1. t \in Nat /\ t <= MaxTotal
  BY Widths DEF Panics
<1> HIDE DEF t
<1>2. /\ t * 2 \in Nat /\ t * 2 < MaxUint32 + 1
      /\ (t * 2) \div 3 + 1 \in Nat /\ (t * 2) \div 3 + 1 < MaxUint32 + 1
      /\ MaxUint32 + 1 \in Nat
  BY <1>1, Widths
<1>3. (t * 2) % (MaxUint32 + 1) = t * 2
  BY <1>2, Remainder
<1>4. ((t * 2) \div 3 + 1) % (MaxUint32 + 1) = (t * 2) \div 3 + 1
  BY <1>2, Remainder
<1>5. Quorum32(t) = (t * 2) \div 3 + 1
  BY <1>3, <1>4 DEF Quorum32
<1> QED
  BY <1>5 DEF t

\* What a builder holds does not depend on the order of its Set calls for different
\* validators, also where a weight is zero: newValidators and both Builds go through a map,
\* whose order is random, and DecodeRLP through a list.
THEOREM OrderOfSetsIrrelevant ==
    ASSUME NEW S, NEW values \in [S -> Nat], NEW a, NEW b, a # b, NEW x \in Nat, NEW y \in Nat
    PROVE  Set(Set(values, a, x), b, y) = Set(Set(values, b, y), a, x)
<1> DEFINE D == {v \in S \cup {a, b} : (v = a => x # 0) /\ (v = b => y # 0)}
           g == [v \in D |-> IF v = a THEN x ELSE IF v = b THEN y ELSE values[v]]
<1>1. Set(Set(values, a, x), b, y) = g
  <2>1. CASE x = 0 /\ y = 0
    BY <2>1 DEF Set
  <2>2. CASE x = 0 /\ y # 0
    BY <2>2 DEF Set
  <2>3. CASE x # 0 /\ y = 0
    BY <2>3 DEF Set
  <2>4. CASE x # 0 /\ y # 0
    BY <2>4 DEF Set
  <2> QED
    BY <2>1, <2>2, <2>3, <2>4
<1>2. Set(Set(values, b, y), a, x) = g
  <2>1. CASE x = 0 /\ y = 0
    BY <2>1 DEF Set
  <2>2. CASE x = 0 /\ y # 0
    BY <2>2 DEF Set
  <2>3. CASE x # 0 /\ y = 0
    BY <2>3 DEF Set
  <2>4. CASE x # 0 /\ y # 0
    BY <2>4 DEF Set
  <2> QED
    BY <2>1, <2>2, <2>3, <2>4
<1> QED
  BY <1>1, <1>2
=============================================================================
