--------------------------- MODULE AtroposProofs ----------------------------
(***************************************************************************)
(* An election cannot decide "no" on every subject, for any validators,    *)
(* weights, number of frames and DAG of roots.                             *)
(*                                                                         *)
(* The argument counts pairs.  Every voter of the first round votes yes on *)
(* a quorum of the subjects.  Summed over the voters that are observed,    *)
(* more than two thirds of the votes are yes, so on some subject more than *)
(* two thirds are.  Of that subject every vote of the second round is a    *)
(* yes, and so are all later ones.                                         *)
(***************************************************************************)
EXTENDS VotingProofs

-----------------------------------------------------------------------------
(* Counting a relation by its rows and by its columns.                     *)

\* A relation with at least p pairs in every row has p pairs per row at least.
LEMMA RowCount ==
    ASSUME NEW A, NEW B, IsFiniteSet(A), IsFiniteSet(B), NEW R \in SUBSET (A \X B),
           NEW p \in Nat,
           \A a \in A : Cardinality({r \in R : r[1] = a}) >= p
    PROVE  Cardinality(R) >= Cardinality(A) * p
<1> DEFINE Rows(S) == {r \in R : r[1] \in S}
           Bad == {S \in SUBSET A : ~ (Cardinality(Rows(S)) >= Cardinality(S) * p)}
           Sizes == {Cardinality(S) : S \in Bad}
<1>1. IsFiniteSet(R)
  BY FS_Product, FS_Subset
<1>2. \A S \in SUBSET A : IsFiniteSet(S) /\ Cardinality(S) \in Nat
  BY FS_Subset, FS_CardinalityType
<1>3. \A S \in SUBSET R : IsFiniteSet(S) /\ Cardinality(S) \in Nat
  BY <1>1, FS_Subset, FS_CardinalityType
<1>4. SUFFICES ASSUME Bad # {} PROVE FALSE
  <2>1. Rows(A) = R
    OBVIOUS
  <2>2. A \notin Bad
    BY <1>4
  <2> QED
    BY <2>1, <2>2
<1>5. PICK n \in Sizes : \A m \in Sizes : n <= m
  <2>1. Sizes \in SUBSET Nat /\ Sizes # {}
    BY <1>2, <1>4
  <2> HIDE DEF Sizes
  <2> QED
    BY <2>1, LeastElement
<1>6. PICK S \in Bad : Cardinality(S) = n
  BY <1>5
<1>7. S # {}
  <2>1. CASE S = {}
    <3>1. Cardinality(S) = 0 /\ Cardinality(Rows(S)) \in Nat
      BY <1>3, <2>1, FS_EmptySet
    <3>2. Cardinality(S) * p = 0
      BY <3>1
    <3> QED
      BY <1>6, <3>1, <3>2
  <2> QED
    BY <2>1
<1>8. PICK a \in S : TRUE
  BY <1>7
<1> DEFINE T == S \ {a}
           row == {r \in R : r[1] = a}
<1>9. Cardinality(T) = n - 1 /\ n \in Nat /\ Cardinality(T) \in Nat
  BY <1>2, <1>6, <1>8, FS_RemoveElement
<1>10. Cardinality(Rows(T)) >= Cardinality(T) * p
  <2>1. T \in SUBSET A
    BY <1>6
  <2>2. T \in Bad => n <= Cardinality(T)
    BY <1>5
  <2>3. T \notin Bad
    BY <1>9, <2>2
  <2> QED
    BY <2>1, <2>3
<1>11. Cardinality(Rows(S)) = Cardinality(Rows(T)) + Cardinality(row)
  <2>1. Rows(S) = Rows(T) \cup row /\ Rows(T) \cap row = {}
    BY <1>8
  <2>2. IsFiniteSet(Rows(T)) /\ IsFiniteSet(row)
    BY <1>3
  <2>3. Cardinality(Rows(T) \cup row)
          = Cardinality(Rows(T)) + Cardinality(row) - Cardinality(Rows(T) \cap row)
    BY <2>2, FS_Union
  <2>4. Cardinality(Rows(T) \cap row) = 0
    BY <2>1, FS_EmptySet
  <2> DEFINE k == Cardinality(Rows(T))
             l == Cardinality(row)
  <2>5. k \in Nat /\ l \in Nat
    BY <1>3
  <2>6. Cardinality(Rows(S)) = k + l - 0
    BY <2>1, <2>3, <2>4
  <2> HIDE DEF k, l
  <2>7. k + l - 0 = k + l
    BY <2>5
  <2> QED
    BY <2>6, <2>7 DEF k, l
<1>12. Cardinality(row) >= p /\ Cardinality(row) \in Nat /\ Cardinality(Rows(T)) \in Nat
  BY <1>3, <1>6, <1>8
<1>13. (n - 1) * p + p = n * p
  BY <1>9
<1>14. (n - 1) * p \in Int /\ n * p \in Int
  BY <1>9
<1>15. Cardinality(Rows(S)) >= Cardinality(S) * p
  <2> HIDE DEF Rows, row, T
  <2> QED
    BY <1>6, <1>9, <1>10, <1>11, <1>12, <1>13, <1>14
<1> QED
  BY <1>6, <1>15

\* A relation with at most q pairs in every column has q pairs per column at most.
LEMMA ColumnCount ==
    ASSUME NEW A, NEW B, IsFiniteSet(A), IsFiniteSet(B), NEW R \in SUBSET (A \X B),
           NEW q \in Nat,
           \A b \in B : Cardinality({r \in R : r[2] = b}) <= q
    PROVE  Cardinality(R) <= Cardinality(B) * q
<1> DEFINE Columns(S) == {r \in R : r[2] \in S}
           Bad == {S \in SUBSET B : ~ (Cardinality(Columns(S)) <= Cardinality(S) * q)}
           Sizes == {Cardinality(S) : S \in Bad}
<1>1. IsFiniteSet(R)
  BY FS_Product, FS_Subset
<1>2. \A S \in SUBSET B : IsFiniteSet(S) /\ Cardinality(S) \in Nat
  BY FS_Subset, FS_CardinalityType
<1>3. \A S \in SUBSET R : IsFiniteSet(S) /\ Cardinality(S) \in Nat
  BY <1>1, FS_Subset, FS_CardinalityType
<1>4. SUFFICES ASSUME Bad # {} PROVE FALSE
  <2>1. Columns(B) = R
    OBVIOUS
  <2>2. B \notin Bad
    BY <1>4
  <2> QED
    BY <2>1, <2>2
<1>5. PICK n \in Sizes : \A m \in Sizes : n <= m
  <2>1. Sizes \in SUBSET Nat /\ Sizes # {}
    BY <1>2, <1>4
  <2> HIDE DEF Sizes
  <2> QED
    BY <2>1, LeastElement
<1>6. PICK S \in Bad : Cardinality(S) = n
  BY <1>5
<1>7. S # {}
  <2>1. CASE S = {}
    <3>1. Cardinality(S) = 0 /\ Cardinality(Columns(S)) \in Nat
      BY <1>3, <2>1, FS_EmptySet
    <3>2. Cardinality(S) * q = 0
      BY <3>1
    <3> QED
      BY <1>6, <3>1, <3>2
  <2> QED
    BY <2>1
<1>8. PICK b \in S : TRUE
  BY <1>7
<1> DEFINE T == S \ {b}
           column == {r \in R : r[2] = b}
<1>9. Cardinality(T) = n - 1 /\ n \in Nat /\ Cardinality(T) \in Nat
  BY <1>2, <1>6, <1>8, FS_RemoveElement
<1>10. Cardinality(Columns(T)) <= Cardinality(T) * q
  <2>1. T \in SUBSET B
    BY <1>6
  <2>2. T \in Bad => n <= Cardinality(T)
    BY <1>5
  <2>3. T \notin Bad
    BY <1>9, <2>2
  <2> QED
    BY <2>1, <2>3
<1>11. Cardinality(Columns(S)) = Cardinality(Columns(T)) + Cardinality(column)
  <2>1. Columns(S) = Columns(T) \cup column /\ Columns(T) \cap column = {}
    BY <1>8
  <2>2. IsFiniteSet(Columns(T)) /\ IsFiniteSet(column)
    BY <1>3
  <2>3. Cardinality(Columns(T) \cup column)
          = Cardinality(Columns(T)) + Cardinality(column) - Cardinality(Columns(T) \cap column)
    BY <2>2, FS_Union
  <2>4. Cardinality(Columns(T) \cap column) = 0
    BY <2>1, FS_EmptySet
  <2> DEFINE k == Cardinality(Columns(T))
             l == Cardinality(column)
  <2>5. k \in Nat /\ l \in Nat
    BY <1>3
  <2>6. Cardinality(Columns(S)) = k + l - 0
    BY <2>1, <2>3, <2>4
  <2> HIDE DEF k, l
  <2>7. k + l - 0 = k + l
    BY <2>5
  <2> QED
    BY <2>6, <2>7 DEF k, l
<1>12. Cardinality(column) <= q /\ Cardinality(column) \in Nat /\ Cardinality(Columns(T)) \in Nat
  BY <1>3, <1>6, <1>8
<1>13. (n - 1) * q + q = n * q
  BY <1>9
<1>14. (n - 1) * q \in Int /\ n * q \in Int
  BY <1>9
<1>15. Cardinality(Columns(S)) <= Cardinality(S) * q
  <2> HIDE DEF Columns, column, T
  <2> QED
    BY <1>6, <1>9, <1>10, <1>11, <1>12, <1>13, <1>14
<1> QED
  BY <1>6, <1>15

-----------------------------------------------------------------------------
(* Weights.                                                                *)

\* A validator has a positive weight.
LEMMA SumPositive ==
    ASSUME NEW S \in SUBSET Validators, S # {}
    PROVE  Sum(S) > 0
<1>1. PICK v \in S : TRUE
  OBVIOUS
<1>2. <<v, 1>> \in Units(S)
  <2>1. 1 \in 1 .. Weight[v]
    BY WeightType
  <2>2. <<v, 1>> \in {v} \X (1 .. Weight[v])
    BY <2>1
  <2> QED
    BY <2>2 DEF Units
<1>3. IsFiniteSet(Units(S)) /\ Cardinality(Units(S)) \in Nat
  BY UnitsFinite, FS_CardinalityType
<1>4. Cardinality(Units(S)) # 0
  BY <1>2, <1>3, FS_EmptySet
<1> QED
  BY <1>3, <1>4 DEF Sum

\* Where every voter approves of a quorum, some subject has the approval of more than
\* two thirds of the voters.
LEMMA PopularSubject ==
    ASSUME NEW V \in SUBSET Validators, V # {},
           NEW E \in [V -> SUBSET Validators], \A v \in V : HasQuorum(E[v])
    PROVE  \E s \in Validators : 3 * Sum({v \in V : s \in E[v]}) > 2 * Sum(V)
<1> DEFINE A == Units(V)
           B == Units(Validators)
           R == {r \in A \X B : r[2][1] \in E[r[1][1]]}
           For(s) == {v \in V : s \in E[v]}
           q == (2 * Sum(V)) \div 3
<1>1. IsFiniteSet(A) /\ IsFiniteSet(B) /\ R \in SUBSET (A \X B)
  BY UnitsFinite
<1>2. Quorum \in Nat /\ TotalWeight \in Nat /\ 3 * Quorum > 2 * TotalWeight
  BY QuorumBound
<1>3. Sum(V) \in Nat /\ Sum(V) > 0
  BY SumLaws, SumPositive
<1>4. Cardinality(A) = Sum(V) /\ Cardinality(B) = TotalWeight
  BY DEF Sum, TotalWeight
<1>5. ASSUME NEW a \in A PROVE Cardinality({r \in R : r[1] = a}) >= Quorum
  <2>1. a[1] \in V
    BY DEF Units
  <2>2. {r \in R : r[1] = a} = {a} \X Units(E[a[1]])
    BY <2>1 DEF Units
  <2>3. IsFiniteSet(Units(E[a[1]])) /\ Cardinality(Units(E[a[1]])) \in Nat
    BY <2>1, UnitsFinite, FS_CardinalityType
  <2>4. IsFiniteSet({a}) /\ Cardinality({a}) = 1
    BY FS_Singleton
  <2>5. Cardinality({a} \X Units(E[a[1]])) = 1 * Cardinality(Units(E[a[1]]))
    BY <2>3, <2>4, FS_Product
  <2>6. Cardinality(Units(E[a[1]])) >= Quorum
    BY <2>1 DEF HasQuorum, Sum
  <2> DEFINE k == Cardinality(Units(E[a[1]]))
  <2> HIDE DEF k
  <2>7. Cardinality({r \in R : r[1] = a}) = 1 * k
    BY <2>2, <2>5 DEF k
  <2>8. 1 * k >= Quorum
    BY <1>2, <2>3, <2>6 DEF k
  <2> QED
    BY <2>7, <2>8
<1>6. SUFFICES ASSUME \A s \in Validators : ~ (3 * Sum(For(s)) > 2 * Sum(V)) PROVE FALSE
  OBVIOUS
<1>7. ASSUME NEW b \in B PROVE Cardinality({r \in R : r[2] = b}) <= q
  <2>1. b[1] \in Validators
    BY DEF Units
  <2>2. {r \in R : r[2] = b} = Units(For(b[1])) \X {b}
    BY <2>1 DEF Units
  <2>3. For(b[1]) \in SUBSET Validators
    OBVIOUS
  <2>4. IsFiniteSet(Units(For(b[1]))) /\ Cardinality(Units(For(b[1]))) \in Nat
    BY <2>3, UnitsFinite, FS_CardinalityType
  <2>5. IsFiniteSet({b}) /\ Cardinality({b}) = 1
    BY FS_Singleton
  <2>6. Cardinality(Units(For(b[1])) \X {b}) = Cardinality(Units(For(b[1]))) * 1
    BY <2>4, <2>5, FS_Product
  <2>7. ~ (3 * Sum(For(b[1])) > 2 * Sum(V))
    BY <1>6, <2>1
  <2>8. Cardinality(Units(For(b[1]))) <= q
    BY <1>3, <2>4, <2>7 DEF Sum
  <2> DEFINE k == Cardinality(Units(For(b[1])))
  <2> HIDE DEF k
  <2>9. Cardinality({r \in R : r[2] = b}) = k * 1
    BY <2>2, <2>6 DEF k
  <2>10. k * 1 <= q
    BY <2>4, <2>8 DEF k
  <2> QED
    BY <2>9, <2>10
<1>8. q \in Nat /\ 3 * q <= 2 * Sum(V)
  BY <1>3
<1>9. Cardinality(R) >= Sum(V) * Quorum
  <2> HIDE DEF A, B, R
  <2> QED
    BY <1>1, <1>2, <1>4, <1>5, RowCount
<1>10. Cardinality(R) <= TotalWeight * q
  <2> HIDE DEF A, B, R, q
  <2> QED
    BY <1>1, <1>4, <1>7, <1>8, ColumnCount
<1>11. Cardinality(R) \in Nat
  BY <1>1, FS_Product, FS_Subset, FS_CardinalityType
<1> DEFINE m == Sum(V)
           w == TotalWeight
           c == Cardinality(R)
<1> HIDE DEF m, w, c, q
<1>12. m \in Nat /\ m > 0 /\ w \in Nat /\ c \in Nat /\ q \in Nat /\ Quorum \in Nat
  BY <1>2, <1>3, <1>8, <1>11 DEF m, w, c
<1>13. c >= m * Quorum /\ c <= w * q /\ 3 * q <= 2 * m /\ 3 * Quorum > 2 * w
  BY <1>2, <1>8, <1>9, <1>10 DEF m, w, c
<1> HIDE DEF Quorum
<1>14. w * (3 * q) <= w * (2 * m)
  BY <1>12, <1>13
<1>15. m * (3 * Quorum) >= m * (2 * w + 1)
  BY <1>12, <1>13
<1>16. /\ w * (3 * q) = 3 * (w * q)
       /\ m * (3 * Quorum) = 3 * (m * Quorum)
       /\ m * (2 * w + 1) = w * (2 * m) + m
  BY <1>12
<1>17. w * q \in Int /\ m * Quorum \in Int /\ w * (2 * m) \in Int
  BY <1>12
<1> QED
  BY <1>12, <1>13, <1>14, <1>15, <1>16, <1>17

-----------------------------------------------------------------------------
(* The election.                                                           *)

\* On some subject every vote of the second round is a yes.
LEMMA SecondRound ==
    ASSUME VInductive, Subjects = Validators, Validators # {}, NEW f \in Elections
    PROVE  \E s \in Subjects : \A b \in ballots :
              (b.election = f /\ b.subject = s /\ b.root.frame = f + 2) => b.yes
<1> DEFINE A == {x \in Observed : x.frame = f + 1}
           V == ValidatorsOf(A)
           E == [v \in V |-> ValidatorsOf(UNION {Seen(x) : x \in {y \in A : y.validator = v}})]
<1>1. f \in Nat /\ f > 0
  BY VotingConstants
<1>2. /\ Observed \subseteq roots
      /\ \A x \in roots : x \in Roots /\ x.frame \in Nat /\ x.validator \in Validators
  BY DEF VInductive, VTypeOK, Observed, Roots
<1>3. V \in SUBSET Validators
  BY <1>2 DEF ValidatorsOf
<1>4. ASSUME NEW x \in A PROVE E[x.validator] = ValidatorsOf(Seen(x))
  <2>1. \A y \in A : y.validator = x.validator => y = x
    BY DEF VInductive, ObservationInv, SameSlot
  <2>2. {y \in A : y.validator = x.validator} = {x}
    BY <2>1
  <2>3. x.validator \in V
    BY DEF ValidatorsOf
  <2> QED
    BY <2>2, <2>3
<1>5. \A v \in V : E[v] \in SUBSET Validators /\ HasQuorum(E[v])
  <2> SUFFICES ASSUME NEW x \in A
               PROVE  E[x.validator] \in SUBSET Validators /\ HasQuorum(E[x.validator])
    BY DEF ValidatorsOf
  <2>1. x \in roots /\ x.frame > 1
    BY <1>1, <1>2
  <2>2. HasQuorum(ValidatorsOf(Seen(x)))
    BY <2>1 DEF VInductive, ObservationInv
  <2>3. ValidatorsOf(Seen(x)) \in SUBSET Validators
    BY <1>2 DEF ValidatorsOf, Seen
  <2> QED
    BY <1>4, <2>2, <2>3
<1>6. E \in [V -> SUBSET Validators]
  BY <1>5
<1>7. ASSUME NEW b \in ballots, b.election = f, b.root.frame = f + 2,
             NEW c \in Counted(b)
      PROVE  /\ c.root \in A /\ c.root.validator \in V
             /\ c.yes <=> b.subject \in E[c.root.validator]
  <2>1. /\ c \in ballots /\ c.election = f /\ c.subject = b.subject
        /\ c.root \in Seen(b.root) /\ b.root \in roots
    BY <1>7, BallotFields DEF Counted, Cast
  <2>2. <<b.root, c.root>> \in obs /\ <<b.root, c.root>>[2] = c.root
    BY <2>1 DEF Seen
  <2>3. c.root \in Observed
    BY <2>2 DEF Observed
  <2>4. c.root.frame + 1 = f + 2 /\ c.root.frame \in Nat
    BY <1>2, <1>7, <2>1, <2>3 DEF VInductive, ObservationInv
  <2>5. c.root.frame = f + 1
    BY <1>1, <2>4
  <2>6. c.root \in A
    BY <2>3, <2>5
  <2>7. c.yes <=> \E x \in Seen(c.root) : x.validator = c.subject
    BY <2>1, <2>5, FirstRound
  <2>8. c.yes <=> b.subject \in ValidatorsOf(Seen(c.root))
    BY <2>1, <2>7 DEF ValidatorsOf
  <2> QED
    BY <1>4, <2>6, <2>8 DEF ValidatorsOf
<1> HIDE DEF A, E
<1>8. CASE V = {}
  <2>1. ASSUME NEW b \in ballots, b.election = f, b.root.frame = f + 2 PROVE FALSE
    <3>1. b.root.frame # b.election + 1
      BY <1>1, <2>1
    <3>2. HasQuorum(YesVoters(Counted(b)) \cup NoVoters(Counted(b)))
      BY <3>1, Voters
    <3>3. YesVoters(Counted(b)) \cup NoVoters(Counted(b)) = {}
      BY <1>7, <1>8, <2>1 DEF YesVoters, NoVoters
    <3>4. Sum({}) >= Quorum
      BY <3>2, <3>3 DEF HasQuorum
    <3> QED
      BY <3>4, SumEmpty, QuorumBound DEF Quorum
  <2> QED
    BY <2>1
<1>9. CASE V # {}
  <2> HIDE DEF V
  <2>1. PICK s \in Validators : 3 * Sum({v \in V : s \in E[v]}) > 2 * Sum(V)
    BY <1>3, <1>5, <1>6, <1>9, PopularSubject
  <2> DEFINE P == {v \in V : s \in E[v]}
             N == {v \in V : s \notin E[v]}
  <2>2. P \in SUBSET Validators /\ N \in SUBSET Validators /\ P \cup N = V /\ P \cap N = {}
    BY <1>3
  <2>3. Sum(V) = Sum(P) + Sum(N) /\ Sum(V) <= TotalWeight
    BY <1>3, <2>2, SumLaws, SumMonotone DEF TotalWeight
  <2>4. ASSUME NEW b \in ballots, b.election = f, b.subject = s, b.root.frame = f + 2
        PROVE  b.yes
    <3> DEFINE y == YesVoters(Counted(b))
               n == NoVoters(Counted(b))
    <3>1. b.root.frame # b.election + 1
      BY <1>1, <2>4
    <3>2. /\ y \in SUBSET Validators /\ n \in SUBSET Validators /\ y \cap n = {}
          /\ HasQuorum(y \cup n)
      BY <3>1, Voters
    <3>3. n \subseteq N
      BY <1>7, <2>4 DEF NoVoters
    <3>4. b.yes <=> Sum(y) >= Sum(n)
      BY <3>1, LaterRound
    <3> HIDE DEF y, n, P, N
    <3>5. Sum(y \cup n) = Sum(y) + Sum(n) /\ Sum(n) <= Sum(N)
      BY <2>2, <3>2, <3>3, SumLaws, SumMonotone
    <3>6. Sum(y \cup n) >= Quorum
      BY <3>2 DEF HasQuorum
    <3>7. /\ Sum(y) \in Nat /\ Sum(n) \in Nat /\ Sum(P) \in Nat /\ Sum(N) \in Nat
          /\ Sum(V) \in Nat
      BY <1>3, <2>2, <3>2, SumLaws
    <3>8. 3 * Sum(P) > 2 * Sum(V)
      BY <2>1 DEF P
    <3> HIDE DEF Sum, Quorum, TotalWeight
    <3>9. Sum(y) >= Sum(n)
      BY <2>3, <3>5, <3>6, <3>7, <3>8, QuorumBound
    <3> QED
      BY <3>4, <3>9
  <2> QED
    BY <2>4
<1> QED
  BY <1>8, <1>9

\* All the later votes on that subject are a yes: the first that is not would count
\* only votes that are.
LEMMA InductiveImpliesNotRejected ==
    ASSUME VInductive, Subjects = Validators, Validators # {}
    PROVE  SomeSubjectNotRejected
<1> SUFFICES ASSUME NEW f \in Elections
             PROVE  \E s \in Subjects : \A b \in ballots :
                       (b.election = f /\ b.subject = s /\ b.decided) => b.yes
  BY DEF SomeSubjectNotRejected
<1>1. PICK s \in Subjects : \A b \in ballots :
         (b.election = f /\ b.subject = s /\ b.root.frame = f + 2) => b.yes
  BY SecondRound
<1> DEFINE Bad == {b \in ballots : /\ b.election = f /\ b.subject = s
                                   /\ b.root.frame > f + 1
                                   /\ ~ b.yes}
           Frames == {b.root.frame : b \in Bad}
<1>2. f \in Nat
  BY VotingConstants
<1>3. Bad = {}
  <2> SUFFICES ASSUME Bad # {} PROVE FALSE
    OBVIOUS
  <2>1. Frames \in SUBSET Nat /\ Frames # {}
    BY BallotFields
  <2>2. PICK n \in Frames : \A m \in Frames : n <= m
    <3> HIDE DEF Frames
    <3> QED
      BY <2>1, LeastElement
  <2>3. PICK b \in Bad : b.root.frame = n
    BY <2>2
  <2>4. n \in Nat /\ n > f + 1 /\ n # f + 2
    BY <1>1, <2>1, <2>2, <2>3
  <2>5. ASSUME NEW c \in Counted(b) PROVE c.yes = TRUE
    <3>1. /\ c \in ballots /\ c.election = f /\ c.subject = s /\ c.root \in Seen(b.root)
      BY <2>3 DEF Counted, Cast
    <3>2. c.root.frame + 1 = n /\ c.root.frame \in Nat /\ c.yes \in BOOLEAN
      BY <2>3, <3>1, BallotFields DEF VInductive, ObservationInv
    <3>3. c.root.frame > f + 1 /\ ~ (n <= c.root.frame)
      BY <1>2, <2>4, <3>2
    <3>4. c \notin Bad
      BY <2>2, <3>3
    <3> QED
      BY <3>1, <3>2, <3>3, <3>4
  <2>6. b \in ballots /\ b.root.frame # b.election + 1
    BY <1>2, <2>3, <2>4
  <2>7. b.yes = TRUE
    BY <2>5, <2>6, Unanimous
  <2> QED
    BY <2>3, <2>7
<1>4. ASSUME NEW b \in ballots, b.election = f, b.subject = s, b.decided PROVE b.yes
  <2>1. b.root.frame # f + 1
    BY <1>4, FirstRound
  <2>2. b.root.frame \in Nat /\ b.root.frame > f
    BY <1>4, BallotFields
  <2>3. b.root.frame > f + 1
    BY <1>2, <2>1, <2>2
  <2> QED
    BY <1>3, <1>4, <2>3
<1> QED
  BY <1>4

\* When all validators are subjects, as in an election of the code, some subject is
\* never decided "no": chooseAtropos never fails with "all the roots are decided as 'no'".
THEOREM AtroposRemains ==
    ASSUME Subjects = Validators, Validators # {}
    PROVE  VSpec => []SomeSubjectNotRejected
<1>1. VInductive => SomeSubjectNotRejected
  BY InductiveImpliesNotRejected
<1> QED
  BY <1>1, Inductive, PTL
=============================================================================
