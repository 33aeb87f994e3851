-------------------------------- MODULE Pos --------------------------------
(***************************************************************************)
(* Weights and quorums of one epoch's validator group (inter/pos).         *)
(*                                                                         *)
(* A Validators object of the code is read-only, so it is a pair of        *)
(* constants here.  A WeightCounter counts every validator at most once:   *)
(* what it has counted is a set of validators, its Sum() is the weight of  *)
(* that set and HasQuorum() compares it with Quorum().                     *)
(***************************************************************************)
EXTENDS Integers, FiniteSets

CONSTANTS
    Validators,     \* the validator ids of the epoch
    Weight          \* Validators.values: the weight of each of them

ASSUME WeightType ==
    /\ Validators \subseteq Nat /\ IsFiniteSet(Validators)
    /\ Weight \in [Validators -> Nat \ {0}]

\* A validator of weight w holds w units of stake.
Units(S) == UNION {{v} \X (1 .. Weight[v]) : v \in S}

\* WeightCounter.Sum() of a counter that has counted the validators of S.
Sum(S) == Cardinality(Units(S))

TotalWeight == Sum(Validators)

\* Mutant: a quorum without the + 1.
QuorumRounded == (TotalWeight * 2) \div 3

\* Integer division, as in the code: strictly more than two thirds.
Quorum == (TotalWeight * 2) \div 3 + 1

HasQuorum(S) == Sum(S) >= Quorum

\* The order of SortedIDs: the heavier first, then the smaller id.
Before(u, v) == Weight[u] > Weight[v] \/ (Weight[u] = Weight[v] /\ u < v)
=============================================================================
