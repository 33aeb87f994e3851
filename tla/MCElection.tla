---------------------------- MODULE MCElection -----------------------------
(***************************************************************************)
(* Instances of Election for TLC: four validators of weight 1, two nodes.  *)
(*                                                                         *)
(* The roots appear in the fixed order of Slots, and before the nodes      *)
(* start: a node cannot tell a root that does not exist yet from one it    *)
(* has not learned.  Sees bounds the DAG: which roots of the previous      *)
(* frame the root of a slot may observe.                                   *)
(*                                                                         *)
(* A node learns the roots of frame 1 (that do not vote) first, in order,  *)
(* and learns a root only when it has processed all it knows; after a      *)
(* Reset it processes again, in the order of the store, all it knows       *)
(* (processKnownRoots).  It may process its last root twice.               *)
(***************************************************************************)
EXTENDS Election, Sequences, TLC

CONSTANTS Slots, Sees(_), n1, n2

MCSymmetry == Permutations(Nodes)

MCWeight == [v \in 1..4 |-> 1]
MCEvents == DOMAIN Slots
MCCreator == [i \in DOMAIN Slots |-> Slots[i][1]]
MCPossibleRoots ==
    {[id |-> i, frame |-> Slots[i][2], validator |-> Slots[i][1]] : i \in DOMAIN Slots}

Frame(f, vs) == [i \in 1..Len(vs) |-> <<vs[i], f>>]

\* The first round is split over subject 1, on which frame 4 decides or not; 4 forks its
\* root of frame 1.
SplitSlots ==
    Frame(1, <<1, 2, 3, 4, 4>>) \o Frame(2, <<1, 2, 3, 4>>) \o Frame(3, <<1, 2, 3>>)
        \o Frame(4, <<1>>)
SplitSees(r) ==
    CASE r.frame = 1 -> {{}}
      [] r.frame = 2 -> IF r.validator <= 2 THEN {{1, 2, 3}}
                        ELSE {{2, 3, 4}} \cup IF r.validator = 4 THEN {{2, 3, 5}} ELSE {}
      [] r.frame = 3 -> {{6, 7, 8}, {7, 8, 9}}
      [] OTHER -> {{10, 11, 12}}

MCEmit(r) ==
    /\ Cardinality(roots) + 1 = r.id
    /\ \E seen \in SUBSET {x \in roots : x.frame + 1 = r.frame} :
          {x.id : x \in seen} \in Sees(r) /\ AddRoot(r, seen)
    /\ UNCHANGED evars

MCLearn(n, r) ==
    /\ processed[n] = known[n]
    /\ \A x \in roots : x.frame = 1 /\ x.id < r.id => x \in known[n]
    /\ LearnRoot(n, r)

MCProcess(n, r) ==
    /\ \A x \in known[n] \ processed[n] : r.id <= x.id
    /\ r \in processed[n] => \A x \in known[n] : x.id <= r.id
    /\ ProcessRoot(n, r)

MCNext ==
    IF Cardinality(roots) < Len(Slots)
    THEN \E r \in PossibleRoots : MCEmit(r)
    ELSE \E n \in Nodes, r \in PossibleRoots : MCLearn(n, r) \/ MCProcess(n, r)
MCSpec == Init /\ [][MCNext]_vars
=============================================================================
