----------------------------- MODULE Election ------------------------------
(***************************************************************************)
(* The Election objects of several nodes (abft/election), over one DAG of  *)
(* roots.                                                                  *)
(*                                                                         *)
(* The DAG and what its roots vote are those of module Voting.  A node     *)
(* learns the roots in an order of its own, calls ProcessRoot on them,     *)
(* remembers the votes it computes for the frame it is deciding, and       *)
(* starts over with the next frame when it has an Atropos.  What the nodes *)
(* share is only the DAG: their agreement is what the election is for.     *)
(***************************************************************************)
EXTENDS Voting

CONSTANT Nodes

\* ApplyGenesis refuses an empty group of validators.
ASSUME ElectionConstants == Subjects = Validators /\ Validators # {}

VARIABLES
    known,          \* the roots in the node's store (getFrameRoots)
    processed,      \* the roots ProcessRoot was called with since the last Reset
    frameToDecide,
    votes,          \* el.votes, as ballots of election frameToDecide
    decidedRoots,   \* el.decidedRoots, likewise
    atropoi,        \* the results: pairs <<frame, Atropos>>
    failed          \* ProcessRoot has returned an error

evars == <<known, processed, frameToDecide, votes, decidedRoots, atropoi, failed>>
vars == <<vvars, evars>>

(***************************************************************************)
(* ProcessRoot.                                                            *)
(***************************************************************************)
\* Mutant: every known root of the previous frame counts as observed.
ObservedRootsAll(n, r) == {x \in known[n] : x.frame + 1 = r.frame}

\* observedRoots and observedRootsMap: what the node's store knows of them.
ObservedRoots(n, r) == {x \in known[n] : x.frame + 1 = r.frame /\ <<r, x>> \in obs}

NotDecided(n) == {s \in Validators : \A d \in decidedRoots[n] : d.subject # s}

CastVotes(n, r, s) == {v \in votes[n] : v.root \in ObservedRoots(n, r) /\ v.subject = s}

\* The error returns of a round after the first, on subject s.
CannotTally(n, r, s) ==
    LET seen == ObservedRoots(n, r)
        cast == CastVotes(n, r, s)
    IN  \/ \E x \in seen : \A v \in cast : v.root # x
        \/ \E a, b \in cast : a.yes /\ b.yes /\ a.observedRoot # b.observedRoot
        \/ \E x, y \in seen : x # y /\ x.validator = y.validator
        \/ ~HasQuorum(ValidatorsOf(seen))

VotesOn(n, r, s) ==
    IF r.frame = frameToDecide[n] + 1
    THEN FirstVotes(frameToDecide[n], r, s, ObservedRoots(n, r))
    ELSE TallyVotes(frameToDecide[n], r, s, CastVotes(n, r, s))

\* One vote per undecided subject.  (The map of the first round keeps any one of
\* a validator's observed roots.)
NewVotes(n, r) ==
    {V \in SUBSET UNION {VotesOn(n, r, s) : s \in NotDecided(n)} :
        /\ \A s \in NotDecided(n) : \E v \in V : v.subject = s
        /\ \A v, w \in V : v.subject = w.subject => v = w}

\* Mutant: the roots are not processed again for the next frame.
DecideOnce(n, atropos) ==
    /\ atropoi' = [atropoi EXCEPT ![n] = @ \cup {<<frameToDecide[n], atropos>>}]
    /\ frameToDecide' = [frameToDecide EXCEPT ![n] = @ + 1]
    /\ votes' = [votes EXCEPT ![n] = {}]
    /\ decidedRoots' = [decidedRoots EXCEPT ![n] = {}]
    /\ UNCHANGED processed

\* The caller's answer to a result: log it and Reset for the next frame.
Decide(n, atropos) ==
    /\ atropoi' = [atropoi EXCEPT ![n] = @ \cup {<<frameToDecide[n], atropos>>}]
    /\ frameToDecide' = [frameToDecide EXCEPT ![n] = @ + 1]
    /\ votes' = [votes EXCEPT ![n] = {}]
    /\ decidedRoots' = [decidedRoots EXCEPT ![n] = {}]
    /\ processed' = [processed EXCEPT ![n] = {}]

SaveVotes(n, r, cast, decided) ==
    /\ votes' = [votes EXCEPT ![n] =
          {v \in @ : \A w \in cast : <<v.root, v.subject>> # <<w.root, w.subject>>} \cup cast]
    /\ decidedRoots' = [decidedRoots EXCEPT ![n] = decided]
    /\ processed' = [processed EXCEPT ![n] = @ \cup {r}]
    /\ UNCHANGED <<frameToDecide, atropoi>>

\* A root of a later frame votes.  After an error the object is not used again.
VoteOnRoot(n, r) ==
    /\ r.frame > frameToDecide[n]
    /\ \E cast \in NewVotes(n, r) :
          LET decided == decidedRoots[n] \cup {v \in cast : v.decided}
              broken  == /\ r.frame > frameToDecide[n] + 1
                         /\ \E s \in NotDecided(n) : CannotTally(n, r, s)
              result  == IF broken THEN {} ELSE Atropos(decided)
          IN  /\ failed' = [failed EXCEPT ![n] = broken \/ AllRejected(decided)]
              /\ \/ \E a \in result : Decide(n, a)
                 \/ result = {} /\ SaveVotes(n, r, cast, decided)

\* A root that is too old for the current election.
IgnoreRoot(n, r) ==
    /\ r.frame <= frameToDecide[n]
    /\ processed' = [processed EXCEPT ![n] = @ \cup {r}]
    /\ UNCHANGED <<frameToDecide, votes, decidedRoots, atropoi, failed>>

(***************************************************************************)
(* The callers' order (handleElection, processKnownRoots): a root is       *)
(* processed after the roots it observes, as far as they belong to the     *)
(* current election.                                                       *)
(***************************************************************************)
ProcessRoot(n, r) ==
    /\ ~failed[n]
    /\ frameToDecide[n] \in Elections
    /\ r \in known[n]
    /\ \A x \in ObservedRoots(n, r) : x.frame > frameToDecide[n] => x \in processed[n]
    /\ IgnoreRoot(n, r) \/ VoteOnRoot(n, r)
    /\ UNCHANGED <<vvars, known>>

\* A root reaches the node's store after the roots it observes (parents first).
LearnRoot(n, r) ==
    /\ r \in roots \ known[n]
    /\ \A x \in roots : <<r, x>> \in obs => x \in known[n]
    /\ known' = [known EXCEPT ![n] = @ \cup {r}]
    /\ UNCHANGED <<vvars, processed, frameToDecide, votes, decidedRoots, atropoi, failed>>

EmitRoot(r) == NewRoot(r) /\ UNCHANGED evars

Init ==
    /\ VInit
    /\ known = [n \in Nodes |-> {}]
    /\ processed = [n \in Nodes |-> {}]
    /\ frameToDecide = [n \in Nodes |-> 1]
    /\ votes = [n \in Nodes |-> {}]
    /\ decidedRoots = [n \in Nodes |-> {}]
    /\ atropoi = [n \in Nodes |-> {}]
    /\ failed = [n \in Nodes |-> FALSE]

Next ==
    \/ \E r \in PossibleRoots : EmitRoot(r)
    \/ \E n \in Nodes, r \in PossibleRoots : LearnRoot(n, r) \/ ProcessRoot(n, r)

Spec == Init /\ [][Next]_vars
-----------------------------------------------------------------------------
TypeOK ==
    /\ VTypeOK
    /\ known \in [Nodes -> SUBSET roots]
    /\ processed \in [Nodes -> SUBSET roots]
    /\ frameToDecide \in [Nodes -> Nat \ {0}]
    /\ votes \in [Nodes -> SUBSET Ballots]
    /\ decidedRoots \in [Nodes -> SUBSET Ballots]
    /\ atropoi \in [Nodes -> SUBSET (Nat \X Events)]
    /\ failed \in [Nodes -> BOOLEAN]

(***************************************************************************)
(* No two nodes, and no node with itself, decide one frame on different    *)
(* Atropoi, whatever roots they knew and in whatever order they processed  *)
(* them.                                                                   *)
(***************************************************************************)
Agreement ==
    \A m, n \in Nodes : \A a \in atropoi[m], b \in atropoi[n] : a[1] = b[1] => a[2] = b[2]

(***************************************************************************)
(* ProcessRoot returns an error only when all roots are decided "no": with *)
(* less than a third of the weight Byzantine its sanity checks pass,       *)
(* whatever the order of calls its callers can produce.                    *)
(***************************************************************************)
NoSanityError ==
    \A n \in Nodes, r \in PossibleRoots :
       /\ ~failed[n] /\ r \in known[n]
       /\ frameToDecide[n] \in Elections /\ r.frame > frameToDecide[n] + 1
       /\ \A x \in ObservedRoots(n, r) : x.frame > frameToDecide[n] => x \in processed[n]
       => \A s \in NotDecided(n) : ~CannotTally(n, r, s)

(***************************************************************************)
(* ProcessRoot returns no error at all: chooseAtropos never finds that     *)
(* "all the roots are decided as 'no', which is possible only if more than *)
(* 1/3W are Byzantine" (sort_roots.go) either.                             *)
(***************************************************************************)
NeverFails == \A n \in Nodes : ~failed[n]

\* The votes a node has computed are the votes that the DAG alone determines.
VotesAreCanonical ==
    \A n \in Nodes : votes[n] \cup decidedRoots[n] \subseteq ballots
=============================================================================
