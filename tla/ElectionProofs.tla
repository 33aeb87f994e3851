--------------------------- MODULE ElectionProofs ---------------------------
(***************************************************************************)
(* Nodes that run the election agree, for any validators, weights, number  *)
(* of nodes and frames, DAG of roots and order of processing.              *)
(***************************************************************************)
EXTENDS Election, AtroposProofs

\* A frame's Atropos in terms of the votes that the DAG defines.
IsAtropos(f, h) ==
    \E d \in ballots :
       /\ d.election = f /\ d.decided /\ d.yes /\ d.observedRoot = h
       /\ \A u \in Validators : Before(u, d.subject) =>
             \E b \in ballots : b.election = f /\ b.subject = u /\ b.decided /\ ~ b.yes

(***************************************************************************)
(* The inductive invariant.  It adds to the invariant of Voting that a     *)
(* node knows what its roots observe, that its votes are the ones the DAG  *)
(* defines, that no vote it will need is missing, and why it chose its     *)
(* Atropoi.                                                                *)
(***************************************************************************)
NodeInv(n) ==
    /\ processed[n] \subseteq known[n]
    /\ \A r \in known[n] : Seen(r) \subseteq known[n]
    /\ votes[n] \subseteq ballots
    /\ decidedRoots[n] \subseteq ballots
    /\ \A v \in votes[n] : v.election = frameToDecide[n]
    /\ \A d \in decidedRoots[n] : d.election = frameToDecide[n] /\ d.decided
    /\ \A x \in processed[n], s \in NotDecided(n) :
          x.frame > frameToDecide[n] => \E v \in votes[n] : v.root = x /\ v.subject = s
    /\ \A a \in atropoi[n] : IsAtropos(a[1], a[2])

EInductive == TypeOK /\ VInductive /\ \A n \in Nodes : NodeInv(n)

-----------------------------------------------------------------------------
(* The votes of a root are determined by the DAG.                          *)

LEMMA FirstUnique ==
    ASSUME VInductive, NEW r \in roots, NEW f, NEW s,
           NEW a \in FirstVotes(f, r, s, Seen(r)), NEW b \in FirstVotes(f, r, s, Seen(r))
    PROVE  a = b
<1>1. \A x, y \in Seen(r) : x.validator = y.validator => x = y
  BY SeenSlots
<1> QED
  BY <1>1 DEF FirstVotes

LEMMA TallyUnique ==
    ASSUME VInductive, NEW r, NEW f, NEW s, NEW R,
           NEW a \in TallyVotes(f, r, s, Cast(f, s, R)), NEW b \in TallyVotes(f, r, s, Cast(f, s, R))
    PROVE  a = b
<1> DEFINE cast == Cast(f, s, R)
           yes == Sum(YesVoters(cast)) >= Sum(NoVoters(cast))
           decided == HasQuorum(YesVoters(cast)) \/ HasQuorum(NoVoters(cast))
           hashes == {c.observedRoot : c \in {d \in cast : d.yes}}
<1>1. PICK h \in IF yes /\ hashes # {} THEN hashes ELSE {NoEvent} :
            a = [election |-> f, root |-> r, subject |-> s,
                 yes |-> yes, observedRoot |-> h, decided |-> decided]
  BY Zenon DEF TallyVotes
<1>2. PICK g \in IF yes /\ hashes # {} THEN hashes ELSE {NoEvent} :
            b = [election |-> f, root |-> r, subject |-> s,
                 yes |-> yes, observedRoot |-> g, decided |-> decided]
  BY Zenon DEF TallyVotes
<1>3. \A x, y \in hashes : x = y
  BY InductiveImpliesCandidate DEF OneCandidate, Cast, SameQuestion
<1> HIDE DEF cast, yes, decided, hashes
<1>4. h = g
  BY <1>1, <1>2, <1>3
<1> QED
  BY <1>1, <1>2, <1>4

LEMMA OneBallot ==
    ASSUME VInductive, NEW a \in ballots, NEW b \in ballots, SameQuestion(a, b), a.root = b.root
    PROVE  a = b
<1>1. a.election = b.election /\ a.subject = b.subject /\ a.root \in roots
  BY BallotFields DEF SameQuestion
<1>2. CASE a.root.frame = a.election + 1
  <2>1. /\ a \in FirstVotes(a.election, a.root, a.subject, Seen(a.root))
        /\ b \in FirstVotes(a.election, a.root, a.subject, Seen(a.root))
    BY <1>1, <1>2 DEF VInductive, BallotInv
  <2> QED
    BY <1>1, <2>1, FirstUnique
<1>3. CASE a.root.frame # a.election + 1
  <2>1. /\ a \in TallyVotes(a.election, a.root, a.subject, Cast(a.election, a.subject, Seen(a.root)))
        /\ b \in TallyVotes(a.election, a.root, a.subject, Cast(a.election, a.subject, Seen(a.root)))
    BY <1>1, <1>3 DEF VInductive, BallotInv
  <2> QED
    BY <2>1, TallyUnique
<1> QED
  BY <1>2, <1>3

\* Any vote computed from what a root observes is the root's ballot.
LEMMA ComputedIsBallot ==
    ASSUME VInductive, NEW r \in roots, NEW f \in Elections, NEW s \in Subjects, f < r.frame,
           NEW v \in IF r.frame = f + 1 THEN FirstVotes(f, r, s, Seen(r))
                     ELSE TallyVotes(f, r, s, Cast(f, s, Seen(r)))
    PROVE  v \in ballots
<1>1. PICK b \in ballots : b.election = f /\ b.subject = s /\ b.root = r
  BY DEF VInductive, BallotInv
<1>2. b \in IF r.frame = f + 1 THEN FirstVotes(f, r, s, Seen(r))
            ELSE TallyVotes(f, r, s, Cast(f, s, Seen(r)))
  BY <1>1 DEF VInductive, BallotInv
<1>3. CASE r.frame = f + 1
  BY <1>2, <1>3, FirstUnique
<1>4. CASE r.frame # f + 1
  BY <1>2, <1>4, TallyUnique
<1> QED
  BY <1>3, <1>4

-----------------------------------------------------------------------------
(* What a node computes when the callers' order is respected.              *)

Ready(n, r) ==
    /\ n \in Nodes /\ r \in known[n] /\ frameToDecide[n] \in Elections
    /\ \A x \in ObservedRoots(n, r) : x.frame > frameToDecide[n] => x \in processed[n]

LEMMA ObservedIsSeen ==
    ASSUME EInductive, NEW n \in Nodes, NEW r \in known[n]
    PROVE  ObservedRoots(n, r) = Seen(r)
<1>1. r \in roots /\ known[n] \subseteq roots
  BY DEF EInductive, TypeOK
<1>2. \A x \in Seen(r) : x \in known[n] /\ x.frame + 1 = r.frame
  BY <1>1 DEF EInductive, NodeInv, VInductive, ObservationInv
<1> QED
  BY <1>1, <1>2 DEF ObservedRoots, Seen

LEMMA CastIsCanonical ==
    ASSUME EInductive, NEW n, NEW r, Ready(n, r), r.frame > frameToDecide[n] + 1,
           NEW s \in NotDecided(n)
    PROVE  /\ CastVotes(n, r, s) = Cast(frameToDecide[n], s, Seen(r))
           /\ \A x \in Seen(r) : \E v \in CastVotes(n, r, s) : v.root = x
<1>1. n \in Nodes /\ r \in known[n] /\ r \in roots /\ frameToDecide[n] \in Nat
  BY DEF Ready, EInductive, TypeOK
<1>2. ObservedRoots(n, r) = Seen(r)
  BY <1>1, ObservedIsSeen
<1>3. NodeInv(n) /\ VInductive
  BY <1>1 DEF EInductive
<1>4. ASSUME NEW x \in Seen(r) PROVE \E v \in CastVotes(n, r, s) : v.root = x
  <2>1. x \in roots /\ x.frame + 1 = r.frame /\ x.frame \in Nat
    BY <1>1, <1>3 DEF VInductive, ObservationInv, VTypeOK, Roots, Seen
  <2>2. x.frame > frameToDecide[n]
    BY <1>1, <2>1
  <2>3. x \in processed[n]
    BY <1>2, <2>2 DEF Ready
  <2>4. PICK v \in votes[n] : v.root = x /\ v.subject = s
    BY <1>3, <2>2, <2>3 DEF NodeInv
  <2> QED
    BY <1>2, <2>4 DEF CastVotes
<1>5. CastVotes(n, r, s) \subseteq Cast(frameToDecide[n], s, Seen(r))
  BY <1>2, <1>3 DEF CastVotes, Cast, NodeInv
<1>6. ASSUME NEW b \in Cast(frameToDecide[n], s, Seen(r)) PROVE b \in CastVotes(n, r, s)
  <2>1. b \in ballots /\ b.election = frameToDecide[n] /\ b.subject = s /\ b.root \in Seen(r)
    BY DEF Cast
  <2>2. PICK v \in CastVotes(n, r, s) : v.root = b.root
    BY <1>4, <2>1
  <2>3. v \in ballots /\ SameQuestion(v, b)
    BY <1>5, <2>1 DEF Cast, SameQuestion
  <2>4. v = b
    BY <1>3, <2>1, <2>2, <2>3, OneBallot
  <2> QED
    BY <2>4
<1> QED
  BY <1>4, <1>5, <1>6

LEMMA NeverBroken ==
    ASSUME EInductive, NEW n, NEW r, Ready(n, r), r.frame > frameToDecide[n] + 1,
           NEW s \in NotDecided(n)
    PROVE  ~ CannotTally(n, r, s)
<1>1. n \in Nodes /\ r \in known[n] /\ r \in roots /\ frameToDecide[n] \in Nat \ {0} /\ r.frame \in Nat
  BY DEF Ready, EInductive, TypeOK, VTypeOK, Roots
<1>2. ObservedRoots(n, r) = Seen(r) /\ VInductive
  BY <1>1, ObservedIsSeen DEF EInductive
<1>3. CastVotes(n, r, s) = Cast(frameToDecide[n], s, Seen(r))
  BY CastIsCanonical
<1>4. \A x \in Seen(r) : \E v \in CastVotes(n, r, s) : v.root = x
  BY CastIsCanonical
<1>5. \A a, b \in CastVotes(n, r, s) : a.yes /\ b.yes => a.observedRoot = b.observedRoot
  BY <1>2, <1>3, InductiveImpliesCandidate DEF OneCandidate, Cast, SameQuestion
<1>6. \A x, y \in Seen(r) : x.validator = y.validator => x = y
  BY <1>1, <1>2, SeenSlots
<1>7. HasQuorum(ValidatorsOf(Seen(r)))
  <2>1. r.frame > 1
    BY <1>1
  <2> QED
    BY <1>1, <1>2, <2>1 DEF VInductive, ObservationInv
<1> QED
  BY <1>2, <1>4, <1>5, <1>6, <1>7 DEF CannotTally

LEMMA VotesOnCanonical ==
    ASSUME EInductive, NEW n, NEW r, Ready(n, r), r.frame > frameToDecide[n],
           NEW s \in NotDecided(n), NEW v \in VotesOn(n, r, s)
    PROVE  v \in ballots /\ v.election = frameToDecide[n] /\ v.root = r /\ v.subject = s
<1>1. /\ n \in Nodes /\ r \in known[n] /\ r \in roots
      /\ frameToDecide[n] \in Nat \ {0} /\ frameToDecide[n] \in Elections /\ r.frame \in Nat
  BY DEF Ready, EInductive, TypeOK, VTypeOK, Roots
<1>2. ObservedRoots(n, r) = Seen(r) /\ VInductive
  BY <1>1, ObservedIsSeen DEF EInductive
<1>3. s \in Subjects
  BY ElectionConstants DEF NotDecided
<1>4. CASE r.frame = frameToDecide[n] + 1
  <2>1. v \in FirstVotes(frameToDecide[n], r, s, Seen(r))
    BY <1>2, <1>4 DEF VotesOn
  <2>2. v.election = frameToDecide[n] /\ v.root = r /\ v.subject = s
    BY <2>1 DEF FirstVotes
  <2> QED
    BY <1>1, <1>2, <1>3, <1>4, <2>1, <2>2, ComputedIsBallot
<1>5. CASE r.frame # frameToDecide[n] + 1
  <2>1. v \in TallyVotes(frameToDecide[n], r, s, Cast(frameToDecide[n], s, Seen(r)))
    <3>1. r.frame > frameToDecide[n] + 1
      BY <1>1, <1>5
    <3>2. v \in TallyVotes(frameToDecide[n], r, s, CastVotes(n, r, s))
      BY <1>5 DEF VotesOn
    <3> QED
      BY <3>1, <3>2, CastIsCanonical
  <2>2. v.election = frameToDecide[n] /\ v.root = r /\ v.subject = s
    BY <2>1 DEF TallyVotes
  <2> QED
    BY <1>1, <1>2, <1>3, <1>5, <2>1, <2>2, ComputedIsBallot
<1> QED
  BY <1>4, <1>5

-----------------------------------------------------------------------------
(* The invariant is inductive.                                             *)

LEMMA EInductiveInit == Init => EInductive
<1> SUFFICES ASSUME Init PROVE EInductive
  OBVIOUS
<1>1. VInductive
  BY InductiveInit DEF Init
<1>2. TypeOK
  BY <1>1 DEF Init, TypeOK, VInductive
<1>3. ASSUME NEW n \in Nodes PROVE NodeInv(n)
  BY DEF Init, NodeInv
<1> QED
  BY <1>1, <1>2, <1>3 DEF EInductive

LEMMA AtroposStays ==
    ASSUME ballots \subseteq ballots', NEW f, NEW h, IsAtropos(f, h)
    PROVE  IsAtropos(f, h)'
<1>1. PICK d \in ballots :
       /\ d.election = f /\ d.decided /\ d.yes /\ d.observedRoot = h
       /\ \A u \in Validators : Before(u, d.subject) =>
             \E b \in ballots : b.election = f /\ b.subject = u /\ b.decided /\ ~ b.yes
  BY DEF IsAtropos
<1>2. d \in ballots'
  OBVIOUS
<1>3. ASSUME NEW u \in Validators, Before(u, d.subject)
      PROVE  \E b \in ballots' : b.election = f /\ b.subject = u /\ b.decided /\ ~ b.yes
  BY <1>1, <1>3
<1> QED
  BY <1>1, <1>2, <1>3 DEF IsAtropos, Before

LEMMA EmitStep ==
    ASSUME EInductive, NEW r \in PossibleRoots, EmitRoot(r)
    PROVE  EInductive'
<1>1. PICK seen : AddRoot(r, seen)
  BY DEF EmitRoot, NewRoot
<1>2. VInductive /\ VInductive'
  BY <1>1, InductiveStep DEF EInductive
<1>3. roots \subseteq roots' /\ ballots \subseteq ballots' /\ evars' = evars
  BY <1>1 DEF AddRoot, EmitRoot
<1>4. TypeOK'
  BY <1>2, <1>3 DEF EInductive, TypeOK, VInductive, evars
<1>5. ASSUME NEW n \in Nodes PROVE NodeInv(n)'
  <2>1. NodeInv(n) /\ known[n] \subseteq roots
    BY DEF EInductive, TypeOK
  <2>2. \A q \in known[n] : Seen(q)' = Seen(q)
    BY <1>1, <1>2, <2>1, OldRoots
  <2>3. \A a \in atropoi[n] : IsAtropos(a[1], a[2])'
    BY <1>3, <2>1, AtroposStays DEF NodeInv
  <2>4. NotDecided(n)' = NotDecided(n)
    BY <1>3 DEF NotDecided, evars
  <2> QED
    BY <1>3, <2>1, <2>2, <2>3, <2>4 DEF NodeInv, evars, IsAtropos
<1> QED
  BY <1>2, <1>4, <1>5 DEF EInductive

\* A step that leaves the DAG alone keeps what is said of the DAG.
LEMMA SameDag ==
    ASSUME EInductive, UNCHANGED vvars
    PROVE  /\ VInductive'
           /\ \A q : Seen(q)' = Seen(q)
           /\ ballots' = ballots
           /\ \A f, h : IsAtropos(f, h)' <=> IsAtropos(f, h)
<1>1. roots' = roots /\ obs' = obs /\ ballots' = ballots
  BY DEF vvars
<1>2. VInductive'
  BY Unchanged DEF EInductive
<1> QED
  BY <1>1, <1>2 DEF Seen, IsAtropos, Before

LEMMA LearnStep ==
    ASSUME EInductive, NEW n \in Nodes, NEW r, LearnRoot(n, r)
    PROVE  EInductive'
<1>1. UNCHANGED vvars /\ UNCHANGED <<processed, frameToDecide, votes, decidedRoots, atropoi, failed>>
  BY DEF LearnRoot
<1>2. known' = [known EXCEPT ![n] = @ \cup {r}] /\ r \in roots /\ known \in [Nodes -> SUBSET roots]
  BY DEF LearnRoot, EInductive, TypeOK
<1>3. TypeOK'
  <2>1. VTypeOK' /\ roots' = roots
    BY <1>1, SameDag DEF VInductive, vvars
  <2> QED
    BY <1>1, <1>2, <2>1 DEF EInductive, TypeOK
<1>4. ASSUME NEW m \in Nodes PROVE NodeInv(m)'
  <2>1. NodeInv(m) /\ NotDecided(m)' = NotDecided(m)
    BY <1>1 DEF EInductive, NotDecided
  <2>2. known[m] \subseteq known'[m]
    BY <1>2
  <2>3. \A q \in known'[m] : Seen(q) \subseteq known'[m]
    <3>1. Seen(r) \subseteq known[n]
      BY DEF LearnRoot, Seen
    <3> QED
      BY <1>2, <2>1, <2>2, <3>1 DEF NodeInv
  <2>4. \A q \in known'[m] : Seen(q)' \subseteq known'[m]
    BY <1>1, <2>3, SameDag
  <2>5. \A a \in atropoi'[m] : IsAtropos(a[1], a[2])'
    BY <1>1, <2>1, SameDag DEF NodeInv
  <2> QED
    BY <1>1, <2>1, <2>2, <2>4, <2>5, SameDag DEF NodeInv
<1> QED
  BY <1>1, <1>3, <1>4, SameDag DEF EInductive

\* A step of node n's election leaves the other nodes alone.
LEMMA OtherNodes ==
    ASSUME EInductive, NEW n \in Nodes, NEW r, ProcessRoot(n, r), NEW m \in Nodes, m # n
    PROVE  NodeInv(m)'
<1>1. /\ UNCHANGED vvars /\ known' = known
      /\ processed'[m] = processed[m] /\ frameToDecide'[m] = frameToDecide[m]
      /\ votes'[m] = votes[m] /\ decidedRoots'[m] = decidedRoots[m] /\ atropoi'[m] = atropoi[m]
  <2>1. UNCHANGED vvars /\ known' = known /\ (IgnoreRoot(n, r) \/ VoteOnRoot(n, r))
    BY DEF ProcessRoot
  <2>2. /\ processed \in [Nodes -> SUBSET roots] /\ frameToDecide \in [Nodes -> Nat \ {0}]
        /\ votes \in [Nodes -> SUBSET Ballots] /\ decidedRoots \in [Nodes -> SUBSET Ballots]
        /\ atropoi \in [Nodes -> SUBSET (Nat \X Events)]
    BY DEF EInductive, TypeOK
  <2>3. CASE IgnoreRoot(n, r)
    BY <2>1, <2>2, <2>3 DEF IgnoreRoot
  <2>4. CASE VoteOnRoot(n, r)
    <3>1. (\E a : Decide(n, a)) \/ (\E cast, decided : SaveVotes(n, r, cast, decided))
      BY <2>4 DEF VoteOnRoot
    <3>2. CASE \E a : Decide(n, a)
      BY <2>1, <2>2, <3>2 DEF Decide
    <3>3. CASE \E cast, decided : SaveVotes(n, r, cast, decided)
      BY <2>1, <2>2, <3>3 DEF SaveVotes
    <3> QED
      BY <3>1, <3>2, <3>3
  <2> QED
    BY <2>1, <2>3, <2>4
<1>2. NodeInv(m) /\ NotDecided(m)' = NotDecided(m)
  BY <1>1 DEF EInductive, NotDecided
<1>3. \A q \in known'[m] : Seen(q)' \subseteq known'[m]
  BY <1>1, <1>2, SameDag DEF NodeInv
<1>4. \A a \in atropoi'[m] : IsAtropos(a[1], a[2])'
  BY <1>1, <1>2, SameDag DEF NodeInv
<1> QED
  BY <1>1, <1>2, <1>3, <1>4, SameDag DEF NodeInv

LEMMA IgnoreStep ==
    ASSUME EInductive, NEW n \in Nodes, NEW r, ProcessRoot(n, r), IgnoreRoot(n, r)
    PROVE  EInductive'
<1>1. /\ UNCHANGED vvars /\ UNCHANGED <<known, frameToDecide, votes, decidedRoots, atropoi, failed>>
      /\ processed' = [processed EXCEPT ![n] = @ \cup {r}]
      /\ r \in known[n] /\ r.frame <= frameToDecide[n]
  BY DEF ProcessRoot, IgnoreRoot
<1>2. known \in [Nodes -> SUBSET roots] /\ processed \in [Nodes -> SUBSET roots]
  BY DEF EInductive, TypeOK
<1>3. TypeOK'
  <2>1. VTypeOK' /\ roots' = roots
    BY <1>1, SameDag DEF VInductive, vvars
  <2> QED
    BY <1>1, <1>2, <2>1 DEF EInductive, TypeOK
<1>4. NodeInv(n)'
  <2>1. NodeInv(n) /\ NotDecided(n)' = NotDecided(n)
    BY <1>1 DEF EInductive, NotDecided
  <2>2. processed'[n] = processed[n] \cup {r}
    BY <1>1, <1>2
  <2>3. r.frame \in Nat /\ frameToDecide[n] \in Nat
    BY <1>1, <1>2 DEF EInductive, TypeOK, VTypeOK, Roots
  <2>4. \A q \in known'[n] : Seen(q)' \subseteq known'[n]
    BY <1>1, <2>1, SameDag DEF NodeInv
  <2>5. \A a \in atropoi'[n] : IsAtropos(a[1], a[2])'
    BY <1>1, <2>1, SameDag DEF NodeInv
  <2>6. \A x \in processed'[n], s \in NotDecided(n) :
          x.frame > frameToDecide[n] => \E v \in votes[n] : v.root = x /\ v.subject = s
    BY <1>1, <2>1, <2>2, <2>3 DEF NodeInv
  <2> QED
    BY <1>1, <2>1, <2>2, <2>4, <2>5, <2>6, SameDag DEF NodeInv
<1> QED
  BY <1>1, <1>3, <1>4, OtherNodes, SameDag DEF EInductive

LEMMA VoteStep ==
    ASSUME EInductive, NEW n \in Nodes, NEW r, ProcessRoot(n, r), VoteOnRoot(n, r)
    PROVE  EInductive'
<1>1. /\ UNCHANGED vvars /\ known' = known /\ Ready(n, r) /\ r.frame > frameToDecide[n]
  BY DEF ProcessRoot, VoteOnRoot, Ready
<1>2. /\ known \in [Nodes -> SUBSET roots] /\ processed \in [Nodes -> SUBSET roots]
      /\ frameToDecide \in [Nodes -> Nat \ {0}]
      /\ votes \in [Nodes -> SUBSET Ballots] /\ decidedRoots \in [Nodes -> SUBSET Ballots]
      /\ atropoi \in [Nodes -> SUBSET (Nat \X Events)] /\ failed \in [Nodes -> BOOLEAN]
      /\ NodeInv(n) /\ VInductive /\ r \in known[n] /\ r.frame \in Nat
  BY <1>1 DEF EInductive, TypeOK, VTypeOK, Roots, Ready
<1>3. VInductive' /\ VTypeOK' /\ roots' = roots
  BY <1>1, SameDag DEF VInductive, vvars
<1> DEFINE decided(cast) == decidedRoots[n] \cup {v \in cast : v.decided}
           broken == /\ r.frame > frameToDecide[n] + 1
                     /\ \E s \in NotDecided(n) : CannotTally(n, r, s)
           result(cast) == IF broken THEN {} ELSE Atropos(decided(cast))
<1>4. PICK cast \in NewVotes(n, r) :
        /\ failed' = [failed EXCEPT ![n] = broken \/ AllRejected(decided(cast))]
        /\ \/ \E a \in result(cast) : Decide(n, a)
           \/ result(cast) = {} /\ SaveVotes(n, r, cast, decided(cast))
  BY DEF VoteOnRoot
<1>5. ~ broken
  BY <1>1, NeverBroken
<1>6. \A v \in cast : /\ v \in ballots /\ v.election = frameToDecide[n] /\ v.root = r
                      /\ v.subject \in NotDecided(n)
  <2>1. cast \subseteq UNION {VotesOn(n, r, s) : s \in NotDecided(n)}
    BY DEF NewVotes
  <2> QED
    BY <1>1, <2>1, VotesOnCanonical
<1>7. \A s \in NotDecided(n) : \E v \in cast : v.subject = s
  BY DEF NewVotes
<1>8. \A d \in decided(cast) : d \in ballots /\ d.election = frameToDecide[n] /\ d.decided
  BY <1>2, <1>6 DEF NodeInv
<1>9. ballots \subseteq Ballots
  BY <1>2 DEF VInductive, VTypeOK
<1>10. failed' \in [Nodes -> BOOLEAN]
  <2>1. (broken \/ AllRejected(decided(cast))) \in BOOLEAN
    BY Zenon DEF AllRejected
  <2> HIDE DEF broken, decided
  <2> QED
    BY <1>2, <1>4, <2>1
<1> HIDE DEF decided, broken
<1>11. CASE \E a \in result(cast) : Decide(n, a)
  <2>1. PICK a \in Atropos(decided(cast)) : Decide(n, a)
    BY <1>5, <1>11
  <2>2. IsAtropos(frameToDecide[n], a)
    BY <1>8 DEF Atropos, IsAtropos
  <2>3. a \in Events
    <3>1. PICK d \in ballots : d.yes /\ d.observedRoot = a
      BY <2>2 DEF IsAtropos
    <3>2. d.observedRoot # NoEvent
      BY <1>2, <3>1, InductiveImpliesCandidate DEF OneCandidate, SameQuestion
    <3> QED
      BY <1>9, <3>1, <3>2 DEF Ballots
  <2>4. /\ atropoi' = [atropoi EXCEPT ![n] = @ \cup {<<frameToDecide[n], a>>}]
        /\ frameToDecide' = [frameToDecide EXCEPT ![n] = @ + 1]
        /\ votes' = [votes EXCEPT ![n] = {}]
        /\ decidedRoots' = [decidedRoots EXCEPT ![n] = {}]
        /\ processed' = [processed EXCEPT ![n] = {}]
    BY <2>1 DEF Decide
  <2>5. TypeOK'
    <3>1. <<frameToDecide[n], a>> \in Nat \X Events
      BY <1>2, <2>3
    <3>2. atropoi' \in [Nodes -> SUBSET (Nat \X Events)]
      BY <1>2, <2>4, <3>1
    <3>3. frameToDecide' \in [Nodes -> Nat \ {0}]
      BY <1>2, <2>4
    <3> QED
      BY <1>1, <1>2, <1>3, <1>10, <2>4, <3>2, <3>3 DEF TypeOK
  <2>6. NodeInv(n)'
    <3>1. \A q \in known'[n] : Seen(q)' \subseteq known'[n]
      BY <1>1, <1>2, SameDag DEF NodeInv
    <3>2. \A b \in atropoi'[n] : IsAtropos(b[1], b[2])'
      <4>1. atropoi'[n] = atropoi[n] \cup {<<frameToDecide[n], a>>}
        BY <1>2, <2>4
      <4>2. \A b \in atropoi[n] : IsAtropos(b[1], b[2])
        BY <1>2 DEF NodeInv
      <4> QED
        BY <1>1, <2>2, <4>1, <4>2, SameDag
    <3>3. processed'[n] = {} /\ votes'[n] = {} /\ decidedRoots'[n] = {}
      BY <1>2, <2>4
    <3> QED
      BY <3>1, <3>2, <3>3 DEF NodeInv
  <2> QED
    BY <1>3, <2>5, <2>6, OtherNodes DEF EInductive
<1>12. CASE SaveVotes(n, r, cast, decided(cast))
  <2> DEFINE kept == {v \in votes[n] : \A w \in cast : <<v.root, v.subject>> # <<w.root, w.subject>>}
  <2>1. /\ votes' = [votes EXCEPT ![n] = kept \cup cast]
        /\ decidedRoots' = [decidedRoots EXCEPT ![n] = decided(cast)]
        /\ processed' = [processed EXCEPT ![n] = @ \cup {r}]
        /\ UNCHANGED <<frameToDecide, atropoi>>
    BY <1>12 DEF SaveVotes
  <2>2. kept \cup cast \subseteq ballots /\ decided(cast) \subseteq ballots
    BY <1>2, <1>6, <1>8 DEF NodeInv
  <2>3. TypeOK'
    <3> HIDE DEF kept
    <3>1. kept \cup cast \subseteq Ballots /\ decided(cast) \subseteq Ballots
      BY <1>9, <2>2
    <3>2. votes' \in [Nodes -> SUBSET Ballots] /\ decidedRoots' \in [Nodes -> SUBSET Ballots]
      BY <1>2, <2>1, <3>1
    <3>3. processed' \in [Nodes -> SUBSET roots]
      BY <1>2, <2>1
    <3> QED
      BY <1>1, <1>2, <1>3, <1>10, <2>1, <3>2, <3>3 DEF TypeOK
  <2>4. NodeInv(n)'
    <3>1. /\ votes'[n] = kept \cup cast
          /\ decidedRoots'[n] = decided(cast)
          /\ processed'[n] = processed[n] \cup {r}
          /\ frameToDecide'[n] = frameToDecide[n] /\ atropoi'[n] = atropoi[n]
      BY <1>2, <2>1
    <3>2. NotDecided(n)' \subseteq NotDecided(n)
      BY <3>1 DEF NotDecided, decided
    <3>3. \A v \in votes'[n] : v.election = frameToDecide[n]
      BY <1>2, <1>6, <3>1 DEF NodeInv
    <3>4. ASSUME NEW x \in processed'[n], NEW s \in NotDecided(n)', x.frame > frameToDecide[n]
          PROVE  \E v \in votes'[n] : v.root = x /\ v.subject = s
      <4>1. s \in NotDecided(n)
        BY <3>2
      <4>2. CASE x = r
        BY <1>6, <1>7, <3>1, <4>1, <4>2
      <4>3. CASE x \in processed[n]
        <5>1. PICK v \in votes[n] : v.root = x /\ v.subject = s
          BY <1>2, <3>4, <4>1, <4>3 DEF NodeInv
        <5>2. CASE v \in kept
          BY <3>1, <5>1, <5>2
        <5>3. CASE v \notin kept
          <6>1. PICK w \in cast : <<v.root, v.subject>> = <<w.root, w.subject>>
            BY <5>3
          <6> QED
            BY <3>1, <5>1, <6>1
        <5> QED
          BY <5>2, <5>3
      <4> QED
        BY <3>1, <4>2, <4>3
    <3>5. \A q \in known'[n] : Seen(q)' \subseteq known'[n]
      BY <1>1, <1>2, SameDag DEF NodeInv
    <3>6. \A a \in atropoi'[n] : IsAtropos(a[1], a[2])'
      BY <1>1, <1>2, <3>1, SameDag DEF NodeInv
    <3>7. processed'[n] \subseteq known'[n]
      BY <1>1, <1>2, <3>1 DEF NodeInv
    <3> HIDE DEF kept
    <3> QED
      BY <1>1, <1>8, <2>2, <3>1, <3>3, <3>4, <3>5, <3>6, <3>7, SameDag DEF NodeInv
  <2> QED
    BY <1>3, <2>3, <2>4, OtherNodes DEF EInductive
<1> QED
  BY <1>4, <1>11, <1>12

-----------------------------------------------------------------------------
\* The invariant that carries the proofs holds of every reachable state.
THEOREM ElectionInductive == Spec => []EInductive
<1>1. EInductive /\ [Next]_vars => EInductive'
  <2> SUFFICES ASSUME EInductive, [Next]_vars PROVE EInductive'
    OBVIOUS
  <2>1. CASE \E r \in PossibleRoots : EmitRoot(r)
    BY <2>1, EmitStep
  <2>2. ASSUME NEW n \in Nodes, NEW r \in PossibleRoots, LearnRoot(n, r) PROVE EInductive'
    BY <2>2, LearnStep
  <2>3. ASSUME NEW n \in Nodes, NEW r \in PossibleRoots, ProcessRoot(n, r) PROVE EInductive'
    <3>1. IgnoreRoot(n, r) \/ VoteOnRoot(n, r)
      BY <2>3 DEF ProcessRoot
    <3> QED
      BY <2>3, <3>1, IgnoreStep, VoteStep
  <2>4. CASE UNCHANGED vars
    <3>1. UNCHANGED vvars /\ UNCHANGED evars
      BY <2>4 DEF vars
    <3>2. VInductive' /\ VTypeOK' /\ roots' = roots
      BY <3>1, SameDag DEF VInductive, vvars
    <3>3. TypeOK'
      BY <3>1, <3>2 DEF evars, EInductive, TypeOK
    <3>4. ASSUME NEW n \in Nodes PROVE NodeInv(n)'
      <4>1. NodeInv(n) /\ NotDecided(n)' = NotDecided(n)
        BY <3>1 DEF evars, EInductive, NotDecided
      <4>2. \A q \in known'[n] : Seen(q)' \subseteq known'[n]
        BY <3>1, <4>1, SameDag DEF evars, NodeInv
      <4>3. \A a \in atropoi'[n] : IsAtropos(a[1], a[2])'
        BY <3>1, <4>1, SameDag DEF evars, NodeInv
      <4> QED
        BY <3>1, <4>1, <4>2, <4>3, SameDag DEF evars, NodeInv
    <3> QED
      BY <3>2, <3>3, <3>4 DEF EInductive
  <2> QED
    BY <2>1, <2>2, <2>3, <2>4 DEF Next
<1> QED
  BY <1>1, EInductiveInit, PTL DEF Spec

\* Every result names an event, and the election objects hold votes of known roots.
THEOREM ElectionTypeCorrect == Spec => []TypeOK
BY ElectionInductive, PTL DEF EInductive

\* A node's el.votes and el.decidedRoots never differ from the votes that the
\* DAG determines, in whatever order ProcessRoot was called.
THEOREM NodesVoteAlike == Spec => []VotesAreCanonical
<1>1. EInductive => VotesAreCanonical
  BY DEF EInductive, NodeInv, VotesAreCanonical
<1> QED
  BY <1>1, ElectionInductive, PTL

\* ProcessRoot's sanity checks ("every root must vote for every not decided
\* subject", "forkless caused by 2 fork roots", "at least 2/3W of prev roots")
\* never fail when the callers respect the order of roots.
THEOREM SanityChecksPass == Spec => []NoSanityError
<1>1. EInductive => NoSanityError
  BY NeverBroken DEF NoSanityError, Ready
<1> QED
  BY <1>1, ElectionInductive, PTL

LEMMA FailureStep ==
    ASSUME EInductive, NeverFails, [Next]_vars
    PROVE  NeverFails'
<1>1. ASSUME NEW n \in Nodes, NEW r, ProcessRoot(n, r), VoteOnRoot(n, r)
      PROVE  NeverFails'
  <2>1. Ready(n, r) /\ r.frame > frameToDecide[n] /\ frameToDecide[n] \in Elections
    BY <1>1 DEF ProcessRoot, VoteOnRoot, Ready
  <2> DEFINE decided(cast) == decidedRoots[n] \cup {v \in cast : v.decided}
             broken == /\ r.frame > frameToDecide[n] + 1
                       /\ \E s \in NotDecided(n) : CannotTally(n, r, s)
  <2>2. PICK cast \in NewVotes(n, r) :
           failed' = [failed EXCEPT ![n] = broken \/ AllRejected(decided(cast))]
    BY <1>1 DEF VoteOnRoot
  <2>3. ~ broken
    BY <2>1, NeverBroken
  <2>4. \A d \in decided(cast) : d \in ballots /\ d.election = frameToDecide[n] /\ d.decided
    <3>1. cast \subseteq UNION {VotesOn(n, r, s) : s \in NotDecided(n)}
      BY DEF NewVotes
    <3>2. \A v \in cast : v \in ballots /\ v.election = frameToDecide[n]
      BY <2>1, <3>1, VotesOnCanonical
    <3> QED
      BY <3>2 DEF EInductive, NodeInv
  <2>5. SomeSubjectNotRejected
    BY InductiveImpliesNotRejected, ElectionConstants DEF EInductive
  <2>6. PICK s \in Validators : \A b \in ballots :
           (b.election = frameToDecide[n] /\ b.subject = s /\ b.decided) => b.yes
    BY <2>1, <2>5, ElectionConstants DEF SomeSubjectNotRejected
  <2>7. ~ AllRejected(decided(cast))
    <3> HIDE DEF decided
    <3> QED
      BY <2>4, <2>6 DEF AllRejected
  <2>8. failed \in [Nodes -> BOOLEAN]
    BY DEF EInductive, TypeOK
  <2> HIDE DEF decided, broken
  <2>9. \A m \in Nodes : failed'[m] => failed[m]
    BY <2>2, <2>3, <2>7, <2>8
  <2> QED
    BY <2>9 DEF NeverFails
<1>2. CASE UNCHANGED failed
  BY <1>2 DEF NeverFails
<1>3. ASSUME ~ UNCHANGED failed
      PROVE  \E n \in Nodes : \E r : ProcessRoot(n, r) /\ VoteOnRoot(n, r)
  BY <1>3 DEF Next, vars, evars, EmitRoot, LearnRoot, ProcessRoot, IgnoreRoot
<1> QED
  BY <1>1, <1>2, <1>3

\* ProcessRoot never returns an error: neither its sanity checks nor chooseAtropos,
\* whose "all the roots are decided as 'no'" cannot happen.
THEOREM ElectionNeverFails == Spec => []NeverFails
<1>1. Init => NeverFails
  BY DEF Init, NeverFails
<1>2. EInductive /\ NeverFails /\ [Next]_vars => NeverFails'
  BY FailureStep
<1> QED
  BY <1>1, <1>2, ElectionInductive, PTL DEF Spec

LEMMA OneAtropos ==
    ASSUME VInductive, NEW f, NEW g, NEW h, IsAtropos(f, g), IsAtropos(f, h)
    PROVE  g = h
<1>1. PICK d \in ballots :
       /\ d.election = f /\ d.decided /\ d.yes /\ d.observedRoot = g
       /\ \A u \in Validators : Before(u, d.subject) =>
             \E b \in ballots : b.election = f /\ b.subject = u /\ b.decided /\ ~ b.yes
  BY DEF IsAtropos
<1>2. PICK e \in ballots :
       /\ e.election = f /\ e.decided /\ e.yes /\ e.observedRoot = h
       /\ \A u \in Validators : Before(u, e.subject) =>
             \E b \in ballots : b.election = f /\ b.subject = u /\ b.decided /\ ~ b.yes
  BY DEF IsAtropos
<1>3. ASSUME NEW a \in ballots, NEW b \in ballots, SameQuestion(a, b), a.decided, b.decided
      PROVE  a.yes = b.yes
  <2>1. a.root.frame \in Nat /\ b.root.frame \in Nat
    BY BallotFields
  <2>2. a.root.frame >= b.root.frame \/ b.root.frame >= a.root.frame
    BY <2>1
  <2> QED
    BY <1>3, <2>2, InductiveImpliesFinal DEF DecisionsFinal, SameQuestion
<1>4. d.subject \in Validators /\ e.subject \in Validators
  BY BallotFields, ElectionConstants
<1>5. \/ d.subject = e.subject
      \/ Before(d.subject, e.subject)
      \/ Before(e.subject, d.subject)
  <2>1. \A u, v \in Validators : u = v \/ Before(u, v) \/ Before(v, u)
    <3> TAKE u, v \in Validators
    <3>1. u \in Nat /\ v \in Nat /\ Weight[u] \in Nat /\ Weight[v] \in Nat
      BY WeightType
    <3> QED
      BY <3>1 DEF Before
  <2> QED
    BY <1>4, <2>1
<1>6. ~ Before(d.subject, e.subject)
  BY <1>1, <1>2, <1>3, <1>4 DEF SameQuestion
<1>7. ~ Before(e.subject, d.subject)
  BY <1>1, <1>2, <1>3, <1>4 DEF SameQuestion
<1>8. d.subject = e.subject
  BY <1>5, <1>6, <1>7
<1> QED
  BY <1>1, <1>2, <1>8, InductiveImpliesCandidate DEF OneCandidate, SameQuestion

\* All nodes decide every frame on the same Atropos: chooseAtropos returns the
\* same event wherever and whenever it returns one.
THEOREM NodesAgree == Spec => []Agreement
<1>1. EInductive => Agreement
  <2> SUFFICES ASSUME EInductive, NEW m \in Nodes, NEW n \in Nodes,
                      NEW a \in atropoi[m], NEW b \in atropoi[n], a[1] = b[1]
               PROVE  a[2] = b[2]
    BY DEF Agreement
  <2>1. IsAtropos(a[1], a[2]) /\ IsAtropos(b[1], b[2])
    BY DEF EInductive, NodeInv
  <2> QED
    BY <2>1, OneAtropos DEF EInductive
<1> QED
  BY <1>1, ElectionInductive, PTL

\* Whatever the nodes do, the roots and their votes grow as module Voting says.
THEOREM RefinesVoting == Spec => VSpec
<1>1. Init => VInit
  BY DEF Init
<1>2. [Next]_vars => [VNext]_vvars
  BY DEF Next, vars, EmitRoot, LearnRoot, ProcessRoot, VNext
<1> QED
  BY <1>1, <1>2, PTL DEF Spec, VSpec

=============================================================================
