---------------------------- MODULE VotingProofs ----------------------------
(***************************************************************************)
(* Safety of the Atropos election, for any validators, weights, number of  *)
(* frames and DAG of roots.                                                *)
(***************************************************************************)
EXTENDS Voting, PosProofs, WellFoundedInduction

-----------------------------------------------------------------------------
(* Induction over frames, in the form of a least element.                  *)

LessThan == {p \in Nat \X Nat : p[1] < p[2]}

LEMMA LeastElement ==
    ASSUME NEW T \in SUBSET Nat, T # {}
    PROVE  \E n \in T : \A m \in T : n <= m
<1>1. IsWellFoundedOn(LessThan, Nat)
  BY NatLessThanWellFounded DEF OpToRel, LessThan
<1>2. PICK n \in T : \A m \in T : <<m, n>> \notin LessThan
  BY <1>1, WFMin
<1>3. ASSUME NEW m \in T PROVE n <= m
  <2>1. n \in Nat /\ m \in Nat
    OBVIOUS
  <2>2. m < n => <<m, n>> \in LessThan
    BY <2>1 DEF LessThan
  <2> QED
    BY <1>2, <2>1, <2>2
<1> QED
  BY <1>3

-----------------------------------------------------------------------------
(* What the inductive invariant says of a ballot.                          *)

\* The votes that a ballot of round 2 or later counts.
Counted(b) == Cast(b.election, b.subject, Seen(b.root))

LEMMA BallotFields ==
    ASSUME VInductive, NEW b \in ballots
    PROVE  /\ b.election \in Nat /\ b.election \in Elections
           /\ b.subject \in Subjects
           /\ b.root \in roots /\ b.root \in Roots
           /\ b.root.frame \in Nat /\ b.root.frame > b.election
           /\ b.root.validator \in Validators
           /\ b.yes \in BOOLEAN /\ b.decided \in BOOLEAN
<1>1. b \in Ballots /\ b.root \in roots /\ b.election < b.root.frame
  BY DEF VInductive, VTypeOK, BallotInv
<1> QED
  BY <1>1, VotingConstants DEF Ballots, Roots

\* A ballot of round 1 does not decide, and says whether the subject is observed.
LEMMA FirstRound ==
    ASSUME VInductive, NEW b \in ballots, b.root.frame = b.election + 1
    PROVE  /\ ~ b.decided
           /\ b.yes <=> \E x \in Seen(b.root) : x.validator = b.subject
<1>1. b \in FirstVotes(b.election, b.root, b.subject, Seen(b.root))
  BY DEF VInductive, BallotInv
<1> QED
  BY <1>1 DEF FirstVotes

\* A ballot of a later round is the majority of what it counts.
LEMMA LaterRound ==
    ASSUME VInductive, NEW b \in ballots, b.root.frame # b.election + 1
    PROVE  /\ b.yes <=> Sum(YesVoters(Counted(b))) >= Sum(NoVoters(Counted(b)))
           /\ b.decided <=> \/ HasQuorum(YesVoters(Counted(b)))
                            \/ HasQuorum(NoVoters(Counted(b)))
<1>1. b \in TallyVotes(b.election, b.root, b.subject, Counted(b))
  BY DEF VInductive, BallotInv, Counted
<1> DEFINE yes == Sum(YesVoters(Counted(b))) >= Sum(NoVoters(Counted(b)))
           decided == HasQuorum(YesVoters(Counted(b))) \/ HasQuorum(NoVoters(Counted(b)))
<1>2. PICK h : b = [election |-> b.election, root |-> b.root, subject |-> b.subject,
                    yes |-> yes, observedRoot |-> h, decided |-> decided]
  BY <1>1 DEF TallyVotes
<1> HIDE DEF yes, decided
<1>3. b.yes = yes /\ b.decided = decided
  BY <1>2
<1> QED
  BY <1>3, Zenon DEF yes, decided

\* A root votes one way on one question.
LEMMA OneVote ==
    ASSUME VInductive, NEW a \in ballots, NEW b \in ballots,
           SameQuestion(a, b), a.root = b.root
    PROVE  a.yes = b.yes
<1>1. a.election = b.election /\ a.subject = b.subject
  BY DEF SameQuestion
<1>2. CASE a.root.frame = a.election + 1
  BY <1>1, <1>2, FirstRound, BallotFields
<1>3. CASE a.root.frame # a.election + 1
  <2>1. Counted(a) = Counted(b)
    BY <1>1 DEF Counted
  <2> QED
    BY <1>1, <1>3, <2>1, LaterRound, BallotFields
<1> QED
  BY <1>2, <1>3

\* The same roots are counted wherever a slot is observed.
LEMMA SeenSlots ==
    ASSUME VInductive, NEW r \in roots, NEW q \in roots,
           NEW x \in Seen(r), NEW y \in Seen(q),
           x.validator = y.validator, r.frame = q.frame
    PROVE  x = y
<1>1. x \in Observed /\ y \in Observed
  <2>1. <<r, x>>[2] = x /\ <<q, y>>[2] = y /\ <<r, x>> \in obs /\ <<q, y>> \in obs
    BY DEF Seen
  <2> QED
    BY <2>1 DEF Observed
<1>2. x.frame + 1 = r.frame /\ y.frame + 1 = q.frame
  BY DEF VInductive, ObservationInv
<1>3. x.frame \in Nat /\ y.frame \in Nat
  BY DEF VInductive, VTypeOK, Roots, Seen
<1>4. SameSlot(x, y)
  BY <1>2, <1>3 DEF SameSlot
<1> QED
  BY <1>1, <1>4 DEF VInductive, ObservationInv

\* The voters a later round counts: all validators its root observes, a quorum,
\* each of them for yes or for no but not for both.
LEMMA Voters ==
    ASSUME VInductive, NEW b \in ballots, b.root.frame # b.election + 1
    PROVE  /\ YesVoters(Counted(b)) \in SUBSET Validators
           /\ NoVoters(Counted(b)) \in SUBSET Validators
           /\ YesVoters(Counted(b)) \cap NoVoters(Counted(b)) = {}
           /\ HasQuorum(YesVoters(Counted(b)) \cup NoVoters(Counted(b)))
<1>1. Counted(b) \subseteq ballots
  BY DEF Counted, Cast
<1>2. \A c \in Counted(b) : c.root.validator \in Validators
  BY <1>1, BallotFields
<1>3. YesVoters(Counted(b)) \in SUBSET Validators /\ NoVoters(Counted(b)) \in SUBSET Validators
  BY <1>2 DEF YesVoters, NoVoters
<1>4. ASSUME NEW v \in YesVoters(Counted(b)), v \in NoVoters(Counted(b)) PROVE FALSE
  <2>1. PICK c \in Counted(b) : c.yes /\ c.root.validator = v
    BY DEF YesVoters
  <2>2. PICK d \in Counted(b) : ~ d.yes /\ d.root.validator = v
    BY <1>4 DEF NoVoters
  <2>3. /\ c \in ballots /\ d \in ballots /\ SameQuestion(c, d)
        /\ c.root \in Seen(b.root) /\ d.root \in Seen(b.root)
    BY DEF Counted, Cast, SameQuestion
  <2>4. c.root = d.root
    BY <2>1, <2>2, <2>3, SeenSlots, BallotFields
  <2> QED
    BY <2>1, <2>2, <2>3, <2>4, OneVote
<1>5. YesVoters(Counted(b)) \cup NoVoters(Counted(b)) = ValidatorsOf(Seen(b.root))
  <2>1. ASSUME NEW x \in Seen(b.root)
        PROVE  \E c \in Counted(b) : c.root = x
    <3>1. x \in roots /\ x.frame + 1 = b.root.frame
      BY BallotFields DEF VInductive, ObservationInv, Seen
    <3>2. x.frame \in Nat
      BY <3>1 DEF VInductive, VTypeOK, Roots
    <3>3. b.election < x.frame
      BY <3>1, <3>2, BallotFields
    <3>4. PICK c \in ballots : c.election = b.election /\ c.subject = b.subject /\ c.root = x
      BY <3>1, <3>3, BallotFields DEF VInductive, BallotInv
    <3> QED
      BY <3>4 DEF Counted, Cast
  <2>2. \A c \in Counted(b) : c.root \in Seen(b.root)
    BY DEF Counted, Cast
  <2>3. YesVoters(Counted(b)) \cup NoVoters(Counted(b)) = {c.root.validator : c \in Counted(b)}
    BY DEF YesVoters, NoVoters
  <2> HIDE DEF Counted
  <2> QED
    BY <2>1, <2>2, <2>3 DEF ValidatorsOf
<1>6. b.root.frame > 1
  BY BallotFields, VotingConstants
<1>7. HasQuorum(ValidatorsOf(Seen(b.root)))
  BY <1>6, BallotFields DEF VInductive, ObservationInv
<1> QED
  BY <1>3, <1>4, <1>5, <1>7

-----------------------------------------------------------------------------
(* Decisions.                                                              *)

\* Two ballots of one frame never count one validator on opposite sides.
LEMMA NoContradiction ==
    ASSUME VInductive, NEW a \in ballots, NEW b \in ballots, SameQuestion(a, b),
           a.root.frame = b.root.frame
    PROVE  /\ YesVoters(Counted(a)) \cap NoVoters(Counted(b)) = {}
           /\ NoVoters(Counted(a)) \cap YesVoters(Counted(b)) = {}
<1>1. ASSUME NEW c \in Counted(a), NEW d \in Counted(b), c.root.validator = d.root.validator
      PROVE  c.yes = d.yes
  <2>1. /\ c \in ballots /\ d \in ballots /\ SameQuestion(c, d)
        /\ c.root \in Seen(a.root) /\ d.root \in Seen(b.root)
    BY DEF Counted, Cast, SameQuestion
  <2>2. c.root = d.root
    BY <1>1, <2>1, SeenSlots, BallotFields
  <2> QED
    BY <2>1, <2>2, OneVote
<1> HIDE DEF Counted
<1> QED
  BY <1>1 DEF YesVoters, NoVoters

\* The roots of the deciding frame vote as decided.
LEMMA SameFrame ==
    ASSUME VInductive, NEW a \in ballots, NEW b \in ballots, SameQuestion(a, b),
           a.decided, a.root.frame = b.root.frame
    PROVE  b.yes = a.yes
<1>1. a.root.frame # a.election + 1 /\ b.root.frame # b.election + 1
  BY FirstRound DEF SameQuestion
<1> DEFINE ya == YesVoters(Counted(a))
           na == NoVoters(Counted(a))
           yb == YesVoters(Counted(b))
           nb == NoVoters(Counted(b))
<1>2. /\ ya \in SUBSET Validators /\ na \in SUBSET Validators
      /\ yb \in SUBSET Validators /\ nb \in SUBSET Validators
      /\ ya \cap na = {} /\ yb \cap nb = {}
      /\ HasQuorum(ya \cup na) /\ HasQuorum(yb \cup nb)
  BY <1>1, Voters
<1>3. ya \cap nb = {} /\ na \cap yb = {}
  BY NoContradiction
<1>4. /\ a.yes <=> Sum(ya) >= Sum(na)
      /\ b.yes <=> Sum(yb) >= Sum(nb)
      /\ HasQuorum(ya) \/ HasQuorum(na)
  BY <1>1, LaterRound
<1>5. a.yes \in BOOLEAN /\ b.yes \in BOOLEAN
  BY BallotFields
<1> HIDE DEF ya, na, yb, nb
<1>6. Sum(ya) \in Nat /\ Sum(na) \in Nat /\ Sum(yb) \in Nat /\ Sum(nb) \in Nat
  BY <1>2, SumLaws
<1>7. CASE HasQuorum(ya)
  <2>1. Sum(ya) > Sum(na) /\ Sum(yb) > Sum(nb)
    BY <1>2, <1>3, <1>7, Majority
  <2> QED
    BY <1>4, <1>5, <1>6, <2>1
<1>8. CASE HasQuorum(na)
  <2>1. Sum(na) > Sum(ya)
    BY <1>2, <1>3, <1>8, Majority
  <2>2. Sum(nb) > Sum(yb)
    BY <1>2, <1>3, <1>8, Majority
  <2> QED
    BY <1>4, <1>5, <1>6, <2>1, <2>2
<1> QED
  BY <1>4, <1>7, <1>8

\* When all the votes it counts agree with a, a later ballot decides like a.
LEMMA Unanimous ==
    ASSUME VInductive, NEW b \in ballots, b.root.frame # b.election + 1,
           NEW v \in BOOLEAN, \A c \in Counted(b) : c.yes = v
    PROVE  b.yes = v /\ b.decided
<1> DEFINE y == YesVoters(Counted(b))
           n == NoVoters(Counted(b))
<1>1. v => n = {}
  BY DEF NoVoters
<1>2. ~ v => y = {}
  BY DEF YesVoters
<1>3. /\ y \in SUBSET Validators /\ n \in SUBSET Validators
      /\ HasQuorum(y \cup n)
  BY Voters
<1>4. /\ b.yes <=> Sum(y) >= Sum(n)
      /\ b.decided <=> HasQuorum(y) \/ HasQuorum(n)
  BY LaterRound
<1>5. b.yes \in BOOLEAN /\ b.decided \in BOOLEAN
  BY BallotFields
<1> HIDE DEF y, n
<1>6. Sum(y) \in Nat /\ Sum(n) \in Nat
  BY <1>3, SumLaws
<1>7. CASE v
  <2>1. HasQuorum(y) /\ Sum(n) = 0
    <3>1. y \cup n = y
      BY <1>1, <1>7
    <3> QED
      BY <1>1, <1>3, <1>7, <3>1, SumEmpty
  <2>2. v = TRUE
    BY <1>7
  <2>3. Sum(y) >= Sum(n)
    BY <1>6, <2>1
  <2>4. b.yes = TRUE
    BY <1>4, <1>5, <2>3
  <2>5. b.decided
    BY <1>4, <2>1
  <2> QED
    BY <2>2, <2>4, <2>5
<1>8. CASE ~ v
  <2>1. HasQuorum(n) /\ Sum(y) = 0
    <3>1. y \cup n = n
      BY <1>2, <1>8
    <3> QED
      BY <1>2, <1>3, <1>8, <3>1, SumEmpty
  <2>2. Sum(n) >= Quorum /\ Quorum > 0
    BY <2>1, QuorumBound DEF HasQuorum, Quorum
  <2>3. ~ (Sum(y) >= Sum(n))
    BY <1>6, <2>1, <2>2, QuorumBound
  <2>4. v = FALSE
    BY <1>8
  <2>5. b.yes = FALSE
    BY <1>4, <1>5, <2>3
  <2>6. b.decided
    BY <1>4, <2>1
  <2> QED
    BY <2>4, <2>5, <2>6
<1> QED
  BY <1>7, <1>8

\* Later frames decide as decided: the first one not to would count only votes
\* that agree.
LEMMA LaterFrames ==
    ASSUME VInductive, NEW a \in ballots, a.decided
    PROVE  \A b \in ballots : (SameQuestion(a, b) /\ b.root.frame > a.root.frame)
              => b.yes = a.yes /\ b.decided
<1> DEFINE Bad == {b \in ballots : /\ SameQuestion(a, b)
                                   /\ b.root.frame > a.root.frame
                                   /\ ~ (b.yes = a.yes /\ b.decided)}
           Frames == {b.root.frame : b \in Bad}
<1>1. SUFFICES ASSUME Bad # {} PROVE FALSE
  OBVIOUS
<1>2. Frames \in SUBSET Nat /\ Frames # {}
  BY <1>1, BallotFields
<1>3. PICK n \in Frames : \A m \in Frames : n <= m
  <2> HIDE DEF Frames
  <2> QED
    BY <1>2, LeastElement
<1>4. PICK b \in Bad : b.root.frame = n
  BY <1>3
<1>5. a.root.frame \in Nat /\ a.election \in Nat /\ a.root.frame > a.election /\ n \in Nat
  BY <1>2, <1>3, BallotFields
<1>6. b.root.frame # b.election + 1
  BY <1>4, <1>5 DEF SameQuestion
<1>7. ASSUME NEW c \in Counted(b) PROVE c.yes = a.yes
  <2>1. /\ c \in ballots /\ SameQuestion(a, c) /\ c.root \in Seen(b.root)
    BY <1>4 DEF Counted, Cast, SameQuestion
  <2>2. c.root.frame + 1 = n /\ c.root.frame \in Nat
    BY <1>4, <2>1, BallotFields DEF VInductive, ObservationInv
  <2>3. CASE c.root.frame = a.root.frame
    BY <2>1, <2>3, SameFrame
  <2>4. CASE c.root.frame > a.root.frame
    <3>1. c \notin Bad
      <4>1. c \in Bad => n <= c.root.frame
        BY <1>3
      <4> QED
        BY <1>5, <2>2, <4>1
    <3> QED
      BY <2>1, <2>4, <3>1
  <2>5. n > a.root.frame
    BY <1>4
  <2> QED
    BY <1>5, <2>2, <2>3, <2>4, <2>5
<1>8. b.yes = a.yes /\ b.decided
  BY <1>6, <1>7, BallotFields, Unanimous
<1> QED
  BY <1>4, <1>8

LEMMA InductiveImpliesFinal == VInductive => DecisionsFinal
<1> SUFFICES ASSUME VInductive, NEW a \in ballots, NEW b \in ballots,
                    a.decided, SameQuestion(a, b), b.root.frame >= a.root.frame
             PROVE  b.yes = a.yes /\ (b.root.frame > a.root.frame => b.decided)
  BY DEF DecisionsFinal
<1>1. a.root.frame \in Nat /\ b.root.frame \in Nat
  BY BallotFields
<1> QED
  BY <1>1, SameFrame, LaterFrames

LEMMA InductiveImpliesCandidate == VInductive => OneCandidate
<1> SUFFICES ASSUME VInductive, NEW a \in ballots, NEW b \in ballots,
                    a.yes, b.yes, SameQuestion(a, b)
             PROVE  a.observedRoot = b.observedRoot /\ a.observedRoot # NoEvent
  BY DEF OneCandidate
<1>1. PICK x \in Observed : x.frame = a.election /\ x.validator = a.subject /\ x.id = a.observedRoot
  BY DEF VInductive, BallotInv
<1>2. PICK y \in Observed : y.frame = b.election /\ y.validator = b.subject /\ y.id = b.observedRoot
  BY DEF VInductive, BallotInv
<1>3. x = y
  BY <1>1, <1>2 DEF VInductive, ObservationInv, SameSlot, SameQuestion
<1>4. x \in Roots
  BY DEF VInductive, VTypeOK, Observed
<1> QED
  BY <1>1, <1>2, <1>3, <1>4, VotingConstants DEF Roots

-----------------------------------------------------------------------------
(* The invariant is inductive.                                             *)

\* The votes of a new root are well-formed ballots of that root ...
LEMMA NewVote ==
    ASSUME VInductive, NEW r, NEW seen, AddRoot(r, seen), NEW b \in Votes(r, seen)
    PROVE  /\ b \in Ballots
           /\ b.root = r
           /\ b.election < r.frame
           /\ b \in IF r.frame = b.election + 1
                    THEN FirstVotes(b.election, r, b.subject, seen)
                    ELSE TallyVotes(b.election, r, b.subject, Cast(b.election, b.subject, seen))
<1>1. PICK f \in Elections, s \in Subjects :
             /\ f < r.frame
             /\ b \in IF r.frame = f + 1 THEN FirstVotes(f, r, s, seen)
                                         ELSE TallyVotes(f, r, s, Cast(f, s, seen))
  BY DEF Votes
<1>2. r \in Roots /\ seen \subseteq roots /\ roots \subseteq Roots /\ ballots \subseteq Ballots
  BY VotingConstants DEF AddRoot, Roots, VInductive, VTypeOK
<1>3. CASE r.frame = f + 1
  <2>1. b \in FirstVotes(f, r, s, seen)
    BY <1>1, <1>3
  <2>2. \A x \in seen : x.id \in Events
    BY <1>2 DEF Roots
  <2>3. \E v \in BOOLEAN, h \in Events \cup {NoEvent} :
           b = [election |-> f, root |-> r, subject |-> s, yes |-> v,
                observedRoot |-> h, decided |-> FALSE]
    BY <2>1, <2>2 DEF FirstVotes
  <2>4. b \in Ballots /\ b.root = r /\ b.election = f /\ b.subject = s
    BY <1>1, <1>2, <2>3 DEF Ballots
  <2> QED
    BY <1>1, <1>3, <2>1, <2>4
<1>4. CASE r.frame # f + 1
  <2> DEFINE cast == Cast(f, s, seen)
             yes == Sum(YesVoters(cast)) >= Sum(NoVoters(cast))
             decided == HasQuorum(YesVoters(cast)) \/ HasQuorum(NoVoters(cast))
  <2>1. b \in TallyVotes(f, r, s, cast)
    BY <1>1, <1>4
  <2> DEFINE hashes == {c.observedRoot : c \in {d \in cast : d.yes}}
  <2>2. PICK h \in IF yes /\ hashes # {} THEN hashes ELSE {NoEvent} :
              b = [election |-> f, root |-> r, subject |-> s,
                   yes |-> yes, observedRoot |-> h, decided |-> decided]
    BY <2>1, Zenon DEF TallyVotes
  <2>3. h \in Events \cup {NoEvent}
    BY <1>2 DEF Cast, Ballots
  <2>4. yes \in BOOLEAN /\ decided \in BOOLEAN
    <3>1. \A c \in cast : c.root.validator \in Validators
      BY <1>2 DEF Cast, Ballots, Roots
    <3>2. YesVoters(cast) \in SUBSET Validators /\ NoVoters(cast) \in SUBSET Validators
      BY <3>1 DEF YesVoters, NoVoters
    <3>3. Sum(YesVoters(cast)) \in Nat /\ Sum(NoVoters(cast)) \in Nat
      BY <3>2, SumLaws
    <3> HIDE DEF cast
    <3> QED
      BY <3>3
  <2> HIDE DEF yes, decided, cast
  <2>5. b \in Ballots /\ b.root = r /\ b.election = f /\ b.subject = s
    BY <1>2, <2>2, <2>3, <2>4 DEF Ballots
  <2> QED
    BY <1>1, <1>4, <2>1, <2>5 DEF cast
<1> QED
  BY <1>3, <1>4

\* ... a majority of yes votes has a yes vote in it, for a quorum has voted ...
LEMMA YesHasVoter ==
    ASSUME VInductive, NEW r, NEW seen, AddRoot(r, seen),
           NEW f \in Elections, NEW s \in Subjects, f < r.frame, r.frame # f + 1,
           \A c \in Cast(f, s, seen) : ~ c.yes
    PROVE  ~ (Sum(YesVoters(Cast(f, s, seen))) >= Sum(NoVoters(Cast(f, s, seen))))
<1> DEFINE cast == Cast(f, s, seen)
<1>1. \A c \in cast : ~ c.yes
  OBVIOUS
<1>2. YesVoters(cast) = {}
  BY <1>1 DEF YesVoters
<1>3. ValidatorsOf(seen) = NoVoters(cast)
  <2>1. ASSUME NEW x \in seen PROVE \E c \in cast : c.root = x
    <3>1. x \in roots /\ x.frame + 1 = r.frame /\ f < x.frame
      <4>1. x \in roots /\ x.frame + 1 = r.frame
        BY DEF AddRoot
      <4>2. x.frame \in Nat /\ r.frame \in Nat /\ f \in Nat
        BY <4>1, VotingConstants DEF AddRoot, VInductive, VTypeOK, Roots
      <4> QED
        BY <4>1, <4>2
    <3> QED
      BY <3>1 DEF VInductive, BallotInv, Cast
  <2>2. \A c \in cast : c.root \in seen /\ ~ c.yes
    BY <1>1 DEF Cast
  <2> HIDE DEF cast
  <2> QED
    BY <2>1, <2>2 DEF ValidatorsOf, NoVoters
<1>4. HasQuorum(ValidatorsOf(seen))
  <2>1. r.frame > 1
    BY VotingConstants DEF AddRoot
  <2> QED
    BY <2>1 DEF AddRoot
<1>5. Sum(NoVoters(cast)) >= Quorum
  BY <1>3, <1>4 DEF HasQuorum
<1>6. ValidatorsOf(seen) \in SUBSET Validators
  BY DEF ValidatorsOf, AddRoot, VInductive, VTypeOK, Roots
<1>7. Sum(NoVoters(cast)) \in Nat /\ Quorum > 0 /\ Quorum \in Nat
  BY <1>3, <1>6, SumLaws, QuorumBound DEF Quorum
<1>8. ~ (Sum(YesVoters(cast)) >= Sum(NoVoters(cast)))
  <2> HIDE DEF cast
  <2> QED
    BY <1>2, <1>5, <1>7, SumEmpty
<1> QED
  BY <1>8

\* ... there is one for every question of a lower frame ...
LEMMA NewVoteExists ==
    ASSUME VInductive, NEW r, NEW seen, AddRoot(r, seen),
           NEW f \in Elections, NEW s \in Subjects, f < r.frame
    PROVE  \E b \in Votes(r, seen) : b.election = f /\ b.subject = s /\ b.root = r
<1> DEFINE V == IF r.frame = f + 1 THEN FirstVotes(f, r, s, seen)
                                   ELSE TallyVotes(f, r, s, Cast(f, s, seen))
<1>1. V \subseteq Votes(r, seen)
  BY DEF Votes
<1>2. \E b \in V : b.election = f /\ b.subject = s /\ b.root = r
  <2>1. CASE r.frame = f + 1
    <3>1. PICK b : b \in FirstVotes(f, r, s, seen)
      BY DEF FirstVotes
    <3>2. b.election = f /\ b.subject = s /\ b.root = r
      BY <3>1 DEF FirstVotes
    <3> QED
      BY <2>1, <3>1, <3>2
  <2>2. CASE r.frame # f + 1
    <3> DEFINE cast == Cast(f, s, seen)
               yes == Sum(YesVoters(cast)) >= Sum(NoVoters(cast))
               hashes == {c.observedRoot : c \in {d \in cast : d.yes}}
    <3>1. PICK h : h \in IF yes /\ hashes # {} THEN hashes ELSE {NoEvent}
      OBVIOUS
    <3>2. [election |-> f, root |-> r, subject |-> s, yes |-> yes, observedRoot |-> h,
           decided |-> HasQuorum(YesVoters(cast)) \/ HasQuorum(NoVoters(cast))] \in V
      BY <2>2, <3>1, Zenon DEF TallyVotes
    <3> QED
      BY <3>2
  <2> QED
    BY <2>1, <2>2
<1> QED
  BY <1>1, <1>2

\* ... and its yes votes name an observed root.
LEMMA NewVoteCandidate ==
    ASSUME VInductive, NEW r, NEW seen, AddRoot(r, seen), NEW b \in Votes(r, seen), b.yes
    PROVE  \E x \in Observed \cup seen :
              x.frame = b.election /\ x.validator = b.subject /\ x.id = b.observedRoot
<1>1. CASE r.frame = b.election + 1
  <2>1. b \in FirstVotes(b.election, r, b.subject, seen)
    BY <1>1, NewVote
  <2>2. PICK x \in seen : x.validator = b.subject /\ x.id = b.observedRoot
    BY <2>1 DEF FirstVotes
  <2>3. x.frame + 1 = r.frame /\ x.frame \in Nat
    BY DEF AddRoot, VInductive, VTypeOK, Roots
  <2>4. b.election \in Nat
    <3>1. b \in Ballots
      BY NewVote
    <3> QED
      BY <3>1, VotingConstants DEF Ballots
  <2> QED
    BY <1>1, <2>2, <2>3, <2>4
<1>2. CASE r.frame # b.election + 1
  <2> DEFINE cast == Cast(b.election, b.subject, seen)
  <2>1. b \in TallyVotes(b.election, r, b.subject, cast)
    BY <1>2, NewVote
  <2>2. PICK c \in cast : c.yes /\ c.observedRoot = b.observedRoot
    <3> DEFINE yes == Sum(YesVoters(cast)) >= Sum(NoVoters(cast))
               decided == HasQuorum(YesVoters(cast)) \/ HasQuorum(NoVoters(cast))
               hashes == {c.observedRoot : c \in {d \in cast : d.yes}}
    <3>1. PICK h \in IF yes /\ hashes # {} THEN hashes ELSE {NoEvent} :
                b = [election |-> b.election, root |-> r, subject |-> b.subject,
                     yes |-> yes, observedRoot |-> h, decided |-> decided]
      BY <2>1, Zenon DEF TallyVotes
    <3> HIDE DEF yes, decided, cast
    <3>2. b.yes = yes
      BY ONLY <3>1
    <3>3. b.observedRoot = h
      BY <3>1
    <3>4. b.election \in Elections /\ b.subject \in Subjects /\ b.election < r.frame
      <4>1. b \in Ballots /\ b.election < r.frame
        BY NewVote
      <4> QED
        BY <4>1 DEF Ballots
    <3>5. hashes # {}
      <4>1. SUFFICES ASSUME \A c \in cast : ~ c.yes PROVE FALSE
        OBVIOUS
      <4>2. ~ yes
        BY <1>2, <3>4, <4>1, YesHasVoter DEF yes, cast
      <4> QED
        BY <3>2, <4>2
    <3> QED
      BY <3>1, <3>2, <3>3, <3>5
  <2>3. c \in ballots /\ c.election = b.election /\ c.subject = b.subject
    BY DEF Cast
  <2> QED
    BY <2>2, <2>3 DEF VInductive, BallotInv
<1> QED
  BY <1>1, <1>2

\* A new root changes neither what an old root observes nor the votes it counted.
LEMMA OldRoots ==
    ASSUME VInductive, NEW r, NEW seen, AddRoot(r, seen)
    PROVE  /\ \A q \in roots : Seen(q)' = Seen(q)
           /\ Seen(r)' = seen
           /\ \A f, s : \A R \in SUBSET roots : Cast(f, s, R)' = Cast(f, s, R)
           /\ Observed' = Observed \cup seen
<1>1. r \notin roots /\ seen \subseteq roots /\ obs \subseteq roots \X roots
  BY DEF AddRoot, VInductive, VTypeOK
<1>2. roots' = roots \cup {r} /\ obs' = obs \cup {<<r, x>> : x \in seen}
  BY DEF AddRoot
<1>3. ASSUME NEW q \in roots PROVE Seen(q)' = Seen(q)
  BY <1>1, <1>2 DEF Seen
<1>4. Seen(r)' = seen
  BY <1>1, <1>2 DEF Seen
<1>5. ASSUME NEW f, NEW s, NEW R \in SUBSET roots PROVE Cast(f, s, R)' = Cast(f, s, R)
  <2>1. \A b \in Votes(r, seen) : b.root \notin R
    BY <1>1, NewVote
  <2>2. ballots' = ballots \cup Votes(r, seen)
    BY DEF AddRoot
  <2> QED
    BY <2>1, <2>2 DEF Cast
<1>6. Observed' = Observed \cup seen
  <2>1. Observed' = {p[2] : p \in obs} \cup {p[2] : p \in {<<r, x>> : x \in seen}}
    BY <1>2 DEF Observed
  <2>2. {p[2] : p \in {<<r, x>> : x \in seen}} = seen
    <3>1. \A x : <<r, x>>[2] = x
      OBVIOUS
    <3> QED
      BY <3>1
  <2> QED
    BY <2>1, <2>2 DEF Observed
<1> QED
  BY <1>3, <1>4, <1>5, <1>6

LEMMA InductiveInit == VInit => VInductive
BY DEF VInit, VInductive, VTypeOK, ObservationInv, BallotInv, Observed

LEMMA InductiveStep ==
    ASSUME VInductive, NEW r, NEW seen, AddRoot(r, seen)
    PROVE  VInductive'
<1>1. /\ r \in PossibleRoots /\ r \notin roots /\ seen \subseteq roots
      /\ roots' = roots \cup {r}
      /\ obs' = obs \cup {<<r, x>> : x \in seen}
      /\ ballots' = ballots \cup Votes(r, seen)
  BY DEF AddRoot
<1>2. VTypeOK'
  <2>1. r \in Roots /\ roots \subseteq Roots /\ obs \subseteq roots \X roots /\ ballots \subseteq Ballots
    BY <1>1, VotingConstants DEF Roots, VInductive, VTypeOK
  <2>2. Votes(r, seen) \subseteq Ballots
    BY NewVote
  <2>3. roots' \subseteq Roots /\ obs' \subseteq roots' \X roots' /\ ballots' \subseteq Ballots
    BY <1>1, <2>1, <2>2
  <2> QED
    BY <2>3 DEF VTypeOK
<1>3. ObservationInv'
  <2>1. ASSUME NEW q \in roots' PROVE \A x \in Seen(q)' : x.frame + 1 = q.frame
    BY <1>1, OldRoots DEF VInductive, ObservationInv, AddRoot
  <2>2. ASSUME NEW q \in roots', q.frame > 1 PROVE HasQuorum(ValidatorsOf(Seen(q)'))
    BY <1>1, <2>2, OldRoots DEF VInductive, ObservationInv, AddRoot
  <2>3. ASSUME NEW x \in Observed', NEW y \in Observed', SameSlot(x, y) PROVE x = y
    <3>1. x \in Observed \cup seen /\ y \in Observed \cup seen
      BY OldRoots
    <3> QED
      BY <2>3, <3>1 DEF VInductive, ObservationInv, AddRoot, SameSlot
  <2> QED
    BY <2>1, <2>2, <2>3 DEF ObservationInv, HasQuorum, ValidatorsOf, SameSlot
<1>4. BallotInv'
  <2>1. ASSUME NEW q \in roots', NEW f \in Elections, NEW s \in Subjects, f < q.frame
        PROVE  \E b \in ballots' : b.election = f /\ b.subject = s /\ b.root = q
    <3>1. CASE q \in roots
      BY <1>1, <2>1, <3>1 DEF VInductive, BallotInv
    <3>2. CASE q = r
      BY <1>1, <2>1, <3>2, NewVoteExists
    <3> QED
      BY <1>1, <3>1, <3>2
  <2>2. ASSUME NEW b \in ballots'
        PROVE  /\ b.root \in roots'
               /\ b.election < b.root.frame
               /\ b \in IF b.root.frame = b.election + 1
                        THEN FirstVotes(b.election, b.root, b.subject, Seen(b.root)')
                        ELSE TallyVotes(b.election, b.root, b.subject,
                                        Cast(b.election, b.subject, Seen(b.root))')
               /\ b.yes => \E x \in Observed' : /\ x.frame = b.election
                                                /\ x.validator = b.subject
                                                /\ x.id = b.observedRoot
    <3>1. CASE b \in ballots
      <4>1. /\ b.root \in roots
            /\ b.election < b.root.frame
            /\ b \in IF b.root.frame = b.election + 1
                     THEN FirstVotes(b.election, b.root, b.subject, Seen(b.root))
                     ELSE TallyVotes(b.election, b.root, b.subject,
                                     Cast(b.election, b.subject, Seen(b.root)))
            /\ b.yes => \E x \in Observed : /\ x.frame = b.election
                                            /\ x.validator = b.subject
                                            /\ x.id = b.observedRoot
        BY <3>1 DEF VInductive, BallotInv
      <4>2. Seen(b.root)' = Seen(b.root) /\ Observed' = Observed \cup seen
        BY <4>1, OldRoots
      <4>3. Cast(b.election, b.subject, Seen(b.root))' = Cast(b.election, b.subject, Seen(b.root))
        <5>1. \A R \in SUBSET roots :
                Cast(b.election, b.subject, R)' = Cast(b.election, b.subject, R)
          BY OldRoots
        <5>2. Seen(b.root) \in SUBSET roots
          BY DEF Seen
        <5> QED
          BY <4>2, <5>1, <5>2 DEF Cast
      <4> QED
        BY <1>1, <4>1, <4>2, <4>3
    <3>2. CASE b \in Votes(r, seen)
      <4>1. b.root = r /\ b.election < r.frame
        BY <3>2, NewVote
      <4>2. Seen(b.root)' = seen /\ Observed' = Observed \cup seen
        BY <4>1, OldRoots
      <4>3. Cast(b.election, b.subject, Seen(b.root))' = Cast(b.election, b.subject, seen)
        <5>1. \A R \in SUBSET roots :
                Cast(b.election, b.subject, R)' = Cast(b.election, b.subject, R)
          BY OldRoots
        <5> QED
          BY <1>1, <4>2, <5>1 DEF Cast
      <4>4. b \in IF r.frame = b.election + 1
                  THEN FirstVotes(b.election, r, b.subject, seen)
                  ELSE TallyVotes(b.election, r, b.subject, Cast(b.election, b.subject, seen))
        BY <3>2, NewVote
      <4>5. b.yes => \E x \in Observed \cup seen :
                        x.frame = b.election /\ x.validator = b.subject /\ x.id = b.observedRoot
        BY <3>2, NewVoteCandidate
      <4> QED
        BY <1>1, <4>1, <4>2, <4>3, <4>4, <4>5
    <3> QED
      BY <1>1, <3>1, <3>2
  <2> QED
    BY <2>1, <2>2 DEF BallotInv, FirstVotes, TallyVotes, YesVoters, NoVoters, HasQuorum, Sum, Units
<1> QED
  BY <1>2, <1>3, <1>4 DEF VInductive

LEMMA Unchanged ==
    ASSUME VInductive, UNCHANGED vvars
    PROVE  VInductive'
<1>1. roots' = roots /\ obs' = obs /\ ballots' = ballots
  BY DEF vvars
<1>2. VTypeOK'
  BY <1>1 DEF VInductive, VTypeOK
<1>3. ObservationInv'
  BY <1>1 DEF VInductive, ObservationInv, Seen, Observed, HasQuorum, ValidatorsOf, SameSlot
<1>4. BallotInv'
  <2>1. /\ \A q : Seen(q)' = Seen(q)
        /\ Observed' = Observed
    BY <1>1 DEF Seen, Observed
  <2>2. \A b : Cast(b.election, b.subject, Seen(b.root))' = Cast(b.election, b.subject, Seen(b.root))
    BY <1>1, <2>1 DEF Cast
  <2>3. ASSUME NEW b \in ballots'
        PROVE  /\ b.root \in roots'
               /\ b.election < b.root.frame
               /\ b \in IF b.root.frame = b.election + 1
                        THEN FirstVotes(b.election, b.root, b.subject, Seen(b.root)')
                        ELSE TallyVotes(b.election, b.root, b.subject,
                                        Cast(b.election, b.subject, Seen(b.root))')
               /\ b.yes => \E x \in Observed' : /\ x.frame = b.election
                                                /\ x.validator = b.subject
                                                /\ x.id = b.observedRoot
    BY <1>1, <2>1, <2>2 DEF VInductive, BallotInv
  <2>4. \A r \in roots', f \in Elections, s \in Subjects :
          f < r.frame => \E b \in ballots' : b.election = f /\ b.subject = s /\ b.root = r
    BY <1>1 DEF VInductive, BallotInv
  <2> QED
    BY <2>3, <2>4 DEF BallotInv, FirstVotes, TallyVotes, YesVoters, NoVoters, HasQuorum,
        Sum, Units
<1> QED
  BY <1>2, <1>3, <1>4 DEF VInductive

-----------------------------------------------------------------------------
\* The invariant that carries the proofs holds of every reachable state.
THEOREM Inductive == VSpec => []VInductive
<1>1. VInductive /\ [VNext]_vvars => VInductive'
  <2> SUFFICES ASSUME VInductive, [VNext]_vvars PROVE VInductive'
    OBVIOUS
  <2>1. CASE VNext
    BY <2>1, InductiveStep DEF VNext, NewRoot
  <2>2. CASE UNCHANGED vvars
    BY <2>2, Unchanged
  <2> QED
    BY <2>1, <2>2
<1> QED
  BY <1>1, InductiveInit, PTL DEF VSpec

\* Every root has a frame and a creator, every ballot belongs to a followed
\* election and subject.
THEOREM TypeCorrect == VSpec => []VTypeOK
BY Inductive, PTL DEF VInductive

\* A subject that a root has decided (ProcessRoot stores it in decidedRoots) is
\* decided the same way by every root of a later frame, with any validators,
\* weights and DAG.
THEOREM Finality == VSpec => []DecisionsFinal
BY Inductive, InductiveImpliesFinal, PTL

\* The yes votes of an election name one root per subject, so ProcessRoot never
\* meets its "forkless caused by 2 fork roots" errors.
THEOREM SingleCandidate == VSpec => []OneCandidate
BY Inductive, InductiveImpliesCandidate, PTL

=============================================================================
