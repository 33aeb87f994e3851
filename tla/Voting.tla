------------------------------ MODULE Voting -------------------------------
(***************************************************************************)
(* What the Atropos election promises, independently of any node           *)
(* (abft/election).                                                        *)
(*                                                                         *)
(* The DAG of roots grows; a root's votes are a function of the roots it   *)
(* observes and of their votes, so every root is given all its ballots the *)
(* moment it exists.  A node of module Election computes some of these     *)
(* ballots, later and in an order of its own.                              *)
(*                                                                         *)
(* A root is a RootAndSlot of the code.  An event that is a root of        *)
(* several frames is several roots with one id.  Root x is observed by     *)
(* root r when r.id is forkless caused by x.id; only the roots of the      *)
(* previous frame matter to an election.                                   *)
(***************************************************************************)
EXTENDS Pos

CONSTANTS
    Events,         \* event ids
    Creator,        \* the creator of each event
    NoEvent,        \* the zero hash
    Elections,      \* the frames whose election is followed,
    Subjects,       \* and the validators whose root of that frame is voted on
    PossibleRoots   \* bound: the roots that may come to exist

ASSUME VotingConstants ==
    /\ Creator \in [Events -> Validators]
    /\ NoEvent \notin Events
    /\ Elections \subseteq Nat \ {0}
    /\ Subjects \subseteq Validators
    /\ PossibleRoots \subseteq [id : Events, frame : Nat \ {0}, validator : Validators]
    /\ \A r \in PossibleRoots : r.validator = Creator[r.id]

VARIABLES
    roots,      \* all roots of the DAG
    obs,        \* the pairs <<r, x>>: root r observes root x of the previous frame
    ballots     \* every root's vote on every subject, in every election

vvars == <<roots, obs, ballots>>

Roots == [id : Events, frame : Nat \ {0}, validator : Validators]

Ballots == [election : Elections, root : Roots, subject : Subjects,
            yes : BOOLEAN, observedRoot : Events \cup {NoEvent}, decided : BOOLEAN]

SameSlot(x, y) == x.frame = y.frame /\ x.validator = y.validator

Observed == {p[2] : p \in obs}

ValidatorsOf(R) == {x.validator : x \in R}

\* Round 1: yes iff the subject's root is observed.
FirstVotes(f, r, s, seen) ==
    LET subject == {x \in seen : x.validator = s}
    IN  IF subject = {}
        THEN {[election |-> f, root |-> r, subject |-> s, yes |-> FALSE,
               observedRoot |-> NoEvent, decided |-> FALSE]}
        ELSE {[election |-> f, root |-> r, subject |-> s, yes |-> TRUE,
               observedRoot |-> x.id, decided |-> FALSE] : x \in subject}

YesVoters(cast) == {b.root.validator : b \in {c \in cast : c.yes}}
NoVoters(cast)  == {b.root.validator : b \in {c \in cast : ~c.yes}}

\* Mutant: any quorum of votes decides, whatever they say.
TallyEager(f, r, s, cast) ==
    LET yes == Sum(YesVoters(cast)) >= Sum(NoVoters(cast))
        hashes == {b.observedRoot : b \in {c \in cast : c.yes}}
    IN  {[election |-> f, root |-> r, subject |-> s, yes |-> yes, observedRoot |-> h,
          decided |-> HasQuorum(YesVoters(cast) \cup NoVoters(cast))] :
            h \in IF yes /\ hashes # {} THEN hashes ELSE {NoEvent}}

\* Later rounds: the weighted majority of the observed roots' votes, decided
\* when a quorum of them agrees.
TallyVotes(f, r, s, cast) ==
    LET yes == Sum(YesVoters(cast)) >= Sum(NoVoters(cast))
        hashes == {b.observedRoot : b \in {c \in cast : c.yes}}
    IN  {[election |-> f, root |-> r, subject |-> s, yes |-> yes, observedRoot |-> h,
          decided |-> HasQuorum(YesVoters(cast)) \/ HasQuorum(NoVoters(cast))] :
            h \in IF yes /\ hashes # {} THEN hashes ELSE {NoEvent}}

Cast(f, s, seen) ==
    {b \in ballots : b.election = f /\ b.subject = s /\ b.root \in seen}

Votes(r, seen) ==
    UNION {IF r.frame = f + 1 THEN FirstVotes(f, r, s, seen)
                              ELSE TallyVotes(f, r, s, Cast(f, s, seen)) :
             f \in {g \in Elections : g < r.frame}, s \in Subjects}

\* Mutant: the subjects are visited in no particular order.
AtroposUnsorted(decided) == {d.observedRoot : d \in {c \in decided : c.yes}}

(***************************************************************************)
(* chooseAtropos: the first validator in the sorted order that is not      *)
(* decided "no", if it is decided.                                         *)
(***************************************************************************)
Atropos(decided) ==
    {d.observedRoot : d \in {c \in decided :
        /\ c.yes
        /\ \A u \in Validators : Before(u, c.subject) =>
              \E b \in decided : b.subject = u /\ ~b.yes}}

AllRejected(decided) == \A v \in Validators : \E b \in decided : b.subject = v /\ ~b.yes

\* Mutant: a root may observe a fork of a root that is observed.
AddRootOfFork(r, seen) ==
    /\ r \in PossibleRoots \ roots
    /\ \A x \in seen : x \in roots /\ x.frame + 1 = r.frame
    /\ r.frame > 1 => HasQuorum(ValidatorsOf(seen))
    /\ roots' = roots \cup {r}
    /\ obs' = obs \cup {<<r, x>> : x \in seen}
    /\ ballots' = ballots \cup Votes(r, seen)

(***************************************************************************)
(* A new root.  It observes a quorum of the previous frame's roots         *)
(* (calcFrameIdx accepts no other), and two roots of one slot are never    *)
(* both observed, by whomever: the property of forkless cause that holds   *)
(* while less than a third of the weight is Byzantine.                     *)
(***************************************************************************)
AddRoot(r, seen) ==
    /\ r \in PossibleRoots \ roots
    /\ \A x \in seen : x \in roots /\ x.frame + 1 = r.frame
    /\ r.frame > 1 => HasQuorum(ValidatorsOf(seen))
    /\ \A x \in seen, y \in seen \cup Observed : SameSlot(x, y) => x = y
    /\ roots' = roots \cup {r}
    /\ obs' = obs \cup {<<r, x>> : x \in seen}
    /\ ballots' = ballots \cup Votes(r, seen)

VInit ==
    /\ roots = {}
    /\ obs = {}
    /\ ballots = {}

NewRoot(r) ==
    \E seen \in SUBSET {x \in roots : x.frame + 1 = r.frame} : AddRoot(r, seen)

VNext == \E r \in PossibleRoots : NewRoot(r)

VSpec == VInit /\ [][VNext]_vvars
-----------------------------------------------------------------------------
VTypeOK ==
    /\ roots \subseteq Roots
    /\ obs \subseteq roots \X roots
    /\ ballots \subseteq Ballots

\* The roots that root r observes.
Seen(r) == {x \in roots : <<r, x>> \in obs}

(***************************************************************************)
(* The inductive invariant: what AddRoot required of every root still      *)
(* holds, every root has voted on every question of a lower frame, every   *)
(* ballot is the one its root's observations give, and a yes names an      *)
(* observed root of the subject.                                           *)
(***************************************************************************)
ObservationInv ==
    /\ \A r \in roots : \A x \in Seen(r) : x.frame + 1 = r.frame
    /\ \A r \in roots : r.frame > 1 => HasQuorum(ValidatorsOf(Seen(r)))
    /\ \A x, y \in Observed : SameSlot(x, y) => x = y

BallotInv ==
    /\ \A r \in roots, f \in Elections, s \in Subjects :
          f < r.frame => \E b \in ballots : b.election = f /\ b.subject = s /\ b.root = r
    /\ \A b \in ballots :
          /\ b.root \in roots
          /\ b.election < b.root.frame
          /\ b \in IF b.root.frame = b.election + 1
                  THEN FirstVotes(b.election, b.root, b.subject, Seen(b.root))
                  ELSE TallyVotes(b.election, b.root, b.subject,
                                  Cast(b.election, b.subject, Seen(b.root)))
          /\ b.yes => \E x \in Observed : /\ x.frame = b.election
                                         /\ x.validator = b.subject
                                         /\ x.id = b.observedRoot

VInductive == VTypeOK /\ ObservationInv /\ BallotInv

SameQuestion(a, b) == a.election = b.election /\ a.subject = b.subject

(***************************************************************************)
(* A decision is final: once a root decides a subject, every root of the   *)
(* same frame votes the same way and every root of a later frame decides   *)
(* it the same way.  (election_math.go: "guaranteed to be final and        *)
(* consistent unless more than 1/3W are Byzantine"; sort_roots.go: others  *)
(* come to the same Atropos soon after.)                                   *)
(***************************************************************************)
DecisionsFinal ==
    \A a, b \in ballots :
       (a.decided /\ SameQuestion(a, b) /\ b.root.frame >= a.root.frame) =>
          /\ b.yes = a.yes
          /\ b.root.frame > a.root.frame => b.decided

(***************************************************************************)
(* All yes votes on a subject name the same root of the subject: the       *)
(* "forkless caused by 2 fork roots" errors of ProcessRoot cannot happen   *)
(* and a decided yes names one Atropos candidate.                          *)
(***************************************************************************)
OneCandidate ==
    \A a, b \in ballots :
       (a.yes /\ b.yes /\ SameQuestion(a, b)) =>
          /\ a.observedRoot = b.observedRoot
          /\ a.observedRoot # NoEvent

(***************************************************************************)
(* No election decides "no" on every subject, so chooseAtropos never       *)
(* returns its "all the roots are decided as 'no'" error.                  *)
(***************************************************************************)
SomeSubjectNotRejected ==
    \A f \in Elections :
       \E s \in Subjects :
          \A b \in ballots :
             (b.election = f /\ b.subject = s /\ b.decided) => b.yes

=============================================================================
