-------------------------------- MODULE Dag ---------------------------------
(***************************************************************************)
(* The DAG of events of one epoch: what eventcheck lets in, and the        *)
(* relations on it that the vector clocks are meant to compute.            *)
(*                                                                         *)
(* An honest validator's events form one chain.  A cheater may extend any  *)
(* of its events, or start again from nothing: it forks.  The cheaters     *)
(* have less than a third of the weight.                                   *)
(***************************************************************************)
EXTENDS Pos

CONSTANTS
    Ids,            \* event ids
    NoEvent,        \* no self-parent
    Cheaters,       \* the validators that may fork
    MaxSeq          \* bound: the highest sequence number

ASSUME DagConstants ==
    /\ NoEvent \notin Ids
    /\ Cheaters \subseteq Validators
    /\ 3 * Sum(Cheaters) < TotalWeight
    /\ MaxSeq \in Nat

VARIABLES
    dag,        \* the connected events, by id
    past,       \* the events an event observes, itself included
    chain       \* those of them on its own chain of self-parents

dagVars == <<dag, past, chain>>

Connected == DOMAIN dag

Event == [creator : Validators, seq : 1..MaxSeq, selfParent : Ids \cup {NoEvent},
          parents : SUBSET Ids]

By(v) == {x \in Connected : dag[x].creator = v}

(***************************************************************************)
(* eventcheck.  Lamport times, which nothing here reads, are left out, and *)
(* parents are a set: no event has the same parent twice.                  *)
(***************************************************************************)
BasicCheck(e) ==
    /\ e.seq \in 1..MaxSeq
    /\ e.seq > 1 => e.parents # {}

EpochCheck(e) == e.creator \in Validators

\* SelfParent: only an event of seq above 1 has one, among its parents.
HasSelfParent(e) == IF e.seq = 1 THEN e.selfParent = NoEvent ELSE e.selfParent \in e.parents

\* The self-parent is the only parent by the same creator, and its seq is one lower.
ParentsCheck(e) ==
    /\ \A p \in e.parents : dag[p].creator = e.creator <=> p = e.selfParent
    /\ e.selfParent # NoEvent => e.seq = dag[e.selfParent].seq + 1

\* Validate, of an event whose parents are there (the caller looks them up).
Validate(e) ==
    /\ e.parents \subseteq Connected
    /\ HasSelfParent(e)
    /\ BasicCheck(e) /\ EpochCheck(e) /\ ParentsCheck(e)

SelfChain(e) == IF e.selfParent = NoEvent THEN {} ELSE chain[e.selfParent]

\* The behaviour of an honest validator: it extends its last event.
Extends(e) == By(e.creator) \subseteq SelfChain(e)

Connect(id, e) ==
    /\ id \in Ids \ Connected
    /\ Validate(e)
    /\ e.creator \notin Cheaters => Extends(e)
    /\ dag' = [x \in Connected \cup {id} |-> IF x = id THEN e ELSE dag[x]]
    /\ past' = [x \in Connected \cup {id} |->
          IF x = id THEN {id} \cup UNION {past[p] : p \in e.parents} ELSE past[x]]
    /\ chain' = [x \in Connected \cup {id} |->
          IF x = id THEN {id} \cup SelfChain(e) ELSE chain[x]]

DagInit ==
    /\ dag = [x \in {} |-> {}]
    /\ past = [x \in {} |-> {}]
    /\ chain = [x \in {} |-> {}]

DagNext == \E id \in Ids, e \in Event : Connect(id, e)

DagSpec == DagInit /\ [][DagNext]_dagVars
-----------------------------------------------------------------------------
(***************************************************************************)
(* What "A observes a fork of c" and "A is forkless caused by B" mean.     *)
(***************************************************************************)
ForkIn(P, c) ==
    \E x, y \in P :
       x # y /\ dag[x].creator = c /\ dag[y].creator = c /\ dag[x].seq = dag[y].seq

SeesFork(a, c) == ForkIn(past[a], c)

\* The validators through which a observes b, as far as a knows them honest.
Witnesses(a, b) ==
    {c \in Validators : /\ ~SeesFork(a, c)
                        /\ \E x \in past[a] : dag[x].creator = c /\ b \in past[x]}

ForklessCaused(a, b) ==
    /\ ~SeesFork(a, dag[b].creator)
    /\ HasQuorum(Witnesses(a, b))

\* The same for an event e that is not connected yet, and b in its past.
Past(e) == UNION {past[p] : p \in e.parents}

NewSeesFork(e, c) ==
    \/ ForkIn(Past(e), c)
    \/ c = e.creator /\ \E x \in Past(e) : dag[x].creator = c /\ dag[x].seq = e.seq

NewForklessCaused(e, b) ==
    /\ ~NewSeesFork(e, dag[b].creator)
    /\ HasQuorum({c \in Validators : /\ ~NewSeesFork(e, c)
                                     /\ \/ c = e.creator
                                        \/ \E x \in Past(e) : dag[x].creator = c /\ b \in past[x]})

\* Two events of one creator on different branches.
Forks(x, y) ==
    /\ dag[x].creator = dag[y].creator
    /\ x \notin chain[y] /\ y \notin chain[x]
-----------------------------------------------------------------------------
DagTypeOK ==
    /\ Connected \subseteq Ids
    /\ dag \in [Connected -> Event]
    /\ past \in [Connected -> SUBSET Connected]
    /\ chain \in [Connected -> SUBSET Connected]

(***************************************************************************)
(* Why it holds, and inductive: a past is closed; a chain has an event of  *)
(* its creator for every sequence number up to its end; the events of an   *)
(* honest validator are one chain.                                         *)
(***************************************************************************)
PastClosed ==
    \A x \in Connected :
       /\ x \in chain[x] /\ chain[x] \subseteq past[x]
       /\ \A y \in past[x] : past[y] \subseteq past[x]

ChainComplete ==
    \A x \in Connected :
       /\ \A y \in chain[x] : dag[y].creator = dag[x].creator
       /\ \A s \in 1..dag[x].seq : \E y \in chain[x] : dag[y].seq = s

HonestChains ==
    \A x, y \in Connected :
       dag[x].creator = dag[y].creator /\ dag[x].creator \notin Cheaters
         => x \in chain[y] \/ y \in chain[x]

DagInductive == DagTypeOK /\ PastClosed /\ ChainComplete /\ HonestChains

(***************************************************************************)
(* forkless_cause.go: "If B1 and B2 are forks, then they cannot BOTH       *)
(* forkless-cause any specific event A, unless more than 1/3W are          *)
(* Byzantine."  Stronger, and what the election needs: they cannot         *)
(* forkless-cause any two events A1 and A2 either.                         *)
(***************************************************************************)
ForksNotBothCause ==
    \A b1, b2 \in Connected : Forks(b1, b2) =>
       ~(\E a1, a2 \in Connected : ForklessCaused(a1, b1) /\ ForklessCaused(a2, b2))
=============================================================================
