----------------------------- MODULE MCVecIndex -----------------------------
(***************************************************************************)
(* Small DAGs in every order of arrival.  Validators 2 and 3 are honest,   *)
(* validator 1 forks.                                                      *)
(***************************************************************************)
EXTENDS Emitter, TLC

CONSTANTS
    Forked,         \* the cheater's weight
    Honest2,        \* the weights of the honest validators
    Honest3,
    MaxOthers,      \* bound: the parents of an event besides its self-parent
    MaxEvents,
    BuildAt,        \* bound: the numbers of events after which something is built
    ChooseAt        \* bound: and those after which parents are chosen

MCWeight == 1 :> Forked @@ 2 :> Honest2 @@ 3 :> Honest3
MCIds == 1..MaxEvents
MCPayload == [x \in Ids |-> x % 2]

\* No parent is a parent's ancestor: such a parent adds nothing to the vectors.
Independent(ps) == \A p, q \in ps : p # q => p \notin past[q]

\* An honest validator emits when it has something new to observe.
Useful(e) == ~(e.creator \notin Cheaters /\ e.parents = {e.selfParent})

\* 2 and 3 have the same weight and only their names differ: 2 goes first.
InOrder(e) == e.creator = 3 => By(2) # {}

\* The events that could be connected: those of Event, without trying every set.
MCEvent(v) ==
    {[creator |-> v, selfParent |-> s, seq |-> IF s = NoEvent THEN 1 ELSE dag[s].seq + 1,
      parents |-> ps \cup ({s} \ {NoEvent})] :
        s \in {NoEvent} \cup By(v),
        ps \in UNION {kSubset(k, Connected \ By(v)) : k \in 0..MaxOthers}}

MCProcess ==
    \E v \in Validators : \E e \in MCEvent(v) :
       e.seq <= MaxSeq /\ Cardinality(Connected) < MaxEvents
       /\ Independent(e.parents) /\ Useful(e) /\ InOrder(e)
       /\ ProcessAndIndex(Cardinality(Connected) + 1, e)

MCBuild ==
    /\ counter < MaxBuilds /\ Cardinality(Connected) \in BuildAt /\ chosen = NotChosen
    /\ \E e \in MCEvent(Builder) : e.seq <= MaxSeq /\ BuildOnly(e)

\* A behaviour has choices or builds: neither reads what the other changes.
MCChoose ==
    /\ counter = 0 /\ Cardinality(Connected) \in ChooseAt
    /\ \E options \in {Heads, Connected} : ChooseParents(Existing, options)

MCNext == MCProcess \/ MCBuild \/ MCChoose

MCSpec == EmitterInit /\ [][MCNext]_<<dagVars, vecVars, emitterVars>>
=============================================================================
