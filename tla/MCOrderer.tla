----------------------------- MODULE MCOrderer ------------------------------
(***************************************************************************)
(* Two nodes.  The first builds the events of a DAG and processes each at  *)
(* once; then, if the first has a block, the second gets the events in any *)
(* order; it flushes at most once.                                         *)
(***************************************************************************)
EXTENDS Orderer, TLC

CONSTANTS
    n1, n2,
    MaxEvents,
    MaxOf       \* bound: the number of events by each validator

MCIds == {<<v, k>> : v \in Validators, k \in 1..MaxEvents}
MCCreator == [i \in MCIds |-> i[1]]
MCWeight == 1 :> 2 @@ 2 :> 2 @@ 3 :> 1
MCMaxOf == 1 :> 4 @@ 2 :> 4 @@ 3 :> 2

\* The last events of a validator: those that no event of it extends.
Tips(v) == {x \in By(v) : \A y \in By(v) : dag[y].selfParent # x}

\* An event extends a tip and refers to a tip of one other validator.
MCEvent(v) ==
    {[creator |-> v, selfParent |-> s, seq |-> IF s = NoEvent THEN 1 ELSE dag[s].seq + 1,
      parents |-> ps \cup ({s} \ {NoEvent})] :
        s \in IF v \in Cheaters THEN {NoEvent} \cup By(v)
              ELSE IF By(v) = {} THEN {NoEvent} ELSE Tips(v),
        ps \in {{x} : x \in UNION {Tips(u) : u \in Validators \ {v}}} \cup
               (IF By(v) = {} THEN {{}} ELSE {})}

\* The first node has sealed the epoch, or has processed all that it accepts.
Sealed == node[n1].epoch # FirstEpoch
Idle == Sealed \/ \A id \in Connected \ node[n1].events : ~FrameAccepted(node[n1], id)

MCBuild ==
    \E v \in Validators : \E e \in MCEvent(v) :
       /\ Cardinality(By(v)) < MaxOf[v]
       /\ \E claim \in 1..MaxFrame : Build(n1, <<v, Cardinality(By(v)) + 1>>, e, claim)

MCNext ==
    IF ~Idle \/ (~Sealed /\ Cardinality(Connected) < MaxEvents)
    THEN (Idle /\ MCBuild) \/ \E id \in Connected : Process(n1, id)
    ELSE /\ node[n1].blocks # <<>>
         /\ \/ \E id \in Connected : Process(n2, id)
            \/ disk[n2] = Genesis /\ Flush(n2)
            \/ Restart(n2)
            \/ Reset(n2)

MCSpec == Init /\ [][MCNext]_allVars
=============================================================================
