----------------------------- MODULE DagProofs ------------------------------
(***************************************************************************)
(* Forks cannot both forkless-cause: the property of the DAG on which the  *)
(* election rests, for any validators, weights and DAG.                    *)
(***************************************************************************)
EXTENDS Dag, PosProofs

-----------------------------------------------------------------------------
\* A past is closed, a chain is part of it and has an event of every sequence
\* number up to its end, and the events of an honest validator are one chain.
LEMMA DagInductiveInit == DagInit => DagInductive
BY DEF DagInit, DagInductive, DagTypeOK, PastClosed, ChainComplete, HonestChains, Connected

LEMMA DagInductiveStep ==
    ASSUME DagInductive, [DagNext]_dagVars
    PROVE  DagInductive'
<1> USE DagConstants
<1>1. CASE UNCHANGED dagVars
  BY <1>1 DEF DagInductive, DagTypeOK, PastClosed, ChainComplete, HonestChains, Connected,
              dagVars
<1>2. CASE DagNext
  <2>1. PICK id \in Ids, e \in Event : Connect(id, e)
    BY <1>2 DEF DagNext
  <2> DEFINE old == DOMAIN dag
             new == old \cup {id}
             Hist == UNION {past[p] : p \in e.parents}
             Line == IF e.selfParent = NoEvent THEN {} ELSE chain[e.selfParent]
  <2>2. /\ old \subseteq Ids /\ id \notin old
        /\ dag \in [old -> Event]
        /\ past \in [old -> SUBSET old]
        /\ chain \in [old -> SUBSET old]
    BY <2>1 DEF DagInductive, DagTypeOK, Connected, Connect
  <2>3. /\ DOMAIN dag' = new
        /\ DOMAIN past' = new
        /\ DOMAIN chain' = new
        /\ \A x \in old : dag'[x] = dag[x] /\ past'[x] = past[x] /\ chain'[x] = chain[x]
        /\ dag'[id] = e
        /\ past'[id] = {id} \cup Hist
        /\ chain'[id] = {id} \cup Line
    BY <2>1, <2>2 DEF Connect, Connected, SelfChain
  <2>4. /\ e.parents \subseteq old
        /\ e.selfParent # NoEvent => e.selfParent \in e.parents
        /\ e.selfParent # NoEvent => dag[e.selfParent].creator = e.creator
        /\ e.selfParent = NoEvent => e.seq = 1
        /\ e.selfParent # NoEvent => e.seq = dag[e.selfParent].seq + 1
    BY <2>1, <2>2 DEF Connect, Validate, HasSelfParent, ParentsCheck, Connected
  <2>5. e.creator \notin Cheaters => \A x \in old : dag[x].creator = e.creator => x \in Line
    BY <2>1 DEF Connect, Extends, By, SelfChain, Connected
  <2>6. Hist \subseteq old /\ Line \subseteq old
    BY <2>2, <2>4
  <2> USE DEF Connected
  <2>7. DagTypeOK'
    <3>1. new \subseteq Ids
      BY <2>2
    <3>2. dag' \in [new -> Event]
      BY <2>1, <2>2 DEF Connect
    <3>3. past' \in [new -> SUBSET new]
      BY <2>1, <2>2, <2>6 DEF Connect
    <3>4. chain' \in [new -> SUBSET new]
      BY <2>1, <2>2, <2>6 DEF Connect, SelfChain
    <3> QED
      BY <2>3, <3>1, <3>2, <3>3, <3>4 DEF DagTypeOK
  <2>8. \A x \in new : x \in chain'[x] /\ chain'[x] \subseteq past'[x]
    <3>1. \A x \in old : x \in chain[x] /\ chain[x] \subseteq past[x]
      BY DEF DagInductive, PastClosed
    <3>2. Line \subseteq Hist
      BY <3>1, <2>2, <2>4
    <3> QED
      BY <3>1, <3>2, <2>3
  <2>9. \A x \in new : \A y \in past'[x] : past'[y] \subseteq past'[x]
    <3>1. \A x \in old : \A y \in past[x] : past[y] \subseteq past[x]
      BY DEF DagInductive, PastClosed
    <3>2. \A y \in Hist : y \in old /\ past[y] \subseteq Hist
      BY <3>1, <2>2, <2>4
    <3>3. \A y \in past'[id] : past'[y] \subseteq past'[id]
      BY <3>2, <2>3
    <3>4. \A x \in old : \A y \in past'[x] : y \in old /\ past'[y] \subseteq past'[x]
      BY <3>1, <2>2, <2>3
    <3> QED
      BY <3>3, <3>4
  <2>10. \A x \in new : \A y \in chain'[x] : dag'[y].creator = dag'[x].creator
    <3>1. \A x \in old : \A y \in chain[x] : dag[y].creator = dag[x].creator
      BY DEF DagInductive, ChainComplete
    <3>2. \A y \in Line : y \in old /\ dag[y].creator = e.creator
      BY <3>1, <2>2, <2>4
    <3> QED
      BY <3>1, <3>2, <2>2, <2>3
  <2>11. \A x \in new : \A s \in 1 .. dag'[x].seq : \E y \in chain'[x] : dag'[y].seq = s
    <3>1. \A x \in old : \A s \in 1 .. dag[x].seq : \E y \in chain[x] : dag[y].seq = s
      BY DEF DagInductive, ChainComplete
    <3>2. \A x \in old : dag[x].seq \in Nat
      BY <2>2 DEF Event
    <3>3. ASSUME NEW s \in 1 .. e.seq PROVE \E y \in chain'[id] : dag'[y].seq = s
      <4>1. CASE s = e.seq
        BY <4>1, <2>3
      <4>2. CASE s # e.seq
        <5>1. e.seq \in Nat /\ s < e.seq /\ e.selfParent # NoEvent
          BY <4>2, <2>4 DEF Event
        <5>2. e.selfParent \in old /\ s \in 1 .. dag[e.selfParent].seq
          BY <5>1, <2>4, <3>2
        <5>3. \E y \in Line : dag[y].seq = s
          BY <5>1, <5>2, <3>1
        <5> QED
          BY <5>3, <2>3, <2>6
      <4> QED
        BY <4>1, <4>2
    <3>4. ASSUME NEW x \in old, NEW s \in 1 .. dag'[x].seq
          PROVE  \E y \in chain'[x] : dag'[y].seq = s
      <4>1. PICK y \in chain[x] : dag[y].seq = s
        BY <3>1, <2>3
      <4>2. y \in old
        BY <4>1, <2>2
      <4> QED
        BY <4>1, <4>2, <2>3
    <3> QED
      BY <3>3, <3>4, <2>3
  <2>12. \A x, y \in new :
            dag'[x].creator = dag'[y].creator /\ dag'[x].creator \notin Cheaters
              => x \in chain'[y] \/ y \in chain'[x]
    <3>1. \A x, y \in old : dag[x].creator = dag[y].creator /\ dag[x].creator \notin Cheaters
              => x \in chain[y] \/ y \in chain[x]
      BY DEF DagInductive, HonestChains
    <3> QED
      BY <3>1, <2>2, <2>3, <2>5
  <2> QED
    BY <2>3, <2>7, <2>8, <2>9, <2>10, <2>11, <2>12
    DEF DagInductive, PastClosed, ChainComplete, HonestChains
<1> QED
  BY <1>1, <1>2

\* What an event connects stays that way: the inductive invariant holds of every DAG
\* that eventcheck lets through.
THEOREM DagIsInductive == DagSpec => []DagInductive
<1> QED
  BY DagInductiveInit, DagInductiveStep, PTL DEF DagSpec

\* The DAG is always well typed.
THEOREM DagTypeCorrect == DagSpec => []DagTypeOK
<1>1. DagInductive => DagTypeOK
  BY DEF DagInductive
<1> QED
  BY <1>1, DagIsInductive, PTL
-----------------------------------------------------------------------------
\* An event that observes two branches of a validator observes a fork of it.
LEMMA BranchesShowFork ==
    ASSUME DagInductive, NEW a \in Connected, NEW x \in past[a], NEW y \in past[a],
           Forks(x, y)
    PROVE  SeesFork(a, dag[x].creator)
<1> USE DEF DagInductive, DagTypeOK, PastClosed, ChainComplete
<1>1. x \in Connected /\ y \in Connected
  OBVIOUS
<1>2. dag[x].seq \in Nat \ {0} /\ dag[y].seq \in Nat \ {0}
  BY <1>1, DagConstants DEF Event
<1>3. chain[x] \subseteq past[a] /\ chain[y] \subseteq past[a]
  BY <1>1
<1>4. x \in chain[x] /\ y \in chain[y]
  BY <1>1
<1>5. ASSUME dag[x].seq <= dag[y].seq PROVE SeesFork(a, dag[x].creator)
  <2>1. PICK z \in chain[y] : dag[z].seq = dag[x].seq
    BY <1>1, <1>2, <1>5
  <2>2. z # x /\ dag[z].creator = dag[x].creator
    BY <1>1 DEF Forks
  <2> QED
    BY <2>1, <2>2, <1>3 DEF SeesFork, ForkIn
<1>6. ASSUME dag[y].seq <= dag[x].seq PROVE SeesFork(a, dag[x].creator)
  <2>1. PICK z \in chain[x] : dag[z].seq = dag[y].seq
    BY <1>1, <1>2, <1>6
  <2>2. z # y /\ dag[z].creator = dag[x].creator /\ dag[y].creator = dag[x].creator
    BY <1>1 DEF Forks
  <2> QED
    BY <2>1, <2>2, <1>3 DEF SeesFork, ForkIn
<1> QED
  BY <1>2, <1>5, <1>6

\* Two quorums of witnesses have an honest one in common.
LEMMA HonestWitness ==
    ASSUME NEW Q \in SUBSET Validators, NEW R \in SUBSET Validators,
           HasQuorum(Q), HasQuorum(R)
    PROVE  \E c \in Q \cap R : c \notin Cheaters
<1>1. SUFFICES ASSUME Q \cap R \subseteq Cheaters PROVE FALSE
  OBVIOUS
<1>2. Sum(Q \cap R) <= Sum(Cheaters)
  BY <1>1, SumMonotone, DagConstants
<1>3. 3 * Sum(Q \cap R) > TotalWeight
  BY QuorumsIntersect
<1>4. Sum(Q \cap R) \in Nat /\ Sum(Cheaters) \in Nat /\ TotalWeight \in Nat
  BY SumLaws, QuorumBound, DagConstants
<1>5. 3 * Sum(Cheaters) < TotalWeight
  BY DagConstants
<1> HIDE DEF Sum, TotalWeight
<1> QED
  BY <1>2, <1>3, <1>4, <1>5

LEMMA NotBothCause == DagInductive => ForksNotBothCause
<1> SUFFICES ASSUME DagInductive, NEW b1 \in Connected, NEW b2 \in Connected, Forks(b1, b2),
                    NEW a1 \in Connected, NEW a2 \in Connected,
                    ForklessCaused(a1, b1), ForklessCaused(a2, b2)
             PROVE  FALSE
  BY DEF ForksNotBothCause
<1>1. dag[b1].creator = dag[b2].creator
  BY DEF Forks
<1>2. PICK c \in Witnesses(a1, b1) \cap Witnesses(a2, b2) : c \notin Cheaters
  <2>1. Witnesses(a1, b1) \in SUBSET Validators /\ Witnesses(a2, b2) \in SUBSET Validators
    BY DEF Witnesses
  <2>2. HasQuorum(Witnesses(a1, b1)) /\ HasQuorum(Witnesses(a2, b2))
    BY DEF ForklessCaused
  <2> QED
    BY <2>1, <2>2, HonestWitness
<1>3. PICK x1 \in past[a1] : dag[x1].creator = c /\ b1 \in past[x1]
  BY <1>2 DEF Witnesses
<1>4. PICK x2 \in past[a2] : dag[x2].creator = c /\ b2 \in past[x2]
  BY <1>2 DEF Witnesses
<1>5. x1 \in Connected /\ x2 \in Connected
  BY DEF DagInductive, DagTypeOK
<1>6. x1 \in chain[x2] \/ x2 \in chain[x1]
  BY <1>2, <1>3, <1>4, <1>5 DEF DagInductive, HonestChains
<1>7. CASE x1 \in chain[x2]
  <2>1. b1 \in past[x2] /\ past[x2] \subseteq past[a2]
    BY <1>3, <1>4, <1>5, <1>7 DEF DagInductive, PastClosed
  <2>2. SeesFork(a2, dag[b1].creator)
    BY <2>1, <1>4, BranchesShowFork
  <2> QED
    BY <2>2, <1>1 DEF ForklessCaused
<1>8. CASE x2 \in chain[x1]
  <2>1. b2 \in past[x1] /\ past[x1] \subseteq past[a1]
    BY <1>3, <1>4, <1>5, <1>8 DEF DagInductive, PastClosed
  <2>2. SeesFork(a1, dag[b1].creator)
    BY <2>1, <1>3, BranchesShowFork
  <2> QED
    BY <2>2 DEF ForklessCaused
<1> QED
  BY <1>6, <1>7, <1>8

\* While cheaters have less than a third of the weight, of two forks at most one
\* forkless-causes anything: what ForklessCause's comment calls the base of the BFT
\* algorithm.
THEOREM ForklessCauseSafe == DagSpec => []ForksNotBothCause
BY DagIsInductive, NotBothCause, PTL
=============================================================================
