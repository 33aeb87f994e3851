------------------------------ MODULE VecIndex ------------------------------
(***************************************************************************)
(* The vector clocks of one epoch: vecengine.Engine and vecfc.Index, as    *)
(* IndexedLachesis drives them.                                            *)
(*                                                                         *)
(* Branch <<v, k>> is the k-th branch of validator v: the code numbers     *)
(* branches globally, and only their creator and their rank among its      *)
(* branches matter.  A vector is a function on all branches: the code      *)
(* reads 0 beyond the end of a stored one.  Event ids are in the order of  *)
(* arrival.                                                                *)
(***************************************************************************)
EXTENDS Dag, FiniteSetsExt

CONSTANTS
    MaxBranchesPerValidator,    \* the code's cap (1024)
    Builder,                    \* the node's own validator
    ByteBase,                   \* the values of a byte (256)
    MaxBuilds                   \* bound: the number of Build calls

ASSUME VecConstants ==
    /\ MaxBranchesPerValidator \in Nat \ {0}
    /\ Builder \in Validators \ Cheaters
    /\ ByteBase \in Nat \ {0, 1}
    /\ MaxBuilds \in Nat

VARIABLES
    index,      \* bi and the vectors, through caches and unflushed pairs
    db,         \* the flushed part of index
    cache,      \* the ForklessCause cache: pairs of ids to results
    counter,    \* uniqueID.counter
    built       \* the last event built, and which events the index said cause it

vecVars == <<index, db, cache, counter, built>>

Branches == Validators \X (1..MaxBranchesPerValidator)

Empty == [seq |-> 0, min |-> 0]
ForkDetected == [seq |-> 0, min |-> 2147483647]

AtLeastOneFork(ix) == \E v \in Validators : ix.n[v] > 1

BranchesOf(ix, v) == {v} \X (1..ix.n[v])

InitBranchesInfo ==
    [n |-> [v \in Validators |-> 1], lastSeq |-> [b \in Branches |-> 0],
     branch |-> [x \in {} |-> {}], before |-> [x \in {} |-> {}], after |-> [x \in {} |-> {}]]

\* SetHighestBefore and SetLowestAfter: the vector of an event is stored, and cached.
SetVector(vectors, id, vec) ==
    [x \in DOMAIN vectors \cup {id} |-> IF x = id THEN vec ELSE vectors[x]]

SetEventBranchID(branch, id, b) ==
    [x \in DOMAIN branch \cup {id} |-> IF x = id THEN b ELSE branch[x]]
-----------------------------------------------------------------------------
\* The branch an event without a self-parent, or with this one, would continue.
OwnBranch(ix, e) ==
    IF e.selfParent = NoEvent THEN <<e.creator, 1>> ELSE ix.branch[e.selfParent]

FillGlobalBranchID(ix, e) ==
    LET own == OwnBranch(ix, e)
        last == <<e.creator, ix.n[e.creator]>>
        new == <<e.creator, ix.n[e.creator] + 1>>
    IN  CASE ix.lastSeq[own] = e.seq - 1 ->
               [id |-> own, n |-> ix.n, lastSeq |-> [ix.lastSeq EXCEPT ![own] = e.seq]]
          [] ix.lastSeq[own] # e.seq - 1 /\ ix.n[e.creator] >= MaxBranchesPerValidator ->
               [id |-> last, n |-> ix.n,
                lastSeq |-> [ix.lastSeq EXCEPT ![last] = Max({@, e.seq})]]
          [] OTHER ->
               [id |-> new, n |-> [ix.n EXCEPT ![e.creator] = @ + 1],
                lastSeq |-> [ix.lastSeq EXCEPT ![new] = e.seq]]

InitWithEvent(me, e) ==
    [b \in Branches |-> IF b = me THEN [seq |-> e.seq, min |-> e.seq] ELSE Empty]

\* CollectFrom over all parents: a fork, once seen, stays; else the range widens.
Collect(entries) ==
    LET seen == {x \in entries : x # Empty}
    IN  CASE ForkDetected \in entries -> ForkDetected
          [] seen = {} -> Empty
          [] OTHER -> [seq |-> Max({x.seq : x \in seen}), min |-> Min({x.min : x \in seen})]

HasFork(ix, vec, v) ==
    /\ ix.n[v] > 1
    /\ \E b \in BranchesOf(ix, v) : vec[b] = ForkDetected

Overlaps(ix, vec, v) ==
    \E a, b \in BranchesOf(ix, v) :
       /\ a # b /\ vec[a] # Empty /\ vec[b] # Empty
       /\ vec[a].min <= vec[b].seq /\ vec[b].min <= vec[a].seq

SetForkDetected(ix, vec, cheaters) ==
    [b \in Branches |-> IF b[1] \in cheaters /\ b \in BranchesOf(ix, b[1])
                        THEN ForkDetected ELSE vec[b]]

\* Mutant: forks that no parent has seen are not detected.
HighestBeforeInherited(ix, e, me) ==
    LET own == InitWithEvent(me, e)
        collected == [b \in Branches |-> Collect({own[b]} \cup {ix.before[p][b] : p \in e.parents})]
    IN  SetForkDetected(ix, collected, {v \in Validators : HasFork(ix, collected, v)})

\* HighestBefore: inherit forks from the parents, then detect those they did not see.
HighestBefore(ix, e, me) ==
    LET own == InitWithEvent(me, e)
        collected == [b \in Branches |-> Collect({own[b]} \cup {ix.before[p][b] : p \in e.parents})]
        inherited == SetForkDetected(ix, collected, {v \in Validators : HasFork(ix, collected, v)})
        detected == {v \in Validators : /\ inherited[<<v, 1>>] # ForkDetected
                                        /\ Overlaps(ix, inherited, v)}
    IN  IF AtLeastOneFork(ix) THEN SetForkDetected(ix, inherited, detected) ELSE collected

\* LowestAfter: the first event of a branch to observe x is the lowest.
Visited(ix, x, me) == ix.after[x][me] # 0

Visit(after, visited, me, e) ==
    [x \in DOMAIN after |-> IF x \in visited THEN [after[x] EXCEPT ![me] = e.seq] ELSE after[x]]

\* The events DfsSubgraph walks from e: down to those that its branch has visited before.
Walk(ix, e, me) ==
    LET walked[x \in Connected] ==
          /\ ~Visited(ix, x, me)
          /\ x \in e.parents \/ \E y \in Connected : y > x /\ x \in dag[y].parents /\ walked[y]
    IN  {x \in Connected : walked[x]}

FillEventVectors(ix, id, e) ==
    LET fill == FillGlobalBranchID(ix, e)
        me == fill.id
        jx == [ix EXCEPT !.n = fill.n, !.lastSeq = fill.lastSeq]
        after == [b \in Branches |-> IF b = me THEN e.seq ELSE 0]
    IN  [n |-> jx.n, lastSeq |-> jx.lastSeq,
         branch |-> SetEventBranchID(ix.branch, id, me),
         before |-> SetVector(ix.before, id, HighestBefore(jx, e, me)),
         after |-> SetVector(Visit(ix.after, Walk(jx, e, me), me, e), id, after)]
-----------------------------------------------------------------------------
\* Mutant: a does not have to see b's creator honest.
ComputeDespiteFork(ix, a, b) ==
    HasQuorum({v \in Validators : \E x \in BranchesOf(ix, v) :
       /\ ix.after[b][x] # 0 /\ ix.after[b][x] <= ix.before[a][x].seq
       /\ ix.before[a][x] # ForkDetected})

\* forklessCause.
Compute(ix, a, b) ==
    /\ ~(AtLeastOneFork(ix) /\ ix.before[a][ix.branch[b]] = ForkDetected)
    /\ HasQuorum({v \in Validators : \E x \in BranchesOf(ix, v) :
          /\ ix.after[b][x] # 0 /\ ix.after[b][x] <= ix.before[a][x].seq
          /\ ix.before[a][x] # ForkDetected})

\* ForklessCause: what the cache has is not computed again.
ForklessCause(ix, c, a, b) == IF <<a, b>> \in DOMAIN c THEN c[<<a, b>>] ELSE Compute(ix, a, b)

\* The orderer asks which of the connected events forkless-cause a; the answers are cached.
Ask(ix, a, bs) ==
    [p \in DOMAIN cache \cup ({a} \X bs) |->
        IF p \in DOMAIN cache THEN cache[p] ELSE Compute(ix, p[1], p[2])]

\* A fork in any branch is a fork; else the branch that has come furthest.
GatherFrom(entries) ==
    IF ForkDetected \in entries THEN ForkDetected
    ELSE CHOOSE x \in entries : \A y \in entries : y.seq <= x.seq

\* GetMergedHighestBefore: the branches of a validator as one.
Merged(ix, a, v) ==
    IF AtLeastOneFork(ix) THEN GatherFrom({ix.before[a][b] : b \in BranchesOf(ix, v)})
    ELSE ix.before[a][<<v, 1>>]
-----------------------------------------------------------------------------
Flush == db' = index'

\* The vectors that are not flushed, and the caches of vectors, are dropped.
DropNotFlushed == index' = db /\ UNCHANGED db

\* Add, ask, Flush.  DropNotFlushed, deferred, finds nothing to drop.
Process(id, e) ==
    /\ id = Cardinality(Connected) + 1
    /\ Connect(id, e)
    /\ index' = FillEventVectors(index, id, e)
    /\ Flush
    /\ cache' = Ask(index', id, Connected)
    /\ UNCHANGED <<counter, built>>

\* Mutant: the counter is not used.
SampleConstant(c) == 1

\* uniqueID.sample: the counter's bytes, without their number: 1 and 256 give the same id.
Sample(c) == CHOOSE x \in 1..c : x % ByteBase # 0 /\ \E k \in 0..c : c = x * ByteBase^k

Lamport(e) ==
    LET lamport[x \in Connected] == 1 + Max({0} \cup {lamport[p] : p \in dag[x].parents})
    IN  1 + Max({0} \cup {lamport[p] : p \in e.parents})

\* An id is made of the Lamport time and the sample (SetID); a negative number here.
DirtyId(e) == -(Lamport(e) * (MaxBuilds + 1) + Sample(counter + 1))

\* Mutant: the cache of LowestAfter vectors is not purged by DropNotFlushed.
BuildUnpurged(e) ==
    /\ counter < MaxBuilds
    /\ e.creator = Builder /\ Validate(e) /\ Extends(e)
    /\ LET ix == FillEventVectors(index, DirtyId(e), e)
       IN  /\ built' = [event |-> e, causes |-> {b \in Connected : Compute(ix, DirtyId(e), b)}]
           /\ index' = [db EXCEPT !.after = [x \in Connected |-> ix.after[x]]]
    /\ counter' = counter + 1
    /\ UNCHANGED <<cache, db, dagVars>>

\* Build of an event by the node itself on its last one: Add under a sampled id, ask,
\* DropNotFlushed.  The ForklessCause cache is not dropped.
Build(e) ==
    /\ counter < MaxBuilds
    /\ e.creator = Builder /\ Validate(e) /\ Extends(e)
    /\ LET id == DirtyId(e)
           ix == FillEventVectors(index, id, e)
       IN  /\ built' = [event |-> e,
                        causes |-> {b \in Connected : ForklessCause(ix, cache, id, b)}]
           /\ cache' = Ask(ix, id, Connected)
    /\ counter' = counter + 1
    /\ DropNotFlushed
    /\ UNCHANGED dagVars

Init ==
    /\ DagInit
    /\ index = InitBranchesInfo /\ db = InitBranchesInfo
    /\ cache = [p \in {} |-> FALSE]
    /\ counter = 0
    /\ built = [event |-> {}, causes |-> {}]

Next ==
    \/ \E id \in Ids, e \in Event : Process(id, e)
    \/ \E e \in Event : Build(e)

Spec == Init /\ [][Next]_<<dagVars, vecVars>>
-----------------------------------------------------------------------------
(***************************************************************************)
(* ForklessCause computes the relation it is named for, however the events *)
(* arrived, and an answer once cached stays right.                         *)
(***************************************************************************)
ForklessCauseIsExact ==
    \A a, b \in Connected :
       /\ Compute(index, a, b) = ForklessCaused(a, b)
       /\ <<a, b>> \in DOMAIN cache => cache[<<a, b>>] = ForklessCaused(a, b)

(***************************************************************************)
(* The merged HighestBefore of an event marks exactly the validators it    *)
(* sees fork (the cheaters of a block), and has the last event it observes *)
(* of the others.                                                          *)
(***************************************************************************)
MergedIsExact ==
    \A a \in Connected, v \in Validators :
       LET seqs == {0} \cup {dag[x].seq : x \in {y \in past[a] : dag[y].creator = v}}
       IN  IF SeesFork(a, v) THEN Merged(index, a, v) = ForkDetected
           ELSE Merged(index, a, v) # ForkDetected /\ Merged(index, a, v).seq = Max(seqs)

(***************************************************************************)
(* forkless_cause.go: "If B1 and B2 are forks, then they cannot BOTH       *)
(* forkless-cause any specific event A", of the computed relation.         *)
(***************************************************************************)
ComputedForksNotBothCause ==
    \A a, b1, b2 \in Connected :
       Forks(b1, b2) => ~(Compute(index, a, b1) /\ Compute(index, a, b2))

(***************************************************************************)
(* Build is answered about the event being built, not about an earlier     *)
(* one: the ids it samples do not repeat.                                  *)
(***************************************************************************)
BuildIsExact ==
    counter > 0 => \A b \in Past(built.event) :
                      b \in built.causes <=> NewForklessCaused(built.event, b)
=============================================================================
