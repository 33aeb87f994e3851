------------------------------ MODULE Orderer -------------------------------
(***************************************************************************)
(* The consensus objects of several nodes over one DAG, through one epoch: *)
(* abft.Orderer, abft.Lachesis and abft.Store.                             *)
(*                                                                         *)
(* The vector index answers as module VecIndex shows it does, and the      *)
(* election computes the votes that module Election shows it does: those   *)
(* that the DAG alone determines.  What is left to the orderer is what is  *)
(* modelled here: the frames of events, the roots, the loop of elections,  *)
(* the blocks, the end of the epoch, and the restart from disk.            *)
(***************************************************************************)
EXTENDS Dag, FiniteSetsExt, Sequences

CONSTANTS
    Nodes,
    Creator,        \* the creator of the event with a given id
    SealFrame,      \* the application seals the epoch with the block of this frame
    MaxFrameStep,   \* the frames Build looks ahead (100)
    MaxFrame        \* bound: the highest frame

ASSUME OrdererConstants ==
    /\ Creator \in [Ids -> Validators]
    /\ SealFrame \in Nat
    /\ MaxFrameStep \in Nat
    /\ MaxFrame \in Nat

VARIABLES
    frame,      \* the frame each connected event claims
    causes,     \* the events that forkless-cause it
    ballots,    \* the votes of all roots (Voting)
    node,       \* each node's store
    disk        \* what of it is flushed

allVars == <<dagVars, frame, causes, ballots, node, disk>>

SelfParentFrame(e) == IF e.selfParent = NoEvent THEN 0 ELSE frame[e.selfParent]

RootsOf(id) ==
    {[id |-> id, frame |-> f, validator |-> Creator[id]] :
        f \in (SelfParentFrame(dag[id]) + 1)..frame[id]}

AllRoots == UNION {RootsOf(id) : id \in Connected}

AllObs == {<<r, x>> \in AllRoots \X AllRoots : x.frame + 1 = r.frame /\ x.id \in causes[r.id]}

V == INSTANCE Voting WITH
        Events <- Ids, Elections <- 1..MaxFrame, Subjects <- Validators,
        PossibleRoots <- {[id |-> i, frame |-> f, validator |-> Creator[i]] :
                             i \in Ids, f \in 1..MaxFrame},
        roots <- AllRoots, obs <- AllObs
-----------------------------------------------------------------------------
(***************************************************************************)
(* calcFrameIdx                                                            *)
(***************************************************************************)
ForklessCausedByQuorumOn(roots, cs, f) ==
    HasQuorum({r.validator : r \in {x \in roots : x.frame = f /\ x.id \in cs}})

\* From the self-parent's frame up to the first that does not cause the event, or to the
\* last to check.
CalcFrameIdx(roots, cs, selfParentFrame, maxFrameToCheck) ==
    LET stop == {f \in selfParentFrame..Max({selfParentFrame, maxFrameToCheck}) :
                    f >= maxFrameToCheck \/ ~ForklessCausedByQuorumOn(roots, cs, f)}
    IN  Max({1, Min(stop)})
-----------------------------------------------------------------------------
(***************************************************************************)
(* A decided frame: Lachesis.applyAtropos and Orderer.onFrameDecided.  s   *)
(* is the store of a node.                                                 *)
(***************************************************************************)
SetEpochState(s, epoch) == [s EXCEPT !.epoch = epoch]

SetLastDecidedState(s, f) == [s EXCEPT !.lastDecided = f]

\* dropEpochDB and openEpochDB: roots, confirmed events and the vector index go.
OpenEpochDB(s) == [s EXCEPT !.events = {}, !.roots = {}, !.confirmed = [x \in {} |-> 0]]

NewEpoch(s, epoch) == OpenEpochDB(SetEpochState(SetLastDecidedState(s, 0), epoch))

SetEventConfirmedOn(confirmed, new, f) ==
    [x \in DOMAIN confirmed \cup new |-> IF x \in new THEN f ELSE confirmed[x]]

\* dfsSubgraph: down from the Atropos to what is confirmed already.
NewlyConfirmed(s, atropos) ==
    LET walked[x \in past[atropos]] ==
          /\ x \notin DOMAIN s.confirmed
          /\ x = atropos \/ \E y \in past[atropos] : x \in dag[y].parents /\ walked[y]
    IN  {x \in past[atropos] : walked[x]}

ConfirmEvents(s, f, new) ==
    [s EXCEPT !.confirmed = SetEventConfirmedOn(@, new, f)]

\* Mutant: the cheaters are those that the node knows of.
ApplyAtroposKnown(s, f, atropos) ==
    LET new == NewlyConfirmed(s, atropos)
        block == [frame |-> f, atropos |-> atropos, events |-> new,
                  cheaters |-> {v \in Validators : ForkIn(s.events, v)}]
    IN  [ConfirmEvents(s, f, new) EXCEPT !.blocks = Append(@, block)]

\* With the block callback: a block, and the new epoch if the application says so.
ApplyAtropos(s, f, atropos) ==
    LET new == NewlyConfirmed(s, atropos)
        block == [frame |-> f, atropos |-> atropos, events |-> new,
                  cheaters |-> {v \in Validators : SeesFork(atropos, v)}]
    IN  [ConfirmEvents(s, f, new) EXCEPT !.blocks = Append(@, block)]

OnFrameDecided(s, f, atropos, callback) ==
    LET t == IF callback THEN ApplyAtropos(s, f, atropos) ELSE s
    IN  IF callback /\ f = SealFrame THEN NewEpoch(t, s.epoch + 1)
        ELSE SetLastDecidedState(t, f)

\* What the election of the next frame has come to, from the roots in the store.
Result(s) ==
    V!Atropos({b \in ballots : /\ b.decided /\ b.election = s.lastDecided + 1
                               /\ b.root \in s.roots})

\* handleElection and bootstrapElection: while a frame is decided, and not the epoch's last.
RECURSIVE DecideFrames(_, _)
DecideFrames(s, callback) ==
    IF Result(s) = {} THEN s
    ELSE LET t == OnFrameDecided(s, s.lastDecided + 1, CHOOSE a \in Result(s) : TRUE, callback)
         IN  IF t.epoch # s.epoch THEN t ELSE DecideFrames(t, callback)
-----------------------------------------------------------------------------
FirstEpoch == 1

CausesOf(id, e) ==
    {b \in Past(e) : NewForklessCaused(e, b)}
      \cup {x \in {id} : HasQuorum({e.creator}) /\ ~NewSeesFork(e, e.creator)}

VotesOf(B, r, seen) ==
    UNION {IF r.frame = f + 1 THEN V!FirstVotes(f, r, s, seen)
           ELSE V!TallyVotes(f, r, s, {b \in B : b.election = f /\ b.subject = s /\ b.root \in seen}) :
             f \in 1..(r.frame - 1), s \in Validators}

\* The votes of an event as a root of one frame after the other; all has these roots.
RECURSIVE Vote(_, _, _, _)
Vote(B, all, cs, mine) ==
    IF mine = {} THEN B
    ELSE LET r == CHOOSE x \in mine : \A y \in mine : x.frame <= y.frame
             seen == {x \in all : x.frame + 1 = r.frame /\ x.id \in cs}
         IN  Vote(B \cup VotesOf(B, r, seen), all, cs, mine \ {r})

\* Build on node n, and the claim of the new event: an honest creator claims the frame that
\* Build fills in, a cheater may claim another.
Build(n, id, e, claim) ==
    LET cs == CausesOf(id, e)
        from == SelfParentFrame(e)
        built == CalcFrameIdx(node[n].roots, cs, from, from + MaxFrameStep)
        mine == {[id |-> id, frame |-> f, validator |-> e.creator] : f \in (from + 1)..claim}
    IN  /\ node[n].epoch = FirstEpoch
        /\ e.parents \subseteq node[n].events
        /\ e.creator = Creator[id]
        /\ claim \in IF e.creator \in Cheaters THEN 1..(built + 1) ELSE {built}
        /\ Connect(id, e)
        /\ frame' = [x \in Connected \cup {id} |-> IF x = id THEN claim ELSE frame[x]]
        /\ causes' = [x \in Connected \cup {id} |-> IF x = id THEN cs ELSE causes[x]]
        /\ ballots' = Vote(ballots, AllRoots \cup mine, cs, mine)
        /\ UNCHANGED <<node, disk>>

\* Mutant: any claim passes.
AnyFrameAccepted(s, id) == TRUE

\* Mutant: the frames below the claimed one are checked, but not the last.
FrameAcceptedShort(s, id) ==
    CalcFrameIdx(s.roots, causes[id], SelfParentFrame(dag[id]), frame[id] - 1) = frame[id]

\* checkAndSaveEvent's verdict on a claim.
FrameAccepted(s, id) ==
    CalcFrameIdx(s.roots, causes[id], SelfParentFrame(dag[id]), frame[id]) = frame[id]

\* An event is processed once its parents are; one of another epoch is not (epochcheck).
Processable(n, id) ==
    /\ node[n].epoch = FirstEpoch
    /\ id \in Connected \ node[n].events
    /\ dag[id].parents \subseteq node[n].events

Process(n, id) ==
    /\ Processable(n, id)
    /\ node' = [node EXCEPT ![n] =
          IF ~FrameAccepted(@, id) THEN @
          ELSE DecideFrames([@ EXCEPT !.events = @ \cup {id}, !.roots = @ \cup RootsOf(id)], TRUE)]
    /\ UNCHANGED <<dagVars, frame, causes, ballots, disk>>

\* Mutant: the stores are flushed one by one, and not LastDecidedState and the blocks.
FlushRoots(n) ==
    /\ disk[n] # node[n]
    /\ disk' = [disk EXCEPT ![n] = [@ EXCEPT !.events = node[n].events, !.roots = node[n].roots]]
    /\ UNCHANGED <<dagVars, frame, causes, ballots, node>>

\* The application flushes all stores at once, between events.
Flush(n) ==
    /\ disk[n] # node[n]
    /\ disk' = [disk EXCEPT ![n] = node[n]]
    /\ UNCHANGED <<dagVars, frame, causes, ballots, node>>

\* Bootstrap: the election catches up, from what the stores have.
Bootstrap(s) == DecideFrames(s, FALSE)

\* Mutant: the confirmed events are not read back.
RestartUnconfirmed(n) ==
    /\ node' = [node EXCEPT ![n] = Bootstrap([disk[n] EXCEPT !.confirmed = [x \in {} |-> 0]])]
    /\ UNCHANGED <<dagVars, frame, causes, ballots, disk>>

\* A restart: BootstrapWithOrderer sets the block callback after Bootstrap.
Restart(n) ==
    /\ node' = [node EXCEPT ![n] = Bootstrap(disk[n])]
    /\ UNCHANGED <<dagVars, frame, causes, ballots, disk>>

\* Reset: the application moves the node on to a new epoch.
Reset(n) ==
    /\ node[n].epoch = FirstEpoch
    /\ node' = [node EXCEPT ![n] = NewEpoch(@, FirstEpoch + 1)]
    /\ UNCHANGED <<dagVars, frame, causes, ballots, disk>>

Genesis ==
    [epoch |-> FirstEpoch, lastDecided |-> 0, events |-> {}, roots |-> {},
     confirmed |-> [x \in {} |-> 0], blocks |-> <<>>]

Init ==
    /\ DagInit
    /\ frame = [x \in {} |-> 0]
    /\ causes = [x \in {} |-> {}]
    /\ ballots = {}
    /\ node = [n \in Nodes |-> Genesis]
    /\ disk = [n \in Nodes |-> Genesis]

Next ==
    \/ \E n \in Nodes, id \in Ids, e \in Event, claim \in 1..MaxFrame : Build(n, id, e, claim)
    \/ \E n \in Nodes, id \in Ids : Process(n, id)
    \/ \E n \in Nodes : Flush(n) \/ Restart(n) \/ Reset(n)

Spec == Init /\ [][Next]_allVars
-----------------------------------------------------------------------------
(***************************************************************************)
(* The nodes deliver the same blocks in the same order: Atropos, cheaters  *)
(* and confirmed events, whatever the order of the events, the restarts    *)
(* and the claims of cheaters.                                             *)
(***************************************************************************)
SameBlocks ==
    \A m, n \in Nodes : \A i \in DOMAIN node[m].blocks \cap DOMAIN node[n].blocks :
       node[m].blocks[i] = node[n].blocks[i]

(***************************************************************************)
(* Blocks are numbered by frame without a gap, no event is in two of them, *)
(* and a block confirms all that its Atropos observes and no block before  *)
(* it has confirmed.  Its cheaters are cheaters: no honest validator is    *)
(* reported to the application.                                            *)
(***************************************************************************)
BlocksComplete ==
    \A n \in Nodes :
       LET bs == node[n].blocks
           Earlier(i) == UNION {bs[j].events : j \in 1..(i - 1)}
       IN  /\ \A i \in DOMAIN bs :
                 /\ bs[i].frame = i /\ bs[i].events = past[bs[i].atropos] \ Earlier(i)
                 /\ bs[i].cheaters \subseteq Cheaters
           /\ node[n].epoch = FirstEpoch => Len(bs) = node[n].lastDecided

(***************************************************************************)
(* What a node has is a function of the events it has processed, so a node *)
(* that restarted and one that did not, or two that got the events in      *)
(* different orders, cannot be told apart.                                 *)
(***************************************************************************)
StateFollowsEvents ==
    \A m, n \in Nodes :
       (node[m].events = node[n].events /\ node[m].epoch = FirstEpoch /\ node[n].epoch = FirstEpoch)
          => node[m] = node[n]

\* No node refuses the frame that another node's Build has given to an event.
BuiltFramesAccepted ==
    \A n \in Nodes, id \in Connected :
       Processable(n, id) /\ dag[id].creator \notin Cheaters => FrameAccepted(node[n], id)

(***************************************************************************)
(* The roots that nodes accept are those the election is proved for: a     *)
(* root observes a quorum of the frame before, and no two roots of a slot  *)
(* are both observed.                                                      *)
(***************************************************************************)
AcceptedRoots == UNION {node[n].roots : n \in Nodes}

RootsFitElection ==
    LET obs == {p \in AllObs : p[1] \in AcceptedRoots}
        observed == {p[2] : p \in obs}
    IN  /\ \A r \in AcceptedRoots : r.frame > 1 =>
              HasQuorum({p[2].validator : p \in {q \in obs : q[1] = r}})
        /\ \A x, y \in observed : V!SameSlot(x, y) => x = y
=============================================================================
