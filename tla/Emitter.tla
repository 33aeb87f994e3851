------------------------------ MODULE Emitter -------------------------------
(***************************************************************************)
(* emitter/ancestor: which events a new event should have as parents.  The *)
(* quorum indexer follows the vector clocks of the connected events, and   *)
(* prefers the event that brings most news of what a quorum does not       *)
(* observe yet; the payload indexer prefers the event with most payload    *)
(* behind it.                                                              *)
(*                                                                         *)
(* The application tells both of every event it connects, and chooses      *)
(* parents between two events.                                             *)
(***************************************************************************)
EXTENDS VecIndex, SequencesExt

CONSTANTS
    Payload         \* of each event

VARIABLES
    matrix,         \* globalMatrix: what the last event of each creator observes of each validator
    selfParentSeqs, \* the same of the node's own last event
    cached,         \* medians and the metrics of the search strategy, or Dirty
    payloads,       \* payloadLamports
    chosen          \* the last choice

emitterVars == <<matrix, selfParentSeqs, cached, payloads, chosen>>

Dirty == [median |-> <<>>, metrics |-> <<>>]
NotChosen == [existing |-> <<>>, options |-> {}, parents |-> <<>>]

\* seqOf: a validator that is seen to fork is ahead of all others.
ForkSeq == 2147483646
ObservedSeq(x) == IF x = ForkDetected THEN ForkSeq ELSE x.seq

\* What an event observes of each validator.
Observed(ix, id) == [v \in Validators |-> ObservedSeq(Merged(ix, id, v))]

\* wmedian.Of: the values in their order, up to the one that completes the weight.
MedianOf(values, stop) ==
    LET weight[i \in 0..Len(values)] ==
          IF i = 0 THEN 0 ELSE weight[i - 1] + values[i].weight
    IN  values[Min({i \in DOMAIN values : weight[i] >= stop})]

\* The sequence number a quorum has reached, by the row of a validator in the matrix.
MedianSeq(row) ==
    LET order == SetToSortSeq(Validators, LAMBDA u, v : row[u] > row[v] \/ (row[u] = row[v] /\ u < v))
        pairs == [i \in DOMAIN order |-> [seq |-> row[order[i]], weight |-> Weight[order[i]]]]
    IN  MedianOf(pairs, Quorum).seq

\* recacheState, if dirty: new medians, and a search strategy with an empty cache.
Recached ==
    IF cached # Dirty THEN cached
    ELSE [median |-> [v \in Validators |-> MedianSeq(matrix[v])], metrics |-> [x \in {} |-> 0]]

\* The metric that the application gives to an update, as in the test of the package.
Capped(diff, v) == (IF diff > 2 THEN 2 ELSE diff) * Weight[v]

DiffMetric(median, current, update, v) ==
    CASE update <= median \/ update <= current -> 0
      [] update > median /\ update > current /\ median < current ->
            Capped(update - median, v) - Capped(current - median, v)
      [] OTHER -> Capped(update - median, v)

SumOf(f) == FoldFunction(+, 0, f)

\* QuorumIndexer.GetMetricOf
QuorumMetric(median, id) ==
    SumOf([v \in Validators |->
             DiffMetric(median[v], selfParentSeqs[v], Observed(index, id)[v], v)])

\* MetricCache.GetMetricOf of each option: what is cached is not computed again.
Metrics(c, options) ==
    [x \in DOMAIN c.metrics \cup options |->
        IF x \in DOMAIN c.metrics THEN c.metrics[x] ELSE QuorumMetric(c.median, x)]

\* PayloadIndexer.GetMetricOf
PayloadMetric(id) == IF id \in DOMAIN payloads THEN payloads[id] ELSE 0

\* MetricStrategy.Choose: the first of the heaviest, in an order that is random.
Best(metric, options) == {x \in options : \A y \in options : metric[y] <= metric[x]}
-----------------------------------------------------------------------------
\* Mutant: what is cached is not invalidated.
ProcessEventClean(id, e) ==
    /\ matrix' = [v \in Validators |-> [matrix[v] EXCEPT ![e.creator] = Observed(index', id)[v]]]
    /\ selfParentSeqs' = IF e.creator = Builder THEN Observed(index', id) ELSE selfParentSeqs
    /\ UNCHANGED cached

\* QuorumIndexer.ProcessEvent.  What was cached is not read any more once it is dirty.
ProcessEvent(id, e) ==
    /\ matrix' = [v \in Validators |-> [matrix[v] EXCEPT ![e.creator] = Observed(index', id)[v]]]
    /\ selfParentSeqs' = IF e.creator = Builder THEN Observed(index', id) ELSE selfParentSeqs
    /\ cached' = Dirty

\* PayloadIndexer.ProcessEvent, with room for all events in its cache.
ProcessPayload(id, e) ==
    LET metric == Payload[id] + Max({0} \cup {PayloadMetric(p) : p \in e.parents})
    IN  payloads' = IF metric = 0 THEN payloads
                    ELSE [x \in DOMAIN payloads \cup {id} |-> IF x = id THEN metric ELSE payloads[x]]

\* One more parent by a strategy, unless no option is left.
Pick(metric, options) == IF options = {} THEN {<<>>} ELSE {<<x>> : x \in Best(metric, options)}

\* ChooseParents with both strategies, the quorum one first.
ChooseParents(existing, options) ==
    LET c == Recached
        free == options \ ToSet(existing)
        metrics == Metrics(c, free)
    IN  /\ \E byQuorum \in Pick(metrics, free) :
           LET left == free \ ToSet(byQuorum)
           IN  \E byPayload \in Pick([x \in left |-> PayloadMetric(x)], left) :
                  chosen' = [existing |-> existing, options |-> options,
                             parents |-> existing \o byQuorum \o byPayload]
        /\ cached' = [c EXCEPT !.metrics = metrics]
        /\ UNCHANGED <<dagVars, vecVars, matrix, selfParentSeqs, payloads>>

EmitterInit ==
    /\ Init
    /\ matrix = [v \in Validators |-> [u \in Validators |-> 0]]
    /\ selfParentSeqs = [v \in Validators |-> 0]
    /\ cached = Dirty /\ payloads = [x \in {} |-> 0] /\ chosen = NotChosen

\* The application connects an event and tells the indexers.
ProcessAndIndex(id, e) ==
    Process(id, e) /\ ProcessEvent(id, e) /\ ProcessPayload(id, e) /\ chosen' = NotChosen

BuildOnly(e) == Build(e) /\ UNCHANGED emitterVars

\* The options are the application's: the events that nobody builds on yet, or more.
Heads == {x \in Connected : \A y \in Connected : x \notin dag[y].parents}
Existing == IF By(Builder) = {} THEN <<>> ELSE <<Max(By(Builder))>>

EmitterNext ==
    \/ \E id \in Ids, e \in Event : ProcessAndIndex(id, e)
    \/ \E e \in Event : BuildOnly(e)
    \/ \E options \in SUBSET Connected : ChooseParents(Existing, options)
-----------------------------------------------------------------------------
(***************************************************************************)
(* Of the DAG, not of the indexer: what an event observes of v, what a     *)
(* quorum observes of v in their last events, and the payload of the       *)
(* heaviest chain of events below an event.                                *)
(***************************************************************************)
Observes(a, v) ==
    IF SeesFork(a, v) THEN ForkSeq
    ELSE Max({0} \cup {dag[x].seq : x \in {y \in past[a] : dag[y].creator = v}})

Latest(u, v) == IF By(u) = {} THEN 0 ELSE Observes(Max(By(u)), v)

QuorumObserves(v) ==
    Max({n \in {Latest(u, v) : u \in Validators} : HasQuorum({u \in Validators : Latest(u, v) >= n})})

News(a) ==
    SumOf([v \in Validators |-> DiffMetric(QuorumObserves(v), Latest(Builder, v), Observes(a, v), v)])

Behind(a) ==
    Max({SumOf([x \in C |-> Payload[x]]) :
           C \in {D \in SUBSET past[a] : \A x, y \in D : x \in past[y] \/ y \in past[x]}})

(***************************************************************************)
(* The parents that are chosen are different options: the one with most    *)
(* news of what no quorum observes, by the DAG as it is when they are      *)
(* chosen, then the one with most payload behind it.                       *)
(***************************************************************************)
ParentsAreBest ==
    LET n == Len(chosen.existing)
        left(i) == chosen.options \ ToSet(SubSeq(chosen.parents, 1, i - 1))
    IN  /\ IsInjective(chosen.parents) /\ Len(chosen.parents) <= n + 2
        /\ Len(chosen.parents) < n + 2 => chosen.options \subseteq ToSet(chosen.parents)
        /\ \A i \in n + 1 .. Len(chosen.parents) :
              /\ chosen.parents[i] \in left(i)
              /\ \A y \in left(i) : IF i = n + 1 THEN News(y) <= News(chosen.parents[i])
                                                 ELSE Behind(y) <= Behind(chosen.parents[i])
=============================================================================
