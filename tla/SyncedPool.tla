----------------------------- MODULE SyncedPool -----------------------------
(***************************************************************************)
(* flushable.SyncedPool: databases whose writes stay in memory until Flush *)
(* writes them all, one database after the other, between marks.           *)
(***************************************************************************)
EXTENDS FlushMarks

CONSTANTS
    PoolNames,
    Batches         \* bound: the writes of the application: key (bytes) to value or Deleted

VARIABLES
    wrappers,       \* the open databases: their writes, and whether the real one is open
    queuedDrops,
    flush           \* the running Flush: its step, the databases left to it, its id, the
                    \* database being written and the keys of it that are yet to be

poolVars == <<wrappers, queuedDrops, flush>>

NoFlush == [step |-> "idle", todo |-> {}, id |-> NoID, writing |-> {}, rest |-> {}]
Flushing == flush.step # "idle"

\* A flushable without writes, over a database that is not open yet.
NewLazy == [modified |-> NoData, inited |-> FALSE]

Underlying(n) == IF wrappers[n].inited THEN Disk(n).data ELSE NoData
View(n) == Apply(wrappers[n].modified, Underlying(n))
-----------------------------------------------------------------------------
(***************************************************************************)
(* The merging iterator                                                    *)
(***************************************************************************)
Less(a, b) == ~IsPrefix(b, a) /\ (IsPrefix(a, b) \/ \E i \in DOMAIN a \cap DOMAIN b :
                  a[i] < b[i] /\ SubSeq(a, 1, i - 1) = SubSeq(b, 1, i - 1))
Sorted(ks) == SetToSortSeq(ks, Less)
From(ks, start) == {k \in ks : ~Less(k, start)}
Prefixed(ks, prefix) == {k \in ks : IsPrefix(prefix, k)}

\* Mutant: a deleted key does not hide that of the parent.
ItNextShown(it, modified, prefix) ==
    LET treeKey == Head(it.tree)
        parentKey == Head(it.parent)
        inPrefix(k) == IsPrefix(prefix, k)
        ok(k) == inPrefix(k) /\ (it.prev = <<>> \/ Less(it.prev, k))
    IN  IF it.tree # <<>> /\ (it.parent = <<>> \/ ~Less(parentKey, treeKey))
        THEN IF modified[treeKey] = Deleted
             THEN [it EXCEPT !.tree = Tail(@)]
             ELSE [it EXCEPT !.tree = IF inPrefix(treeKey) THEN Tail(@) ELSE <<>>,
                             !.prev = IF ok(treeKey) THEN treeKey ELSE @,
                             !.out = IF ok(treeKey) THEN Append(@, treeKey) ELSE @]
        ELSE [it EXCEPT !.parent = IF inPrefix(parentKey) THEN Tail(@) ELSE <<>>,
                        !.prev = IF ok(parentKey) THEN parentKey ELSE @,
                        !.out = IF ok(parentKey) THEN Append(@, parentKey) ELSE @]

\* One move of flushableIterator.Next: the tree of writes goes first.
ItNext(it, modified, prefix) ==
    LET treeKey == Head(it.tree)
        parentKey == Head(it.parent)
        inPrefix(k) == IsPrefix(prefix, k)
        ok(k) == inPrefix(k) /\ (it.prev = <<>> \/ Less(it.prev, k))
    IN  IF it.tree # <<>> /\ (it.parent = <<>> \/ ~Less(parentKey, treeKey))
        THEN IF modified[treeKey] = Deleted
             THEN [it EXCEPT !.tree = Tail(@), !.prev = treeKey]
             ELSE [it EXCEPT !.tree = IF inPrefix(treeKey) THEN Tail(@) ELSE <<>>,
                             !.prev = IF ok(treeKey) THEN treeKey ELSE @,
                             !.out = IF ok(treeKey) THEN Append(@, treeKey) ELSE @]
        ELSE [it EXCEPT !.parent = IF inPrefix(parentKey) THEN Tail(@) ELSE <<>>,
                        !.prev = IF ok(parentKey) THEN parentKey ELSE @,
                        !.out = IF ok(parentKey) THEN Append(@, parentKey) ELSE @]

\* NewIterator(prefix, start), and Next until it returns false.
Iterate(modified, data, prefix, start) ==
    LET new == [tree |-> Sorted(From(DOMAIN modified, prefix \o start)),
                parent |-> Sorted(From(Prefixed(DOMAIN data, prefix), prefix \o start)),
                prev |-> <<>>, out |-> <<>>]
        steps == Len(new.tree) + Len(new.parent)
        after[i \in 0..steps] ==
          IF i = 0 THEN new
          ELSE LET it == after[i - 1]
               IN  IF it.tree = <<>> /\ it.parent = <<>> THEN it ELSE ItNext(it, modified, prefix)
    IN  after[steps].out
-----------------------------------------------------------------------------
(***************************************************************************)
(* The callers.  OpenDB waits for a Flush, the writers only for the one    *)
(* database that is being written.                                         *)
(***************************************************************************)
OpenPoolDB(n) ==
    /\ ~Flushing /\ n \in PoolNames \ DOMAIN wrappers
    /\ wrappers' = (n :> NewLazy) @@ wrappers
    /\ UNCHANGED <<disk, queuedDrops, flush>>

\* GetUnderlying opens the real database.
GetUnderlying(n) ==
    /\ ~Flushing /\ n \in PoolNames
    /\ n \in DOMAIN wrappers => ~wrappers[n].inited
    /\ wrappers' = (n :> [modified |-> IF n \in DOMAIN wrappers THEN wrappers[n].modified ELSE NoData,
                          inited |-> TRUE]) @@ wrappers
    /\ disk' = Opened(n)
    /\ UNCHANGED <<queuedDrops, flush>>

\* Put, Delete or the Write of a batch.
PoolWrite(n, batch) ==
    /\ n \in DOMAIN wrappers /\ n \notin flush.writing
    /\ wrappers' = [wrappers EXCEPT ![n].modified = batch @@ @]
    /\ UNCHANGED <<disk, queuedDrops, flush>>

PoolDrop(n) ==
    /\ n \in DOMAIN wrappers \ queuedDrops
    /\ queuedDrops' = queuedDrops \cup {n}
    /\ UNCHANGED <<disk, wrappers, flush>>
-----------------------------------------------------------------------------
(***************************************************************************)
(* Flush.  Each of its loops is over the wrappers, in any order.           *)
(***************************************************************************)
Following == [drop |-> "dirty", dirty |-> "data", data |-> "clean", clean |-> "idle"]

\* The loop goes on with todo, or the next one begins.
Advance(step, todo, ws, id) ==
    LET next == Following[step]
    IN  IF todo # {} THEN [NoFlush EXCEPT !.step = step, !.todo = todo, !.id = id]
        ELSE IF next = "idle" \/ ws = {} THEN NoFlush
        ELSE [NoFlush EXCEPT !.step = next, !.todo = ws, !.id = id]

PoolFlush(id) ==
    /\ ~Flushing
    /\ flush' = Advance("drop", queuedDrops, DOMAIN wrappers, id)
    /\ queuedDrops' = {}
    /\ UNCHANGED <<disk, wrappers>>

\* RealClose, and Drop of the real database; before it is open there is only devnull,
\* and a drop queued twice finds no wrapper.
FlushDrop(n) ==
    /\ flush.step = "drop" /\ n \in flush.todo
    /\ wrappers' = [m \in DOMAIN wrappers \ {n} |-> wrappers[m]]
    /\ disk' = IF n \in DOMAIN wrappers /\ wrappers[n].inited THEN [m \in DOMAIN disk \ {n} |-> disk[m]] ELSE disk
    /\ flush' = Advance("drop", flush.todo \ {n}, DOMAIN wrappers', flush.id)
    /\ UNCHANGED queuedDrops

FlushInit(n) ==
    /\ flush.step = "dirty" /\ n \in flush.todo /\ ~wrappers[n].inited
    /\ wrappers' = [wrappers EXCEPT ![n].inited = TRUE]
    /\ disk' = Opened(n)
    /\ UNCHANGED <<queuedDrops, flush>>

FlushDirty(n) ==
    /\ flush.step = "dirty" /\ n \in flush.todo /\ wrappers[n].inited
    /\ disk' = MarkFlushID(n, Dirty(flush.id))
    /\ flush' = Advance("dirty", flush.todo \ {n}, DOMAIN wrappers, flush.id)
    /\ UNCHANGED <<wrappers, queuedDrops>>

Rest(n) == IF n \in flush.writing THEN flush.rest ELSE DOMAIN wrappers[n].modified
Part(n, ks) == [k \in ks |-> wrappers[n].modified[k]]

\* Flushable.flush writes the keys in order, in one or more batches.
FlushPart(n) ==
    /\ flush.step = "data" /\ n \in flush.todo /\ flush.writing \subseteq {n}
    /\ \E ks \in SUBSET Rest(n) \ {{}, Rest(n)} :
          /\ \A k \in ks, x \in Rest(n) \ ks : Less(k, x)
          /\ disk' = [disk EXCEPT ![n].data = Apply(Part(n, ks), @)]
          /\ flush' = [flush EXCEPT !.writing = {n}, !.rest = Rest(n) \ ks]
    /\ UNCHANGED <<wrappers, queuedDrops>>

\* Mutant: the batch that is not full is not written.
FlushLastUnwritten(n) ==
    /\ flush.step = "data" /\ n \in flush.todo /\ flush.writing \subseteq {n}
    /\ wrappers' = [wrappers EXCEPT ![n].modified = NoData]
    /\ flush' = Advance("data", flush.todo \ {n}, DOMAIN wrappers, flush.id)
    /\ UNCHANGED <<disk, queuedDrops>>

\* The last batch; then the tree of writes is cleared.
FlushLast(n) ==
    /\ flush.step = "data" /\ n \in flush.todo /\ flush.writing \subseteq {n}
    /\ disk' = [disk EXCEPT ![n].data = Apply(Part(n, Rest(n)), @)]
    /\ wrappers' = [wrappers EXCEPT ![n].modified = NoData]
    /\ flush' = Advance("data", flush.todo \ {n}, DOMAIN wrappers, flush.id)
    /\ UNCHANGED queuedDrops


FlushClean(n) ==
    /\ flush.step = "clean" /\ n \in flush.todo
    /\ disk' = MarkFlushID(n, Clean(flush.id))
    /\ flush' = Advance("clean", flush.todo \ {n}, DOMAIN wrappers, flush.id)
    /\ UNCHANGED <<wrappers, queuedDrops>>

\* An error of a database ends Flush where it is.  A database that could not be
\* closed has lost its wrapper, and the drops that were left are forgotten.
FlushFails(n) ==
    /\ Flushing /\ n \in flush.todo \cap DOMAIN wrappers
    /\ flush' = NoFlush
    /\ wrappers' = IF flush.step = "drop" THEN [m \in DOMAIN wrappers \ {n} |-> wrappers[m]] ELSE wrappers
    /\ UNCHANGED <<disk, queuedDrops>>
=============================================================================
