----------------------------- MODULE Databases ------------------------------
(***************************************************************************)
(* A process with a SyncedPool and a flagged producer, which multidb's     *)
(* Flush flushes one after the other, in any order.  The process may crash *)
(* at any step; what it has written to disk stays.  At a restart each      *)
(* producer is initialized with the names of its databases, and the id     *)
(* that the first has found is given to the second.                        *)
(***************************************************************************)
EXTENDS SyncedPool, FlaggedProducer

CONSTANTS MaxFlushes, MaxWrites, MaxDrops, MaxFaults,      \* bounds
          Ranges        \* bound: the prefixes and starts of iterators

VARIABLES
    job,            \* the running Flush: its id and the producers left to it
    up,             \* whether the process runs, is down, or was refused
    saved,          \* what each Flush has written, to databases not dropped since
    failed,         \* the last Flush has failed
    leaked,         \* a Flush failed to drop a database
    unmarked,       \* the databases that are flagged and could not be marked
    writes, drops, flushes,
    faults          \* crashes and errors

ghosts == <<saved, failed, leaked, unmarked>>
counters == <<writes, drops, flushes, faults>>
allVars == <<disk, poolVars, flaggedVars, job, up, ghosts, counters>>

NoJob == [id |-> NoID, left |-> {}]
Running == up = "up"
IDs == 1..MaxFlushes

Fault == faults < MaxFaults /\ faults' = faults + 1

Save(id, n) == [saved EXCEPT ![id] = (n :> disk'[n].data) @@ @]
Forget(n) == [id \in IDs |-> [m \in DOMAIN saved[id] \ {n} |-> saved[id][m]]]

\* A step of producer who, its last one if done; after that of the last producer
\* Flush is complete.
StepOf(who, done) ==
    LET complete == done /\ job.left = {who}
    IN  /\ job' = CASE complete -> NoJob
                  [] done /\ ~complete -> [job EXCEPT !.left = @ \ {who}]
                  [] OTHER -> job
        /\ failed' = (failed /\ ~complete)
-----------------------------------------------------------------------------
Open(n) ==
    /\ Running
    /\ \/ (OpenPoolDB(n) \/ GetUnderlying(n)) /\ UNCHANGED flaggedVars
       \/ OpenFlaggedDB(n) /\ UNCHANGED poolVars
    /\ UNCHANGED <<job, up, ghosts, counters>>

Write(n, batch) ==
    /\ Running /\ writes < MaxWrites
    /\ writes' = writes + 1
    /\ \/ PoolWrite(n, batch) /\ UNCHANGED flaggedVars
       \/ FlaggedPut(n, batch) /\ UNCHANGED poolVars
    /\ UNCHANGED <<job, up, ghosts, drops, flushes, faults>>

WriteFails(n) ==
    /\ Running /\ Fault
    /\ FlaggedPutFails(n)
    /\ unmarked' = unmarked \cup {n}
    /\ UNCHANGED <<poolVars, job, up, saved, failed, leaked, writes, drops, flushes>>

WriteData ==
    /\ Running /\ FlaggedWrite
    /\ UNCHANGED <<poolVars, job, up, ghosts, counters>>

Drop(n) ==
    /\ Running /\ drops < MaxDrops
    /\ drops' = drops + 1
    /\ \/ PoolDrop(n) /\ UNCHANGED <<flaggedVars, saved, unmarked>>
       \/ FlaggedDrop(n) /\ saved' = Forget(n) /\ unmarked' = unmarked \ {n} /\ UNCHANGED poolVars
    /\ UNCHANGED <<job, up, failed, leaked, writes, flushes, faults>>

\* Every Flush has an id of its own.
Flush ==
    /\ Running /\ job = NoJob /\ flushes < MaxFlushes
    /\ flushes' = flushes + 1
    /\ job' = [id |-> flushes', left |-> {"pool", "flagged"}]
    /\ UNCHANGED <<disk, poolVars, flaggedVars, up, ghosts, writes, drops, faults>>

BeginPool ==
    /\ Running /\ "pool" \in job.left /\ marking = {}
    /\ PoolFlush(job.id)
    /\ StepOf("pool", flush' = NoFlush)
    /\ UNCHANGED <<flaggedVars, up, saved, leaked, unmarked, counters>>

PoolStep(n) ==
    /\ Running
    /\ \/ /\ FlushDrop(n)
          /\ StepOf("pool", flush' = NoFlush)
          /\ saved' = Forget(n)
          /\ UNCHANGED <<leaked, unmarked>>
       \/ FlushInit(n) /\ UNCHANGED <<job, ghosts>>
       \/ FlushDirty(n) /\ UNCHANGED <<job, ghosts>>
       \/ FlushPart(n) /\ UNCHANGED <<job, ghosts>>
       \/ /\ FlushLast(n)
          /\ saved' = Save(flush.id, n)
          /\ UNCHANGED <<job, failed, leaked, unmarked>>
       \/ /\ FlushClean(n)
          /\ StepOf("pool", flush' = NoFlush)
          /\ UNCHANGED <<saved, leaked, unmarked>>
    /\ UNCHANGED <<flaggedVars, up, counters>>

BeginFlagged ==
    /\ Running /\ "flagged" \in job.left /\ ~Flushing
    /\ FlaggedFlush
    /\ StepOf("flagged", DOMAIN dbs = {})
    /\ UNCHANGED <<poolVars, up, saved, leaked, unmarked, counters>>

FlaggedStep(n) ==
    /\ Running
    /\ \/ FlaggedFlushMark(n) /\ UNCHANGED <<job, ghosts>>
       \/ /\ FlaggedFlushClean(n, job.id)
          /\ saved' = Save(job.id, n)
          /\ unmarked' = unmarked \ {n}
          /\ StepOf("flagged", marking' = {})
          /\ UNCHANGED leaked
    /\ UNCHANGED <<poolVars, up, counters>>

\* The error of one producer ends Flush.
StepFails(n) ==
    /\ Running /\ Fault
    /\ \/ /\ FlushFails(n)
          /\ leaked' = (leaked \/ flush.step = "drop")
          /\ UNCHANGED <<flaggedVars, unmarked>>
       \/ /\ FlaggedFlushFails(n)
          /\ unmarked' = IF dbs[n] THEN unmarked ELSE unmarked \cup {n}
          /\ UNCHANGED <<poolVars, leaked>>
    /\ job' = NoJob /\ failed' = TRUE
    /\ UNCHANGED <<up, saved, writes, drops, flushes>>
-----------------------------------------------------------------------------
OnDisk(names) == DOMAIN disk \cap names

\* Initialize of the two producers, in the order of a map.
Orders == {<<PoolNames, FlaggedNames>>, <<FlaggedNames, PoolNames>>}
Checked(order) ==
    LET first == CheckDBsSynced(OnDisk(order[1]), NoID)
        second == CheckDBsSynced(OnDisk(order[2]), first.id)
    IN  [ok |-> first.ok /\ second.ok, id |-> second.id]

\* The process ends: the memory is lost.
Down ==
    /\ up' = "down"
    /\ wrappers' = <<>> /\ dbs' = <<>>
    /\ queuedDrops' = {} /\ putting' = <<>> /\ marking' = {}
    /\ flush' = NoFlush /\ job' = NoJob
    /\ UNCHANGED <<disk, ghosts, writes, drops, flushes>>

Crash ==
    /\ Running /\ Fault
    /\ Down

\* Close of the producers; nothing is flushed.
Close ==
    /\ Running /\ job = NoJob /\ putting = <<>> /\ Fault
    /\ Down

Initialize ==
    /\ up = "down"
    /\ \E order \in Orders : up' = IF Checked(order).ok THEN "up" ELSE "refused"
    /\ wrappers' = [n \in OnDisk(PoolNames) |-> [modified |-> NoData, inited |-> TRUE]]
    /\ dbs' = [n \in OnDisk(FlaggedNames) |-> FALSE]
    /\ failed' = FALSE /\ leaked' = FALSE
    /\ UNCHANGED <<disk, queuedDrops, flush, putting, marking, job, saved, unmarked, counters>>

Init ==
    /\ disk = <<>> /\ wrappers = <<>> /\ dbs = <<>>
    /\ queuedDrops = {} /\ flush = NoFlush
    /\ putting = <<>> /\ marking = {} /\ job = NoJob
    /\ up = "down"
    /\ saved = [id \in IDs |-> NoData] /\ failed = FALSE /\ leaked = FALSE /\ unmarked = {}
    /\ writes = 0 /\ drops = 0 /\ faults = 0 /\ flushes = 0
Names == PoolNames \cup FlaggedNames

Next ==
    \/ \E n \in Names : Open(n) \/ Drop(n) \/ WriteFails(n) \/ PoolStep(n) \/ FlaggedStep(n) \/ StepFails(n)
    \/ \E n \in Names, batch \in Batches : Write(n, batch)
    \/ WriteData \/ Flush \/ BeginPool \/ BeginFlagged
    \/ Close \/ Crash \/ Initialize

Spec == Init /\ [][Next]_allVars
-----------------------------------------------------------------------------
\* The producer has a database that was flushed once, or none at all.
Started(names, open) ==
    open \cup OnDisk(names) # {} => \E n \in OnDisk(names) : disk[n].mark # NoMark

(***************************************************************************)
(* Wherever the process crashes, Initialize accepts the databases only if  *)
(* each of them holds what one and the same Flush has left in it, none is  *)
(* missing and none was still to be flushed.  The exceptions: a database   *)
(* dropped since (flush drops before it marks), one whose dirty mark could *)
(* not be written, and a producer none of whose databases has a mark yet.  *)
(***************************************************************************)
AcceptedIsFlushed ==
    \A order \in Orders : LET found == Checked(order) IN
       (found.ok /\ unmarked = {}) =>
          \/ found.id = NoID /\ \A n \in DOMAIN disk : disk[n].data = NoData
          \/ ~(Started(PoolNames, DOMAIN wrappers) /\ Started(FlaggedNames, DOMAIN dbs))
          \/ /\ [n \in DOMAIN disk |-> disk[n].data] = saved[found.id]
             /\ job.id = found.id => /\ "pool" \in job.left => wrappers = <<>>
                                     /\ "flagged" \in job.left => dbs = <<>>


(***************************************************************************)
(* An iterator over the writes and the real database returns, in order,    *)
(* the keys that Get finds, whatever its prefix and its start.             *)
(***************************************************************************)
IteratorIsExact ==
    \A n \in DOMAIN wrappers \ flush.writing : \A r \in Ranges :
       Iterate(wrappers[n].modified, Underlying(n), r[1], r[2]) =
          Sorted(From(Prefixed(DOMAIN View(n), r[1]), r[1] \o r[2]))

(***************************************************************************)
(* No step of Flush, failed or not, changes what is read from a database,  *)
(* unless it drops it (or a database reappears that could not be dropped). *)
(***************************************************************************)
ReadsSurviveFlush ==
    [][\A n \in DOMAIN wrappers \cap DOMAIN wrappers' :
          (writes' = writes /\ ~leaked) => View(n)' = View(n)]_allVars
=============================================================================
