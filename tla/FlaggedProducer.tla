-------------------------- MODULE FlaggedProducer ---------------------------
(***************************************************************************)
(* flaggedproducer.Producer: databases that are written directly, and      *)
(* marked dirty before the first write since the last Flush.  The          *)
(* application does not write a database while it is being flushed, and    *)
(* has one writer: Dirty is tested and set without a lock.                 *)
(***************************************************************************)
EXTENDS FlushMarks

CONSTANT FlaggedNames

VARIABLES
    dbs,            \* the open databases: their Dirty flag
    putting,        \* the write between its mark and its data: <<name, batch>>
    marking         \* the databases left to the running Flush

flaggedVars == <<dbs, putting, marking>>

OpenFlaggedDB(n) ==
    /\ n \in FlaggedNames \ DOMAIN dbs /\ marking = {}
    /\ dbs' = (n :> FALSE) @@ dbs
    /\ disk' = Opened(n)
    /\ UNCHANGED <<putting, marking>>

\* Mutant: the flag is set and no mark written.
ModifiedInMemory(n) ==
    /\ dbs' = [dbs EXCEPT ![n] = TRUE]
    /\ UNCHANGED disk

\* modified()
Modified(n) ==
    /\ dbs' = [dbs EXCEPT ![n] = TRUE]
    /\ disk' = IF dbs[n] THEN disk ELSE MarkFlushID(n, Dirty(NoID))

FlaggedPut(n, batch) ==
    /\ n \in DOMAIN dbs /\ putting = <<>> /\ marking = {}
    /\ Modified(n)
    /\ putting' = <<n, batch>>
    /\ UNCHANGED marking

\* The mark could not be written: the flag is set all the same.
FlaggedPutFails(n) ==
    /\ n \in DOMAIN dbs /\ ~dbs[n] /\ putting = <<>> /\ marking = {}
    /\ dbs' = [dbs EXCEPT ![n] = TRUE]
    /\ UNCHANGED <<disk, putting, marking>>

FlaggedWrite ==
    /\ putting # <<>>
    /\ disk' = [disk EXCEPT ![putting[1]].data = Apply(putting[2], @)]
    /\ putting' = <<>>
    /\ UNCHANGED <<dbs, marking>>

FlaggedDrop(n) ==
    /\ n \in DOMAIN dbs /\ putting = <<>> /\ marking = {}
    /\ dbs' = [m \in DOMAIN dbs \ {n} |-> dbs[m]]
    /\ disk' = [m \in DOMAIN disk \ {n} |-> disk[m]]
    /\ UNCHANGED <<putting, marking>>

\* Flush writes the mark with Put, which marks the database dirty first.
FlaggedFlush ==
    /\ putting = <<>> /\ marking = {}
    /\ marking' = DOMAIN dbs
    /\ UNCHANGED <<disk, dbs, putting>>

FlaggedFlushMark(n) ==
    /\ n \in marking /\ ~dbs[n]
    /\ Modified(n)
    /\ UNCHANGED <<putting, marking>>

FlaggedFlushClean(n, id) ==
    /\ n \in marking /\ dbs[n]
    /\ disk' = MarkFlushID(n, Clean(id))
    /\ dbs' = [dbs EXCEPT ![n] = FALSE]
    /\ marking' = marking \ {n}
    /\ UNCHANGED putting

\* An error of Put, in modified() or after it, ends Flush.
FlaggedFlushFails(n) ==
    /\ n \in marking
    /\ dbs' = [dbs EXCEPT ![n] = TRUE]
    /\ marking' = {}
    /\ UNCHANGED <<disk, putting>>
=============================================================================
