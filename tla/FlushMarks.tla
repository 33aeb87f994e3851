----------------------------- MODULE FlushMarks -----------------------------
(***************************************************************************)
(* What the databases hold on disk, and the marks by which a restart can   *)
(* tell whether they are all from the same Flush.                          *)
(***************************************************************************)
EXTENDS Integers, SequencesExt

CONSTANTS
    Deleted,        \* the value of a deleted key in a batch
    NoMark, NoID

VARIABLE disk       \* the existing databases: their data and their mark

NoData == [k \in {} |-> NoID]
NewDB == [data |-> NoData, mark |-> NoMark]
Dirty(id) == [dirty |-> TRUE, id |-> id]
Clean(id) == [dirty |-> FALSE, id |-> id]

\* A batch of writes, applied to data.
Apply(batch, data) ==
    LET all == batch @@ data
    IN  [k \in {x \in DOMAIN all : all[x] # Deleted} |-> all[k]]

Disk(n) == IF n \in DOMAIN disk THEN disk[n] ELSE NewDB
Opened(n) == (n :> Disk(n)) @@ disk
MarkFlushID(n, mark) == [disk EXCEPT ![n].mark = mark]

\* The outcome does not depend on the order in which the databases are looked at.
CheckDBsSynced(names, flushID) ==
    LET marks == {disk[n].mark : n \in names} \ {NoMark}
        id == IF flushID # NoID \/ marks = {} THEN flushID ELSE (CHOOSE m \in marks : TRUE).id
        nonInit == \E n \in names : disk[n].mark = NoMark
    IN  [ok |-> /\ ~ \E m \in marks : m.dirty \/ m.id # id
                /\ ~(id # NoID /\ nonInit),
         id |-> id]
=============================================================================
