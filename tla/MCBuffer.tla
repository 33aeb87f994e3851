------------------------------ MODULE MCBuffer ------------------------------
(***************************************************************************)
(* Every DAG of up to four events, of which two arrive twice.              *)
(***************************************************************************)
EXTENDS EventsBuffer

MCDags == {p \in [Ids -> SUBSET Ids] : \A i \in Ids : \A j \in p[i] : j < i}
MCEventOf == [a \in Arrivals |-> IF a <= 4 THEN a ELSE a - 2]
MCSize == [i \in Ids |-> IF i = 2 THEN 2 ELSE 1]
MCLimit == [num |-> 2, size |-> 3]
=============================================================================
