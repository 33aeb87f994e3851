---------------------------- MODULE MCProcessor -----------------------------
(***************************************************************************)
(* Batches of two events, one of which needs the other batch.              *)
(***************************************************************************)
EXTENDS Processor

MCDags == {[i \in Ids |-> {i - 1} \cap Ids]}
MCEventOf == [a \in Arrivals |-> IF a <= 3 THEN a ELSE 2]
MCSize == [i \in Ids |-> 1]
MCSizes == [i \in Ids |-> IF i = 1 THEN 1 ELSE 2]
MCLimit == [num |-> 1, size |-> 2]
MCEventsIn == [b \in Batches |-> CASE b = "A" -> <<1, 3>> [] b = "B" -> <<2>> [] OTHER -> <<4>>]
MCBatches == {"A", "B", "C"}
MCTwoBatches == {"A", "B"}
MCAsk == [b \in Batches |-> Total(EventsIn[b])]
MCCapacity == [num |-> 3, size |-> 3]
MCTight == [num |-> 2, size |-> 3]
=============================================================================
