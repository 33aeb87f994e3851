------------------------------ MODULE MCStream ------------------------------
(***************************************************************************)
(* A range of two items, one of which comes late, requested item by item.  *)
(***************************************************************************)
EXTENDS Stream

Other1 == [session |-> 1, peer |-> Other, start |-> 1, stop |-> 4, num |-> 5, chunks |-> 1]
MCOtherRequests == {Other1, [Other1 EXCEPT !.start = 2]}
=============================================================================
