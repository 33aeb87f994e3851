---------------------------- MODULE MCDatabases -----------------------------
(***************************************************************************)
(* Two databases of the pool and one of the flagged producer.              *)
(***************************************************************************)
EXTENDS Databases

MCBatches == {<<1>> :> "x" @@ <<2>> :> "x", <<1>> :> Deleted @@ <<1, 2>> :> "y"}
MCRanges == {<<<<>>, <<>>>>, <<<<1>>, <<>>>>, <<<<1>>, <<2>>>>, <<<<>>, <<1, 2>>>>}
MCSymmetry == Permutations(PoolNames)
=============================================================================
