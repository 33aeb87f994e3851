----------------------------- MODULE MCFetcher ------------------------------
(***************************************************************************)
(* Two peers announce more than the cache can hold, or the same item.      *)
(***************************************************************************)
EXTENDS Fetcher

MCCalls == {[peer |-> "p", ids |-> <<1>>], [peer |-> "q", ids |-> <<1, 2>>]}
=============================================================================
