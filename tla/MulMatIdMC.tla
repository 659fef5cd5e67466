----------------------------- MODULE MulMatIdMC -----------------------------
(***************************************************************************)
(* MulMatId with three experts and a store with room for two of them, so   *)
(* that consecutive products evict each other's experts and a product that *)
(* is routed to all three fails.  With NRows = 128 and two workers an      *)
(* expert with two rows has 8 chunks, which the workers claim from the     *)
(* counter, and one with one row has 2 chunks, one per worker.             *)
(***************************************************************************)
EXTENDS MulMatId

TwoFit == {S \in SUBSET Block : Cardinality(S) <= 2}
=============================================================================
