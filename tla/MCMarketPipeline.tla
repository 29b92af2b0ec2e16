-------------------------- MODULE MCMarketPipeline --------------------------
(***************************************************************************)
(* An instance of MarketPipeline.  Its run checks no liveness, so runs and   *)
(* projects may be exchanged for one another.                              *)
(***************************************************************************)
EXTENDS MarketPipeline, TLC

MCSymmetry == Permutations(Runs) \cup Permutations(Projects)
=============================================================================
