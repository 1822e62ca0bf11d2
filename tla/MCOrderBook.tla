---------------------------- MODULE MCOrderBook ----------------------------
(* Model checking of OrderBook and of its refinement of MatchSpec.          *)
EXTENDS OrderBook, TLC

\* ids are only compared with each other
IdSymmetry == Permutations(OrderIds)
=============================================================================
