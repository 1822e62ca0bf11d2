----------------------------- MODULE MCClient -----------------------------
(* A small instance of Client for TLC.                                     *)
EXTENDS Client

\* The trader buys two, sells one.
Buys == <<2, -1>>

\* A resting order is filled, or reduces or closes what is held.
Resting == {-1, 1}
=============================================================================
