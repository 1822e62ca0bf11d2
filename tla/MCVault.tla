------------------------------ MODULE MCVault ------------------------------
(* Results for TLC.                                                         *)
EXTENDS VaultPair

Losses == {-5000, -1100, -150}
\* one of them is exactly what a junior tranche of one deposit holds
ExactLosses == {-5000, -200}
=============================================================================
