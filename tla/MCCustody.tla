------------------------------ MODULE MCCustody ------------------------------
(* Instances of Custody for TLC.                                            *)
EXTENDS Custody, TLC

\* copies of the service are alike
Alike == Permutations(Services)
=============================================================================
