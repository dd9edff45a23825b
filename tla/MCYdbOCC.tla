------------------------------ MODULE MCYdbOCC ------------------------------
(* Instances of YdbOCC for TLC.                                            *)
EXTENDS YdbOCC, TLC

NoBlockNumber == 1000

\* Transactions are told apart by what they did, values not at all.
Symmetry == Permutations(Txns) \cup Permutations(Values)
=============================================================================
