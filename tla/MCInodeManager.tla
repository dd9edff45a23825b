--------------------------- MODULE MCInodeManager ---------------------------
(* Instances of InodeManager for TLC.                                      *)
EXTENDS InodeManager, TLC

NoBlockNumber == 1000

\* No operation looks into the contents of a block of a file.
Symmetry == Permutations(Contents)
=============================================================================
