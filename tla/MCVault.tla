------------------------------ MODULE MCVault ------------------------------
EXTENDS Vault, TLC

\* The shield's threads run the same code.
Symmetry == Permutations(Shields)

\* After a restart one more name is drawn; two are in the first run.
LaterRunsAddOne == run = 1 \/ count <= 1
=============================================================================
