------------------------------ MODULE MCUpdater ------------------------------
EXTENDS Updater, TLC

\* The addresses are alike if all of them, or none, can be resolved.
Symmetry == Permutations(Servers)
=============================================================================
