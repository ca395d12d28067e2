---------------------------- MODULE MCPoolLists ----------------------------
EXTENDS PoolLists, TLC

\* What malloc returns makes no difference.
NodeSymmetry == Permutations(Nodes)
=============================================================================
