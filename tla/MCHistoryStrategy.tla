-------------------------- MODULE MCHistoryStrategy --------------------------
EXTENDS HistoryStrategy, TLC

Symmetry == Permutations(Exchanges) \cup Permutations(Adders)
=============================================================================
