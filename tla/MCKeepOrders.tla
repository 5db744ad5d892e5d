---------------------------- MODULE MCKeepOrders ----------------------------
EXTENDS KeepOrders, TLC

Symmetry ==
  Permutations(Exchanges) \cup Permutations(Ids)
    \cup Permutations(Callers) \cup Permutations(Observers)
=============================================================================
