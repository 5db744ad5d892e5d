------------------------- MODULE MCBalancesStrategy -------------------------
EXTENDS BalancesStrategy
=============================================================================
