----------------------------- MODULE MCKeepBulk -----------------------------
EXTENDS KeepBulk
=============================================================================
