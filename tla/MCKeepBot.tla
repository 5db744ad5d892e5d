----------------------------- MODULE MCKeepBot -----------------------------
EXTENDS KeepBot
=============================================================================
