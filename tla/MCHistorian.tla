---------------------------- MODULE MCHistorian ----------------------------
EXTENDS Historian

MCTimes == -3 .. 7   \* a zero date lies before the epoch of Unix time
=============================================================================
