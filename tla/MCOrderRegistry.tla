-------------------------- MODULE MCOrderRegistry --------------------------
(***************************************************************************)
(* The registry and LogState side by side: two structures that goroutines  *)
(* share without a lock.  They have nothing to do with each other, and one *)
(* run checks both.                                                        *)
(***************************************************************************)
EXTENDS OrderRegistry, LogState

MCInit == Init /\ LogInit

MCNext ==
  \/ Next /\ UNCHANGED logVars
  \/ LogNext /\ UNCHANGED vars

MCSpec == MCInit /\ [][MCNext]_<<vars, logVars>> /\ LogFairness
=============================================================================
