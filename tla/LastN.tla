------------------------------- MODULE LastN -------------------------------
(***************************************************************************)
(* What a Historian promises its callback: the samples it is shown are the *)
(* last N that were recorded, oldest first.                                *)
(***************************************************************************)
EXTENDS Naturals, Sequences

CONSTANTS N, Samples

VARIABLE window

Record(x) ==
  \/ /\ Len(window) < N
     /\ window' = Append(window, x)
  \/ /\ Len(window) = N
     /\ window' = Append(Tail(window), x)

Init == window = <<>>

Next == \E x \in Samples : Record(x)

Spec == Init /\ [][Next]_window
=============================================================================
