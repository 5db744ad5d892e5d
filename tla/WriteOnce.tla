----------------------------- MODULE WriteOnce -----------------------------
(***************************************************************************)
(* What a registry of submitted orders promises to the rest of the bot: a  *)
(* map in which an entry, once written, is neither changed nor removed.    *)
(***************************************************************************)
CONSTANTS
  Keys,     \* what entries are stored under
  Values,   \* what an entry may hold
  Absent    \* the content of a key without an entry

VARIABLE entries

TypeOK == entries \in [Keys -> Values \cup {Absent}]

Init == entries = [k \in Keys |-> Absent]

Put(k, v) ==
  /\ entries[k] = Absent
  /\ entries' = [entries EXCEPT ![k] = v]

Next == \E k \in Keys, v \in Values : Put(k, v)

Spec == Init /\ [][Next]_entries
=============================================================================
