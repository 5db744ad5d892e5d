--------------------------- MODULE HistoryStrategy ---------------------------
(***************************************************************************)
(* HistoryStrategy (strategy_history.go): two maps from exchanges to their *)
(* historians, one per kind of event.  Init and AddHistorian write them    *)
(* under a mutex; fire reads them without it.  Keep.Run calls Init and     *)
(* then the On*() handlers of an exchange from a goroutine of its own.     *)
(*                                                                         *)
(* A Go map is not safe for a write beside another access, so an access    *)
(* takes two steps, its begin and its end.  What the program does once two *)
(* accesses have met is undefined: no step follows.                        *)
(***************************************************************************)
EXTENDS Naturals, Sequences

CONSTANTS
  Exchanges,   \* an exchange, and the goroutine Keep.Run starts for it
  Adders,      \* goroutines that add a historian; also that historian
  NoOne        \* the holder of a free mutex

ASSUME GoroutinesAssumption ==
  NoOne \notin Exchanges \cup Adders /\ Exchanges \cap Adders = {}

Maps == {"onPriceUnits", "onOrderUnits"}
Goroutines == Exchanges \cup Adders

VARIABLES
  units,    \* the two maps; a missing key reads as an empty slice
  mu,       \* the holder of the mutex
  pc,       \* where each goroutine is
  map,      \* the map each goroutine is using
  key,      \* the exchange each adder adds a historian for
  xs,       \* the slice each goroutine read last
  updated,  \* the historians updated in the current or last pass of fire
  due,      \* history: the historians in the map when that pass began
  kept      \* history: the historians added, with Init of their exchange done

vars == <<units, mu, pc, map, key, xs, updated, due, kept>>

\* Where a goroutine holds the mutex.
Locked == {"init price", "init order", "add read", "add write"}

Types ==
  /\ units \in [Maps -> [Exchanges -> Seq(Adders)]]
  /\ mu \in Goroutines \cup {NoOne}
  /\ pc \in [Goroutines -> {"start", "init price", "init order", "loop", "fire",
                            "pass", "add read", "add write", "added"}]
  /\ map \in [Goroutines -> Maps]
  /\ key \in [Adders -> Exchanges]
  /\ xs \in [Goroutines -> Seq(Adders)]
  /\ updated \in [Exchanges -> Seq(Adders)]
  /\ due \in [Exchanges -> SUBSET Adders]
  /\ kept \subseteq Adders

\* The mutex is held by the goroutine that initializes or adds, and is free
\* when there is none.
TypeOK == Types /\ \A p \in Goroutines : pc[p] \in Locked <=> mu = p

Init ==
  /\ units = [m \in Maps |-> [e \in Exchanges |-> <<>>]]
  /\ mu = NoOne
  /\ pc = [p \in Goroutines |-> "start"]
  /\ map \in [Goroutines -> Maps] /\ \A e \in Exchanges : map[e] = "onPriceUnits"
  /\ key \in [Adders -> Exchanges]
  /\ xs = [p \in Goroutines |-> <<>>]
  /\ updated = [e \in Exchanges |-> <<>>]
  /\ due = [e \in Exchanges |-> {}]
  /\ kept = {}

Goto(p, label) == pc' = [pc EXCEPT ![p] = label]
InitDone(e) == pc[e] \in {"loop", "fire", "pass"}
Elements(s) == {s[i] : i \in DOMAIN s}

Lock(p) == mu = NoOne /\ mu' = p

\* An Init or AddHistorian without the deferred Unlock.
UnlockForgotten(p) == UNCHANGED mu

Unlock(p) == mu' = NoOne

\* The goroutines in the middle of an access to a map.
Reading(m) == {p \in Goroutines : map[p] = m /\ pc[p] \in {"fire", "add read"}}
Writing(m) == {p \in Goroutines : map[p] = m /\ pc[p] \in {"init price", "init order", "add write"}}

\* Accesses that must not meet have met.
Race(m) == \E p \in Writing(m) : Reading(m) \cup Writing(m) # {p}

-----------------------------------------------------------------------------
(***************************************************************************)
(* Init: the goroutine of the exchange empties its slices, under the lock. *)
(***************************************************************************)

InitLock(e) ==
  /\ pc[e] = "start"
  /\ Lock(e)
  /\ Goto(e, "init price")
  /\ UNCHANGED <<units, map, key, xs, updated, due, kept>>

\* Init that makes a new map rather than a new slice.
ClearAll(e) == units' = [units EXCEPT ![map[e]] = [x \in Exchanges |-> <<>>]]

Clear(e) == units' = [units EXCEPT ![map[e]][e] = <<>>]

InitPrice(e) ==
  /\ pc[e] = "init price"
  /\ Clear(e)
  /\ map' = [map EXCEPT ![e] = "onOrderUnits"]
  /\ Goto(e, "init order")
  /\ UNCHANGED <<mu, key, xs, updated, due, kept>>

InitOrder(e) ==
  /\ pc[e] = "init order"
  /\ Clear(e)
  /\ Unlock(e)
  /\ Goto(e, "loop")
  /\ UNCHANGED <<map, key, xs, updated, due, kept>>

-----------------------------------------------------------------------------
(***************************************************************************)
(* AddHistorian: append to the slice of the exchange, under the lock.  (An *)
(* unknown event name takes the lock and changes nothing.)                 *)
(***************************************************************************)

\* AddHistorian that takes the lock for the write only.
AddLockLate(p) ==
  /\ pc[p] = "start"
  /\ UNCHANGED mu
  /\ Goto(p, "add read")
  /\ UNCHANGED <<units, map, key, xs, updated, due, kept>>

AddLock(p) ==
  /\ pc[p] = "start"
  /\ Lock(p)
  /\ Goto(p, "add read")
  /\ UNCHANGED <<units, map, key, xs, updated, due, kept>>

AddRead(p) ==
  /\ pc[p] = "add read"
  /\ xs' = [xs EXCEPT ![p] = units[map[p]][key[p]]]
  /\ Goto(p, "add write")
  /\ UNCHANGED <<units, mu, map, key, updated, due, kept>>

AddWrite(p) ==
  /\ pc[p] = "add write"
  /\ units' = [units EXCEPT ![map[p]][key[p]] = Append(xs[p], p)]
  /\ kept' = IF InitDone(key[p]) THEN kept \cup {p} ELSE kept
  /\ Unlock(p)
  /\ Goto(p, "added")
  /\ UNCHANGED <<map, key, xs, updated, due>>

-----------------------------------------------------------------------------
(***************************************************************************)
(* OnPrice, OnOrder and fire: update every historian in the slice that is  *)
(* read from the map when the event is handled.                            *)
(***************************************************************************)

FireBegin(e, m) ==
  /\ pc[e] = "loop"
  /\ map' = [map EXCEPT ![e] = m]
  /\ due' = [due EXCEPT ![e] = Elements(units[m][e])]
  /\ updated' = [updated EXCEPT ![e] = <<>>]
  /\ Goto(e, "fire")
  /\ UNCHANGED <<units, mu, key, xs, kept>>

FireRead(e) ==
  /\ pc[e] = "fire"
  /\ xs' = [xs EXCEPT ![e] = units[map[e]][e]]
  /\ Goto(e, "pass")
  /\ UNCHANGED <<units, mu, map, key, updated, due, kept>>

\* A range that skips the first historian.
RestSkipsFirst(e) == SubSeq(xs[e], Len(updated[e]) + 2, Len(xs[e]))

\* range evaluates units[key] once: what is left of it to update.
Rest(e) == SubSeq(xs[e], Len(updated[e]) + 1, Len(xs[e]))

FireUpdate(e) ==
  /\ pc[e] = "pass"
  /\ Rest(e) # <<>>
  /\ updated' = [updated EXCEPT ![e] = Append(@, Head(Rest(e)))]
  /\ UNCHANGED <<units, mu, pc, map, key, xs, due, kept>>

FireEnd(e) ==
  /\ pc[e] = "pass"
  /\ Rest(e) = <<>>
  /\ Goto(e, "loop")
  /\ UNCHANGED <<units, mu, map, key, xs, updated, due, kept>>
-----------------------------------------------------------------------------

ExchangeStep(e) ==
  \/ InitLock(e) \/ InitPrice(e) \/ InitOrder(e)
  \/ \E m \in Maps : FireBegin(e, m)
  \/ FireRead(e) \/ FireUpdate(e) \/ FireEnd(e)

AdderStep(p) == AddLock(p) \/ AddRead(p) \/ AddWrite(p)

Next ==
  /\ ~ \E m \in Maps : Race(m)
  /\ (\E e \in Exchanges : ExchangeStep(e)) \/ (\E p \in Adders : AdderStep(p))

Spec == Init /\ [][Next]_vars

-----------------------------------------------------------------------------

(***************************************************************************)
(* "mutex ensure write serialization of onPriceUnits/onOrderUnits": no two *)
(* writes of a map meet, and no write comes between the read and the write *)
(* of an AddHistorian, so that its append is not based on an old slice.    *)
(***************************************************************************)
WritesSerialized ==
  /\ \A m \in Maps : \A p, q \in Writing(m) : p = q
  /\ \A p \in Adders :
       pc[p] = "add write" => xs[p] = units[map[p]][key[p]]

(***************************************************************************)
(* A historian that AddHistorian added once Init of its exchange was done  *)
(* is in the map, once, for ever: neither the Init of another exchange nor *)
(* another AddHistorian takes it out.                                      *)
(***************************************************************************)
KeptOnce ==
  \A p \in kept :
    \E i \in DOMAIN units[map[p]][key[p]] :
      /\ units[map[p]][key[p]][i] = p
      /\ \A j \in DOMAIN units[map[p]][key[p]] :
           units[map[p]][key[p]][j] = p => j = i

(***************************************************************************)
(* A pass of fire updates every historian that was in the map when the     *)
(* event arrived, and none twice, whatever was added meanwhile.            *)
(***************************************************************************)
PassUpdatesAllOnce ==
  \A e \in Exchanges :
    /\ \A i, j \in DOMAIN updated[e] : updated[e][i] = updated[e][j] => i = j
    /\ pc[e] = "loop" => due[e] \subseteq Elements(updated[e])

(***************************************************************************)
(* What meets a write of a map is the unlocked read of fire and nothing    *)
(* else: Init and AddHistorian never meet each other, and a race takes an  *)
(* exchange that is already handling events.                               *)
(***************************************************************************)
RacesAreUnlockedReads ==
  \A m \in Maps : \A p \in Writing(m) :
    \A q \in (Reading(m) \cup Writing(m)) \ {p} : q \in Exchanges /\ pc[q] = "fire"

(***************************************************************************)
(* "if historians do not get added and removed dynamically, this method is *)
(* completely safe to be used in a MT environment" (fire): without adders  *)
(* no accesses meet.  Violated: the Init of one exchange writes the maps   *)
(* that the events of another exchange are reading.                        *)
(***************************************************************************)
NoMapRace == Adders = {} => \A m \in Maps : ~ Race(m)
=============================================================================
