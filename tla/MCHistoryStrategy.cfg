CONSTANTS
  Exchanges = {e1, e2}
  Adders = {a1, a2, a3}
  NoOne = NoOne
SPECIFICATION Spec
SYMMETRY Symmetry
INVARIANTS TypeOK WritesSerialized KeptOnce PassUpdatesAllOnce RacesAreUnlockedReads
CHECK_DEADLOCK FALSE
