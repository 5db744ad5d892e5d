CONSTANTS
  Exchanges = {e1, e2}
  Adders = {}
  NoOne = NoOne
SPECIFICATION Spec
INVARIANT NoMapRace
CHECK_DEADLOCK FALSE
