CONSTANTS
  Exchanges = {e1}
  Assets = {a1, a2}
  MaxVersion = 2
  Absent = Absent
SPECIFICATION FairSpec
INVARIANTS TypeOK HoldingsOfLastPass
PROPERTY TicksUntilDeinit
