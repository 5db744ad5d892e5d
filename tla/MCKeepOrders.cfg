CONSTANTS
  Exchanges = {e1}
  Repeating = {e1}
  Ids = {i1, i2}
  Callers = {c1, c2}
  Observers = {o1, o2}
  Nil = Nil
  Absent = Absent
SPECIFICATION Spec
SYMMETRY Symmetry
INVARIANTS TypeOK AckOwnsOrder NoFillDropped UserDataCarriedOver 
PROPERTIES MissOnlyBeforeAck FillLeavesObserved
