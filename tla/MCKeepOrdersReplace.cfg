CONSTANTS
  Exchanges = {e1}
  Repeating = {}
  Ids = {i1, i2}
  Callers = {c1}
  Observers = {o1}
  Nil = Nil
  Absent = Absent
SPECIFICATION Spec
INVARIANT ReplacedOrderIsOut
