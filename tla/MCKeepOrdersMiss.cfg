CONSTANTS
  Exchanges = {e1}
  Repeating = {}
  Ids = {i1}
  Callers = {c1}
  Observers = {o1}
  Nil = Nil
  Absent = Absent
SPECIFICATION Spec
INVARIANT MissMeansNoObserver
