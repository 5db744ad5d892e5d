CONSTANTS
  Exchanges = {e1, e2}
  Repeating = {}
  Ids = {i1}
  Callers = {c1, c2}
  Observers = {o1}
  Nil = Nil
  Absent = Absent
SPECIFICATION FairSpec
INVARIANT OnlyFilledObserved
PROPERTY FillReachesObserver
