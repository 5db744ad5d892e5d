CONSTANTS
  Callers = {c1, c2, c3}
  Keys = {k1, k2, k3}
  Values = {v1, v2}
  Absent = Absent
  MaxInt32 = 2
  Wakers = {w1, w2, w3}
  Duration = 3
  Off = Off
SPECIFICATION MCSpec
INVARIANTS TypeOK LengthLagsByInFlight OneWinner NeverIllegal
PROPERTIES FirstStoreStays AwakeForDuration FallsAsleep
