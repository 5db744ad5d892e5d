CONSTANTS
  Intervals = {0, 2}
  StateLength = 3
  Times <- MCTimes
SPECIFICATION Spec
INVARIANTS TypeOK TimeLine
PROPERTY ShowsLastSamples
