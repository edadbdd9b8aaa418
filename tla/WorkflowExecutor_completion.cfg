\* No approval: the execution can complete.
SPECIFICATION FairSpec
CONSTANTS
  N = 4
  Enabled = {1, 2, 3}
  Gated = {}
  Compensable = {1, 2}
  Calls = {c1, c2}
  MaxSaga = 3
INVARIANT CompletedMeansAllRan
PROPERTY RunEnds
