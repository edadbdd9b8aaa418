\* Two calls at a time; five nodes in order: the second disabled, the last an approval.
SPECIFICATION Spec
CONSTANTS
  N = 5
  Enabled = {1, 3, 4, 5}
  Gated = {5}
  Compensable = {1, 4}
  Calls = {c1, c2}
  MaxSaga = 3
INVARIANTS TypeOK DependencyOrder CheckpointLag
PROPERTY CheckpointMonotone
