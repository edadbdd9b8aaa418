\* stop() during a flush of the loop.
SPECIFICATION Spec
CONSTANTS
  Points = {p1, p2, p3, p4}
  Invalid = {p4}
  Clients = {c1, c2}
  Loop = Loop
  Stopper = Stopper
  MaxBatchSize = 2
  MaxPendingBatches = 1
  MaxSubmit = 2
INVARIANT StopLosesNothing
