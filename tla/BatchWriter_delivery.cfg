\* Two adapters, three valid points and an invalid one; capacity is one batch of two.
SPECIFICATION FairSpec
CONSTANTS
  Points = {p1, p2, p3, p4}
  Invalid = {p4}
  Clients = {c1, c2}
  Loop = Loop
  Stopper = Stopper
  MaxBatchSize = 2
  MaxPendingBatches = 1
  MaxSubmit = 2
INVARIANTS TypeOK NoDoubleFlush NoPointForgotten RefusedIsFinal CountersAreTrue
PROPERTIES ImplementsContract BufferDrains
