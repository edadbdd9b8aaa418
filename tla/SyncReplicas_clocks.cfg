\* Clocks that start skewed, two values, lost and repeated snapshots, updates with and without a stamp.
SPECIFICATION Spec
CONSTANTS
  Replica = {cloud, edge}
  Value = {v1, v2}
  NoValue = NoValue
  Point = {p1}
  NoNode = NoNode
  StartTimes = {1, 2}
  MaxWall = 2
  MaxLogical = 2
  MaxSent = 2
INVARIANTS TypeOK StampsAreSound
PROPERTIES WriteTakesEffect RegisterMonotone
