\* Two nodes write at the same clock reading.
SPECIFICATION Spec
CONSTANTS
  Replica = {cloud, edge}
  Value = {v1, v2}
  NoValue = NoValue
  Point = {}
  NoNode = NoNode
  StartTimes = {1}
  MaxWall = 1
  MaxLogical = 1
  MaxSent = 2
INVARIANT MergeCommutes
