\* Every graph of up to eight edges on START, approval, tool and END, with self-loops,
\* searched and sorted in every listing order.
SPECIFICATION ValidatorSpec
CONSTANTS
  Nodes = {n1, n2, n3, n4}
  StartNodes = {n1}
  EndNodes = {n4}
  Approvals = {n2}
  Destructive = {n3}
  MaxNodes = 100
  MaxEdges = 8
INVARIANTS ValidatorTypeOK OrderIsTopological CyclesAreFound UnwarnedIsGuarded
CHECK_DEADLOCK FALSE
