\* contracts/compatibility.md: current and proposed have the same node IDs.
CONSTANTS
  a = a
  b = b
  c = c
  Nodes = {a, b, c}
  MaxWeight = 1
  MaxScore = 2
  StepNum = 1
  StepDen = 5
SPECIFICATION Spec
CHECK_DEADLOCK FALSE
INVARIANTS SameNodes
