\* Three nodes, every quality, request and score; a step of a fifth.
CONSTANTS
  a = a
  b = b
  c = c
  Nodes = {a, b, c}
  MaxWeight = 3
  MaxScore = 4
  StepNum = 1
  StepDen = 5
SPECIFICATION Spec
SYMMETRY NodeSymmetry
CHECK_DEADLOCK FALSE
INVARIANTS TypeOK ProposedWhole StepBounded StepTight
