SPECIFICATION Spec
CONSTANTS
  Block = {p1, p2, p3}
  NoBlock = NoBlock
  MaxVm = 3
  MaxRef = 1
  ErrorsInStatements = TRUE
INVARIANT RequestLeavesNothing
SYMMETRY Symmetry
CHECK_DEADLOCK FALSE
