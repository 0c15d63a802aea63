\* Errors out of statements on containers. A removal from a list an entry is
\* not on ends a behaviour: that state is no deadlock of the program.
SPECIFICATION Spec
CONSTANTS
  Block = {p1, p2, p3}
  NoBlock = NoBlock
  MaxVm = 3
  MaxRef = 1
  ErrorsInStatements = TRUE
INVARIANTS
  ListsAreExact
CHECK_DEADLOCK FALSE
SYMMETRY Symmetry
