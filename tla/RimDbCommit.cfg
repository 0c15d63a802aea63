\* The connection may break at any time, also between a statement and the
\* commit of its transaction.
SPECIFICATION Spec
CONSTANTS
  Db = {d1}
  Write = {w1}
  Nests = TRUE
  BusyCommits = TRUE
INVARIANTS
  CommitMeansCommitted
