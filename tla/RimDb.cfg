\* Two databases of any types, one write.
SPECIFICATION Spec
CONSTANTS
  Db = {d1, d2}
  Write = {w1}
  Nests = FALSE
  BusyCommits = FALSE
INVARIANTS
  InTransactionTruly
  RequestsSeparate
  DoneIsDurable
  UndoneIsGone
  PreparedHere
PROPERTIES
  RequestEnds
