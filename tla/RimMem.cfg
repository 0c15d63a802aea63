SPECIFICATION Spec
CONSTANTS
  Block = {p1, p2, p3}
  NoBlock = NoBlock
  MaxVm = 3
  MaxRef = 1
  ErrorsInStatements = FALSE
INVARIANTS
  HeadersFollowBlocks
  ListsAreExact
  OnlyListedTaken
  NothingForgotten
  RequestLeavesNothing
PROPERTIES
  ProcessBlocksStay
  DoneEnds
  ImplementsBlocks
