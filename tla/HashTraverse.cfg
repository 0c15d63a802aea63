SPECIFICATION RuntimeSpec
CONSTANTS
  Objects = {"hash"}
  Key1 = k1
  Key2 = k2
  Key3 = k3
  HashKey = {k1, k2, k3}
  HashVal = {v1, v2}
  HashSizes = {1, 2}
  HashOf <- Hashes
  HashMaxRef = 2
  NoItem = NoItem
  Freed = Freed
  Disturbs = TRUE
  FifoNode = {f1, f2, f3, f4}
  FifoNull = FifoNull
  ListNode = {n1, n2, n3, n4}
  ListString = {s1, s2}
  ListNull = ListNull
  TreeKey = {1, 2, 3, 4, 5, 6, 7}
  NoNode = NoNode
  ArrInc = 2
  ArrBig = 3
  ArrDefaultMax = 6
  ArrMaxSizes = {0, 1, 4}
  ArrVal = {0, 1, 2}
  ArrDefault = 0
  Long = long
  Short = short
  Note = note
  MsgItem = {long, short, note}
  MsgComments = {note}
  MsgLen <- Lengths
  MsgFixed = 3
  MsgBuffLen = 1
  MsgAddLen = 4
  MsgMaxInc = 1
  MsgReader = {m1, m2}
  MaxItems = 3
  MaxCalls = 2
  CliParts = 2
  CliRecords <- Reply
  CliMaxRecords = 2
  JsonString = {s1, s2}
  JsonNoName = JsonNoName
  JsonNested = 5
  JsonMaxIndex = 1
  OutText = {1, 3}
  WrMin = 2
  WrMax = 4
  WrNested = 2
  WrMaxText = 2
INVARIANT NothingLost
