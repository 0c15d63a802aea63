\* One administrator who waits until the manager is up.
SPECIFICATION FairSpec
CONSTANTS
  Tool = {t1}
  Server = {s1, s2}
  Nobody = Nobody
  Ask = {"start", "stop", "restart", "quit", "status"}
  Admin = "waits"
  Slow = FALSE
  Crashes = TRUE
INVARIANTS
  ReplyMeansDone
  ExitTellsStart
  NothingPending
PROPERTIES
  ToolsEnd
