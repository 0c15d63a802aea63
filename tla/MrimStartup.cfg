\* One invocation after the other. A server and a client may wait for each
\* other until both run out of tries: without Slow that is a deadlock.
SPECIFICATION Spec
CONSTANTS
  Tool = {t1}
  Server = {s1, s2}
  Nobody = Nobody
  Ask = {"start", "stop", "restart", "quit", "status"}
  Admin = "sequential"
  Slow = FALSE
  Crashes = FALSE
INVARIANTS
  ReplyMeansDone
CHECK_DEADLOCK FALSE
