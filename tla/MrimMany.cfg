\* Two invocations at a time, waits that run out, and kills.
SPECIFICATION Spec
CONSTANTS
  Tool = {t1, t2}
  Server = {s1, s2}
  Nobody = Nobody
  Ask = {"quit"}
  Admin = "many"
  Slow = TRUE
  Crashes = FALSE
INVARIANTS
  OneResident
SYMMETRY Symmetry
