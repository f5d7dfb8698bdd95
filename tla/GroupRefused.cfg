SPECIFICATION ReadSpec
CONSTANTS
  Reads = {r1, r2, r3, r4}
  Conns = {c1, c2, c3}
  None = None
INVARIANT GroupsRun
CHECK_DEADLOCK FALSE
