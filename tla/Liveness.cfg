SPECIFICATION FairBothSpec
CONSTANTS
  Procs = {p1, p2}
  Plans = {a}
  Absent = Absent
  NoPlan = NoPlan
  None = None
  Lifetime = 1
  Retention = 2
  Limit = 1
  MaxTime = 2
  MaxRequests = 2
  MaxDeaths = 1
  Inodes = {i1, i2}
  NoFile = NoFile
  Unwritten = Unwritten
PROPERTIES EveryWaitEnds KeepsLedger
