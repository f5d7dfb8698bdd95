SPECIFICATION ApplySpec
CONSTANTS
  Procs = {p1, p2}
  Plans = {a}
  Absent = Absent
  NoPlan = NoPlan
  None = None
  Lifetime = 1
  Retention = 2
  Limit = 1
  MaxTime = 0
  MaxRequests = 2
  MaxDeaths = 0
INVARIANTS EvidenceRetained
