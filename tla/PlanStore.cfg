SPECIFICATION UsesSpec
CONSTANTS
  Procs = {p1, p2}
  Plans = {a, b}
  Absent = Absent
  NoPlan = NoPlan
  None = None
  Lifetime = 1
  Retention = 2
  Limit = 1
  MaxTime = 3
  MaxRequests = 2
  MaxDeaths = 1
SYMMETRY Symmetry
INVARIANTS TypeOK CapacityKept RecordsDecode
PROPERTIES KnownEvidenceIsKept
