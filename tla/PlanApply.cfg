SPECIFICATION CommandsSpec
CONSTANTS
  Procs = {p1, p2, p3}
  Plans = {a}
  Absent = Absent
  NoPlan = NoPlan
  None = None
  Lifetime = 1
  Retention = 2
  Limit = 1
  MaxTime = 3
  MaxRequests = 3
  MaxDeaths = 2
SYMMETRY Symmetry
INVARIANTS ApplyTypeOK EvidenceRetained OneRequestPerPlan AdviceIsTrue
PROPERTIES OneBinding
