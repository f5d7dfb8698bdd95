SPECIFICATION ProfileSpec
CONSTANTS
  Procs = {p1, p2, p3}
  Fresh = {f1, f2, f3}
  Legacy = Legacy
  None = None
  Shells = {s1, s2}
  Profiles = {n1, n2}
  Vaults <- ProfileVaults
  Cwds <- ProfileCwds
  Unset = Unset
  Commands = {c1, c2}
  RootFiles = {configFile}
  PlanFiles = {plan}
  Root = Root
  PlanDir = PlanDir
  Systems = {"posix-mode", "windows-dacl"}
  Nobody = Nobody
  Connectors = {b1, b2}
  Old = Old
  Nowhere = Nowhere
  MaxRestarts = 1
  MaxClock = 1
  MaxAge = 2
SYMMETRY Symmetry
INVARIANTS ProfileTypeOK NeverLockedOut OneIdentity ConfigIsSound StorageIsSound ColdStartsConnect
PROPERTIES MigrationIsSafe VaultIsMeant
CHECK_DEADLOCK FALSE
