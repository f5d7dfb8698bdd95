SPECIFICATION StorageSpec
CONSTANTS
  Commands = {c1, c2}
  RootFiles = {configFile}
  PlanFiles = {plan}
  Root = Root
  PlanDir = PlanDir
  Systems = {"posix-mode"}
  Nobody = Nobody
INVARIANTS LeftoversAreRepaired
CHECK_DEADLOCK FALSE
