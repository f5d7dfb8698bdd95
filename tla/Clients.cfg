SPECIFICATION ClientsSpec
CONSTANTS
  None = None
  Vaults = {v1, v2}
  Home = v1
  Tasks = {t1, t2}
  MaxChanges = 1
  MaxPages = 3
  StatusesOf <- Catalog
  Purpose = "mutation-target"
  Checks = {"open"}
  Kinds = {"all", "file"}
  Scopes = {"normal", "overdue"}
  Modes = {"direct"}
  PageLimit = 2
  MaxEdits = 1
  NoMode = NoMode
  Checkers = {u1, u2}
  Ordered <- ByPrecedence
  Running = {2, 8}
  Offered = {3, 9}
  Empty = Empty
  SuccessTtl = 1
  FailureTtl = 0
  MaxHour = 2
  MaxChecks = 2
SYMMETRY Symmetry
INVARIANTS ClientsTypeOK NothingUnagreed NoticeIsRight
PROPERTIES TargetIsMeant SearchIsShown NotMuted
CHECK_DEADLOCK FALSE
