SPECIFICATION FairSessionsSpec
CONSTANTS
  Size = 3
  MaxFrames = 3
  Reads = {r1, r2, r3}
  Conns = {c1, c2, c3}
  None = None
  Platforms = {"posix", "win32", "other"}
  NoValue = NoValue
  MaxLines = 3
  MaxInterrupts = 3
  Nothing = Nothing
INVARIANTS SessionsTypeOK InRequestOrder EveryFrameAnswered RecoveryReported ReadsAreAccounted ReportIsTrue InputReachesItsReader
PROPERTIES OutputIsHeld ContractKept SessionsEnd
CHECK_DEADLOCK FALSE
