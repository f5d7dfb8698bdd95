SPECIFICATION ShellSpec
CONSTANTS
  MaxLines = 3
  MaxInterrupts = 3
  Nothing = Nothing
INVARIANTS RecoveryIsSaid
CHECK_DEADLOCK FALSE
