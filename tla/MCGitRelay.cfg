CONSTANTS
  MaxBytes = 3
  MaxData = 2
  ExitCodes <- MCExitCodes
  CloseInterrupts = TRUE
SPECIFICATION LiveSpec
CHECK_DEADLOCK FALSE
INVARIANTS SuccessIsWhole
PROPERTY RelayReturns
