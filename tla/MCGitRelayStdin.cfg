CONSTANTS
  MaxBytes = 3
  MaxData = 2
  ExitCodes <- MCExitCodes
  CloseInterrupts = FALSE
SPECIFICATION LiveSpec
CHECK_DEADLOCK FALSE
PROPERTY RelayReturns
