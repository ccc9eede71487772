CONSTANTS
    MaxProcs <- MCMaxProcsLiveness
    ExitValues <- MCExitValues
SPECIFICATION Spec

PROPERTY WaitReturns KillCompletes
CHECK_DEADLOCK FALSE
