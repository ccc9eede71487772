CONSTANTS
    MaxProcs <- MCMaxProcsLiveness
    ExitValues <- MCExitValues
SPECIFICATION Spec
INVARIANT ExitStatusDelivered
CHECK_DEADLOCK FALSE
