CONSTANTS
    MaxProcs <- MCMaxProcsLiveness
    ExitValues <- MCExitValues
SPECIFICATION Spec
INVARIANT NoDanglingChild
CHECK_DEADLOCK FALSE
