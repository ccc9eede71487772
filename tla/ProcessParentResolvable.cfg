CONSTANTS
    MaxProcs <- MCMaxProcsLiveness
    ExitValues <- MCExitValues
SPECIFICATION Spec
INVARIANT ParentResolvable
CHECK_DEADLOCK FALSE
