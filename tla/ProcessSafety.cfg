CONSTANTS
    MaxProcs <- MCMaxProcs
    ExitValues <- MCExitValues
SPECIFICATION Spec
INVARIANT TypeOK
INVARIANT NoLockCycle
INVARIANT ParentChildConsistent
CHECK_DEADLOCK FALSE
