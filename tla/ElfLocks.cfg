CONSTANTS
    AddrBits = 6
    PageSize = 4
    Base = 48
    RelocPoints = {8, 20}
    Junk = {0, 36}
    Adjust = 4
    FileData <- MCFileData
    Images <- MCImages
    KernelSyms <- MCKernelSyms
    Names <- MCNames
SPECIFICATION Spec
INVARIANT LockedPagesCoverSections
CHECK_DEADLOCK FALSE
