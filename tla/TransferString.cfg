CONSTANTS
    AddrBits = 4
    PageSize = 4
    UserBase = 4
    UserLimit = 12
    MaxLen = 15
    MaxCalls = 2
    PermChoices <- MCPermChoices
    LongBits = 6
    WordSize = 4
    MaxString = 3
    MaxMax = 4
SPECIFICATION LayerSpec
INVARIANTS TypeOK RangeRespected CopiedIsCursorSpan
INVARIANTS ReadStringStaysInBuffer WriteStringCopiesString ReadStringCopiesString
PROPERTY FailureChangesNothing
CHECK_DEADLOCK FALSE
