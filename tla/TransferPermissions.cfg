CONSTANTS
    AddrBits = 4
    PageSize = 4
    UserBase = 4
    UserLimit = 12
    MaxLen = 15
    MaxCalls = 2
    PermChoices <- MCPermChoices
SPECIFICATION Spec
INVARIANT UserCopyRespectsPermissions
CHECK_DEADLOCK FALSE
