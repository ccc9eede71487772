CONSTANTS
    a = a
    b = b
    BS = BS
    SP = SP
    NL = NL
    ETX = ETX
    Out = Out
    Keys <- MCKeysLong
    KbdSize = 2
    DisplaySize = 2
    FlushedSize = 2
    LineBufferSize = 2
    MaxTyped = 4
    MaxWritten = 0
    ReadMax = 2
SPECIFICATION Spec
INVARIANT CanonicalLineDelivered
CHECK_DEADLOCK FALSE
