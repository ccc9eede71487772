CONSTANTS
    a = a
    b = b
    BS = BS
    SP = SP
    NL = NL
    ETX = ETX
    Out = Out
    Keys <- MCKeys
    KbdSize = 2
    DisplaySize = 2
    FlushedSize = 2
    LineBufferSize = 2
    MaxTyped = 4
    MaxWritten = 1
    ReadMax = 2
SPECIFICATION Spec
INVARIANTS TypeOK DeliveredIsCooked EchoIsCanonical
PROPERTY ReadReturns
CHECK_DEADLOCK FALSE
