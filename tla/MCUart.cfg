\* Two boots with output, input and calls to gpio.h at any time.
SPECIFICATION Spec
CONSTANTS
    Pin <- SomePins
    FIFO = 2
    CallPin <- CallPins
    CallVal <- CallVals
    MaxPut = 9
    MaxIn = 4
    MaxCalls = 2
INVARIANTS
    OutputDelivered
    InputInOrder
    PinsAsAsked
CHECK_DEADLOCK FALSE
