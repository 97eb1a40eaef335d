\* One spoiled byte; NAKs of the timer without a limit on their number.
SPECIFICATION Spec
CONSTANTS
    Programs <- SmallPrograms
    PAYLOAD_SZ = 2
    MaxNoise = 1
    MaxQueue = 3
INVARIANTS
    XmodemTypeOK
    BlocksInOrder
