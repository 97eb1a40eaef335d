\* PART6: the stack grows.
CONSTANTS
    Domain = 1
    Tests <- OnlyPart6
    Requests <- TestRequests
SPECIFICATION AbortSpec
PROPERTY StackGrows
CHECK_DEADLOCK FALSE
