\* Every wrap-around of a buffer of four bytes.
SPECIFICATION Spec
CONSTANTS
    Size = 4
    MaxBytes = 10
CHECK_DEADLOCK FALSE
INVARIANTS
    ReadsInOrder
PROPERTIES
    ImplementsQueue
