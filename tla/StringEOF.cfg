SPECIFICATION Spec
CONSTANTS
    Scalars <- ScalarValues
    MinRead = 2
    MaxBuffers = 10
    Sources <- EOFSources
INVARIANTS EOFOnlyWhenExhausted
CHECK_DEADLOCK FALSE
