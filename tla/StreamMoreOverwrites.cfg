SPECIFICATION Spec
CONSTANTS
    Scalars <- ScalarValues
    MinRead = 2
    MaxBuffers = 10
    Sources <- MoreSources
INVARIANTS RetainedStayIntact
CHECK_DEADLOCK FALSE
