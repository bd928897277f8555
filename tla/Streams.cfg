SPECIFICATION Spec
CONSTANTS
    Scalars <- ScalarValues
    MinRead = 2
    MaxBuffers = 10
    Sources <- AllSources
INVARIANTS NoByteLost OffsetsAreExact OptionsApply RetainedStayIntact
PROPERTIES ImplementsStream
CHECK_DEADLOCK FALSE
