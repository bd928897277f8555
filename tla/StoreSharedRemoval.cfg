SPECIFICATION Spec
CONSTANTS
    Handles = {h1, h2}
    Root = h1
    h1 = h1
    h2 = h2
    Values = {"a", "b", "c", "d", "x"}
    Fresh <- Insertable
    Sources <- RemovalSources
INVARIANTS NoNilSlot
CHECK_DEADLOCK FALSE
