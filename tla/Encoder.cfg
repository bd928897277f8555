\* Two goroutines encode through one pool, values may call the encoder again;
\* or a stream is written to a writer that takes, splits or refuses its bytes.
SPECIFICATION BothSpec
CONSTANTS
    Goroutines = {g1, g2}
    Values = {"short", "fits", "long"}
    Size <- MCSize
    Limit = 2
    MaxDepth = 2
    MaxCalls = 3
    g1 = g1
    g2 = g2
    Records = {"a", "b"}
    RecordSize <- MCRecordSize
    Writers = {"short", "error", "liar"}
    MaxRecords = 3
    MaxChanges = 2
INVARIANTS OneUserPerState PooledBuffersAreOwned PoolIsClean ResultsStayIntact DestinationsHoldTheirValues WriterTakesWholeRecords
CHECK_DEADLOCK FALSE
