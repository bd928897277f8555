SPECIFICATION Spec
CONSTANTS
  Goroutines = {"g1", "g2"}
  Nodes <- HNodes
  Roots = {"p", "q"}
  Scalars <- HScalars
  Kids <- HKids
  ErrAt <- HErrAt
  Text <- HText
  Copies = {}
  CopyOf <- NoFunction
  Owner <- NoFunction
  Mutexes <- HNodes
  NoMutex = "nomutex"
  MutexOf <- SeparateMutexes
  Backings <- HBackings
  Own <- HOwn
  Cap <- HCap
  MaxKids = 4
  InitNode <- TwoPartlyRead
  InitCell <- HInitCell
  NilArray <- NoArray
  None = "none"
  Nil = "nil"
  APIs = {"get"}
INVARIANT NoDataRace
