\* Two readers of a half-read, a malformed or a self-containing node.
SPECIFICATION MCSpec
CONSTANTS
  Goroutines = {"g1", "g2"}
  Nodes <- AllNodes
  Roots <- AllRoots
  Scalars <- AllScalars
  Kids <- AllKids
  ErrAt <- AllErrAt
  Text <- AllText
  Copies = {"q"}
  CopyOf <- HCopyOf
  Owner <- HOwner
  Mutexes <- AllNodes
  NoMutex = "nomutex"
  MutexOf <- AllMutexOf
  Backings <- AllBackings
  Own <- AllOwn
  Cap <- AllCap
  MaxKids = 4
  InitNode <- AllInitNode
  InitCell <- AllInitCell
  NilArray <- NoArray
  None = "none"
  Nil = "nil"
  APIs = {"type", "get", "each", "json", "copy", "value"}
INVARIANTS NoDataRace ReadersSeeWholeValues NoLockWhileAcquiring IndInv
PROPERTIES SlotsAreWrittenOnce SettledNodesAreFrozen ImplementsNodeValue EveryCallReturns
