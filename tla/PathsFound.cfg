SPECIFICATION Spec
CONSTANTS
    Strings = {"a", "b"}
    Scalars = {}
    MaxLength = 11
    Language <- MCLanguage
    AnyString = {"a", "b", "odd", "bad"}
    Fast = {"a", "b"}
    Decodable = {"a", "b", "odd"}
    MaxDepth = 2
    Texts <- SearchTexts
    Paths <- SearchPaths
INVARIANTS FoundIsAValue SearcherFindsWhatNodesFind GetAgreesWithSearcher ValidAcceptsValues
CHECK_DEADLOCK FALSE
