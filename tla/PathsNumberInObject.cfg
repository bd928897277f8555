SPECIFICATION Spec
CONSTANTS
    Strings = {"a", "b"}
    Scalars = {}
    MaxLength = 11
    Language <- MCLanguage
    AnyString = {"a", "b", "odd", "bad"}
    Fast = {"a", "b"}
    Decodable = {"a", "b", "odd"}
    MaxDepth = 2
    Texts <- ShortTexts
    Paths <- NumberPaths
INVARIANTS SearcherAndNodesAgree
CHECK_DEADLOCK FALSE
