\* Every scan over its texts.
SPECIFICATION AllSpec
CONSTANTS
    Strings = {"a"}
    Scalars = {"1"}
    MaxLength = 13
    Language <- MCLanguage
    Texts <- MCTexts
    Answers = {"go", "skip", "stop"}
    SkipTexts <- MCSkipTexts
    MaxDepth = 2
    Keys = {"a", "b"}
    Numbers = {"1", "300", "1e999", "null"}
    Overflow = {"1e999"}
    Content <- MCContent
    DecodeLength = 9
    DecodeLanguage <- MCDecodeLanguage
    DecodeTexts <- MCDecodeTexts
    Goals <- MCGoals
    Half = 128
    Raws <- MCRaws
    High = 4
    Control = 2
    Word = 2
    Quote = 3
    Backslash = 2
    Datas <- MCDatas
    AtomTexts <- MCAtomTexts
    Short = 3
INVARIANTS SkipFindsTheValue FramesMatchTheText VisitorSeesTheDocument VisitorAcceptsValues CursorIsBehindEachValue DestinationHoldsTheText NothingWraps ResultIsTheNumber NothingHidden EscapedTextIsTheSame ScannersAgree
CHECK_DEADLOCK FALSE
