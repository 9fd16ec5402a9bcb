\* Ten programs on small instances of their data.
CONSTANTS
    BOARD_DIM = 3
    Numbers <- MCNumbers
    Strings <- MCStrings
    Blocks = {b1, b2, b3, b4}
    NULL = NULL
    Uninitialised = Uninitialised
    MaxCapacity = 4
    Lines <- MCLines
    Newline <- MCNewline
    Spaces <- MCSpaces
    INITIAL_TOKENS_CAPACITY = 1
    Texts = {t1, t2}
    MaxTyped = 3
    ROWS = 2
    COLS = 3
    MaxScore = 12
    Programs <- MCBytes
    Sizes = {1, 3}
    NoFile = NoFile
    Models <- MCModels
    step = 2
    max_iter = 3
    None = None
    BUFFER_SIZE = 5
    InputLines <- MCInputLines
    Elements = {0, 1, 2}
    ArraySizes = {0, 1, 2, 3, 4}
    SIZE_VALUES = 6
    ADDR_BITS = 4
    Bytes = {b0, b1}
    Params <- MCParams
    MaxAccesses = 12
    HEIGHT = 2
    WIDTH = 3
    Line_params <- MCLineParams
    Bases = {0, 3, 6, 10}
    Address <- MCAddress
SPECIFICATION MCSpec
INVARIANTS
    TypesOK
    WinnerMovedLast
    StringsAreKept
    TokensAreEndedWords
    ShowsWhatWasTyped
    OneLineInFlight
    SuccessMeansEchoed
    TilesAccounted
    SlidesGreedily
    OverMeansStuck
    BracketsIncrease
    ReadsOneLine
    SortsNumbers
    ReferenceTransposes
PROPERTIES
    ImplementsLineGame
    ImplementsStringList
    LinesAreWorkedOff
    LinesAreAnswered
    SuccessLeavesImage
    ScriptRemoved
