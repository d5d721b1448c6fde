SPECIFICATION Spec
CONSTANTS
    FileSize = 7
    PageSize = 4
    Segments <- MCSegments
    MaxSegments = 2
    MaxNext = 1
    Values = {0, 1}
    Words <- MCWords
    ImageBase = 3
    VaWidth = 4
    Imports <- MCImports
    NoName = NoName
INVARIANTS TypeOK FixupsAreTheChains
PROPERTY WalkEnds
CHECK_DEADLOCK FALSE
