SPECIFICATION Spec
CONSTANTS
    MaxDepth = 2
    Tries = {}
    HeaderLen = 60
    Magic = 8
    ArFileNames = 9
    LongNames <- MCLongNames
    Archives <- MCArchives
    SymbolFiles = {}
    MaxSlots = 3
    Signatures = {}
    Width = 256
    MaxEntries = 3
    MaxName = 9
    MaxComment = 40
    Jobs = {}
    Members = {}
INVARIANTS
    LongNamesAreResolved
CHECK_DEADLOCK FALSE
