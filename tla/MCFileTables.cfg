SPECIFICATION Spec
CONSTANTS
    MaxDepth = 2
    Tries <- MCTries
    HeaderLen = 60
    Magic = 8
    ArFileNames = 9
    LongNames <- MCLongNames
    Archives <- MCArchives
    SymbolFiles <- MCSymbolFiles
    MaxSlots = 3
    Signatures <- MCSignatures
    Width = 256
    MaxEntries = 3
    MaxName = 9
    MaxComment = 40
    Jobs <- MCJobs
    Members <- MCMembers
INVARIANT ListsEveryWay
INVARIANT DepthIsBounded
INVARIANT ArTypeOK
INVARIANT ReadsWhatWasWritten
INVARIANT ContentsAreApart
INVARIANT BestNameWins
INVARIANT NeverAnotherContent
INVARIANT WrittenCanBeOpened
INVARIANT DeclaresWhatWasEncoded
INVARIANT CsTypeOK
INVARIANT FieldsAreInPlace
INVARIANT OneBadSlotLosesOnlyItself
PROPERTY SourcesAreInTurn
PROPERTY WalkEnds
CHECK_DEADLOCK FALSE
