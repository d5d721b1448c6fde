SPECIFICATION Spec
INVARIANT TypeOK
INVARIANT OneFaultLosesOnlyItsOwn
INVARIANT RefsAgree
INVARIANT PrintsWhatIsAsked
INVARIANT HeadersAreOwn
INVARIANT DiffTellsTheDifference
CHECK_DEADLOCK FALSE
CONSTANTS
    Question <- MCQuestion
    NSObject <- MCNSObject
    MaxMethods = 3
    MaxIvars = 2
    MaxProperties = 2
    MaxProtocols = 2
    Placeholder <- MCPlaceholder
    PlaceholderOf <- MCPlaceholderOf
    NoPattern = NoPattern
    NoDiff = NoDiff
    Arguments <- MCArguments
    OldFiles <- MCOldFiles
    Sanitized <- MCSanitized
    Types <- MCTypes
    MaxName <- MCMaxName
