SPECIFICATION Spec
CONSTANTS
    Opcodes <- MCOpcodes
    NoSymbol = ""
    PtrSize = 8
    Width = 32
    MaxOpcodes = 4
INVARIANTS TypeOK ListsWhatOpcodesSay FailsOnlyWhenCutShort
CHECK_DEADLOCK FALSE
