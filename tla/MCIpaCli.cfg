SPECIFICATION Spec
CONSTANTS
    Apps = {1, 2}
    Files = {0, 1, 2, 3, 4, 5}
    DirFiles = {0, 1}
    InfoPlist = 4
    Contents = {"plist", "emptyexec", "bin"}
    NoExec = NoExec
    ExecOf <- MCExecOf
    Fws = {"F.framework", ".framework", "A/B.framework"}
    FlatFws = {"F.framework", ".framework"}
    FwBinary <- MCFwBinary
    NoFw = NoFw
    MaxEntries = 3
    Ipas = {"a.ipa", "b.ipa"}
    ArgNames <- MCArgNames
    NoFile = NoFile
    InitialDisks <- MCInitialDisks
    MaxCommands = 2
INVARIANTS TypeOK EditIsOfWhatWasRead
PROPERTIES ImplementsStore ReplaceBinResolves
CHECK_DEADLOCK FALSE
