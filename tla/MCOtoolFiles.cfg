SPECIFICATION Spec
CONSTANTS
    NoArch = NoArch
    Inputs <- MCInputs
    Wants = {"all", "arm64", "arm64e", "aarch64", "x86_64"}
INVARIANTS TypeOK DumpsWhatIsAsked AllDumpsEachSlice DefaultsAgree
CHECK_DEADLOCK FALSE
