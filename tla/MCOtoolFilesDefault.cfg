SPECIFICATION Spec
CONSTANTS
    NoArch = NoArch
    Inputs <- MCInputs
    Wants = {"all", "arm64", "arm64e", "aarch64", "x86_64"}
INVARIANT OpensA64BitSlice
CHECK_DEADLOCK FALSE
