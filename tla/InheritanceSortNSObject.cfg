SPECIFICATION Spec
CONSTANTS
    Names = {1, 2, 3, 4}
    NSObject = 3
    NoSuper = NoSuper
    MaxClasses = 4
INVARIANT ParentsBeforeChildren
CHECK_DEADLOCK FALSE
