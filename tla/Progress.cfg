SPECIFICATION Spec
CONSTANTS
    MaxTasks = 4
    MaxPos = 3
    MaxWidth = 3
INVARIANTS Remembered WithinTheStep
PROPERTY PushAndPopRestore
CHECK_DEADLOCK FALSE
