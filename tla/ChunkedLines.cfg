SPECIFICATION Spec
CONSTANTS
    Texts <- Contents
    MaxWrites = 2
    MaxBuffered = 4
    Rest <- Marker
    Interruptions <- Printed
    PieceSizes = {1, 2, 20}
INVARIANT LinesLeaveNothing
CHECK_DEADLOCK FALSE
