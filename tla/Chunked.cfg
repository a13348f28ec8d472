SPECIFICATION Spec
CONSTANTS
    Texts <- Contents
    MaxWrites = 3
    MaxBuffered = 4
    Rest <- Marker
    Interruptions <- Printed
    PieceSizes = {1, 2, 5, 20}
INVARIANTS TypeOK RestIsReturned
PROPERTIES IsPipe EndIsRead
CHECK_DEADLOCK FALSE
