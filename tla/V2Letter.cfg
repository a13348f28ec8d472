SPECIFICATION Spec
CONSTANTS
    Crc <- ToyCrc
    Writers = {"a"}
    Script <- LetterScript
    WriteSizes = {2, 100}
    MayTear = FALSE
    MayDie = {}
    Sources = {"buffered"}
    Names = {TRUE}
    MaxBuffered = 3
INVARIANT CharacterStaysText
CHECK_DEADLOCK FALSE
