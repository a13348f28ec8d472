SPECIFICATION Spec
CONSTANTS
    Crc <- ToyCrc
    Writers = {"a", "b"}
    Script <- MixedScript
    WriteSizes = {2, 100}
    MayTear = FALSE
    MayDie = {}
    Sources = {"buffered", "bytes"}
    Names = {TRUE}
    MaxBuffered = 3
INVARIANT PacketsAndTextApart
PROPERTY IsChannel
CHECK_DEADLOCK FALSE
