SPECIFICATION Spec
CONSTANTS
    Crc <- ToyCrc
    Writers = {"a", "b"}
    Script <- TornScript
    WriteSizes = {3, 100}
    MayTear = TRUE
    MayDie = {"a"}
    Sources = {"buffered", "bytes"}
    Names = {TRUE, FALSE}
    MaxBuffered = 3
INVARIANTS TypeOK NothingSkipped NoForgery LostOnlyToEarlierDamage
PROPERTY Stops
CHECK_DEADLOCK FALSE
