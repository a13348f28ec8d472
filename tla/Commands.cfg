SPECIFICATION Spec
CONSTANTS
    Scripts <- Programs
    ChunkSize = 2
    MayDie = {"a"}
    Directory <- Out
    Existing <- OnDisk
    Setups <- Options
INVARIANTS EndedOnce AttachmentsWhole SameTests BegunTestsAreTimed RoutedAsAsked AddedTagsStay
PROPERTY NothingOverwritten
CHECK_DEADLOCK FALSE
