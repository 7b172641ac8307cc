CONSTANTS
    NumMessages = 3
    JsEvent = JsEvent
    Loops = {1, 2}
    MaxAttempts = 1
    CloseWhen = {"connected"}
    MaxJsEvents = 1
    MaxUpdates = 1
    MaxFaults = 1
    MaxCrashes = 1
SPECIFICATION FairSpec
CHECK_DEADLOCK FALSE
INVARIANTS
    TypeOK
    AckedIsStored
    QueueIsAttended
PROPERTIES
    FirstStoredInOrder
    SavedIsNotRepeated
    EventuallyStored
