CONSTANTS
    NumMessages = 3
    JsEvent = JsEvent
    Loops = {1, 2}
    MaxAttempts = 1
    CloseWhen = {"connected"}
    MaxJsEvents = 0
    MaxUpdates = 0
    MaxFaults = 1
    MaxCrashes = 0
SPECIFICATION Spec
CHECK_DEADLOCK FALSE
INVARIANT
    FailedIsNotPassed
