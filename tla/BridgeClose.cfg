CONSTANTS
    NumMessages = 3
    JsEvent = JsEvent
    Loops = {1, 2}
    MaxAttempts = 1
    CloseWhen = {"connected", "connecting", "waiting"}
    MaxJsEvents = 1
    MaxUpdates = 0
    MaxFaults = 0
    MaxCrashes = 0
SPECIFICATION Spec
CHECK_DEADLOCK FALSE
INVARIANT
    OneInstance
