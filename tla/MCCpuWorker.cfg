\* Two addresses and the whole alphabet of commands, three of them in a row.
CONSTANTS
    Addresses = {0, 1}
    Names = {n1}
    Counts = {0, 2}

    Alphabet = {"Run", "RunTo", "Pause", "StepOne", "StepOver", "Reset", "LoadFirmware",
                "SetBreakpoint", "RemoveBreakpoint", "SetWatchpoint", "RemoveWatchpoint",
                "WritePc", "WriteBlink", "WriteSram", "Request", "SetSpeed", "SaveSnapshot",
                "RestoreSnapshot", "DeleteSnapshot", "Shutdown"}
    MaxQueued = 1
    MaxSent = 3
SPECIFICATION FairSpec
INVARIANTS
    StatesAgree
    BudgetRespected
PROPERTIES
    BreakpointsHold BoundedRunEnds CommandsAreHandled
CHECK_DEADLOCK FALSE
