\* Resets by tickets and by hand, ceiling decisions, and recovery of expired resets.
SPECIFICATION Spec
CONSTANTS
    MaxPackages = 2
    MaxContexts = 3
    MaxInputs = 1
    MaxTurns = 2
    MaxTickets = 1
    Quota = 1
    Casts = {{"workflow", "tickets", "operator"},
             {"workflow", "tickets", "people"},
             {"people", "operator"},
             {"workflow", "people", "pause", "recovery"},
             {"workflow", "ceiling", "people"},
             {"workflow", "ceiling", "recovery"}}
INVARIANTS InputOnce OneEpochPerReset GenuineReset AdmissionSettled RoutingExplained RecoveredHeld
CHECK_DEADLOCK FALSE
