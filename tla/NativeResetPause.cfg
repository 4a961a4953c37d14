\* The operator pauses while a bootstrap writes the routing.
SPECIFICATION Spec
CONSTANTS
    MaxPackages = 1
    MaxContexts = 2
    MaxInputs = 1
    MaxTurns = 1
    MaxTickets = 1
    Quota = 1
    Casts = {{"workflow", "tickets", "pause"}}
PROPERTIES PauseKept
CHECK_DEADLOCK FALSE
