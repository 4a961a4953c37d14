\* The supervisor dies between a close decision and its request.
SPECIFICATION FairSpec
CONSTANTS
    MaxPackages = 1
    MaxContexts = 2
    MaxInputs = 1
    MaxTurns = 1
    MaxTickets = 1
    Quota = 1
    Casts = {{"ceiling"}}
PROPERTIES CloseRequestsReset
CHECK_DEADLOCK FALSE
