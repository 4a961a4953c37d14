\* Acceptance under fairness.
SPECIFICATION FairSpec
CONSTANTS
    MaxPackages = 1
    MaxContexts = 2
    MaxInputs = 1
    MaxTurns = 1
    MaxTickets = 1
    Quota = 1
    Casts = {{"workflow", "tickets", "startup", "goal"}}
PROPERTIES AcceptedIsVerified
CHECK_DEADLOCK FALSE
