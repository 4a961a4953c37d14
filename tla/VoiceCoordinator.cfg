\* Turns with a capture device, a cancelling thread and another adapter, under
\* bounded callbacks, a polling caller and a running clock.
SPECIFICATION FairSpec
CONSTANTS
    Cancellers = {t1}
    HasDevice = TRUE
    MaxGeneration = 5
INVARIANTS ResourcesLeased
PROPERTIES SuccessorUntouched ActsOnce TurnsEnd
