\* Two cancel threads, a rival adapter, spoken output; three generations.
SPECIFICATION TtsSpec
CONSTANTS
    Adapters = {"conversation", "rival"}
    Cancelers = {c1, c2}
    MaxGeneration = 3
    Scenes <- MCScenes
INVARIANTS AdmissionExclusive OutputAccounted
PROPERTIES ImplementsOwner NoVoidedAnswer CancelsEnd
CHECK_DEADLOCK FALSE
