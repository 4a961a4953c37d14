SPECIFICATION TeamSpec
CONSTANTS
    Tickets <- MCTickets
    Goal = "goal"
    Relations <- MCRelations
    MayBeClosed = {"b"}
    Environments <- MCEnvironments
    Gates <- MCGates
    Records <- MCRecords
    Arcs = {x}
    Units = {"all"}
    Ceiling = 1
    MaxPasses = 1
    OtherTree = "w2"
    OtherFile = "f2"
    Issue = "goal"
    Bodies = {"x1", "x2"}
    Sessions = {"n1", "n2"}
INVARIANTS RunsOnce ReservationsDisjoint DeliveredOnce
PROPERTIES EffectsAdmitted RunEnds
CHECK_DEADLOCK FALSE
