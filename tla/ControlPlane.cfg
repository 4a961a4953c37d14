\* Two dispatchers sharing a journal, two commands, executors that call back in.
SPECIFICATION Spec
CONSTANTS
    p1 = p1
    p2 = p2
    c1 = c1
    c2 = c2
    Planes = {p1, p2}
    Commands = {c1, c2}
    Tokens = {t1}
    Keys = {k1, k2}
    Versions = {1, 2}
    CmdVersion <- MCVersion
    Risk <- MCRisk
    ValidArguments = {c1, c2}
    Allowed <- MCAllowed
    ConfirmRequired <- MCNoConfirm
    OwnReentry = {"exec"}
    OtherReentry = {"exec"}
    MaxDepth = 2
    MaxConfirmations = 1
SYMMETRY MCSymmetry
INVARIANTS AtMostOnce DispatchInv HonestReport CatalogPinned PreviewsCurrent
PROPERTIES ApprovalRequired ImplementsLedger
