\* Any guard may call back into another dispatcher of the same journal.
SPECIFICATION Spec
CONSTANTS
    p1 = p1
    p2 = p2
    c1 = c1
    c2 = c2
    Planes = {p1, p2}
    Commands = {c1}
    Tokens = {t1, t2}
    Keys = {k1, k2}
    Versions = {1, 2}
    CmdVersion <- MCReentrantVersion
    Risk <- MCReentrantRisk
    ValidArguments = {c1}
    Allowed <- MCAllowed
    ConfirmRequired <- MCNoConfirm
    OwnReentry = {"cguard", "guard1", "guard2", "exec"}
    OtherReentry = {"cguard", "guard1", "guard2", "exec"}
    MaxDepth = 3
    MaxConfirmations = 1
SYMMETRY MCSymmetry
INVARIANT AtMostOnce
