--------------------------- MODULE MCControlPlane ---------------------------
(* Small instances of ControlPlane for TLC. *)
EXTENDS ControlPlane, TLC

CONSTANTS p1, p2, c1, c2

\* c1 runs without confirmation unless previewed; c2's capability asks for it.
MCRisk == (c1 :> "safe") @@ (c2 :> "confirm")
MCVersion == (c1 :> 1) @@ (c2 :> 2)
MCReentrantRisk == (c1 :> "safe")
MCReentrantVersion == (c1 :> 1)
MCAllowed == [p \in Planes |-> Commands]
MCNoConfirm == [p \in Planes |-> {}]

\* Planes with one policy, and context keys, are interchangeable.
MCSymmetry == Permutations(Planes) \cup Permutations(Keys)
=============================================================================
