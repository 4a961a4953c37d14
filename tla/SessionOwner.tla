---------------------------- MODULE SessionOwner ----------------------------
(***************************************************************************)
(* The process-local admission lease of runtime/voice/session.py.  Every   *)
(* voice adapter (command coordinator, dictation, conversation) shares one *)
(* SessionOwner; each method is one atomic step under its lock.            *)
(***************************************************************************)
EXTENDS Naturals

CONSTANT MaxGeneration      \* bound on the generation counter

ASSUME GenerationAssumption == MaxGeneration \in Nat

VARIABLES generation,       \* _generation
          owner,            \* _owner, 0 for None
          state             \* _state

ownerVars == <<generation, owner, state>>

OwnerInit == generation = 0 /\ owner = 0 /\ state = "idle"

\* begin raises BusyError, or FaultedError, unless the owner is idle.
CanBegin == state = "idle" /\ generation < MaxGeneration

Begin == /\ CanBegin
         /\ generation' = generation + 1
         /\ owner' = generation + 1
         /\ state' = "owned"

\* Both forms of cancel, once they found something to invalidate.  The counter
\* stays at its bound: no lease begins there any more.
Invalidate == /\ generation' = IF generation < MaxGeneration THEN generation + 1
                                                             ELSE generation
              /\ state' = IF state = "owned" THEN "canceling" ELSE state
              /\ UNCHANGED owner

\* Mutant: a cancel that names no generation.
CancelAnyLease(g) == Invalidate

\* cancel(generation=g): a generation that is not the owner's changes nothing.
CancelLease(g) == \/ g # 0 /\ g = owner /\ Invalidate
                  \/ (g = 0 \/ g # owner) /\ UNCHANGED ownerVars

Accepts(g) == state = "owned" /\ g = owner

\* release(g, cleaned) raises for a fault and for another owner's generation.
Release(g, cleaned) ==
    /\ state # "faulted"
    /\ owner = g
    /\ \/ cleaned /\ owner' = 0 /\ state' = "idle"
       \/ ~cleaned /\ state' = "faulted" /\ UNCHANGED owner
    /\ UNCHANGED generation

OwnerTypeOK == /\ generation \in 0 .. MaxGeneration
               /\ owner \in 0 .. MaxGeneration
               /\ state \in {"idle", "owned", "canceling", "faulted"}
=============================================================================
