---------------------------- MODULE SharedOwner -----------------------------
(***************************************************************************)
(* Adapters that share one SessionOwner (runtime/voice/session.py), each   *)
(* with physical resources it starts only under a lease.  Cancellations    *)
(* are threads of their own: they may arrive at any time with any          *)
(* generation their adapter was ever given, however old.                   *)
(***************************************************************************)
EXTENDS SessionOwner

CONSTANT Adapters

VARIABLES given,        \* per adapter: generations begin ever returned to it
          holds,        \* per adapter: the lease it has not released, or 0
          live          \* adapters with a running resource

vars == <<generation, owner, state, given, holds, live>>

Init == /\ OwnerInit
        /\ given = [a \in Adapters |-> {}]
        /\ holds = [a \in Adapters |-> 0]
        /\ live = {}

BeginBy(a) == /\ holds[a] = 0
              /\ Begin
              /\ given' = [given EXCEPT ![a] = @ \cup {owner'}]
              /\ holds' = [holds EXCEPT ![a] = owner']
              /\ UNCHANGED live

\* An adapter opens a device or starts a job under its lease, which a cancel may
\* have invalidated since the adapter last asked, or a borrower have faulted.
StartResource(a) == /\ holds[a] # 0 \/ state = "faulted"
                    /\ live' = live \cup {a}
                    /\ UNCHANGED <<generation, owner, state, given, holds>>

\* The adapter's device or job is proven to have ended.
StopResource(a) == /\ live' = live \ {a}
                   /\ UNCHANGED <<generation, owner, state, given, holds>>

\* A cancel, possibly late, of a generation the adapter was given.
CancelBy(a, g) == /\ g \in given[a]
                  /\ CancelLease(g)
                  /\ UNCHANGED <<given, holds, live>>

\* cancel() without a generation.
GlobalCancel == Invalidate /\ UNCHANGED <<given, holds, live>>

\* "The caller releases ONLY after all owned resources are cleaned"; otherwise it
\* reports that they are not.
ReleaseBy(a, cleaned) ==
    /\ holds[a] # 0
    /\ cleaned => a \notin live
    /\ Release(holds[a], cleaned)
    /\ holds' = [holds EXCEPT ![a] = 0]
    /\ UNCHANGED <<given, live>>

Next == \/ \E a \in Adapters : \/ BeginBy(a)
                               \/ StartResource(a)
                               \/ StopResource(a)
                               \/ \E g \in given[a] : CancelBy(a, g)
                               \/ \E cleaned \in BOOLEAN : ReleaseBy(a, cleaned)
        \/ GlobalCancel

Spec == Init /\ [][Next]_vars

-----------------------------------------------------------------------------
\* Generations, leases and holders stay within what session.py hands out.
TypeOK == /\ OwnerTypeOK
          /\ given \in [Adapters -> SUBSET (1 .. MaxGeneration)]
          /\ holds \in [Adapters -> 0 .. MaxGeneration]
          /\ live \subseteq Adapters

\* While any adapter's device or job may still run, nobody else is admitted:
\* the lease is that adapter's own, or the owner is faulted for good.
AdmissionExclusive ==
    \A a \in live : state = "faulted" \/ (holds[a] # 0 /\ owner = holds[a])

\* A cancel, however late, only ever invalidates a lease of its own adapter
\* ("a late cancel cannot invalidate a successor's dictation/capture lease").
LateCancelHarmless ==
    [][\A a \in Adapters : \A g \in given[a] :
          CancelBy(a, g) /\ state' # state => holds[a] = owner]_vars

\* Unproven cleanup is never forgotten ("cannot be reversed on this instance").
FaultLatched == [][state = "faulted" => UNCHANGED <<state, owner>>]_vars

-----------------------------------------------------------------------------
(* The inductive invariant of the proofs: a generation belongs to one       *)
(* adapter, and an unreleased lease is the owner's current one.             *)
LeaseInv ==
    /\ \A a, b \in Adapters : \A g \in given[a] : g \in given[b] => a = b
    /\ \A a \in Adapters : \A g \in given[a] : g <= generation
    /\ \A a \in Adapters : holds[a] # 0 => /\ holds[a] \in given[a]
                                           /\ holds[a] = owner
                                           /\ state \in {"owned", "canceling"}
    /\ state \in {"owned", "canceling"} => \E a \in Adapters : holds[a] = owner
    /\ state = "idle" <=> owner = 0
    /\ AdmissionExclusive
=============================================================================
