--------------------------- MODULE DispatchLedger ---------------------------
(***************************************************************************)
(* What ControlPlane promises its caller (runtime/core.py), independent of *)
(* how dispatchers, locks, tokens and journals are arranged: an intent is  *)
(* recorded before a command takes effect, a command takes effect at most  *)
(* once in the whole life of the journal, and the journal holds at most    *)
(* one settled outcome for it, and only after the effect.                  *)
(***************************************************************************)
EXTENDS Naturals

CONSTANTS Commands, Outcomes

VARIABLES intended,     \* commands whose execution intent is durable
          effects,      \* how often each command's executor was invoked
          settled       \* durable receipts <<command, outcome>>

ledgerVars == <<intended, effects, settled>>

LedgerInit == /\ intended = {}
              /\ effects = [c \in Commands |-> 0]
              /\ settled = {}

Intend(c) == /\ intended' = intended \cup {c}
             /\ UNCHANGED <<effects, settled>>

Effect(c) == /\ c \in intended
             /\ effects[c] = 0
             /\ effects' = [effects EXCEPT ![c] = 1]
             /\ UNCHANGED <<intended, settled>>

Settle(c, o) == /\ effects[c] = 1
                /\ \A other \in Outcomes : <<c, other>> \notin settled
                /\ settled' = settled \cup {<<c, o>>}
                /\ UNCHANGED <<intended, effects>>

LedgerNext == \E c \in Commands : \/ Intend(c)
                                  \/ Effect(c)
                                  \/ \E o \in Outcomes : Settle(c, o)

LedgerSpec == LedgerInit /\ [][LedgerNext]_ledgerVars
=============================================================================
