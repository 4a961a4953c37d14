----------------------- MODULE ProviderConfiguration ------------------------
(***************************************************************************)
(* The configuration owner of runtime/providers/configuration.py and the   *)
(* gateway client it opens, rebinds and closes.  Every operation runs in   *)
(* the gateway's configuration transaction: under its lock and refused in  *)
(* a callback, so here when `pc' is "free".  _permit is the one that runs  *)
(* inside a call, as the client's permit callback.                         *)
(*                                                                         *)
(* A candidate is an object of its own even when its content is not new.   *)
(* What a candidate contains is its route pairing: "alone" has a host      *)
(* manifest, "paired" a local one too.  `eligible' holds the manifests     *)
(* whose last observation would satisfy _healthy now.                      *)
(***************************************************************************)
EXTENDS GatewayClient

CONSTANTS Candidates,   \* candidate objects (the code retains 256)
          MaxReceipts,  \* receipts outstanding, 256 in the code
          MaxRevision,  \* bound on the revision counter
          MaxServed     \* bound on the requests a configured client serves

ASSUME ConfigurationAssumption ==
    /\ MaxReceipts \in Nat /\ MaxRevision \in Nat /\ MaxServed \in Nat
    /\ None \notin Candidates

VARIABLES
    revision,       \* _state.revision
    current,        \* _state.candidate of an Active state, None if Disabled
    previous,       \* _state.previous of a Disabled state
    made,           \* candidates that were ever staged
    staged,         \* _staged
    baseline,       \* per candidate: its baseline revision
    content,        \* per candidate: "alone" or "paired"
    approvals,      \* _approvals, as <<candidate, receipt>>
    past,           \* the candidates in _history
    eligible,       \* manifests, as <<content, route>>
    clockFault,     \* _clock_fault
    bound,          \* the candidate the client's routes were taken from, or None
    licensed        \* history: <<candidate, revision>> a receipt was issued for

stageVars == <<made, staged, baseline, content>>
confVars == <<revision, current, previous, stageVars, approvals, past, eligible, clockFault, bound,
              licensed>>

Manifests(k) == {k} \X (IF k = "paired" THEN {"host", "local"} ELSE {"host"})

ConfInit == /\ Init
            /\ revision = 0 /\ current = None /\ previous = None
            /\ made = {} /\ staged = {}
            /\ baseline = [c \in Candidates |-> 0]
            /\ content = [c \in Candidates |-> "alone"]
            /\ approvals = {} /\ past = {} /\ eligible = {}
            /\ clockFault = FALSE /\ bound = None /\ licensed = {}

-----------------------------------------------------------------------------
Transaction == pc = "free" /\ claimed

\* stage, once its checks of policy, routes and evidence pass.
StageAs(c, k) ==
    /\ Transaction /\ c \notin made
    /\ made' = made \cup {c} /\ staged' = staged \cup {c}
    /\ baseline' = [baseline EXCEPT ![c] = revision]
    /\ content' = [content EXCEPT ![c] = k]
    /\ UNCHANGED <<vars, revision, current, previous, approvals, past, eligible, clockFault, bound,
                   licensed>>

Stage(c) == \E k \in {"alone", "paired"} : StageAs(c, k)

\* restore: content that was active becomes a fresh candidate, never active.
Restore(c) == \E old \in past : StageAs(c, content[old])

\* observe a manifest of an owned candidate.
Observe(c, r, healthy) ==
    /\ Transaction /\ c \in staged
    /\ <<content[c], r>> \in Manifests(content[c])
    /\ eligible' = IF healthy THEN eligible \cup {<<content[c], r>>}
                              ELSE eligible \ {<<content[c], r>>}
    /\ UNCHANGED <<vars, revision, current, previous, stageVars, approvals, past, clockFault, bound,
                   licensed>>

\* An observation outlives the policy's health_ttl_ms, during a call too.
HealthAges == /\ pc \in {"free", "permit"}      \* no other step looks
              /\ \E m \in eligible : eligible' = eligible \ {m}
              /\ UNCHANGED <<vars, revision, current, previous, stageVars, approvals, past,
                             clockFault, bound, licensed>>

\* Mutant: whatever was staged can be approved and activated, however old.
FitsStaged(c) == c \in staged

\* _owned and the stale-revision check, the same in approve, reject and activate.
Fits(c) == c \in staged /\ baseline[c] = revision

\* approve or approve_bootstrap, whichever its evidence calls for.
Approve(c, n) ==
    /\ Transaction /\ Fits(c)
    /\ \A a \in approvals : a[2] # n
    /\ approvals' = approvals \cup {<<c, n>>}
    /\ licensed' = licensed \cup {<<c, revision>>}
    /\ UNCHANGED <<vars, revision, current, previous, stageVars, past, eligible, clockFault, bound>>

\* reject: the candidate and its receipts are gone.
Reject(c) ==
    /\ Transaction /\ Fits(c)
    /\ staged' = staged \ {c}
    /\ approvals' = {a \in approvals : a[1] # c}
    /\ licensed' = licensed \ {<<c, revision>>}
    /\ UNCHANGED <<vars, revision, current, previous, made, baseline, content, past, eligible,
                   clockFault, bound>>

\* activate got past ownership, revision, receipt and evaluation, but its time runs
\* backwards: the clock fault stays.
ActivateLate(a) == /\ Transaction /\ a \in approvals /\ Fits(a[1])
                   /\ clockFault' = TRUE
                   /\ UNCHANGED <<vars, revision, current, previous, stageVars, approvals, past,
                                  eligible, bound, licensed>>

\* What activate checks before it touches the client, evaluation and budget aside.
Activable(a) == /\ a \in approvals /\ Fits(a[1])
                /\ ~clockFault
                /\ Manifests(content[a[1]]) \subseteq eligible

\* The client refuses while it has a call, an unread result or a fault; activate
\* then publishes nothing.
Rebind(c) == Reconfigure(content[c] = "paired") /\ bound' = c

Activate(a) ==
    /\ Transaction /\ Activable(a) /\ revision < MaxRevision
    /\ Rebind(a[1])
    /\ revision' = revision + 1 /\ current' = a[1] /\ previous' = None
    /\ past' = past \cup {a[1]}
    /\ approvals' = approvals \ {a}
    /\ UNCHANGED <<stageVars, eligible, clockFault, licensed>>

\* disable: published first, then the client closes and cancels.
DisableConfiguration ==
    /\ Transaction /\ revision < MaxRevision
    /\ revision' = revision + 1 /\ current' = None
    /\ previous' = IF current # None THEN current ELSE previous
    /\ Disable
    /\ UNCHANGED <<stageVars, approvals, past, eligible, clockFault, bound, licensed>>

\* _permit's answer: the attempt's own manifest, of the candidate in force.
Permits == /\ current # None /\ bound = current
           /\ <<content[current], route>> \in eligible

\* The permit callback.  The client's reading of the clock may be behind a time the
\* configuration has already seen; the service may not be one of the provider's.
PermitAttempt ==
    \/ /\ ~claimed /\ \E permitted \in BOOLEAN : Permit(permitted)
       /\ UNCHANGED confVars
    \/ /\ claimed
       /\ \E sound, served \in BOOLEAN :
            /\ clockFault' = (clockFault \/ ~sound)
            /\ Permit(~clockFault' /\ Permits /\ served)
       /\ UNCHANGED <<revision, current, previous, stageVars, approvals, past, eligible, bound,
                      licensed>>

-----------------------------------------------------------------------------
ConfigurationStep ==
    \/ \E c \in Candidates : \/ Stage(c) \/ Restore(c) \/ Reject(c)
                             \/ \E n \in 1 .. MaxReceipts : Approve(c, n)
                             \/ \E r \in {"host", "local"}, healthy \in BOOLEAN :
                                   Observe(c, r, healthy)
    \/ HealthAges
    \/ \E a \in approvals : Activate(a) \/ ActivateLate(a)
    \/ DisableConfiguration

\* Without a configuration owner anyone may reconfigure or disable the client.
ClientStep ==
    /\ \/ CallbackStep \/ Poll \/ Cancel \/ ReentrantCancel \/ Expire
       \/ \E r \in Requests : /\ claimed => Cardinality(history) < MaxServed
                              /\ Start(r)
       \/ Cardinality(history) < MaxServed /\ ClaimConfiguration
       \/ ~claimed /\ (Disable \/ \E local \in BOOLEAN : Reconfigure(local))
    /\ UNCHANGED confVars

ConfNext == ClientStep \/ PermitAttempt \/ ConfigurationStep

confAll == <<vars, confVars>>

\* Callbacks return, the caller polls, and time passes.
ConfSpec == /\ ConfInit /\ [][ConfNext]_confAll
            /\ WF_confAll(PermitAttempt \/ (CallbackStep /\ UNCHANGED confVars))
            /\ WF_confAll(Poll /\ UNCHANGED confVars)
            /\ WF_confAll(Expire /\ UNCHANGED confVars)

-----------------------------------------------------------------------------
\* The client is open exactly while a candidate is in force, and then on that
\* candidate's routes: no refusal, disable or call leaves the two apart.
ActiveBound ==
    claimed => /\ current # None <=> ~disabled
               /\ current # None => bound = current /\ hasLocal = (content[current] = "paired")

\* A provider begins work only as the client admits it and, on a configured client,
\* only under the candidate in force and on its routes: one for which a receipt was
\* issued at the very revision it replaced and not withdrawn, healthy for this
\* attempt (a fallback has its own), on a configuration clock that never ran
\* backwards.
BeginsApproved ==
    /\ BeginAdmitted
    /\ [][pc' = "begin" /\ pc # "begin" /\ claimed =>
             /\ current # None /\ <<current, revision - 1>> \in licensed
             /\ ActiveBound
             /\ <<content[current], route>> \in eligible
             /\ ~clockFault']_confAll
=============================================================================
