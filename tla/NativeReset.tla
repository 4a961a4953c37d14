----------------------------- MODULE NativeReset -----------------------------
(***************************************************************************)
(* The context reset of the lead orchestrator's lane: the supervisor of    *)
(* ops/orchestration/auto_reset.py, the reset operations of the loop       *)
(* journal in ops/orchestration/loop.py, and the terminal lane they act    *)
(* on.                                                                     *)
(*                                                                         *)
(* Four files are durable, each replaced atomically: the supervisor's      *)
(* state `sup`, the loop journal `jr`, the routing `control` and the       *)
(* `release` of the outgoing lane.  Everything the supervisor holds in     *)
(* memory is in `pc` and `mem`, and dies with it.  An operation of the     *)
(* journal holds the loop's lease (`op`) from its first read to its last   *)
(* write; the lease does not block, a second caller is refused.  Native    *)
(* input (keys typed into the window, a prompt queued to a thread) cannot  *)
(* be taken back and is acknowledged, or not, after the fact.  People and  *)
(* the model itself act on the lane at any time.                           *)
(***************************************************************************)
EXTENDS Integers, Sequences, FiniteSets

CONSTANTS MaxPackages,  \* clear packages ever sealed
          MaxContexts,  \* native contexts ever created
          MaxInputs,    \* user messages per context
          MaxTurns,     \* completed turns the ceiling decides on
          MaxTickets,   \* tickets ever completed
          Quota,        \* completed tickets per epoch, 5 in the code
          Casts         \* sets of AllActors, one of which acts beside the supervisor

\* The lane's workflow, its tickets and its startup, people at the lane, the model
\* going on by itself, turns the ceiling decides on, the operator's pause, resets
\* by hand and recoveries.
AllActors == {"workflow", "tickets", "startup", "people", "goal", "ceiling", "pause",
              "operator", "recovery"}

ASSUME ResetAssumption ==
    /\ MaxPackages \in Nat /\ MaxContexts \in Nat \ {0} /\ MaxInputs \in Nat
    /\ MaxTurns \in Nat /\ MaxTickets \in Nat /\ Quota \in Nat \ {0}
    /\ Casts \subseteq SUBSET AllActors

VARIABLES
    sup,        \* supervisor state file
    jr,         \* loop journal
    control,    \* session-control file: [routed, paused]
    release,    \* release file of the outgoing lane
    packages,   \* sealed clear packages, by number
    grant,      \* maintenance recovery authority, with its frozen copies
    pc,         \* where the supervisor's step is, or "idle"
    mem,        \* what the step has read and still uses
    op,         \* journal operation in progress, under the loop's lease
    expired,    \* have 120 s passed since sup.started?
    live,       \* context shown in the window
    contexts,   \* number of contexts created; they are 1 .. contexts
    input,      \* user messages of each context: package prompts or Human
    busy,       \* contexts with an active turn
    title,      \* package named by the window's title, or 0
    typed,      \* packages whose clear keys are typed and not yet acted on
    queued,     \* <<package, context>> prompts queued and not yet delivered
    turn,       \* completed turns
    cast,       \* who acts in this behaviour
    sent,       \* history: how often each native input was sent
    credited    \* history: packages that earned an epoch

supervisor == <<sup, pc, mem, expired>>
native == <<live, contexts, input, busy, title, typed, queued, turn>>
vars == <<supervisor, jr, control, release, packages, grant, op, native, cast, sent, credited>>

Packages == 1 .. MaxPackages
Contexts == 1 .. MaxContexts
Turns == 1 .. MaxTurns
Human == -1
NoOp == [kind |-> "none", by |-> "none", session |-> 0, paused |-> FALSE]
NoRelease == [session |-> 0, epoch |-> 0, completed |-> 0, lane |-> 0, inputs |-> 0]
NoGrant == [on |-> FALSE]
NoMem == [lane |-> 0, inputs |-> 0, band |-> "none", turn |-> 0, pkg |-> 0, epoch |-> 0]

Monitoring == [phase |-> "monitoring", pkg |-> 0, old |-> 0, inputs |-> 0, fresh |-> 0,
               control |-> [routed |-> 0, paused |-> FALSE],
               decisions |-> [t \in Turns |-> "none"], close |-> 0]

Init ==
    /\ sup = Monitoring
    /\ jr = [session |-> 1, epoch |-> 0, completed |-> 0, start |-> 0, admitted |-> FALSE,
             admission |-> "none", reset |-> 0, requested |-> FALSE, pending |-> 0,
             awaiting |-> FALSE, maintenance |-> FALSE, boot |-> 0, booted |-> 0,
             receipt |-> 0, startup |-> FALSE, measured |-> -1, intent |-> FALSE,
             recovered |-> 0, failed |-> 0]
    /\ control = [routed |-> 1, paused |-> FALSE]
    /\ release = NoRelease /\ packages = <<>> /\ grant = NoGrant
    /\ pc = "idle" /\ mem = NoMem /\ op = NoOp /\ expired = FALSE
    /\ live = 1 /\ contexts = 1 /\ busy = {1}
    /\ input = [c \in Contexts |-> IF c = 1 THEN <<Human>> ELSE <<>>]
    /\ title = 0 /\ typed = {} /\ queued = {} /\ turn = 0
    /\ sent = [clear |-> [p \in Packages |-> 0], prompt |-> [p \in Packages |-> 0],
               instruction |-> [t \in Turns |-> 0]]
    /\ cast \in Casts /\ credited = {}

-----------------------------------------------------------------------------
(* What the steps look at *)

\* An uncontended lease of the loop journal.
Leasable == op = NoOp

\* A context that the native client created after package p was sealed.
Created(p) == {c \in 1 .. contexts : c > packages[p].born}

\* NativeWindow.context: the one new context, and the window holds it.  More
\* than one, or one that is not held, is refused.
Context(p) == IF Created(p) = {live} THEN live ELSE 0

\* The context's last turn is complete (a context nobody wrote to has had none).
Idle(c) == c \notin busy /\ input[c] # <<>>

\* The context took the prompt of p as its only user message.
SolePrompt(c, p) == input[c] = <<p>>

\* Mutant: a transfer whose publication was interrupted is not recognised.
UnchangedParentOrPending(c) ==
    /\ \/ control = sup.control
       \/ c # 0 /\ c = jr.pending /\ control = [sup.control EXCEPT !.routed = c]
    /\ Len(input[sup.old]) = sup.inputs

\* unchanged_parent: routing and pause are as prepared, except for the transfer
\* to context c that a bootstrap of this package left pending or published.
UnchangedParent(c) ==
    /\ \/ control = sup.control
       \/ /\ c # 0
          /\ \/ c = jr.pending
             \/ /\ jr.pending = 0 /\ ~jr.awaiting
                /\ jr.boot = sup.pkg /\ jr.booted = c /\ jr.session = c
          /\ control = [sup.control EXCEPT !.routed = c]
    /\ Len(input[sup.old]) = sup.inputs

\* ready_clear for the transcript of context c.
ReadyClear(c) == jr.reset # 0 /\ Idle(c) /\ c = packages[jr.reset].previous

-----------------------------------------------------------------------------
(* The workflow's own journal operations: one save each *)

\* The refusals of begin that change nothing.
MayBegin(maintenance) ==
    /\ ~jr.awaiting
    /\ jr.startup => jr.measured = jr.epoch
    /\ jr.maintenance => maintenance
    /\ control.paused => maintenance
    /\ control.routed = jr.session

ResetRequired(maintenance) ==
    \/ jr.completed - jr.start >= Quota
    \/ jr.reset # 0
    \/ jr.requested /\ ~(maintenance /\ jr.maintenance)

Begin(maintenance, headroom) ==
    /\ Leasable /\ MayBegin(maintenance)
    /\ \/ /\ ~headroom
          /\ jr' = [jr EXCEPT !.requested = TRUE]
       \/ /\ headroom /\ ~ResetRequired(maintenance)
          /\ jr' = [jr EXCEPT !.admission = IF maintenance THEN "maintenance" ELSE "production",
                              !.admitted = TRUE, !.startup = FALSE]
    /\ UNCHANGED <<supervisor, control, release, packages, grant, op, native, sent, credited>>

\* complete: the closed ticket of an earlier admission, in whatever epoch.
Complete ==
    /\ Leasable /\ jr.admitted /\ jr.completed < MaxTickets
    /\ jr' = [jr EXCEPT !.completed = @ + 1, !.admitted = FALSE, !.admission = "none"]
    /\ UNCHANGED <<supervisor, control, release, packages, grant, op, native, sent, credited>>

\* finish_startup: the startup is measured within its budget or not.
FinishStartup(fits) ==
    /\ Leasable /\ control.routed = jr.session /\ ~jr.awaiting
    /\ jr' = IF fits THEN [jr EXCEPT !.measured = jr.epoch]
                     ELSE [jr EXCEPT !.requested = TRUE]
    /\ UNCHANGED <<supervisor, control, release, packages, grant, op, native, sent, credited>>

\* begin measures a finished startup again, before its other refusals.
StartupOverBudget ==
    /\ Leasable /\ ~jr.awaiting /\ jr.startup /\ jr.measured = jr.epoch
    /\ jr' = [jr EXCEPT !.requested = TRUE]
    /\ UNCHANGED <<supervisor, control, release, packages, grant, op, native, sent, credited>>

\* AutoReset.release, run by the outgoing lane outside the supervisor's lock.
Release ==
    /\ release' = [session |-> jr.session, epoch |-> jr.epoch, completed |-> jr.completed,
                   lane |-> live, inputs |-> Len(input[live])]
    /\ sup' = IF sup.phase = "maintenance_recovered" THEN Monitoring ELSE sup
    /\ UNCHANGED <<jr, control, packages, grant, pc, mem, expired, op, native, sent, credited>>

-----------------------------------------------------------------------------
(* The supervisor: the ceiling's decision *)

Watching == pc = "idle" /\ sup.phase \in {"monitoring", "verified", "waiting_release"}

\* The lane is in a turn, or its last turn has been decided on.
FoldSkip ==
    /\ Watching
    /\ Idle(live) /\ turn # 0 => sup.decisions[turn] \notin {"none", "intent"}
    /\ pc' = "folded"
    /\ UNCHANGED <<sup, mem, expired, jr, control, release, packages, grant, op, native, sent,
                   credited>>

Undecided == sup.decisions[turn] = "none"

\* The decision is saved first; one with an instruction is saved as an intent.
FoldDecide(band) ==
    /\ Watching /\ Idle(live) /\ turn # 0 /\ Undecided
    /\ sup' = [sup EXCEPT !.decisions[turn] = IF band = "under" THEN "decided" ELSE "intent",
                          !.close = IF band = "close" THEN turn ELSE @]
    /\ pc' = IF band = "under" THEN "folded" ELSE "instruct"
    /\ mem' = [NoMem EXCEPT !.lane = live, !.band = band, !.turn = turn]
    /\ UNCHANGED <<expired, jr, control, release, packages, grant, op, native, sent, credited>>

AfterInstruction == IF mem.band = "close" THEN "request" ELSE "folded"

\* window.instruct: the outgoing lane is not proven, for whatever reason, and nothing
\* is sent; or the command is acknowledged, or uncertain.
Instruct(effect, ack) ==
    /\ pc = "instruct"
    /\ \/ /\ sup' = [sup EXCEPT !.decisions[mem.turn] = "refused"]
          /\ pc' = AfterInstruction
          /\ UNCHANGED sent
       \/ /\ live = mem.lane /\ (ack => effect)
          /\ sent' = IF effect THEN [sent EXCEPT !.instruction[mem.turn] = @ + 1] ELSE sent
          /\ pc' = IF ack THEN "instructed" ELSE "idle"
          /\ UNCHANGED sup
    /\ UNCHANGED <<mem, expired, jr, control, release, packages, grant, op, native, credited>>

Instructed ==
    /\ pc = "instructed"
    /\ sup' = [sup EXCEPT !.decisions[mem.turn] = "instructed"]
    /\ pc' = AfterInstruction
    /\ UNCHANGED <<mem, expired, jr, control, release, packages, grant, op, native, sent, credited>>

\* Loop.request_reset.
RequestReset ==
    /\ pc = "request" /\ Leasable
    /\ jr' = [jr EXCEPT !.requested = TRUE]
    /\ pc' = "folded"
    /\ UNCHANGED <<sup, mem, expired, control, release, packages, grant, op, native, sent, credited>>

-----------------------------------------------------------------------------
(* The supervisor: prepare *)

Due == jr.completed - jr.start >= Quota \/ jr.reset # 0 \/ jr.requested

Released ==
    release.session = jr.session /\ release.epoch = jr.epoch /\ release.completed = jr.completed

PrepareWaits ==
    /\ pc = "folded" /\ Due /\ ~Released
    /\ sup' = [Monitoring EXCEPT !.phase = "waiting_release", !.decisions = sup.decisions,
                                 !.close = sup.close]
    /\ pc' = "idle" /\ mem' = NoMem
    /\ UNCHANGED <<expired, jr, control, release, packages, grant, op, native, sent, credited>>

\* The released lane is the one in the window, with no user message since.
PrepareChecks ==
    /\ pc = "folded" /\ Due /\ Released
    /\ live = release.lane /\ Len(input[live]) = release.inputs
    /\ mem' = [NoMem EXCEPT !.lane = live, !.inputs = release.inputs]
    /\ pc' = "seal"
    /\ UNCHANGED <<sup, expired, jr, control, release, packages, grant, op, native, sent, credited>>

\* Nothing is due, or a check of prepare holds the step.
StepReturns ==
    /\ pc = "folded"
    /\ ~Due \/ (Released /\ (live # release.lane \/ Len(input[live]) # release.inputs))
    /\ pc' = "idle" /\ mem' = NoMem
    /\ UNCHANGED <<sup, expired, jr, control, release, packages, grant, op, native, sent, credited>>

\* Mutant: the admission outlives the package.
PrepareClearKeepingAdmission(previous, automatic) ==
    /\ Leasable /\ Len(packages) < MaxPackages
    /\ packages' = Append(packages, [auto |-> automatic, previous |-> previous,
                                     inherited |-> jr.session, born |-> contexts])
    /\ jr' = [jr EXCEPT !.reset = Len(packages) + 1]
    /\ UNCHANGED <<sup, expired, control, release, grant, op, native, sent, credited>>

\* Loop.prepare_clear: the package is sealed, the journal points to it and
\* drops its admission.
PrepareClear(previous, automatic) ==
    /\ Leasable /\ Len(packages) < MaxPackages
    /\ packages' = Append(packages, [auto |-> automatic, previous |-> previous,
                                     inherited |-> jr.session, born |-> contexts])
    /\ jr' = [jr EXCEPT !.reset = Len(packages) + 1, !.admission = "none"]
    /\ UNCHANGED <<sup, expired, control, release, grant, op, native, sent, credited>>

Seal ==
    /\ pc = "seal" /\ PrepareClear(mem.lane, TRUE)
    /\ pc' = "sealed" /\ mem' = [mem EXCEPT !.pkg = Len(packages) + 1]

PrepareByHand == PrepareClear(jr.session, FALSE) /\ UNCHANGED <<pc, mem>>

\* The supervisor's own record of the package, with the routing as it is now.
SavePrepared ==
    /\ pc = "sealed"
    /\ sup' = [Monitoring EXCEPT !.phase = "waiting_idle", !.pkg = mem.pkg,
                                 !.old = mem.lane, !.inputs = mem.inputs, !.control = control]
    /\ pc' = "idle" /\ mem' = NoMem /\ expired' = FALSE
    /\ UNCHANGED <<jr, control, release, packages, grant, op, native, sent, credited>>

-----------------------------------------------------------------------------
(* The supervisor: clear and prompt *)

MayClear == pc = "idle" /\ sup.phase = "waiting_idle"

ClearIntent ==
    /\ MayClear
    /\ UnchangedParent(0) /\ Idle(sup.old) /\ ReadyClear(sup.old)
    /\ live = packages[sup.pkg].previous
    /\ sup' = [sup EXCEPT !.phase = "clear_intent"]
    /\ expired' = FALSE /\ pc' = "clear"
    /\ UNCHANGED <<mem, jr, control, release, packages, grant, op, native, sent, credited>>

\* window.clear types the keys into the window, acknowledged or not.
Clear(effect, ack) ==
    /\ pc = "clear" /\ (ack => effect)
    /\ typed' = IF effect THEN typed \cup {sup.pkg} ELSE typed
    /\ sent' = IF effect THEN [sent EXCEPT !.clear[sup.pkg] = @ + 1] ELSE sent
    /\ pc' = IF ack THEN "cleared" ELSE "idle"
    /\ UNCHANGED <<sup, mem, expired, jr, control, release, packages, grant, op, live, contexts,
                   input, busy, title, queued, turn, credited>>

Cleared ==
    /\ pc = "cleared"
    /\ sup' = [sup EXCEPT !.phase = "waiting_title"]
    /\ pc' = "idle"
    /\ UNCHANGED <<mem, expired, jr, control, release, packages, grant, op, native, sent, credited>>

MayPrompt == sup.phase \in {"waiting_title", "prompt_refused"}

PromptIntent ==
    /\ pc = "idle" /\ MayPrompt /\ ~expired
    /\ UnchangedParent(0) /\ title = sup.pkg
    /\ LET c == Context(sup.pkg) IN
          /\ c # 0 /\ (sup.phase = "prompt_refused" => c = sup.fresh)
          /\ input[c] = <<>> /\ c \notin busy
          /\ sup' = [sup EXCEPT !.phase = "prompt_intent", !.fresh = c]
    /\ pc' = "queue"
    /\ UNCHANGED <<mem, expired, jr, control, release, packages, grant, op, native, sent, credited>>

\* Mutant: whatever queue raises is taken for a refusal.
UnacknowledgedAsRefused == [sup EXCEPT !.phase = "prompt_refused"]
\* Only QueueRefused is: after any other failure the intent stands.
Unacknowledged == sup

\* window.queue: the context is proven again before the command.  A proof that fails,
\* lastingly or for this once, is a refusal, and PromptIntent may send later; what
\* goes wrong once the command runs is uncertain.
Queue(effect, ack) ==
    /\ pc = "queue"
    /\ \/ /\ sup' = [sup EXCEPT !.phase = "prompt_refused"]
          /\ pc' = "idle"
          /\ UNCHANGED <<sent, queued>>
       \/ /\ Context(sup.pkg) = sup.fresh /\ input[sup.fresh] = <<>> /\ (ack => effect)
          /\ queued' = IF effect THEN queued \cup {<<sup.pkg, sup.fresh>>} ELSE queued
          /\ sent' = IF effect THEN [sent EXCEPT !.prompt[sup.pkg] = @ + 1] ELSE sent
          /\ pc' = IF ack THEN "queued" ELSE "idle"
          /\ sup' = IF ack THEN sup ELSE Unacknowledged
    /\ UNCHANGED <<mem, expired, jr, control, release, packages, grant, op, live, contexts, input,
                   busy, title, typed, turn, credited>>

Queued ==
    /\ pc = "queued"
    /\ sup' = [sup EXCEPT !.phase = "waiting_fresh"]
    /\ pc' = "idle"
    /\ UNCHANGED <<mem, expired, jr, control, release, packages, grant, op, native, sent, credited>>

-----------------------------------------------------------------------------
(* Loop.bootstrap: two saves of the journal around the write of the routing *)

\* The supervisor's own checks before it calls bootstrap.
StepBootstrap ==
    /\ pc = "idle" /\ sup.phase = "waiting_fresh" /\ jr.boot # sup.pkg /\ ~expired
    /\ UnchangedParent(sup.fresh) /\ title = sup.pkg
    /\ Context(sup.pkg) = sup.fresh /\ SolePrompt(sup.fresh, sup.pkg)
    /\ pc' = "bootstrap"
    /\ UNCHANGED <<sup, mem, expired, jr, control, release, packages, grant, op, native, sent,
                   credited>>

\* Mutant: any new context may take over a reset.
FreshLaneUnread(c) == c \in Created(jr.reset)

\* The evidence bootstrap reads from the transcript of context c.
FreshLane(c) ==
    LET p == packages[jr.reset] IN
    /\ c \notin {p.previous, p.inherited} /\ c \in Created(jr.reset)
    /\ SolePrompt(c, jr.reset)
    /\ ~p.auto /\ jr.pending = 0 => ReadyClear(control.routed)

PendingAllows(c) == jr.pending \in {0, c}

\* The intended identity is saved and the previous receipt moves to history.
Announced(c) == [jr EXCEPT !.pending = c, !.receipt = 0]

BootIntent(c, by) ==
    /\ Leasable /\ jr.reset # 0
    /\ FreshLane(c) /\ PendingAllows(c)
    /\ by = "supervisor" => ~expired
    /\ control.routed \in {jr.session, c}
    /\ jr' = Announced(c)
    /\ op' = [kind |-> "route", by |-> by, session |-> c, paused |-> control.paused]
    /\ UNCHANGED <<sup, mem, expired, control, release, packages, grant, native, sent, credited>>

BootBySupervisor == pc = "bootstrap" /\ BootIntent(sup.fresh, "supervisor") /\ pc' = "booting"
BootByHand(c) == BootIntent(c, "operator") /\ UNCHANGED pc

\* The routing as read before the save, with the lane replaced, is written back.
BootRoute ==
    /\ op.kind = "route"
    /\ control' = [routed |-> op.session, paused |-> op.paused]
    /\ op' = [op EXCEPT !.kind = "publish"]
    /\ UNCHANGED <<supervisor, jr, release, packages, grant, native, sent, credited>>

\* Mutant: the package and its transfer stay the current ones.
NewEpochKeepingReset(c) ==
    [jr EXCEPT !.session = c, !.epoch = @ + 1, !.start = jr.completed,
               !.requested = FALSE, !.awaiting = FALSE]

\* A new epoch of the lane c.
NewEpoch(c) ==
    [jr EXCEPT !.session = c, !.epoch = @ + 1, !.start = jr.completed, !.reset = 0,
               !.pending = 0, !.requested = FALSE, !.awaiting = FALSE]

\* Mutant: the transfer is forgotten when it is routed, not when it is accepted.
ProvisionalForgotten == [jr EXCEPT !.awaiting = TRUE, !.startup = TRUE, !.measured = -1,
                                   !.pending = 0]
Provisional == [jr EXCEPT !.awaiting = TRUE, !.startup = TRUE, !.measured = -1]

\* An automatic transfer is provisional; one by hand earns its epoch here.
BootPublish ==
    /\ op.kind = "publish"
    /\ LET auto == packages[jr.reset].auto
           earned == IF auto THEN Provisional ELSE NewEpoch(op.session)
       IN /\ jr' = [earned EXCEPT !.admission = "none", !.boot = jr.reset, !.booted = op.session]
          /\ credited' = IF auto THEN credited ELSE credited \cup {jr.reset}
    /\ op' = NoOp
    /\ pc' = IF op.by = "supervisor" THEN "idle" ELSE pc
    /\ UNCHANGED <<sup, mem, expired, control, release, packages, grant, native, sent>>

-----------------------------------------------------------------------------
(* The supervisor: publish, and Loop.acknowledge_native_reset *)

Published == pc = "idle" /\ sup.phase = "waiting_fresh" /\ jr.boot = sup.pkg

Accepted == jr.receipt # 0

\* The journal has accepted: only the supervisor's own record is missing.
PublishAccepted ==
    /\ Published /\ Accepted /\ UnchangedParent(jr.booted)
    /\ sup' = [sup EXCEPT !.phase = "verified"]
    /\ UNCHANGED <<pc, mem, expired, jr, control, release, packages, grant, op, native, sent,
                   credited>>

\* The provisional receipt, once the outgoing turn and goal have ended.
PublishReceipt ==
    /\ Published /\ ~Accepted /\ ~expired
    /\ UnchangedParent(jr.booted) /\ title = sup.pkg
    /\ Context(sup.pkg) = sup.fresh /\ SolePrompt(sup.fresh, sup.pkg) /\ jr.booted = sup.fresh
    /\ sup.old \notin busy
    /\ mem' = [NoMem EXCEPT !.lane = jr.pending, !.epoch = jr.epoch + 1]
    /\ pc' = "acknowledge"
    /\ UNCHANGED <<sup, expired, jr, control, release, packages, grant, op, native, sent, credited>>

AckIntent ==
    /\ pc = "acknowledge" /\ Leasable /\ ~expired
    /\ mem.lane = jr.pending /\ mem.epoch = jr.epoch + 1
    /\ jr.boot = sup.pkg /\ jr.reset = sup.pkg
    /\ op' = [NoOp EXCEPT !.kind = "acknowledge", !.by = "supervisor"]
    /\ UNCHANGED <<supervisor, jr, control, release, packages, grant, native, sent, credited>>

InTime == ~expired

\* The decision: the epoch is earned, at a time that is read first.
Acknowledge ==
    /\ op.kind = "acknowledge" /\ InTime
    /\ jr' = [NewEpoch(jr.pending) EXCEPT !.receipt = sup.pkg, !.maintenance = FALSE]
    /\ credited' = credited \cup {sup.pkg}
    /\ op' = NoOp /\ pc' = "acknowledged"
    /\ UNCHANGED <<sup, mem, expired, control, release, packages, grant, native, sent>>

Acknowledged ==
    /\ pc = "acknowledged"
    /\ sup' = [sup EXCEPT !.phase = "verified"]
    /\ pc' = "idle" /\ mem' = NoMem
    /\ UNCHANGED <<expired, jr, control, release, packages, grant, op, native, sent, credited>>

-----------------------------------------------------------------------------
(* Maintenance recovery of an expired reset *)

\* An operator freezes the failed state and names the lane that takes over.
Authorize(kind) ==
    /\ pc = "idle" /\ Leasable /\ ~grant.on /\ expired /\ ~jr.intent
    /\ kind = "prompt" => sup.phase = "waiting_fresh"
    /\ kind # "prompt" => sup.phase = "waiting_title"
    /\ jr.recovered = jr.session => kind = "prompt"
    /\ jr.recovered \notin {0, jr.session} =>
          jr.receipt # 0 /\ ~jr.maintenance /\ ~jr.awaiting
    /\ grant' = [on |-> TRUE, kind |-> kind, sup |-> sup, jr |-> jr, control |-> control,
                 session |-> live, input |-> input[live]]
    /\ UNCHANGED <<supervisor, jr, control, release, packages, op, native, sent, credited>>

\* recover_maintenance of the supervisor: the failed reset and the lane that
\* replaces it are still what the authority says.
RecoveryBound ==
    /\ sup = grant.sup /\ expired /\ title = sup.pkg
    /\ grant.kind = "current" \/ control.paused
    /\ Context(sup.pkg) = grant.session /\ input[grant.session] = grant.input
    /\ grant.input # <<>>
    /\ grant.kind = "title" => Head(grant.input) = Human
    /\ grant.kind = "prompt" => grant.session = sup.fresh /\ grant.input = <<sup.pkg>>
    /\ grant.kind # "current" => Len(input[sup.old]) = sup.inputs
    /\ grant.jr.reset = sup.pkg
    /\ grant.jr.pending \in {0, grant.session}
    /\ grant.control \in
          {sup.control,
           [routed |-> IF grant.jr.pending = 0 THEN sup.control.routed ELSE grant.jr.pending,
            paused |-> grant.kind = "current" => grant.control.paused]}

RecoveredControl == [grant.control EXCEPT !.routed = grant.session]

RecoveryAnnounced == [jr EXCEPT !.intent = TRUE]

\* The journal is the frozen one, perhaps with the intent of this recovery.
RecoverIntent ==
    /\ pc = "idle" /\ Leasable /\ grant.on /\ RecoveryBound
    /\ jr \in {grant.jr, [grant.jr EXCEPT !.intent = TRUE]}
    /\ ReadyClear(sup.old)
    /\ grant.control.routed \in {grant.jr.session, grant.jr.pending}
    /\ control \in {grant.control, RecoveredControl}
    /\ jr' = RecoveryAnnounced
    /\ op' = [NoOp EXCEPT !.kind = "reroute", !.by = "recovery"]
    /\ pc' = "recover"
    /\ UNCHANGED <<sup, mem, expired, control, release, packages, grant, native, sent, credited>>

RecoverRoute ==
    /\ op.kind = "reroute"
    /\ control' = RecoveredControl
    /\ op' = [op EXCEPT !.kind = "recover"]
    /\ UNCHANGED <<supervisor, jr, release, packages, grant, native, sent, credited>>

\* Mutant: the recovered lane may go on with production.
RecoveredJournalOpen ==
    [grant.jr EXCEPT !.session = grant.session, !.reset = 0, !.admission = "none",
                     !.requested = FALSE, !.pending = 0, !.awaiting = FALSE,
                     !.recovered = grant.session, !.failed = grant.sup.pkg]

\* No epoch, no production until a genuine reset.
RecoveredJournal ==
    [grant.jr EXCEPT !.session = grant.session, !.reset = 0, !.requested = TRUE,
                     !.admission = "none", !.maintenance = TRUE, !.pending = 0,
                     !.awaiting = FALSE, !.recovered = grant.session, !.failed = grant.sup.pkg]

RecoverJournal ==
    /\ op.kind = "recover"
    /\ jr' = RecoveredJournal
    /\ op' = NoOp /\ pc' = "recovered"
    /\ UNCHANGED <<sup, mem, expired, control, release, packages, grant, native, sent, credited>>

\* The supervisor's record; a second run after a crash finds the journal done.
RecoverSave ==
    /\ \/ pc = "recovered"
       \/ /\ pc = "idle" /\ Leasable /\ grant.on /\ RecoveryBound
          /\ jr.failed = sup.pkg /\ jr.session = grant.session /\ control = RecoveredControl
    /\ sup' = [sup EXCEPT !.phase = "maintenance_recovered"]
    /\ pc' = "idle" /\ grant' = NoGrant
    /\ UNCHANGED <<mem, expired, jr, control, release, packages, op, native, sent, credited>>

-----------------------------------------------------------------------------
(* The lane, its people, and time *)

HumanTypes ==
    /\ Len(input[live]) < MaxInputs
    /\ input' = [input EXCEPT ![live] = Append(@, Human)]
    /\ busy' = busy \cup {live}
    /\ UNCHANGED <<supervisor, jr, control, release, packages, grant, op, live, contexts, title,
                   typed, queued, turn, sent, credited>>

\* The operator gives the prompt of a package prepared by hand.
HumanPastes(p) ==
    /\ p <= Len(packages) /\ ~packages[p].auto /\ Len(input[live]) < MaxInputs
    /\ input' = [input EXCEPT ![live] = Append(@, p)]
    /\ busy' = busy \cup {live}
    /\ UNCHANGED <<supervisor, jr, control, release, packages, grant, op, live, contexts, title,
                   typed, queued, turn, sent, credited>>

\* A new native context with the title of package p; 0 when a person clears.
NewContext(p) ==
    /\ contexts < MaxContexts
    /\ contexts' = contexts + 1 /\ live' = contexts + 1 /\ title' = p
    /\ typed' = typed \ {p}
    /\ UNCHANGED <<supervisor, jr, control, release, packages, grant, op, input, busy, queued,
                   turn, sent, credited>>

NativeClear == \E p \in typed : NewContext(p)
HumanClears == NewContext(0)

Deliver ==
    \E m \in queued :
        /\ m[2] = live /\ Len(input[live]) < MaxInputs
        /\ input' = [input EXCEPT ![live] = Append(@, m[1])]
        /\ busy' = busy \cup {live} /\ queued' = queued \ {m}
        /\ UNCHANGED <<supervisor, jr, control, release, packages, grant, op, live, contexts,
                       title, typed, turn, sent, credited>>

\* A turn of its own, without a user message: the goal goes on.
TurnStarts(c) ==
    /\ c <= contexts /\ Idle(c)
    /\ busy' = busy \cup {c}
    /\ UNCHANGED <<supervisor, jr, control, release, packages, grant, op, live, contexts, input,
                   title, typed, queued, turn, sent, credited>>

TurnEnds(c) ==
    /\ c \in busy
    /\ \/ (c # live \/ "ceiling" \notin cast) /\ UNCHANGED turn
       \/ c = live /\ "ceiling" \in cast /\ turn < MaxTurns /\ turn' = turn + 1
    /\ busy' = busy \ {c}
    /\ UNCHANGED <<supervisor, jr, control, release, packages, grant, op, live, contexts, input,
                   title, typed, queued, sent, credited>>

\* The operator edits the pause of the session-control file.
SetPause ==
    /\ control' = [control EXCEPT !.paused = ~@]
    /\ UNCHANGED <<supervisor, jr, release, packages, grant, op, native, sent, credited>>

Expire ==
    /\ ~expired
    /\ sup.phase \in {"clear_intent", "waiting_title", "prompt_intent", "prompt_refused",
                      "waiting_fresh"}
    /\ expired' = TRUE
    /\ UNCHANGED <<sup, pc, mem, jr, control, release, packages, grant, op, native, sent, credited>>

\* The process dies, or an exception ends its step: its memory and its lease go.
Crash ==
    /\ pc # "idle"
    /\ pc' = "idle" /\ mem' = NoMem
    /\ op' = IF op.by = "operator" THEN op ELSE NoOp
    /\ UNCHANGED <<sup, expired, jr, control, release, packages, grant, native, sent, credited>>

OperatorCrash ==
    /\ op.by = "operator"
    /\ op' = NoOp
    /\ UNCHANGED <<supervisor, jr, control, release, packages, grant, native, sent, credited>>

-----------------------------------------------------------------------------
SupervisorStep ==
    \/ FoldSkip \/ (\E band \in {"under", "finish", "close"} : FoldDecide(band))
    \/ (\E effect, ack \in BOOLEAN : Instruct(effect, ack)) \/ Instructed \/ RequestReset
    \/ PrepareWaits \/ PrepareChecks \/ StepReturns \/ Seal \/ SavePrepared
    \/ ClearIntent \/ (\E effect, ack \in BOOLEAN : Clear(effect, ack)) \/ Cleared
    \/ PromptIntent \/ (\E effect, ack \in BOOLEAN : Queue(effect, ack)) \/ Queued
    \/ StepBootstrap \/ BootBySupervisor
    \/ PublishAccepted \/ PublishReceipt \/ AckIntent \/ Acknowledge \/ Acknowledged

WorkflowStep ==
    \/ "workflow" \in cast /\ \E maintenance, headroom \in BOOLEAN : Begin(maintenance, headroom)
    \/ "tickets" \in cast /\ Complete
    \/ /\ "startup" \in cast
       /\ (\E fits \in BOOLEAN : FinishStartup(fits)) \/ StartupOverBudget
    \/ Release

OperatorStep ==
    \/ "pause" \in cast /\ SetPause
    \/ /\ "operator" \in cast
       /\ PrepareByHand \/ (\E c \in 1 .. contexts : BootByHand(c)) \/ OperatorCrash
    \/ /\ "recovery" \in cast
       /\ \/ \E kind \in {"title", "current", "prompt"} : Authorize(kind)
          \/ RecoverIntent \/ RecoverRoute \/ RecoverJournal \/ RecoverSave

LaneStep ==
    \/ NativeClear \/ Deliver
    \/ \E c \in Contexts : TurnEnds(c)
    \/ "goal" \in cast /\ \E c \in Contexts : TurnStarts(c)
    \/ "people" \in cast /\ HumanTypes
    \/ {"people", "operator"} \cap cast # {} /\ HumanClears
    \/ "operator" \in cast /\ \E p \in Packages : HumanPastes(p)

Next ==
    /\ \/ SupervisorStep \/ WorkflowStep \/ OperatorStep \/ LaneStep
       \/ BootRoute \/ BootPublish \/ Expire \/ Crash
    /\ UNCHANGED cast

Spec == Init /\ [][Next]_vars

\* The supervisor is restarted and woken again as long as a step is enabled.
FairSpec == Spec /\ WF_vars(SupervisorStep /\ UNCHANGED cast)
                /\ WF_vars(PublishAccepted /\ UNCHANGED cast)

-----------------------------------------------------------------------------
(* Properties *)

\* The supervisor's and the journal's records name packages and contexts that
\* exist, and an operation in progress works on the reset it announced.
TypeOK ==
    /\ sup.phase \in {"monitoring", "waiting_release", "waiting_idle", "clear_intent",
                     "waiting_title", "prompt_intent", "prompt_refused", "waiting_fresh",
                     "verified", "maintenance_recovered"}
    /\ sup.pkg \in 0 .. Len(packages) /\ sup.old \in 0 .. contexts /\ sup.fresh \in 0 .. contexts
    /\ jr.session \in 1 .. contexts /\ jr.pending \in 0 .. contexts
    /\ jr.reset \in 0 .. Len(packages) /\ jr.receipt \in {0, jr.boot}
    /\ jr.start \in 0 .. jr.completed /\ jr.measured \in -1 .. jr.epoch
    /\ control.routed \in 1 .. contexts /\ live \in 1 .. contexts
    /\ op.kind \in {"none", "route", "publish", "acknowledge", "reroute", "recover"}
    /\ op.kind = "acknowledge" => pc = "acknowledge" /\ jr.reset = sup.pkg
    /\ op.kind \in {"route", "publish"} => jr.reset # 0 /\ jr.pending = op.session
    /\ \A c \in Contexts : Len(input[c]) <= MaxInputs
    /\ busy \subseteq 1 .. contexts /\ credited \subseteq 1 .. Len(packages)

\* No clear, prompt or instruction is sent to the lane twice, whatever crashes and
\* lost acknowledgements happen around it, although a prompt that was refused is
\* sent later, to the same context ("never replay an uncertain input effect").
InputOnce ==
    /\ \A p \in Packages : sent.clear[p] <= 1 /\ sent.prompt[p] <= 1
    /\ \A t \in Turns : sent.instruction[t] <= 1

\* One epoch for one reset: interrupted and repeated bootstraps, publications and
\* recoveries neither lose nor repeat it, and what the supervisor calls verified
\* has earned it.
OneEpochPerReset ==
    /\ jr.epoch = Cardinality(credited)
    /\ sup.phase = "verified" => sup.pkg \in credited

\* An epoch is earned by a lane that is new since the package was sealed and was
\* opened with exactly that package's prompt; an automatic one also by one clear
\* and one prompt of the supervisor.
GenuineReset ==
    \A p \in credited :
        /\ \E c \in Created(p) : c # packages[p].previous /\ input[c] # <<>> /\ Head(input[c]) = p
        /\ packages[p].auto => sent.clear[p] = 1 /\ sent.prompt[p] = 1

\* Work is only admitted in the routed lane of the journal, with no reset under
\* way and no transfer waiting for its acceptance.
AdmissionSettled ==
    jr.admission # "none" =>
        /\ jr.reset = 0 /\ ~jr.awaiting /\ jr.pending = 0
        /\ control.routed = jr.session
        /\ jr.maintenance => jr.admission = "maintenance"

\* Wherever a crash falls between the routing file and the journal, a routing
\* that differs from the journal is the transfer the journal has announced.
RoutingExplained ==
    control.routed # jr.session =>
        \/ jr.pending = control.routed
        \/ jr.intent /\ grant.on /\ control.routed = grant.session

\* A lane that took over by recovery admits no production before an automatic
\* reset after the failed one has been accepted.
RecoveredHeld ==
    jr.failed # 0 /\ (\A p \in credited : packages[p].auto => p <= jr.failed)
        => jr.admission # "production"

\* Only the operator lifts the operator's pause ("Bootstrap itself does not
\* unpause production").
PauseKept == [][control.paused /\ ~control'.paused => UNCHANGED op]_vars

\* A measured close of the lane leads to a reset, unless the lane goes on
\* ("or an earlier measured headroom hold, it prepares the package").
CloseRequestsReset ==
    turn # 0 /\ sup.close = turn /\ sup.decisions[turn] = "instructed"
        ~> jr.requested \/ sup.close # turn

\* A reset that the journal accepted is recorded as verified, wherever the
\* supervisor died.
AcceptedIsVerified ==
    sup.phase = "waiting_fresh" /\ sup.pkg \in credited ~> sup.phase = "verified"
=============================================================================
