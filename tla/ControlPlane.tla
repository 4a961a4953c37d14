---------------------------- MODULE ControlPlane ----------------------------
(***************************************************************************)
(* Synchronous command dispatch: runtime/core.py over runtime/journal.py.  *)
(*                                                                         *)
(* Several ControlPlane objects (Planes) share one journal.  The journal's *)
(* dispatch_lock is a reentrant lock held for a whole call, so calls of    *)
(* different threads are serial, and the only interleaving inside a call   *)
(* is a callback (a guard or the executor) that calls back in on the same  *)
(* thread.  `stack` is that thread's call stack: one frame per call that   *)
(* is waiting for a callback.  What runs between two callbacks, or between *)
(* two journal writes with nothing durable between them, is one step.      *)
(* The process may crash at any step; only the journal survives.           *)
(***************************************************************************)
EXTENDS Naturals, Sequences, FiniteSets

CONSTANTS
    Planes,             \* ControlPlane objects bound to the journal
    Commands,           \* command IDs
    Tokens,             \* confirmation tokens (uuid4: never issued twice)
    Keys,               \* context keys a confirmation is bound to
    Versions,           \* catalog versions
    CmdVersion,         \* catalog_version each command was made for
    Risk,               \* risk of the command's capability in that catalog
    ValidArguments,     \* commands whose arguments match the capability
    Allowed,            \* per plane: commands its profile and policy allow
    ConfirmRequired,    \* per plane: policy.confirmation_required
    OwnReentry,         \* callbacks that may call into the same plane
    OtherReentry,       \* callbacks that may call into another plane
    MaxDepth,           \* bound: nested calls
    MaxConfirmations    \* pending previews a plane keeps (128 in the code)

Callbacks == {"cguard", "guard1", "guard2", "exec"}
Risks == {"safe", "confirm", "blocked", "absent"}

ASSUME ConstantsAssumption ==
    /\ Versions \subseteq Nat
    /\ CmdVersion \in [Commands -> Versions]
    /\ Risk \in [Commands -> Risks]
    /\ ValidArguments \subseteq Commands
    /\ Allowed \in [Planes -> SUBSET Commands]
    /\ ConfirmRequired \in [Planes -> SUBSET Commands]
    /\ OwnReentry \subseteq Callbacks
    /\ OtherReentry \subseteq Callbacks
    /\ MaxDepth \in Nat \ {0}
    /\ MaxConfirmations \in Nat

VARIABLES
    journal,        \* durable records that dispatch reads back
    up,             \* is the process that owns the journal running?
    seen,           \* per plane: _seen, command IDs it refuses
    confirmations,  \* per plane: _confirmations, previews awaiting an answer
    version,        \* per plane: _catalog_version
    stack,          \* frames of the thread that holds dispatch_lock
    issued,         \* tokens handed out so far
    executions,     \* history: executor invocations per command
    approved,       \* history: commands whose approval was accepted
    last            \* history: the Result the latest call returned

vars == <<journal, up, seen, confirmations, version, stack, issued,
          executions, approved, last>>

-----------------------------------------------------------------------------
(* Records *)

ExecutorStatus == {"success", "failed", "canceled", "uncertain"}
Status == ExecutorStatus \cup {"blocked"}

Started(c) == [type |-> "started", cmd |-> c, status |-> "pending"]
Finished(c, s) == [type |-> "finished", cmd |-> c, status |-> s]
Preview(c) == [type |-> "preview", cmd |-> c, status |-> "pending"]

Record == {Started(c) : c \in Commands} \cup {Preview(c) : c \in Commands}
          \cup {Finished(c, s) : c \in Commands, s \in Status}

Confirmation == [token : Tokens, cmd : Commands, key : Keys, live : BOOLEAN]

Frame == [plane : Planes, cmd : Commands, pc : Callbacks,
          canceled : BOOLEAN, confirmed : BOOLEAN]

\* A Result: its command and status, and whether this very call had invoked
\* the executor.
Report == [cmd : Commands, status : Status, ran : BOOLEAN]
NoReport == [cmd |-> "none", status |-> "none", ran |-> FALSE]

-----------------------------------------------------------------------------
(* Helpers *)

Top == stack[Len(stack)]
Below == SubSeq(stack, 1, Len(stack) - 1)
AdvanceTo(pc) == [stack EXCEPT ![Len(stack)].pc = pc]

\* Mutant: replace_catalog ignores authorization lifetimes.
CatalogNeverInUse(p) == FALSE

\* _catalog_use: some call of plane p is in progress.
CatalogInUse(p) == \E i \in DOMAIN stack : stack[i].plane = p

\* The lock is free, or its holder is inside a callback and every frame
\* below is at a point from which calling into plane p is allowed.
CanEnter(p) ==
    /\ up
    /\ Len(stack) < MaxDepth
    /\ \A i \in DOMAIN stack :
          stack[i].pc \in (IF stack[i].plane = p THEN OwnReentry
                                                 ELSE OtherReentry)

\* Journal append: it returns, or raises with the row absent, or raises
\* although the row became durable.
AppendOutcome == {"ok", "lost", "unsure"}
AppendRecord(r, o) ==
    journal' = IF o = "lost" THEN journal ELSE journal \cup {r}

\* Mutant: an append that failed cleanly is taken for a success.
RaisedOnlyIfUnsure(o) == o = "unsure"
Raised(o) == o # "ok"

\* Mutant: only completed commands are taken from the history.
FinishedCommands == {c \in Commands : \E s \in Status : Finished(c, s) \in journal}

\* Command IDs of execution Events, as _dispatch collects them.
EventCommands == {c \in Commands : \/ Started(c) \in journal
                                   \/ \E s \in Status : Finished(c, s) \in journal}

\* Mutant: the restriction lives only as long as its token.
NeverPending(c) == FALSE

\* A durable preview observation restricts the command, token or no token.
PreviewPending(c) == Preview(c) \in journal

\* ControlPlane._denial.  A command made for another catalog version is
\* denied whether or not that catalog has its capability.
Denial(p, c, confirmed) ==
    IF c \notin Allowed[p] THEN "policy.denied"
    ELSE IF Risk[c] = "absent" THEN "capability.unavailable"
    ELSE IF CmdVersion[c] # version[p] THEN "catalog.stale"
    ELSE IF Risk[c] = "blocked" THEN "risk.blocked"
    ELSE IF ~confirmed /\ (Risk[c] = "confirm" \/ c \in ConfirmRequired[p])
         THEN "confirmation.required"
    ELSE IF c \notin ValidArguments THEN "arguments.invalid"
    ELSE "none"

\* The result of a call is returned to its caller.
Return(c, status, ran) == last' = [cmd |-> c, status |-> status, ran |-> ran]

\* Mutant: the outcome is reported although its receipt was not persisted.
PersistOptimistic(c, status, ran) ==
    \E o \in AppendOutcome : AppendRecord(Finished(c, status), o) /\ Return(c, status, ran)

\* The end of _dispatch: append the finished event; when that raises after
\* the executor ran, the caller is told "uncertain" whatever the outcome.
Persist(c, status, ran) ==
    \E o \in AppendOutcome :
        /\ AppendRecord(Finished(c, status), o)
        /\ Return(c, IF Raised(o) /\ ran THEN "uncertain" ELSE status, ran)

\* _confirmation_blocked
ConfirmationBlocked(p, c) ==
    /\ seen' = [seen EXCEPT ![p] = @ \cup {c}]
    /\ Persist(c, "blocked", FALSE)

\* _dispatch up to its first guard callback, entered with frames `rest`.
ReadHistory(p, c, canceled, confirmed, rest) ==
    \/ \* journal.read() raised
       /\ Return(c, "blocked", FALSE)
       /\ stack' = rest
       /\ UNCHANGED <<journal, seen>>
    \/ LET known     == seen[p] \cup EventCommands
           duplicate == c \in known
           pending   == PreviewPending(c)
       IN /\ seen' = [seen EXCEPT ![p] = known \cup {c}]
          /\ \/ /\ duplicate \/ (pending /\ ~confirmed)
                /\ Persist(c, IF canceled /\ ~duplicate THEN "canceled"
                                                        ELSE "blocked", FALSE)
                /\ stack' = rest
             \/ /\ ~duplicate /\ (pending => confirmed)
                /\ stack' = Append(rest, [plane |-> p, cmd |-> c, pc |-> "guard1",
                                          canceled |-> canceled,
                                          confirmed |-> confirmed])
                /\ UNCHANGED <<journal, last>>

-----------------------------------------------------------------------------
(* Operations *)

Init ==
    /\ journal = {}
    /\ up = TRUE
    /\ seen = [p \in Planes |-> {}]
    /\ confirmations = [p \in Planes |-> {}]
    /\ version \in [Planes -> Versions]
    /\ stack = <<>>
    /\ issued = {}
    /\ executions = [c \in Commands |-> 0]
    /\ approved = {}
    /\ last = NoReport

\* dispatch(command, canceled=..., guard=...)
Dispatch(p, c, canceled) ==
    /\ CanEnter(p)
    /\ ReadHistory(p, c, canceled, FALSE, stack)
    /\ UNCHANGED <<up, confirmations, version, issued, executions, approved>>

\* The first guard returned: policy, cancellation, then the durable intent.
GuardChecked(verdict) ==
    /\ stack # <<>> /\ Top.pc = "guard1"
    /\ LET f == Top
           denied == ~verdict \/ Denial(f.plane, f.cmd, f.confirmed) # "none"
       IN \/ /\ denied \/ f.canceled
             /\ Persist(f.cmd, IF f.canceled THEN "canceled" ELSE "blocked", FALSE)
             /\ stack' = Below
          \/ /\ ~denied /\ ~f.canceled
             /\ \E o \in AppendOutcome :
                   /\ AppendRecord(Started(f.cmd), o)
                   /\ \/ /\ ~Raised(o)
                         /\ stack' = AdvanceTo("guard2")
                         /\ UNCHANGED last
                      \/ /\ Raised(o)
                         /\ Return(f.cmd, "blocked", FALSE)
                         /\ stack' = Below
    /\ UNCHANGED <<up, seen, confirmations, version, issued, executions, approved>>

\* The guard is evaluated again once the intent is durable; the executor is
\* invoked next.
GuardRechecked(verdict) ==
    /\ stack # <<>> /\ Top.pc = "guard2"
    /\ \/ /\ ~verdict
          /\ Persist(Top.cmd, "blocked", FALSE)
          /\ stack' = Below
          /\ UNCHANGED executions
       \/ /\ verdict
          /\ executions' = [executions EXCEPT ![Top.cmd] = @ + 1]
          /\ stack' = AdvanceTo("exec")
          /\ UNCHANGED <<journal, last>>
    /\ UNCHANGED <<up, seen, confirmations, version, issued, approved>>

\* An exception or a malformed outcome is an uncertain one.
OutcomeStatus(value) == IF value \in ExecutorStatus THEN value ELSE "uncertain"

\* The executor returned or raised.
ExecutorReturns(value) ==
    /\ stack # <<>> /\ Top.pc = "exec"
    /\ Persist(Top.cmd, OutcomeStatus(value), TRUE)
    /\ stack' = Below
    /\ UNCHANGED <<up, seen, confirmations, version, issued, executions, approved>>

\* request_confirmation: expired previews are dropped, the preview is made
\* durable, and only then is its token handed out.
RequestConfirmation(p, c, k, t) ==
    /\ CanEnter(p)
    /\ t \notin issued
    /\ Denial(p, c, TRUE) = "none"
    /\ LET kept == {e \in confirmations[p] : e.live}
       IN \/ /\ Cardinality(kept) >= MaxConfirmations
             /\ confirmations' = [confirmations EXCEPT ![p] = kept]
             /\ UNCHANGED <<journal, issued>>
          \/ /\ Cardinality(kept) < MaxConfirmations
             /\ \E o \in AppendOutcome :
                   /\ AppendRecord(Preview(c), o)
                   /\ \/ /\ ~Raised(o)
                         /\ issued' = issued \cup {t}
                         /\ confirmations' =
                               [confirmations EXCEPT ![p] = kept \cup
                                   {[token |-> t, cmd |-> c, key |-> k, live |-> TRUE]}]
                      \/ /\ Raised(o)
                         /\ confirmations' = [confirmations EXCEPT ![p] = kept]
                         /\ UNCHANGED issued
    /\ UNCHANGED <<up, seen, version, stack, executions, approved, last>>

\* The clock passes a preview's expires_at_ms.
Expire(p, e) ==
    /\ up /\ e.live
    /\ confirmations' = [confirmations EXCEPT
                            ![p] = (@ \ {e}) \cup {[e EXCEPT !.live = FALSE]}]
    /\ UNCHANGED <<journal, up, seen, version, stack, issued, executions,
                   approved, last>>

\* confirm(token, channel, context_key, approved=answer) up to its guard:
\* the token is consumed whatever happens next.
Confirm(p, e, k, channelValid, answer) ==
    /\ CanEnter(p)
    /\ confirmations' = [confirmations EXCEPT ![p] = @ \ {e}]
    /\ LET valid == channelValid /\ k = e.key /\ e.live
       IN \/ /\ ~valid
             /\ ConfirmationBlocked(p, e.cmd)
             /\ UNCHANGED stack
          \/ /\ valid
             /\ stack' = Append(stack, [plane |-> p, cmd |-> e.cmd, pc |-> "cguard",
                                        canceled |-> ~answer, confirmed |-> answer])
             /\ UNCHANGED <<journal, seen, last>>
    /\ UNCHANGED <<up, version, issued, executions, approved>>

\* confirm's guard returned.  The answer is journaled as an observation that
\* dispatch never reads back, so only its failure is modelled; then _dispatch.
ConfirmGuardReturns(verdict, observed) ==
    /\ stack # <<>> /\ Top.pc = "cguard"
    /\ LET f == Top
       IN \/ /\ ~verdict \/ ~observed
             /\ ConfirmationBlocked(f.plane, f.cmd)
             /\ stack' = Below
             /\ UNCHANGED approved
          \/ /\ verdict /\ observed
             /\ approved' = IF f.confirmed THEN approved \cup {f.cmd} ELSE approved
             /\ ReadHistory(f.plane, f.cmd, f.canceled, f.confirmed, Below)
    /\ UNCHANGED <<up, confirmations, version, issued, executions>>

\* Mutant: previews survive the catalog they were made under.
ReplaceCatalogKeepingPreviews(p, v) ==
    /\ up /\ ~CatalogInUse(p) /\ v > version[p]
    /\ version' = [version EXCEPT ![p] = v]
    /\ UNCHANGED <<journal, up, seen, confirmations, stack, issued, executions,
                   approved, last>>

\* replace_catalog with expected_version = version[p]; a call in progress on
\* this plane refuses it.  Previews of the old catalog are dropped.
ReplaceCatalog(p, v) ==
    /\ up
    /\ ~CatalogInUse(p)
    /\ v > version[p]
    /\ version' = [version EXCEPT ![p] = v]
    /\ confirmations' = [confirmations EXCEPT ![p] = {}]
    /\ UNCHANGED <<journal, up, seen, stack, issued, executions, approved, last>>

\* The process dies: threads, dispatchers and tokens are gone.
Crash ==
    /\ up
    /\ up' = FALSE
    /\ stack' = <<>>
    /\ seen' = [p \in Planes |-> {}]
    /\ confirmations' = [p \in Planes |-> {}]
    /\ UNCHANGED <<journal, version, issued, executions, approved, last>>

\* The journal is reopened and dispatchers are built with some catalog.
Restart ==
    /\ ~up
    /\ up' = TRUE
    /\ version' \in [Planes -> Versions]
    /\ UNCHANGED <<journal, seen, confirmations, stack, issued, executions,
                   approved, last>>

Next ==
    \/ \E p \in Planes, c \in Commands, canceled \in BOOLEAN : Dispatch(p, c, canceled)
    \/ \E verdict \in BOOLEAN : GuardChecked(verdict)
    \/ \E verdict \in BOOLEAN : GuardRechecked(verdict)
    \/ \E value \in ExecutorStatus \cup {"raised"} : ExecutorReturns(value)
    \/ \E p \in Planes, c \in Commands, k \in Keys, t \in Tokens :
          RequestConfirmation(p, c, k, t)
    \/ \E p \in Planes : \E e \in confirmations[p] : Expire(p, e)
    \/ \E p \in Planes, k \in Keys, channelValid, answer \in BOOLEAN :
          \E e \in confirmations[p] : Confirm(p, e, k, channelValid, answer)
    \/ \E verdict, observed \in BOOLEAN : ConfirmGuardReturns(verdict, observed)
    \/ \E p \in Planes, v \in Versions : ReplaceCatalog(p, v)
    \/ Crash
    \/ Restart

Spec == Init /\ [][Next]_vars

-----------------------------------------------------------------------------
(* Properties *)

\* The dispatcher's records, previews, call stack and history are well formed
\* after every call, callback, failed append and restart (core.py).
TypeOK ==
    /\ journal \subseteq Record
    /\ up \in BOOLEAN
    /\ seen \in [Planes -> SUBSET Commands]
    /\ confirmations \in [Planes -> SUBSET Confirmation]
    /\ version \in [Planes -> Versions]
    /\ stack \in Seq(Frame)
    /\ issued \subseteq Tokens
    /\ executions \in [Commands -> Nat]
    /\ approved \subseteq Commands
    /\ last \in Report \cup {NoReport}

\* Whatever dispatchers, threads, re-entrant callbacks, failing appends and
\* crashes do, the executor is invoked at most once per command ID ("Commands
\* are never retried automatically, including after restart", core.py).
AtMostOnce == \A c \in Commands : executions[c] <= 1

\* A command that took effect left its intent in the journal, so a restart
\* after a crash anywhere in the call knows about it.
IntentDurable == \A c \in Commands : executions[c] > 0 => Started(c) \in journal

\* What a caller is told is backed by the journal: "success" or "failed" only
\* of a command whose executor ran once in this call and whose receipt with
\* that status is durable; a receipt that was not persisted is "uncertain".
HonestReport ==
    /\ last.status \in {"success", "failed"} => last.ran /\ executions[last.cmd] = 1
    /\ last.ran /\ last.status # "uncertain"
          => Finished(last.cmd, last.status) \in journal

\* From the durable intent to the end of the action the plane's catalog is
\* still the one the command was authorised against: a callback cannot
\* replace it ("reentrant refresh cannot change the checked catalog").
CatalogPinned ==
    \A i \in DOMAIN stack :
        stack[i].pc \in {"guard2", "exec"} =>
            version[stack[i].plane] = CmdVersion[stack[i].cmd]

\* Every pending preview is of the plane's current catalog: a token never
\* survives a catalog replacement.
PreviewsCurrent ==
    \A p \in Planes : \A e \in confirmations[p] : CmdVersion[e.cmd] = version[p]

\* The executor is never invoked without an accepted approval for a command
\* that has a durable preview, whichever dispatcher wrote it and even when its
\* token is lost, nor for one whose capability or policy asks to confirm.
NeedsApproval(p, c) == \/ Preview(c) \in journal
                       \/ Risk[c] = "confirm"
                       \/ c \in ConfirmRequired[p]
ApprovedStep == \A c \in Commands :
    executions'[c] # executions[c] /\ NeedsApproval(Top.plane, c) => c \in approved
ApprovalRequired == [][ApprovedStep]_vars

\* The dispatcher implements the ledger its callers rely on.
LedgerOutcomes == {"success", "failed", "uncertain"}
Ledger == INSTANCE DispatchLedger WITH
    Outcomes <- LedgerOutcomes,
    intended <- {c \in Commands : Started(c) \in journal},
    effects  <- executions,
    settled  <- {x \in Commands \X LedgerOutcomes : Finished(x[1], x[2]) \in journal}
ImplementsLedger == Ledger!LedgerSpec

-----------------------------------------------------------------------------
(* Why a command cannot run twice: the inductive invariant of the proofs.  *)

\* No first guard calls into another dispatcher of the same journal: until the
\* intent is durable only this plane's own _seen knows that the call started.
GuardsStayHome == "guard1" \notin OtherReentry

\* What the journal and this plane's _seen know about a call in progress.
FrameKnown(f) ==
    /\ f.pc = "guard1" => /\ f.cmd \in seen[f.plane]
                          /\ Started(f.cmd) \notin journal
    /\ f.pc = "guard2" => /\ Started(f.cmd) \in journal
                          /\ executions[f.cmd] = 0
    /\ f.pc = "exec" => /\ executions[f.cmd] = 1
                        /\ \A s \in LedgerOutcomes : Finished(f.cmd, s) \notin journal

Working(f) == f.pc \in {"guard1", "guard2", "exec"}

\* No two calls in progress work on one command, each one's command is known
\* where a nested call will look for it, a call nested in a first guard stays
\* on its plane, and a settled receipt belongs to a command that ran.
DispatchInv ==
    /\ AtMostOnce
    /\ IntentDurable
    /\ \A i \in DOMAIN stack : FrameKnown(stack[i])
    /\ \A i, j \in DOMAIN stack :
          Working(stack[i]) /\ Working(stack[j]) /\ stack[i].cmd = stack[j].cmd => i = j
    /\ \A i, j \in DOMAIN stack :
          i < j /\ stack[i].pc = "guard1" => stack[i].plane = stack[j].plane
    /\ \A c \in Commands, s \in LedgerOutcomes :
          Finished(c, s) \in journal => executions[c] = 1
=============================================================================
