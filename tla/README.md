# Formal models of the Arhugula runtime

TLA+ models of the control plane in `src/runtime` (command dispatch, voice, providers),
of the confirmation panel in `src/ui`, and of the orchestration in
`src/ops/orchestration` (assignments, bounded runs, messages, context resets). TLC
checks the models on small instances; TLAPS proves the properties that matter most for
every value of the constants.

## The system and its parts

| Part | State it keeps | Operations | Interacts with |
|---|---|---|---|
| `ControlPlane` (`runtime/core.py`) | seen command IDs, pending previews, catalog and its version | `dispatch`, `request_confirmation`, `confirm`, `replace_catalog` | journal, guard and executor callbacks, on the thread that holds the journal's re-entrant `dispatch_lock` |
| Journal (`runtime/journal.py`) | durable rows, exclusive file lock | `append`, `read`, `close`, reopening | every dispatcher of the process |
| `SessionOwner` (`runtime/voice/session.py`) | generation, owner, state | `begin`, `cancel`, `accepts`, `release` | command and conversation adapters, spoken output, cancelling threads |
| Command coordinator (`runtime/voice/coordinator.py`) | phase, lease, device, job, pending and confirming tokens, cancel flag | `activate`, `feed`, `poll`, `transcribed`, `confirm`, `cancel` | owner, capture, device, transcriber, router, journal observer |
| Conversation (`runtime/voice/conversation.py`) | phase, lease, intent, request, job, turn and poll counts, history | `enter`, `submit`, `poll`, `cancel_turn`, `end`, `handoff` | owner, job factory, authority and configuration snapshots, cancelling threads |
| Spoken output (`runtime/voice/tts.py`) | call, epoch, player, mix, fault, terminal result | `start`, `poll`, `cancel` | the conversation's lease, gateway, players |
| Dictation (`runtime/voice/dictation.py`) | state, target window, interaction | `home`, `end`, `cancel` | capture, transcriber, focus, typing, clipboard, observer |
| Owned processes (`runtime/voice/process.py`, `device.py`, `transcription.py`) | child process groups, frame queue, cleanup verdict | start, poll, cancel, proof of cleanup | kernel, supervisor thread, cancelling threads |
| Voice controls (`runtime/voice/control.py`) | consumed request IDs, socket endpoint, directory lock | `handle`, server `start` and `close` | dictation, panel, socket clients, other servers of the directory |
| Confirmation panel (`ui/voice_panel.py`) | connection, preview, shown tokens | `connect`, `disconnect`, `present`, `view`, `confirm` | voice state, clock, sender to the controls |
| Gateway client (`runtime/gateway/client.py`, `admission.py`) | one active call, one unread result, replay history, fault, cleanup debt, disabled flag | `start`, `poll`, `cancel`, `disable`, `reconfigure`, `claim_configuration` | host and local providers, clock, permit, configuration owner |
| Provider configuration (`runtime/providers/configuration.py`) | state and revision, staged candidates, approvals, health | `stage`, `observe`, `approve`, `reject`, `activate`, `disable`, `restore` | gateway client |
| Loop journal (`ops/orchestration/loop.py`, `ownership.py`, `review_budget.py`) | reservations, admission, completed tickets, quarantine, review passes | `reserve`, `release`, `begin`, `transition`, `complete`, `review`, `prepare_clear` | LIT, routing file, runs |
| Bounded run (`ops/orchestration/runner.py`, `continuation.py`, `handoff.py`, `local.py`) | handoff record, repository lease, worker process | one ticket from claim to commit | loop journal, LIT, Git, worker |
| Messages (`ops/orchestration/communication.py`, `records.py`) | comments with a marker, delivery ledger | `ensure_comment`, `deliver_pointer` | LIT, native queue, routing file |
| Context reset (`ops/orchestration/auto_reset.py`, `loop.py`, `native_window.py`) | supervisor state, loop journal, routing file, release file | `step`, `release`, `prepare_clear`, `bootstrap`, `acknowledge_native_reset`, `recover_maintenance` | native lane, operator, people |

The hard behaviours are: callbacks that call back in while a lock is held by the same
thread; cancels that mark a turn without its lock; appends, commands and file
replacements that fail after they have taken effect; crashes between an intent and its
receipt; leases whose resources cannot be proven gone; a fallback that must not run
beside the provider it replaces; late answers against deadlines; three locks taken in
different orders by handlers, observers and panels.

## Modules

| Module | Models | Composes |
|---|---|---|
| `DispatchLedger` | what callers of the dispatcher rely on: intent, then at most one effect, then at most one settled receipt per command | |
| `ControlPlane` | `runtime/core.py` over `runtime/journal.py` | refines `DispatchLedger` |
| `MCControlPlane` | instances of `ControlPlane` | |
| `ControlPlaneProofs` | its theorems | |
| `SessionOwner` | `runtime/voice/session.py` as operators on its three fields | |
| `SharedOwner` | any adapters on one owner; the abstract specification of the adapters | `SessionOwner` |
| `VoiceCoordinator`, `VoiceCoordinatorProofs` | `runtime/voice/coordinator.py` with capture, device, transcriber and router; its theorems | `SessionOwner` |
| `Conversation` | `runtime/voice/conversation.py` | refines `SharedOwner` |
| `TtsOutput`, `MCConversation` | `runtime/voice/tts.py` | `Conversation` |
| `ConversationProofs` | theorems about the shared owner, the conversation and its output | `TtsOutput` |
| `OwnedProcess` | `runtime/voice/process.py` | |
| `VoiceWorker`, `VoiceWorkerProofs` | `runtime/voice/device.py`, `transcription.py`; their theorems | `OwnedProcess` |
| `CallStack` | threads, their nested calls, and results | |
| `Dictation` | `runtime/voice/dictation.py` | `CallStack` |
| `VoicePanel` | `ui/voice_panel.py` | `CallStack` |
| `ControlEndpoint` | the endpoint of `runtime/voice/control.py` | |
| `VoiceControl`, `VoiceControlProofs` | the dispatcher of `runtime/voice/control.py`; theorems about it, dictation, panel and endpoint | `Dictation`, `VoicePanel`, `ControlEndpoint` |
| `GatewayClient` | `runtime/gateway/client.py` and the replay history of `admission.py` | |
| `ProviderConfiguration`, `GatewayProofs` | `runtime/providers/configuration.py`; theorems about it and the client | `GatewayClient` |
| `AssignmentLoop` | `ops/orchestration/ownership.py`, `review_budget.py`, and `loop.py` without its resets | |
| `Continuation` | `ops/orchestration/runner.py`, `continuation.py`, `handoff.py`, `local.py` | `AssignmentLoop` |
| `RecordStore` | `ops/orchestration/records.py` | |
| `Communication` | `ops/orchestration/communication.py` | `AssignmentLoop`, `RecordStore` |
| `Orchestration`, `MCContinuation`, `OrchestrationProofs` | runs and messages on one LIT and one pause; their theorems | `Continuation`, `Communication` |
| `NativeReset`, `NativeResetProofs` | `ops/orchestration/auto_reset.py`, the reset operations of `loop.py`, the lane of `native_window.py`; their theorems | |

Operators whose comment begins with "Mutant" are plausible bugs. They are used
by no action; replacing the definition that follows by one of them makes a
property fail, which shows that the property depends on that line of the code.

### ControlPlane

`journal` is the set of durable rows that dispatch reads back; `seen`,
`confirmations` and `version` are `_seen`, `_confirmations` and
`_catalog_version` of each plane; `stack` holds one frame per call that is inside
a callback. The journal's lock is re-entrant and held for a whole call, so threads
are serial and the interleaving is the one of nested calls: a guard or an
executor calls `dispatch`, `confirm`, `request_confirmation` or `replace_catalog`
of its own or of another plane. One action is what happens between two
callbacks: `Dispatch` and `ReadHistory` up to the first guard, `GuardChecked` up
to the durable intent, `GuardRechecked` up to the executor, `ExecutorReturns` with
the receipt. An append returns, fails, or fails after committing. `Crash` loses
everything but the journal; `Restart` builds new planes on it.

`executions`, `approved` and `last` are history variables: executor invocations,
accepted approvals, and the `Result` last returned.

### SessionOwner, SharedOwner

The owner's generation, owner and state, with `begin`, `cancel`, `accepts` and
`release` as operators. `SharedOwner` gives them to a set of adapters; a cancel may
use any generation the adapter was ever given, which is what a delayed thread does.
`live` is the set of adapters whose device or job may still run. An adapter may start
a resource as long as it has not released its lease, even if a cancel came since it
last asked; it may report a clean release only when the resource is gone.

### VoiceCoordinator

`phase`, `mine` (the lease), `device`, `job`, `pending`, `confirming`,
`cancelRequested` and the rest are the fields of the coordinator; `pc` is the callback its
foreground call is in. Each callback (speech stop, clock, device factory, device
start, capture, transcriber, router, observer) may return anything its type allows,
raise, or call `cancel`. A cancelling thread runs `CancelReads`, `CancelFlags`,
`CancelInvalidates` without the lock and `CancelLocks` with it. `mic` and `asr` say
whether the physical resources may still run.

`spent` is a history variable that reads none of the fields by which the code decides: a
command is spent once its executor was invoked, and whatever a cancel can have been meant
for is spent once that cancel has returned. A new command replaces it, a confirmation
carries it on. `ActsOnce` compares it with the executor's invocations. The code has to
get there by `_valid`, the tokens and a flag, of which `activate` clears the last while
the preview it may be about to replace is still there. What is not a property: between a
cancel's flag and its lock, an `activate` that is refused has erased the flag, and the preview
can be confirmed until the cancelling thread gets the lock (its cancel has not returned).

### Conversation, TtsOutput

`pc` is what the holder of the controller's lock does next, one action per
stretch between two callbacks or uses of `_gate`. `cancel_turn`, `end` and `handoff` are
threads that invalidate the lease before they wait for the lock. A rival adapter takes and
releases the same owner, in particular in the gap of `_stop` between releasing the
old lease and beginning the next one. `ImplementsOwner` is the specification of
`SharedOwner` itself, whose variables the conversation shares. What `SharedOwner` asks of an
adapter is not written into the steps that owe it: `TakeLease`, `OpenJob` and the
report of an output have the guards of `conversation.py` and `tts.py` only, so the
refinement can fail.

`TtsOutput` borrows the conversation's lease; nothing makes the conversation keep that
lease until the output is clean (`tts.py` says so at its top), so `outputs`, what
physically runs, may outlive it. A release refused by a faulted owner keeps the intent of
the conversation for the next call, which `CancelEnds` names as its one exception.

### OwnedProcess, VoiceWorker

`supervisor` is the thread of `_run`, from its loop to its verdict; `child` is the process group, which
is running, has lost its leader, is gone, or could not be proven gone. The capture and the
transcription job keep the same fields and share the variables of `VoiceWorker`; their
construction, start, polls and cancels run in the foreground and in other threads, one
action per section under the job's lock. Frames are counted, not stored.

### CallStack, Dictation, VoicePanel, ControlEndpoint, VoiceControl

Three threads (the server's, the keys', the panel's) each have a stack of operations in
progress; a callback may call any operation of any object once. The locks of
dictation and of the panel are re-entrant and make other threads wait; the
dispatcher's never blocks and refuses instead. How handlers are wired to dictation is
the operator's; the model wires them as the contract in the documentation does.
Readers that take no lock could see dictation "idle" between `_cleanup` and
`_complete`; the two are one step here, as nothing admits work on such a reading.

`ControlEndpoint` has servers of several processes on one directory: lock, probe, bind,
identify and listen on the way up, and a close that removes only the inode it knows to be its
own. A process that dies leaves its socket file behind.

### GatewayClient, ProviderConfiguration

`active`, `route`, `job`, `unclean`, `fault`, `terminal` and `history` are the
client's fields; `pc` is the callback (clock, permit, begin, poll, cancel) the call
is in. Providers answer every member of the reply type, raise, or leave work behind;
`running` is the work that may really be going on. The clock may go backwards, and
every callback may cancel or disable the client.

A behaviour has a client without an owner, or one that a configuration owns: its
candidates are objects with a baseline revision, a content (host alone, or paired with a
local provider), approvals and health; every operation is a transaction of the gateway and is refused
inside a callback, except `_permit`, which is one.

### AssignmentLoop, Continuation

Every operation of the loop journal holds its lease from first read to last write and so
is one step, except `transition`, a run's own LIT write, which has three. A LIT
fingerprint is kept as what it is compared for, `moved`: the grant's scope is not what it
was. `at` is a run's position in `Program`, the calls of `continue_work` in their order; a run may die
between any two, while its worker lives on. Three facts of the code show in
`EffectsAdmitted`, `Others` and `Review`: a transition takes progress of its own ticket by somebody
else (a comment, a close, an assignee) for its own; `claim` adopts a foreign assignee; a
review saves its quarantine before it labels LIT, and `_current` reads LIT and the
reservation but never the quarantine.

### RecordStore, Communication, Orchestration

A record is what readers see now and what they may see after a loss of power: a rename
without a synced directory may be undone. `call` is the call that holds the ledger's lease
(a second caller is refused); its places are those where a command or a file can fail or
the process can die. Comments are the bodies that carry the operation's marker. A LIT command is a process
group of its own: it is killed before a caller that lives goes on, and lives on (`late`)
when its caller dies. That is how a second comment can appear although `ensure_comment` says "at
most once": `DeliveredOnce` allows one more for each death; later calls hold and no
pointer is queued to an ambiguous comment.

### NativeReset

Four durable files, each replaced atomically: `sup` (supervisor state), `jr` (loop
journal), `control` (routing and pause) and `release`. `pc` and `mem` are the memory of
the supervisor's step and die in `Crash`; `op` is a journal operation under the
journal's lease, which refuses a second caller instead of blocking. Every write is an
action of its own wherever another write or a native input follows it: `ClearIntent`,
`Clear`, `Cleared`; `PromptIntent`, `Queue`, `Queued`; `BootIntent`, `BootRoute`,
`BootPublish`; `AckIntent`, `Acknowledge`, `Acknowledged`; `RecoverIntent`,
`RecoverRoute`, `RecoverJournal`, `RecoverSave`; `FoldDecide`, `Instruct`, `Instructed`,
`RequestReset`. `Clear`, `Queue` and `Instruct` take effect or not and are
acknowledged or not. `Queue` and `Instruct` may also be refused, for any reason their probe of
the lane can have, passing or not; a refused prompt is sent again by the next
`PromptIntent`, to the same context, and a refused instruction is not. The lane is a sequence of contexts with their user messages: people type, paste
and clear at any time, the client acts on typed keys and queued prompts later, and
turns start and end by themselves. The durations the code measures are one flag, `expired`:
whether the 120 s since the clear have passed. Transcripts and sealed manifests
are identities (context and package numbers); hashing and parsing are left out.

`Casts` chooses who may act beside the supervisor (one of its sets in each behaviour), so that
TLC finishes: people, the workflow, its tickets and startup, goal continuations,
ceiling decisions, pauses, resets by hand, recoveries. The theorems need no such choice.

## Runs

| Run | Instance | What it shows |
|---|---|---|
| `dispatch` | 2 planes, 2 commands (one safe, one that asks to confirm), 2 catalog versions, nesting 2 | at-most-once execution and the inductive invariant behind it, honest results, pinned catalogs, current previews, required approvals, refinement of the ledger |
| `dispatch_guard_reentry` | 1 command, nesting 3, every guard and the executor re-entrant | **violation**: two executions of one command ID |
| `coordinator` | a cancelling thread, another adapter, generations to 5 | no resource without a lease, no microphone beside the transcriber, nothing left behind, no successor disturbed, every command acts once at most and not after its cancel; every turn ends, every cancelled lease is resolved |
| `conversation` | a rival adapter, generations to 3; two turns with two cancelling threads, and a turn that is spoken | the conversation implements the shared owner, admission stays exclusive, no voided answer is published, no output is lost sight of, every cancel ends |
| `worker` | 2 cancelling threads, a queue of 2 frames | cleanup is claimed only when the group is gone, nothing is handed out after a cancel, every process and cancel ends |
| `control` | 2 threads of 3, 4 calls, nesting 3: wire with keys, wire with panel, keys with panel; two servers alone | no request and no preview acted on twice, no text typed twice or into another window, no recording lost track of, no endpoint taken from its server; every call returns unless dictation and panel call each other |
| `gateway` | a free client with 2 requests; a configured one with 2 candidates | work is always accounted for, one result per ID, sticky cancels, providers begin only as approved by the configuration in force; every request ends |
| `assignment` | a goal and 2 tickets, one blocking the other, in 5 environments | a ticket is committed once and as verified, reservations are disjoint, effects stand on an unchanged grant, pointers are queued once; every run ends |
| `reset` | 2 packages, 3 contexts, 2 turns, in 6 casts | no native input twice, one epoch per reset and only for genuine ones, nothing admitted across a reset, no unannounced routing, production held after a recovery |
| `reset_live` | 1 package; workflow, tickets, startup, goal continuations | an accepted reset is recorded as verified |
| `reset_pause` | 1 package; workflow, tickets, pauses | **violation**: a bootstrap undoes a pause |
| `reset_close` | 1 turn | **violation**: a close decision without a reset request |

### Bounds

Two planes and two commands are enough for every pair of calls to meet on the same or
on different commands and planes. The proofs remove these bounds, and cover guards that
call back in as well (in the run only executors do: a guard that previews the very
command it is guarding would make `ApprovalRequired` ask for an approval in the middle of
a call). Five generations let a delayed cancel meet two
successors; three let the conversation lose the gap to its rival and win it back. A
history of two for two requests makes the history full. Two candidates let
an older one meet its successor's approval; that a full history refuses a new ID takes a third
request, and is shown by the theorem `AlwaysOneResult`. Three levels are what it takes to cross from
panel to dispatcher to dictation and back on one thread, and four calls what it takes for two
threads to be in one object each and want the other's. Windows, contexts and previews move
in the two casts with `"world"`, which make `MovingCalls` = 3 calls; the keys and the panel
make four in a world that stands still. Two packages
and three contexts let a reset be followed by another one, and a stale context or
package be mistaken for the current one; `Quota` is 1 instead of 5, `Ceiling` 1 and
`MaxSeen` and `MaxTokens` small instead of 4096, as only reaching them matters. In the
environments of `assignment`, two runs meet one crash; messages meet two deaths and two
changes of pause or routing, which lets a delivery be interrupted, its retry be interrupted, and a third go through.

Bounds are in guards: `MaxDepth`, `MaxConfirmations` (128 in the code),
`MaxGeneration`, `MaxHistory`, `MaxRevision`, `MaxReceipts`, `MaxServed`, `MaxQueue`,
`MaxCalls`, `MovingCalls`, `MaxIds`, `MaxSeen`, `MaxTokens`, `LastContext`, `MaxPasses`, `MaxPackages`, `MaxContexts`,
`MaxInputs`, `MaxTurns`, `MaxTickets`, the fields of `Environments` and `Scenes`, and the sets of
`Requests`, `Candidates` and `Records`. `HomeEnters` takes at most `MaxCalls`
recordings, which no behaviour of the run exceeds.

Deadlock is checked for the dispatcher, the coordinator and the worker. The others
may stop for good: a reset whose input is uncertain or whose deadline has passed is held until
somebody acts; runs, calls, requests and turns are used up.

### Fairness

- `VoiceCoordinator`: a callback returns (devices, transcriber and router have
  time limits of their own), the caller polls a turn again and again (strong fairness, as
  a cancelling thread may hold the lock whenever it tries), and the clock advances.
- `Conversation`, `TtsOutput`: collaborators are "trusted, bounded and synchronous", so
  the holder of a lock goes on, and a thread in a cancel is scheduled. The caller need not poll.
- `VoiceWorker`: the foreground, each cancel and the supervisor are scheduled; the deadline
  of a process that hangs is noticed (strong fairness, as output may come in between).
- `VoiceControl`: some thread that need not wait for a lock goes on. The calls are bounded, so no
  lock needs to be fair, and what `CallsReturn` excludes is threads that wait for each other. Its
  one exception, `Crossed`, is reached in the run: `Dictation` calls its focus, capture and observer
  callbacks under its lock (`dictation.py:105`) and the panel its clock, state and sender under its
  own (`voice_panel.py:84`). If one of the former wants the panel while one of the latter wants
  dictation, both threads wait for ever. No callback in the repository does so, and nothing in the
  code forbids it; the dispatcher, which refuses instead of waiting, is never part of such a circle.
- `GatewayClient`, `ProviderConfiguration`: callbacks return, the caller polls, the clock advances.
- `Orchestration`: a run goes on, as each of its calls has a time limit. Nobody has to
  start a run, send a message or resolve anything.
- `NativeReset`: the supervisor's service is restarted and its loop steps again when a
  file or the lane changes. People, the model and the native client are not assumed to do
  anything.

## Proofs

`ControlPlaneProofs` proves, for all sets of planes, commands, tokens, keys and versions
and every nesting depth:

- `TypeCorrect`;
- `DispatchInvariant`, `ExecutedAtMostOnce`, `IntentAlwaysDurable`, `ReportsHonest`,
  `LedgerImplemented`: under `GuardsStayHome`, which says that a first guard does not
  call into *another* dispatcher of the same journal. The run
  `dispatch_guard_reentry` shows that the proviso is needed;
- `CatalogAlwaysPinned` and `PreviewsAlwaysCurrent`, without it;
- `ApprovalAlwaysRequired`, of the behaviours in which no guard previews the very command it
  guards (`PreviewsElsewhere`), and `ApprovalUnderQuietGuards` for guards that call nothing
  back. The only guards of the repository, `VoiceRouter._current`, compare states.

`AtMostOnce` is not inductive: what a step may do depends on the calls that
wait in callbacks below it. `DispatchInv` adds that the command of every such call is known
where a nested call will look for it (in `_seen` before the intent, in the journal after
it), that no two calls in progress work on one command, that a call nested in a first
guard is on its plane, and that settled receipts belong to executed commands. The step
lemmas follow the stack discipline: one for a frame that is pushed, one for a frame that is
advanced, one for a frame that is popped, and one lemma for each of intent, execution and
receipt. `AskedInv` says what a call in its guards has read of the history and of its risk: a
confirmed one was approved, an unconfirmed one has no preview and need not be confirmed. `LedgerImplemented` classifies every step by its effect on intents, executions and
settled receipts.

`ConversationProofs` begins with the shared owner: `AdmissionAlwaysExclusive`,
`LateCancelAlwaysHarmless` and `FaultAlwaysLatched` hold of any set of adapters, from
`LeaseInv`: a generation belongs to one adapter, an unreleased lease is the owner's current one,
and what may still run runs under such a lease or under a faulted owner.
`ConversationImplementsOwner` shows that the conversation with its spoken output and a rival is
such a set, step by step, hence `ConversationAlwaysExclusive`; `NeverVoidedAnswer` and
`OutputAlwaysAccounted` are proved beside it, for any limits, cancelling threads and
generations. Every step of `TtsOutput` is a step of `SharedOwner` or none because
`LeaseHeld` ties the conversation's memory of its lease to the owner, `JobInv` says that a job that
may run is known, lost or already a fault, so that `_stop` releases nothing that runs, and `HandleInv`
says the same of the output. `RequestInv` follows a request from its admission: whatever
voids it leaves an intent, which is read before the answer is published. `BorrowInv` is about the
lease that the output uses and the conversation may lose meanwhile.

`VoiceCoordinatorProofs` proves `AlwaysLeased`, `SuccessorNeverTouched` and `AlwaysActsOnce`
with and without a capture device, for any number of cancelling threads and generations.
`PlaceInv` gives each callback its phase and its lease, `OwnedInv` says that the lease
of whoever took over is one that no cancel under way can name, and `ResourceInv` that what runs has its
handle, that a proof of cleanup was given when nothing ran, and that a clean release
follows such proofs. `SpentInv` says where authority may be left for a command that is spent:
only while its executor runs, while its turn is cleaned up, or where no preview is left to
confirm. Neither the flag nor the lease is enough for that; what is needed is that every
cancel with the lock takes `_valid` and both tokens, with a turn or without one.

`OrchestrationProofs` proves, for every backlog, set of reservations and environment:

- `ReservationsAlwaysDisjoint`, from `OwnersInv`: each reservation would be admitted
  beside the others. Admission compares a new record with the old ones only, so what is
  needed is that `MayReserve` is symmetric;
- `EffectsAlwaysAdmitted`, from `GrantInv`: a foreign change stays visible in `moved`, and
  during a transition, which clears `moved` when it ends, in `beside` as well;
- `AlwaysRunsOnce`, from `RunInv`, which ties the position in `Program` to the handoff
  record (interrupted from the intent on, latched from before the commit to the close),
  and both to the commits a ticket has left. It is needed because the run that continues
  after a crash knows only the record;
- `AlwaysDeliveredOnce`, from `MailInv`: each command whose caller died may add one
  comment, and whatever a loss of power leaves of the ledger says that a pointer may have
  been queued once one was.

`VoiceWorkerProofs` proves `CleanAlwaysGone` and `NothingHandedOutAfterCancel` for any
number of cancelling threads and any queue. `ProcessInv` says who owns the child at each
point of the supervisor, `JobInv` that what a thread was told of the process still holds when
it uses it after letting go of the lock.

`VoiceControlProofs` proves `EndpointAlwaysOwned`, `DictationAlwaysAccounted` and
`AlwaysActedOnce` for any depth of nested calls, request IDs, tokens, windows and servers.
The middle part is about the stacks: `Stacks`, the four things a step can do to one
(`Turns`, `Ends`, `Adds`, `Begins`), and for each object that one frame at most is past its lock
(`Sole`, `Alone`). An object's invariant then speaks of that frame alone (`DictationAt`,
`PanelAt`, `DispatchAt`), and steps of the other objects leave it be. `AlwaysActedOnce` also
needs `SentInv`: a request that confirms is nested in the panel's confirmation, and its
token is open until the handler runs.

`NativeResetProofs` proves `InputAlwaysOnce`, `AlwaysOneEpochPerReset`, `ResetAlwaysGenuine`,
`AdmissionAlwaysSettled`, `RoutingAlwaysExplained` and `RecoveredAlwaysHeld` from one
invariant, `ResetInv`, for any number of packages, contexts, turns and tickets and every
cast. Four files, a lane and the memory of a step that may die have to agree:
`PlaceInv` ties the supervisor's place to its phase on file, `OpInv` a journal operation to what
it found under the lease, `TransferInv` and `AdmissionInv` the journal to the routing file,
`CreditInv` and `EarnedInv` epochs to packages and their inputs, `SentInv` and `TurnInv` the inputs
sent to the phases that allow another one. The last needs care: decisions are forgotten
with a reset, and only a lane that has ended no turn yet is decided on again.

`GatewayProofs` proves `WorkAlwaysAccounted`, `AlwaysOneResult`,
`CanceledAlwaysStaysCanceled` and `BeginsAlwaysApproved` for any requests, candidates, receipts and
revisions. `CallInv` says what a call owes in each callback (nothing before its begin, its
job until it is retired, what is left when it is settled), `ResultInv` counts the three
places of an admitted ID, and `ConfInv` keeps receipts to staged candidates at their baseline
revision, and the client open exactly while a candidate is in force.

### Assumptions

The assumptions are the named `ASSUME`s of the modules, which TLC evaluates in the runs.
Most give types to bounds or say that a marker such as `None` is no request, candidate,
window, token or server. Two say more: `PathsAreTrees` (two paths are nested or
apart, as files and directory trees are) and `ReservedWereAdmitted` (the reservations a
journal starts with were admitted one beside the other). `GuardsStayHome` is a hypothesis of the five
dispatch theorems named above, `PreviewsElsewhere` of `ApprovalAlwaysRequired`, and neither of
anything else.

### What stays with TLC

- Liveness under fairness and anything with `ENABLED`: `TurnsEnd`, `CancelsEnd`,
  `ProcessSettles`, `CallsReturn`, `RequestEnds`, `RunEnds`, `AcceptedIsVerified`.
- What a recursive definition computes for every input (induction over data).

## What the models found

1. `AtMostOnce` fails when a guard, between the history read and the intent, dispatches the
   same command ID through another dispatcher of the journal (`core.py:265`): the lock is
   re-entrant and the outer call does not read again.
2. `PauseKept` fails: `Loop.bootstrap` writes back the session-control file it read before a
   journal save (`loop.py:1344`, `1365`), so a pause made in between is lost, although
   the operations guide says that bootstrap does not unpause production.
3. `CloseRequestsReset` fails: a close decision is saved before its reset request
   (`auto_reset.py:1090`, `1092`), and a turn that is decided is never looked at again.

Writing the proofs corrected the models in one respect: arms of a `CASE` that overlap (the order of
checks in `Denial`, `Cleanup`, `DeviceStopped`, `Interruption`) have no meaning in TLA+,
though TLC takes the first. They are written with `IF` now, in the order of the code.

## Not modelled

- Validation, encoding, hashing and parsing (catalog, contracts, inventory, wire format,
  manifests, packets, transcripts, vendor configuration): pure functions over text with no protocol state.
- Projections and views: pure functions of the rows read.
- Presentation and offline tools (replay, evaluation, voice candidates, metrics, artifacts).
- Inspection of `/proc`, lock tables and the compositor: represented by the fact they
  establish (the one new context in the window).
- `Admission`, the server side of the gateway; peer credentials and frames of the control socket.
- The speech queue (`speech.py`): the coordinator only waits for its stop, whose every
  outcome is modelled; the queue itself beside the coordinator's interleavings is beyond TLC's time.
- The gate `AutoReset.attempt` keeps around the supervisor's step (hold reports, conditions, probes). A hold
  it records is stepped again when a probe or a file changes, which the model may do at any time,
  and a lease conflict is a `Stop`, which ends the process and is the model's crash and restart.
  The gate only delays steps that the model may delay anyway.
- `handoff write` by hand takes no lease and may overwrite the record of a run in progress; it is an
  operator's escape hatch, and none of the properties of `Continuation` survive its misuse.
- In `AssignmentLoop` and `NativeReset` a file replacement succeeds or the process dies; the residue of
  `records.py` is modelled where messages meet it.

## Plan

Theorems: the coordinator as an adapter of `SharedOwner`, as the conversation is.

Models: the speech queue with the coordinator reduced to its calls; `Admission` with the client;
`CommandCapture` with its silence and duration limits as integers.
