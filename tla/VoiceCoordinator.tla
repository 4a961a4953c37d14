-------------------------- MODULE VoiceCoordinator --------------------------
(***************************************************************************)
(* The foreground command turn of runtime/voice/coordinator.py.            *)
(*                                                                         *)
(* One foreground caller drives activate, feed, poll, transcribed and      *)
(* confirm; other threads call cancel.  All of them take the coordinator's *)
(* lock, but cancel first marks the turn without it, so that part          *)
(* interleaves with every step of a call in progress.  Collaborators (the  *)
(* journal observer, the state supplier, the capture device, the           *)
(* transcription job, the router and its executor) are callbacks: `pc`     *)
(* names the one the call in progress is waiting for, and each of them may *)
(* call cancel on the same thread before it returns.  `mic` and `asr` are  *)
(* the physical resources behind the device and the job: they run until a  *)
(* cleanup is proven, whatever the coordinator remembers of them.          *)
(***************************************************************************)
EXTENDS SessionOwner

CONSTANTS
    Cancellers,     \* threads that call cancel
    HasDevice       \* is a device_factory configured?

ASSUME CoordinatorAssumption == HasDevice \in BOOLEAN

VARIABLES
    phase,          \* _phase
    valid,          \* _valid
    pending,        \* is there a _pending_token?
    confirming,     \* is there a _confirming token?
    mine,           \* _generation, 0 for None
    cancelRequested,\* _cancel_requested
    device, job,    \* are there a _device and a _job?
    deviceCleaned,  \* _device_cleaned: "unknown", "yes" or "no"
    capture,        \* state of the CommandCapture
    expired,        \* has the clock passed _deadline?
    mic, asr,       \* is the capture process, the transcriber running?
    pc,             \* callback the call holding the lock waits for, or "free"
    withToken,      \* activate: was a confirmation_token given?
    polling,        \* is the call in progress a poll?
    clean,          \* outcome of _cleanup, for _release
    cancels,        \* per cancelling thread: where it is, what it read
    other,          \* lease of another adapter on the same owner, or 0
    spent           \* history: may act no more, "turn" the command of the turn or
                    \* preview in force, "next" the one activate prepares

turnVars == <<phase, valid, pending, confirming, mine>>
resources == <<device, job, deviceCleaned, capture, expired, mic, asr>>
callVars == <<pc, withToken, polling, clean>>
threadVars == <<cancelRequested, cancels, other, spent>>
vars == <<ownerVars, turnVars, resources, callVars, threadVars>>

InTurn == {"capturing", "processing"}

Init ==
    /\ OwnerInit
    /\ phase = "idle" /\ valid = FALSE /\ pending = FALSE /\ confirming = FALSE
    /\ mine = 0
    /\ device = FALSE /\ job = FALSE /\ deviceCleaned = "unknown"
    /\ capture = "idle" /\ expired = FALSE /\ mic = FALSE /\ asr = FALSE
    /\ pc = "free" /\ withToken = FALSE /\ polling = FALSE /\ clean = TRUE
    /\ cancelRequested = FALSE /\ other = 0 /\ spent = {}
    /\ cancels = [t \in Cancellers |-> [at |-> "idle", gen |-> 0]]

-----------------------------------------------------------------------------
(* Parts of a call *)

\* _current: `fresh` says whether the trusted state still is the snapshot.
Current(fresh) ==
    /\ valid /\ ~cancelRequested /\ fresh
    /\ mine = 0 \/ Accepts(mine)

\* Mutant: a turn has no deadline.
PassesUntimed(fresh) == Current(fresh)

\* _check, which also enforces the deadline of the phase.
Passes(fresh) == Current(fresh) /\ ~(expired /\ phase \in InTurn)

\* _fail up to _cleanup: the turn loses its authority, then is cleaned up.
Fail == /\ valid' = FALSE /\ pending' = FALSE /\ confirming' = FALSE
        /\ CancelLease(mine)
        /\ pc' = "cleanup"
        /\ UNCHANGED <<phase, mine>>

Continue(next) == /\ pc' = next
                  /\ UNCHANGED <<ownerVars, turnVars>>

\* A callback returned normally or not (ok), then _check.
Check(ok, fresh, next) == IF ok /\ Passes(fresh) THEN Continue(next) ELSE Fail

\* The end of a call, or of one frame inside poll.
Done == IF polling THEN "polling" ELSE "free"

\* Mutant: a device stays believed clean in the next activation.
FreshTurnKeepingProof ==
    /\ device' = FALSE /\ job' = FALSE
    /\ expired' = FALSE
    /\ UNCHANGED <<deviceCleaned, capture, mic, asr>>

FreshTurn ==
    /\ device' = FALSE /\ job' = FALSE /\ deviceCleaned' = "unknown"
    /\ expired' = FALSE
    /\ UNCHANGED <<capture, mic, asr>>

-----------------------------------------------------------------------------
(* activate *)

Activate(token) ==
    /\ pc = "free" /\ phase = "idle"
    /\ cancelRequested' = (token /\ cancelRequested)
    /\ spent' = IF token THEN spent ELSE spent \ {"next"}
    /\ pc' = "speech" /\ withToken' = token /\ polling' = FALSE
    /\ UNCHANGED <<ownerVars, turnVars, resources, clean, cancels, other>>

\* _stop_speech returned; an unproven stop raises BusyError.
SpeechStopped(proven) ==
    /\ pc = "speech"
    /\ pc' = IF ~proven THEN "free" ELSE IF withToken THEN "presample" ELSE "sample"
    /\ UNCHANGED <<ownerVars, turnVars, resources, withToken, polling, clean, threadVars>>

\* A voice answer needs the pending token and the state it was previewed in.
Presampled(fresh) ==
    /\ pc = "presample"
    /\ pc' = IF pending /\ Current(fresh) THEN "sample" ELSE "free"
    /\ valid' = (valid /\ (pending => Current(fresh)))
    /\ UNCHANGED <<ownerVars, phase, pending, confirming, mine, resources,
                   withToken, polling, clean, threadVars>>

\* The state sampled for this turn is usable and nothing canceled it meanwhile.
Admitted(usable) == usable /\ ~cancelRequested /\ (withToken => pending /\ valid)

Sampled(usable) ==
    /\ pc = "sample"
    /\ \/ /\ Admitted(usable)
          /\ Begin
          /\ mine' = generation + 1
          /\ phase' = "capturing" /\ valid' = TRUE
          /\ pending' = (withToken /\ pending)
          /\ confirming' = withToken
          /\ FreshTurn
          /\ pc' = "started"
          /\ spent' = CASE withToken -> spent
                         [] ~withToken /\ "next" \in spent -> {"turn"}
                         [] OTHER -> {}
       \/ /\ ~Admitted(usable) \/ ~CanBegin
          /\ pc' = "free"
          /\ UNCHANGED <<ownerVars, turnVars, resources, spent>>
    /\ UNCHANGED <<withToken, polling, clean, cancelRequested, cancels, other>>

\* capture.started was journaled; then capture.key_equal().
Started(ok, fresh) ==
    /\ pc = "started"
    /\ Check(ok, fresh, "armed")
    /\ capture' = IF ok /\ Passes(fresh) THEN "recording" ELSE capture
    /\ UNCHANGED <<device, job, deviceCleaned, expired, mic, asr, withToken, polling,
                   clean, threadVars>>

\* key_equal's observer returned; when it raised, the capture is discarded.
Armed(ok, fresh) ==
    /\ pc = "armed"
    /\ Check(ok, fresh, IF HasDevice THEN "factory" ELSE "free")
    /\ capture' = IF ok THEN capture ELSE "idle"
    /\ UNCHANGED <<device, job, deviceCleaned, expired, mic, asr, withToken, polling,
                   clean, threadVars>>

DeviceMade(ok, fresh) ==
    /\ pc = "factory"
    /\ device' = ok
    /\ Check(ok, fresh, "starting")
    /\ UNCHANGED <<job, deviceCleaned, capture, expired, mic, asr, withToken, polling,
                   clean, threadVars>>

\* start returned, or raised with or without a process left behind.
DeviceStarted(ok, fresh) ==
    /\ pc = "starting"
    /\ mic' \in (IF ok THEN {TRUE} ELSE BOOLEAN)
    /\ Check(ok, fresh, "free")
    /\ UNCHANGED <<device, job, deviceCleaned, capture, expired, asr, withToken, polling,
                   clean, threadVars>>

-----------------------------------------------------------------------------
(* feed, and the frames of poll *)

\* _feed up to capture.feed: a bad frame or a sequence gap fails the turn, a
\* consumed sequence number is ignored.  A stale generation returns at once.
FeedFrame(kind, fresh) ==
    /\ phase = "capturing"
    /\ Check(kind # "bad", fresh, IF kind = "duplicate" THEN Done ELSE "feeding")

Feed(kind, fresh) ==
    /\ pc = "free" /\ ~polling
    /\ FeedFrame(kind, fresh)
    /\ UNCHANGED <<resources, withToken, polling, clean, threadVars>>

\* capture.feed returned: still recording, only silence heard, an utterance to
\* process, or its observer raised and the audio was discarded.
Fed(result, fresh) ==
    /\ pc = "feeding"
    /\ capture' = IF result = "failed" THEN "idle" ELSE result
    /\ Check(result # "failed", fresh, IF result = "recording" THEN Done ELSE "stopping")
    /\ UNCHANGED <<device, job, deviceCleaned, expired, mic, asr, withToken, polling,
                   clean, threadVars>>

\* _stop_device: asked once; an exception or anything but True is not proven.
StopDevice(proven) ==
    LET asks == device /\ deviceCleaned = "unknown" IN
    /\ deviceCleaned' = IF ~asks THEN deviceCleaned ELSE IF proven THEN "yes" ELSE "no"
    /\ mic' = IF asks /\ proven THEN FALSE ELSE mic
DeviceStopped(proven) ==
    device => IF deviceCleaned = "unknown" THEN proven ELSE deviceCleaned = "yes"

\* The capture process must be gone before anything else happens to the audio.
CaptureStopped(proven) ==
    /\ pc = "stopping"
    /\ StopDevice(proven)
    /\ IF DeviceStopped(proven) THEN Continue("stopped") ELSE Fail
    /\ UNCHANGED <<device, job, capture, expired, asr, withToken, polling, clean, threadVars>>

\* capture.stopped was journaled: silence ends the turn, speech is transcribed.
StopObserved(ok, fresh) ==
    /\ pc = "stopped"
    /\ \/ /\ ok /\ Passes(fresh)
          /\ pc' = IF capture = "idle" THEN "cleanup" ELSE "announced"
          /\ phase' = IF capture = "idle" THEN phase ELSE "processing"
          /\ UNCHANGED <<ownerVars, valid, pending, confirming, mine>>
       \/ ~(ok /\ Passes(fresh)) /\ Fail
    /\ UNCHANGED <<resources, withToken, polling, clean, threadVars>>

TranscriptionAnnounced(ok, fresh) ==
    /\ pc = "announced"
    /\ Check(ok, fresh, "jobfactory")
    /\ UNCHANGED <<resources, withToken, polling, clean, threadVars>>

JobMade(ok, fresh) ==
    /\ pc = "jobfactory"
    /\ job' = ok
    /\ Check(ok, fresh, "jobstart")
    /\ expired' = (expired /\ ~(ok /\ Passes(fresh)))
    /\ UNCHANGED <<device, deviceCleaned, capture, mic, asr, withToken, polling, clean,
                   threadVars>>

JobStarted(ok, fresh) ==
    /\ pc = "jobstart"
    /\ asr' \in (IF ok THEN {TRUE} ELSE BOOLEAN)
    /\ Check(ok, fresh, Done)
    /\ UNCHANGED <<device, job, deviceCleaned, capture, expired, mic, withToken, polling,
                   clean, threadVars>>

-----------------------------------------------------------------------------
(* poll and transcribed *)

Poll(fresh) ==
    /\ pc = "free" /\ phase \in InTurn
    /\ polling' = TRUE
    /\ Check(TRUE, fresh, IF phase = "capturing" /\ device THEN "reading" ELSE "polling")
    /\ UNCHANGED <<resources, withToken, clean, threadVars>>

\* device.poll returned chunks within bounds, or not.
DevicePolled(ok) ==
    /\ pc = "reading"
    /\ IF ok THEN Continue("polling") ELSE Fail
    /\ UNCHANGED <<resources, withToken, polling, clean, threadVars>>

PollFrame(fresh) ==
    /\ pc = "polling" /\ device
    /\ FeedFrame("frame", fresh)
    /\ UNCHANGED <<resources, withToken, polling, clean, threadVars>>

\* No frame is left, and the phase has no job to ask.
PollEnds ==
    /\ pc = "polling" /\ phase # "processing"
    /\ Continue("free")
    /\ polling' = FALSE
    /\ UNCHANGED <<resources, withToken, clean, threadVars>>

\* job.poll returned nothing, a result, or raised.
JobPolled(answer) ==
    /\ pc = "polling" /\ phase = "processing"
    /\ \/ answer = "none" /\ Continue("free")
       \/ answer = "result" /\ Continue("result")
       \/ answer = "raised" /\ Fail
    /\ polling' = FALSE
    /\ UNCHANGED <<resources, withToken, clean, threadVars>>

\* transcribed(result) with the result of this generation.
Transcribed ==
    /\ pc = "free" /\ phase = "processing"
    /\ Continue("result")
    /\ UNCHANGED <<resources, withToken, polling, clean, threadVars>>

\* Only a finished job whose cleanup is proven may hand in a transcript.
ResultChecked(proven, fresh) ==
    /\ pc = "result"
    /\ asr' = (asr /\ ~(job /\ proven))
    /\ Check(job /\ proven, fresh, "heard")
    /\ UNCHANGED <<device, job, deviceCleaned, capture, expired, mic, withToken, polling,
                   clean, threadVars>>

\* transcription.finished was journaled; a failed transcript ends the turn.
TranscriptObserved(ok, success, fresh) ==
    /\ pc = "heard"
    /\ \/ /\ ok /\ success /\ Passes(fresh)
          /\ phase' = "routing"
          /\ pc' = "route"
          /\ UNCHANGED <<ownerVars, valid, pending, confirming, mine>>
       \/ ~(ok /\ success /\ Passes(fresh)) /\ Fail
    /\ UNCHANGED <<resources, withToken, polling, clean, threadVars>>

-----------------------------------------------------------------------------
(* The router, and panel or keyboard confirmation *)

\* The guard the router hands to the control plane accepted the turn, and the
\* executor is invoked.
RouterActs(fresh) ==
    /\ pc \in {"route", "panelroute"}
    /\ Current(fresh)
    /\ Continue(IF pc = "route" THEN "acting" ELSE "panelacting")
    /\ spent' = spent \cup {"turn"}
    /\ UNCHANGED <<resources, withToken, polling, clean, cancelRequested, cancels, other>>

\* The executor returned, or the router answered without acting.  A preview
\* and an unclear voice answer leave a token for a later confirmation.
RouterReplies(keepsToken, fresh) ==
    /\ pc \in {"route", "panelroute", "acting", "panelacting"}
    /\ pc # "route" => ~keepsToken
    /\ keepsToken => Current(fresh)
    /\ valid' = (valid /\ (pc \in {"route", "panelroute"} => Current(fresh)))
    /\ pending' = IF pc \in {"route", "acting"} THEN keepsToken ELSE pending
    /\ confirming' = IF pc \in {"route", "acting"} THEN FALSE ELSE confirming
    /\ pc' = "cleanup"
    /\ UNCHANGED <<ownerVars, phase, mine, resources, withToken, polling, clean, threadVars>>

\* The router raised.
RouterRaises ==
    /\ pc \in {"route", "panelroute", "acting", "panelacting"}
    /\ Fail
    /\ UNCHANGED <<resources, withToken, polling, clean, threadVars>>

\* confirm(token, "panel", answer) of the pending token.
ConfirmPanel(fresh) ==
    /\ pc = "free" /\ phase = "idle" /\ pending
    /\ \/ /\ Current(fresh)
          /\ Begin
          /\ mine' = generation + 1 /\ pending' = FALSE
          /\ pc' = "panelroute"
          /\ UNCHANGED valid
       \/ /\ ~Current(fresh)
          /\ valid' = FALSE
          /\ UNCHANGED <<ownerVars, mine, pending, pc>>
    /\ UNCHANGED <<phase, confirming, resources, withToken, polling, clean, threadVars>>

-----------------------------------------------------------------------------
(* _cleanup and _release *)

\* job.cancel(), then its cleanup_proven.
JobClean(proven) == job => proven

\* Device, speech, job and capture are stopped in turn, each only once known
\* to be ours; speech only for a turn that lost its authority.
Cleanup(deviceProven, speechProven, jobProven) ==
    /\ pc = "cleanup"
    /\ StopDevice(deviceProven)
    /\ asr' = (asr /\ ~(job /\ jobProven))
    /\ capture' = "idle"
    /\ clean' = /\ DeviceStopped(deviceProven)
                /\ (~valid \/ cancelRequested) => speechProven
                /\ JobClean(jobProven)
    /\ pc' = "release"
    /\ UNCHANGED <<ownerVars, turnVars, device, job, expired, withToken, polling, threadVars>>

\* owner.release(self._generation, cleaned=clean)
ReleaseLease ==
    /\ pc = "release"
    /\ Release(mine, clean)
    /\ pc' = "forget"
    /\ UNCHANGED <<turnVars, resources, withToken, polling, clean, threadVars>>

\* The rest of _release.
Forget ==
    /\ pc = "forget"
    /\ mine' = 0 /\ device' = FALSE /\ job' = FALSE
    /\ phase' = IF clean THEN "idle" ELSE "faulted"
    /\ valid' = (valid /\ clean)
    /\ pc' = Done
    /\ UNCHANGED <<ownerVars, pending, confirming, deviceCleaned, capture, expired, mic, asr,
                   withToken, polling, clean, threadVars>>

-----------------------------------------------------------------------------
(* cancel *)

\* Mutant: the flag is thought enough where there is no lease.
RevokeByFlag == UNCHANGED <<valid, pending, confirming>>

\* With the lock, every cancel takes the turn's authority and the preview's.
Revoke == valid' = FALSE /\ pending' = FALSE /\ confirming' = FALSE

\* A cancel that returns has ended whatever it can have been meant for.
AllSpent == spent' = {"turn", "next"}

\* A callback of the call in progress calls cancel: busy, so the call cleans up.
ReentrantCancel ==
    /\ pc \notin {"free", "forget"}
    /\ cancelRequested' = TRUE
    /\ CancelLease(mine)
    /\ Revoke /\ AllSpent
    /\ UNCHANGED <<phase, mine, resources, callVars, cancels, other>>

\* Another thread's cancel: read the generation, set the flag and invalidate
\* the lease, all before it waits for the lock.
CancelReads(t) ==
    /\ cancels[t].at = "idle"
    /\ cancels' = [cancels EXCEPT ![t] = [at |-> "read", gen |-> mine]]
    /\ UNCHANGED <<ownerVars, turnVars, resources, callVars, cancelRequested, other, spent>>

CancelFlags(t) ==
    /\ cancels[t].at = "read"
    /\ cancelRequested' = TRUE
    /\ cancels' = [cancels EXCEPT ![t].at = "flagged"]
    /\ UNCHANGED <<ownerVars, turnVars, resources, callVars, other, spent>>

CancelInvalidates(t) ==
    /\ cancels[t].at = "flagged"
    /\ CancelLease(cancels[t].gen)
    /\ cancels' = [cancels EXCEPT ![t].at = "waiting"]
    /\ UNCHANGED <<turnVars, resources, callVars, cancelRequested, other, spent>>

\* The lock is free: the turn it finds is cleaned up; without one the pending
\* preview is dropped and speech is stopped.
CancelLocks(t, speechProven) ==
    /\ cancels[t].at = "waiting" /\ pc = "free"
    /\ cancels' = [cancels EXCEPT ![t] = [at |-> "idle", gen |-> 0]]
    /\ \/ mine # 0 /\ Fail
       \/ /\ mine = 0
          /\ Revoke
          /\ phase' = IF speechProven THEN phase ELSE "faulted"
          /\ UNCHANGED <<ownerVars, mine, pc>>
    /\ AllSpent
    /\ UNCHANGED <<resources, withToken, polling, clean, cancelRequested, other>>

-----------------------------------------------------------------------------
(* Environment *)

Expire ==
    /\ phase \in InTurn /\ ~expired
    /\ expired' = TRUE
    /\ UNCHANGED <<ownerVars, turnVars, device, job, deviceCleaned, capture, mic, asr,
                   callVars, threadVars>>

\* owner.cancel() from outside the coordinator.
ExternalCancel ==
    /\ state = "owned"
    /\ Invalidate
    /\ UNCHANGED <<turnVars, resources, callVars, threadVars>>

\* Dictation or conversation takes the same owner between turns.
OtherBegins ==
    /\ other = 0
    /\ Begin
    /\ other' = generation + 1
    /\ UNCHANGED <<turnVars, resources, callVars, cancelRequested, cancels, spent>>

OtherReleases(cleaned) ==
    /\ other # 0
    /\ Release(other, cleaned)
    /\ other' = 0
    /\ UNCHANGED <<turnVars, resources, callVars, cancelRequested, cancels, spent>>

-----------------------------------------------------------------------------
\* The call in progress goes on.
CallStep ==
    \/ \E proven \in BOOLEAN : SpeechStopped(proven)
    \/ \E fresh \in BOOLEAN : Presampled(fresh)
    \/ \E usable \in BOOLEAN : Sampled(usable)
    \/ \E ok, fresh \in BOOLEAN : Started(ok, fresh)
    \/ \E ok, fresh \in BOOLEAN : Armed(ok, fresh)
    \/ \E ok, fresh \in BOOLEAN : DeviceMade(ok, fresh)
    \/ \E ok, fresh \in BOOLEAN : DeviceStarted(ok, fresh)
    \/ \E result \in {"recording", "idle", "processing", "failed"}, fresh \in BOOLEAN :
          Fed(result, fresh)
    \/ \E proven \in BOOLEAN : CaptureStopped(proven)
    \/ \E ok, fresh \in BOOLEAN : StopObserved(ok, fresh)
    \/ \E ok, fresh \in BOOLEAN : TranscriptionAnnounced(ok, fresh)
    \/ \E ok, fresh \in BOOLEAN : JobMade(ok, fresh)
    \/ \E ok, fresh \in BOOLEAN : JobStarted(ok, fresh)
    \/ \E ok \in BOOLEAN : DevicePolled(ok)
    \/ \E fresh \in BOOLEAN : PollFrame(fresh)
    \/ PollEnds
    \/ \E answer \in {"none", "result", "raised"} : JobPolled(answer)
    \/ \E proven, fresh \in BOOLEAN : ResultChecked(proven, fresh)
    \/ \E ok, success, fresh \in BOOLEAN : TranscriptObserved(ok, success, fresh)
    \/ \E fresh \in BOOLEAN : RouterActs(fresh)
    \/ \E keepsToken, fresh \in BOOLEAN : RouterReplies(keepsToken, fresh)
    \/ RouterRaises
    \/ \E deviceProven, speechProven, jobProven \in BOOLEAN :
          Cleanup(deviceProven, speechProven, jobProven)
    \/ ReleaseLease
    \/ Forget

Polls == \E fresh \in BOOLEAN : Poll(fresh)

Next ==
    \/ CallStep
    \/ Polls
    \/ \E token \in BOOLEAN : Activate(token)
    \/ \E kind \in {"frame", "bad", "duplicate"}, fresh \in BOOLEAN : Feed(kind, fresh)
    \/ Transcribed
    \/ \E fresh \in BOOLEAN : ConfirmPanel(fresh)
    \/ ReentrantCancel
    \/ \E t \in Cancellers : \/ CancelReads(t)
                             \/ CancelFlags(t)
                             \/ CancelInvalidates(t)
                             \/ \E speechProven \in BOOLEAN : CancelLocks(t, speechProven)
    \/ Expire
    \/ ExternalCancel
    \/ OtherBegins
    \/ \E cleaned \in BOOLEAN : OtherReleases(cleaned)

Spec == Init /\ [][Next]_vars

\* Callbacks are bounded, the foreground caller keeps polling a turn, and the
\* clock advances.
Fairness == WF_vars(CallStep) /\ SF_vars(Polls) /\ WF_vars(Expire)
FairSpec == Spec /\ Fairness

-----------------------------------------------------------------------------
(* Properties *)

\* Every phase, lease, device and capture state is one coordinator.py knows.
TypeOK ==
    /\ OwnerTypeOK
    /\ phase \in {"idle", "capturing", "processing", "routing", "faulted"}
    /\ mine \in 0 .. MaxGeneration /\ other \in 0 .. MaxGeneration
    /\ deviceCleaned \in {"unknown", "yes", "no"}
    /\ capture \in {"idle", "recording", "processing"}
    /\ \A t \in Cancellers :
          /\ cancels[t].at \in {"idle", "read", "flagged", "waiting"}
          /\ cancels[t].gen \in 0 .. MaxGeneration
    /\ {valid, pending, confirming, cancelRequested, device, job, expired, mic, asr,
        withToken, polling, clean} \subseteq BOOLEAN
    /\ spent \subseteq {"turn", "next"}

\* Between calls a turn in progress holds its own unreleased lease, and an idle
\* coordinator holds none and has nothing left over; release is never stale.
PhaseMatchesLease ==
    /\ pc = "free" => /\ phase \in InTurn <=> mine # 0
                      /\ phase \in {"idle", "faulted"} \cup InTurn
                      /\ phase = "idle" => ~device /\ ~job /\ capture = "idle"
    /\ mine # 0 /\ pc # "forget" => owner = mine /\ state \in {"owned", "canceling"}

\* "dictation cannot acquire the owner until physical cleanup has been proved":
\* while the microphone, the transcriber or captured audio is live, the lease
\* is this turn's own or the owner is faulted, and "capture cleanup must
\* finish before transcription starts"; what the coordinator believes of its
\* lease between calls is so.
ResourcesLeased ==
    /\ mic \/ asr \/ capture # "idle" =>
          state = "faulted" \/ (mine # 0 /\ owner = mine)
    /\ mic /\ asr => state = "faulted"
    /\ PhaseMatchesLease

\* No cancel, however late, and no cleanup touches the lease of the adapter
\* that took over ("cannot invalidate a successor dictation owner").
SuccessorUntouched ==
    [][other # 0 /\ other' = other /\ ~ExternalCancel => UNCHANGED <<owner, state>>]_vars

\* What was said once acts once at most, in its own turn or when its preview is
\* confirmed by voice or on the panel, and not at all after a cancel of it has
\* returned: not even if activate has erased that cancel's flag, or was refused and
\* left the preview in force ("Clear a previous turn's cancellation before invoking
\* collaborators, never erase cancellation delivered by this preflight's callbacks").
ActsOnce ==
    [][pc' \in {"acting", "panelacting"} /\ pc' # pc => "turn" \notin spent]_vars

\* A turn ends whatever its collaborators do: it is idle again or faulted.  And a
\* canceled lease of this coordinator does not stay: it is released, or its cleanup
\* is reported unproven.
TurnsEnd == /\ phase \in InTurn ~> phase \in {"idle", "faulted"}
            /\ mine # 0 /\ state = "canceling" ~> mine = 0
=============================================================================
