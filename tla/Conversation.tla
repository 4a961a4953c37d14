---------------------------- MODULE Conversation ----------------------------
(***************************************************************************)
(* The offline conversation controller of runtime/voice/conversation.py    *)
(* over the SessionOwner it shares with a rival adapter.  `pc' is what the *)
(* holder of _lock does next ("free": nobody holds it, _busy is False): a  *)
(* step runs up to the next collaborator callback or use of _gate.         *)
(* cancel_turn, end and handoff are threads that do not wait for _lock     *)
(* before they invalidate.  Snapshots and jobs belong to the caller: a     *)
(* sample may differ from the last one, or fail, at every check.           *)
(***************************************************************************)
EXTENDS SharedOwner, Sequences

CONSTANTS Cancelers,    \* threads that call cancel_turn, end or handoff
          Scenes        \* what a behaviour is about: the policy's limits, the threads
                        \* that cancel, and whether answers are spoken

ASSUME TalkAssumption ==
    /\ {"conversation", "rival"} \subseteq Adapters
    /\ Scenes \subseteq [turns : Nat, polls : Nat, cancelers : SUBSET Cancelers,
                         speech : BOOLEAN]

VARIABLES scene,        \* one of Scenes
          lease,        \* _lease, 0 for None
          intent,       \* _intent; "failed" is any code but CANCELED, ENDED, HANDOFF
          phase,        \* _phase
          request,      \* _request: the generation of its token, 0 for None
          job,          \* _job is not None
          unknownJob,   \* _unknown_job
          turn, polls,  \* _turn, _polls
          history,      \* the generations of _history's tokens, oldest first
          pc, stop,     \* the holder of _lock, and the code of the _Stop it raised
          clean,        \* _stop's local
          gate,         \* _gate is held across a step (_stop between release and begin)
          canceler,     \* per thread: where in _cancel it is
          voided        \* the request was invalidated while it was pending

talkVars == <<scene, lease, intent, phase, request, job, unknownJob, turn, polls, history,
              pc, stop, clean, gate, canceler, voided>>
turnVars == <<scene, request, job, unknownJob, turn, polls, history, clean, gate, canceler>>

TalkInit == /\ Init
            /\ scene \in Scenes
            /\ lease = 0 /\ intent = "none" /\ phase = "inactive"
            /\ request = 0 /\ job = FALSE /\ unknownJob = FALSE
            /\ turn = 0 /\ polls = 0 /\ history = <<>>
            /\ pc = "free" /\ stop = "none" /\ clean = TRUE /\ gate = FALSE
            /\ canceler = [c \in Cancelers |-> "rest"]
            /\ voided = FALSE

Active == {"ready", "processing", "clarifying"}

-----------------------------------------------------------------------------
(* _check, _Stop and _invalidate. *)

NothingElse == UNCHANGED <<vars, lease, intent, phase>> /\ UNCHANGED turnVars

Goto(label) == pc' = label /\ UNCHANGED <<stop, voided>>

\* Raising _Stop(code): _run invalidates before it does anything else.
Raise(code) == pc' = "caught" /\ stop' = code /\ UNCHANGED voided

\* _invalidate: an ENDED or HANDOFF intent replaces any, a failure only CANCELED.
InvalidateTalk(code) ==
    /\ ~gate
    /\ intent' = IF intent \in {"none", "canceled"} \/ code = "ended" THEN code ELSE intent
    /\ IF lease # 0 THEN CancelLease(lease) ELSE UNCHANGED ownerVars
    /\ voided' = (voided \/ request # 0)
    /\ UNCHANGED <<given, holds, live>>

\* What _check finds under _gate, if the sample it took just before is unchanged.
Current == ~gate /\ intent = "none" /\ Accepts(lease)

\* _check fails: the sample is unavailable or differs, or Current does not hold.
CheckFails == /\ Raise("failed") \/ (intent # "none" /\ Raise(intent))
              /\ NothingElse

-----------------------------------------------------------------------------
(* enter *)

\* begin, whatever the conversation still holds.
TakeLease == /\ Begin
             /\ given' = [given EXCEPT !["conversation"] = @ \cup {owner'}]
             /\ holds' = [holds EXCEPT !["conversation"] = owner']
             /\ UNCHANGED live

EnterCall == /\ pc = "free"
             /\ \/ phase # "inactive" /\ Goto("finish")      \* BusyError
                \/ phase = "inactive" /\ (Goto("enter") \/ Raise("failed"))
             /\ NothingElse

\* The lease is taken under _gate, unless a cancel came first.
Enter == /\ pc = "enter" /\ ~gate
         /\ \/ /\ intent # "none" /\ Raise(intent)
               /\ UNCHANGED <<vars, lease, phase, turn, history>>
            \/ /\ intent = "none" /\ ~CanBegin /\ Goto("finish")
               /\ UNCHANGED <<vars, lease, phase, turn, history>>
            \/ /\ intent = "none" /\ TakeLease
               /\ lease' = owner' /\ phase' = "ready" /\ turn' = 0 /\ history' = <<>>
               /\ Goto("entered")
         /\ UNCHANGED <<scene, intent, request, job, unknownJob, polls, clean, gate, canceler>>

Entered == pc = "entered" /\ (\/ CheckFails
                              \/ /\ Current /\ Goto("finish")
                                 /\ NothingElse)

-----------------------------------------------------------------------------
(* submit, clarify, poll and exit_key: every call first asks whether the      *)
(* conversation is active, then checks.                                       *)

Call == /\ pc = "free"
        /\ \E op \in {"submit", "poll", "exit", "clarify"} :
             Goto(IF phase \in Active /\ (op = "clarify" => phase = "clarifying")
                  THEN op ELSE "finish")
        /\ NothingElse

\* _start, up to the call of the job factory.
StartJob == phase' = "processing" /\ polls' = 0 /\ Goto("factory")

Submit ==
    /\ pc = "submit"
    /\ \/ CheckFails
       \/ /\ Current
          /\ \/ Raise("ended")                               \* the exit phrase
                /\ UNCHANGED <<phase, request, turn, polls>>
             \/ Goto("finish")                               \* too long, or BusyError
                /\ UNCHANGED <<phase, request, turn, polls>>
             \/ phase = "ready" /\ Raise("failed")           \* LIMIT
                /\ UNCHANGED <<phase, request, turn, polls>>
             \/ /\ phase = "ready" /\ turn < scene.turns
                /\ turn' = turn + 1 /\ request' = lease
                /\ pc' \in {"finish", "factory"} /\ voided' = FALSE /\ UNCHANGED stop
                /\ \/ pc' = "finish" /\ phase' = "clarifying" /\ UNCHANGED polls
                   \/ pc' = "factory" /\ phase' = "processing" /\ polls' = 0
          /\ UNCHANGED <<scene, vars, lease, intent, job, unknownJob, history, clean, gate, canceler>>

Clarify ==
    /\ pc = "clarify"
    /\ \/ CheckFails
       \/ /\ Current
          /\ \/ Goto("finish") /\ UNCHANGED <<phase, request, polls>>   \* another token
             \/ StartJob /\ UNCHANGED request
             \/ Goto("finish") /\ phase' = "ready" /\ request' = 0 /\ UNCHANGED polls
          /\ UNCHANGED <<scene, vars, lease, intent, job, unknownJob, turn, history, clean, gate,
                         canceler>>

\* What a job runs, it runs whoever holds the owner now.
OpenJob == /\ live' = live \cup {"conversation"}
           /\ UNCHANGED <<generation, owner, state, given, holds>>

\* _jobs(): whatever it opened before it failed is unknown to the conversation.
Factory ==
    /\ pc = "factory"
    /\ \/ OpenJob /\ job' = TRUE /\ unknownJob' = FALSE /\ Goto("started")
       \/ /\ OpenJob \/ UNCHANGED vars
          /\ job' = FALSE /\ unknownJob' = TRUE /\ Raise("failed")
    /\ UNCHANGED <<scene, lease, intent, phase, request, turn, polls, history, clean, gate, canceler>>

\* The checks around _job.start, which may raise.
JobStarted == /\ pc = "started"
              /\ \/ CheckFails
                 \/ /\ Current /\ Goto("finish")
                    /\ NothingElse

\* poll up to its call of _job.poll, which may raise.
Poll == /\ pc = "poll"
        /\ \/ CheckFails
           \/ /\ Current
              /\ \/ phase # "processing" /\ Goto("finish") /\ UNCHANGED polls
                 \/ /\ phase = "processing" /\ polls' = polls + 1
                    /\ Goto("polled") \/ Raise("failed")
              /\ UNCHANGED <<scene, vars, lease, intent, phase, request, job, unknownJob, turn, history,
                             clean, gate, canceler>>

\* The answer: none yet, an invalid or oversized one, or one to clean up after.
Polled == /\ pc = "polled"
          /\ \/ CheckFails
             \/ /\ Current
                /\ \/ polls < scene.polls /\ Goto("finish")
                   \/ polls >= scene.polls /\ Raise("failed")
                   \/ Raise("failed")
                   \/ Goto("answered")
                /\ NothingElse

\* Mutant: what the job factory opened before it failed is forgotten.
CleanedKnown(proven) == job => proven

\* _cleanup's verdict: the job proves its own cleanup, a lost one never does.
Cleaned(proven) == ~unknownJob /\ (job => proven)

\* _cleanup: _job.cancel() and cleanup_proven, true only of a job that ended.
Cleanup(proven) ==
    /\ IF job /\ proven THEN StopResource("conversation") ELSE UNCHANGED vars
    /\ job' = FALSE
    /\ unknownJob' = ~Cleaned(proven)

Answered == /\ pc = "answered"
            /\ \E proven \in BOOLEAN : /\ Cleanup(proven)
                                       /\ IF Cleaned(proven) THEN Goto("cleaned")
                                                             ELSE Raise("failed")
            /\ UNCHANGED <<scene, lease, intent, phase, request, turn, polls, history, clean, gate,
                           canceler>>

AnswerChecked == /\ pc = "cleaned"
                 /\ \/ CheckFails
                    \/ /\ Current /\ Goto("publish")
                       /\ NothingElse

\* Mutant: the last check before the answer is constructed is trusted.
MayPublishChecked == ~gate

\* "Publication and cancellation have one ordering point": under _gate.
MayPublish == ~gate /\ intent = "none" /\ Accepts(lease)

Publish ==
    /\ pc = "publish"
    /\ \/ /\ MayPublish
          /\ history' = Append(history, request)
          /\ request' = 0 /\ phase' = "ready" /\ Goto("finish")
       \/ /\ ~gate /\ ~MayPublish
          /\ Raise(IF intent # "none" THEN intent ELSE "failed")
          /\ UNCHANGED <<history, request, phase>>
    /\ UNCHANGED <<scene, vars, lease, intent, job, unknownJob, turn, polls, clean, gate, canceler>>

ExitKey == /\ pc = "exit"
           /\ \/ CheckFails
              \/ /\ Current
                 /\ Goto("finish") \/ Raise("ended")
                 /\ NothingElse

-----------------------------------------------------------------------------
(* _run's epilogue and _stop *)

\* `except _Stop'.
Caught == /\ pc = "caught"
          /\ InvalidateTalk(stop)
          /\ pc' = "finish" /\ stop' = "none"
          /\ UNCHANGED <<lease, phase>> /\ UNCHANGED turnVars

\* The intent is read without _gate: a later cancel runs _stop in its own thread.
Finish == /\ pc = "finish"
          /\ \/ intent = "none" /\ Goto("free") /\ UNCHANGED phase
             \/ intent # "none" /\ Goto("stop") /\ phase' = "stopping"
          /\ UNCHANGED <<vars, lease, intent>> /\ UNCHANGED turnVars

\* _cleanup, then: a canceled turn keeps the session only if the snapshot is still
\* the same one.  (_snapshot is None when there is no lease; the session then ends in
\* any case.)
StopClean == /\ pc = "stop"
             /\ \E proven \in BOOLEAN :
                  /\ Cleanup(proven) /\ clean' = Cleaned(proven)
                  /\ \/ Goto("release")
                     \/ clean' /\ intent = "canceled" /\ lease # 0 /\ Goto("stale")
             /\ request' = 0
             /\ UNCHANGED <<scene, lease, intent, phase, turn, polls, history, gate, canceler>>

StopStale == /\ pc = "stale"
             /\ InvalidateTalk("failed")
             /\ pc' = "release"
             /\ UNCHANGED <<lease, phase, stop>> /\ UNCHANGED turnVars

\* release, under _gate.  A fault that someone else reported is raised from here:
\* the intent then survives until the next call.
StopRelease ==
    /\ pc = "release" /\ ~gate
    /\ lease' = 0
    /\ \/ /\ lease # 0 /\ state = "faulted"
          /\ Goto("free") /\ UNCHANGED <<vars, intent, phase, history, gate>>
       \/ /\ lease = 0 \/ state # "faulted"
          /\ IF lease = 0 THEN UNCHANGED vars
             ELSE /\ Release(lease, clean)
                  /\ holds' = [holds EXCEPT !["conversation"] = 0]
                  /\ UNCHANGED <<given, live>>
          /\ IF clean /\ intent = "canceled" /\ lease # 0
             THEN Goto("regain") /\ gate' = TRUE /\ UNCHANGED <<intent, phase, history>>
             ELSE /\ Goto("free") /\ intent' = "none" /\ history' = <<>>
                  /\ phase' = IF clean THEN "inactive" ELSE "faulted"
                  /\ UNCHANGED gate
    /\ UNCHANGED <<scene, request, job, unknownJob, turn, polls, clean, canceler>>

\* Mutant: the canceled session takes the owner over.
RegainAnyway == /\ generation' = generation + 1 /\ owner' = generation + 1 /\ state' = "owned"
                /\ given' = [given EXCEPT !["conversation"] = @ \cup {owner'}]
                /\ holds' = [holds EXCEPT !["conversation"] = owner']
                /\ UNCHANGED live

\* begin, still under _gate but not under the owner's lock.
Regained == TakeLease

\* "Participating clients can win this gap; never take over."
StopRegain == /\ pc = "regain"
              /\ \/ Regained /\ lease' = owner' /\ phase' = "ready" /\ UNCHANGED history
                 \/ /\ ~CanBegin /\ UNCHANGED <<vars, lease>>      \* BusyError, FaultedError
                    /\ phase' = "inactive" /\ history' = <<>>
              /\ gate' = FALSE /\ intent' = "none" /\ Goto("free")
              /\ UNCHANGED <<scene, request, job, unknownJob, turn, polls, clean, canceler>>

-----------------------------------------------------------------------------
(* cancel_turn ("canceled"), end and handoff ("ended") *)

CancelCall(c) == /\ c \in scene.cancelers /\ canceler[c] = "rest" /\ ~gate
                 /\ lease # 0 \/ pc # "free"
                 /\ \E code \in {"canceled", "ended"} :
                      canceler' = [canceler EXCEPT ![c] = code]
                 /\ UNCHANGED <<scene, vars, lease, intent, phase, request, job, unknownJob, turn, polls,
                                history, pc, stop, clean, gate, voided>>

\* _invalidate without _lock: the session may have ended, or begun again, meanwhile.
CancelInvalidate(c) ==
    /\ canceler[c] \in {"canceled", "ended"}
    /\ InvalidateTalk(canceler[c])
    /\ canceler' = [canceler EXCEPT ![c] = "waiting"]
    /\ UNCHANGED <<scene, lease, phase, request, job, unknownJob, turn, polls, history, pc, stop, clean,
                   gate>>

\* Mutant: a cancel leaves the cleanup to the next call.
CancelReturns(c) == /\ canceler[c] = "waiting" /\ pc = "free"
                    /\ canceler' = [canceler EXCEPT ![c] = "rest"]
                    /\ UNCHANGED <<scene, vars, lease, intent, phase, request, job, unknownJob, turn,
                                   polls, history, pc, stop, clean, gate, voided>>

\* `with _lock: _run(lambda: None)'.
CancelRun(c) == /\ canceler[c] = "waiting" /\ pc = "free"
                /\ canceler' = [canceler EXCEPT ![c] = "rest"]
                /\ Goto("finish")
                /\ UNCHANGED <<scene, vars, lease, intent, phase, request, job, unknownJob, turn, polls,
                               history, clean, gate>>

-----------------------------------------------------------------------------
\* The rival adapter and whoever cancels the owner as a whole.
RivalStep == /\ \/ BeginBy("rival")
                \/ StartResource("rival")
                \/ StopResource("rival")
                \/ \E g \in given["rival"] : CancelBy("rival", g)
                \/ \E cleaned \in BOOLEAN : ReleaseBy("rival", cleaned)
                \/ GlobalCancel
             /\ UNCHANGED talkVars

HolderStep == \/ Enter \/ Entered \/ Submit \/ Clarify \/ Factory \/ JobStarted
              \/ Poll \/ Polled \/ Answered \/ AnswerChecked \/ Publish \/ ExitKey
              \/ Caught \/ Finish \/ StopClean \/ StopStale \/ StopRelease \/ StopRegain

TalkNext == \/ EnterCall \/ Call \/ HolderStep
            \/ \E c \in Cancelers : CancelCall(c) \/ CancelInvalidate(c) \/ CancelRun(c)
            \/ RivalStep

\* Collaborators are "trusted, bounded and synchronous", and threads are scheduled.
TalkSpec == /\ TalkInit /\ [][TalkNext]_<<vars, talkVars>>
            /\ WF_<<vars, talkVars>>(HolderStep)
            /\ \A c \in Cancelers :
                  WF_<<vars, talkVars>>(CancelInvalidate(c) \/ CancelRun(c))

-----------------------------------------------------------------------------
\* Every step of the conversation, of its cancels and of the output that borrows
\* its lease is one the shared owner allows: in particular it never takes the owner
\* over from a client that won the gap in _stop, and releases nothing that may run.
ImplementsOwner == Spec

\* An answer reaches the history only if nothing invalidated its request since it
\* was submitted, through this conversation or through the owner, and only under
\* the lease its token names.
NoVoidedAnswer ==
    [][history' # history /\ history' # <<>> =>
          ~voided /\ request = lease /\ state = "owned" /\ owner = request]_<<vars, talkVars>>

\* A cancel is not only recorded: the session it names is stopped, unless the owner
\* is faulted (release then raises, and the intent waits for the next call).
CancelEnds == intent # "none" ~> (intent = "none" \/ state = "faulted")
=============================================================================
