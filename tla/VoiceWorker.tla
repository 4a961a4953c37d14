---------------------------- MODULE VoiceWorker -----------------------------
(***************************************************************************)
(* The two jobs that own a child process: PipeWireCapture                  *)
(* (runtime/voice/device.py, with the framing of pcm.py) and               *)
(* TranscriptionJob (runtime/voice/transcription.py).  The foreground      *)
(* starts and polls; other threads cancel at any time, also while the      *)
(* worker is still being constructed.  Both jobs keep the same fields, so  *)
(* one set of variables serves; `kind` says which job it is.               *)
(*                                                                         *)
(* Each action is one section under the job's lock, or one call of the     *)
(* worker.  Frames are counted; a transcript is its presence.              *)
(***************************************************************************)
EXTENDS OwnedProcess

CONSTANTS Cancelers,    \* threads that cancel
          MaxQueue      \* frames the capture queue holds, 16 in the code

ASSUME WorkerAssumption == MaxQueue \in Nat \ {0} /\ "main" \notin Cancelers

VARIABLES
    kind,           \* "capture" or "transcription"
    begun,          \* _started of the job
    closed,         \* _closed
    worker,         \* has _worker been set?
    cleaned,        \* _cleaned: "unset", "clean" or "unclean"
    error,          \* _error of the capture is set
    pending,        \* _pending of the transcription: "none", "failed", "uncertain"
    queue,          \* frames in _queue
    heard,          \* _total > 0
    partial,        \* the framer holds an incomplete frame
    pc,             \* per thread: the call it is in
    then,           \* what the foreground does after a cancel of its own
    got,            \* the ProcessResult poll read, or what a cancel was told
    frames,         \* history: frames handed out last
    text,           \* history: was a transcript handed out?
    asked,          \* history: has any cancel marked the job closed?
    told            \* history: has any cancel returned True?

jobVars == <<kind, begun, closed, worker, cleaned, error, pending, queue, heard, partial>>
vars == <<processVars, jobVars, pc, then, got, frames, text, asked, told>>

Threads == Cancelers \cup {"main"}

Init ==
    /\ ProcessInit
    /\ kind \in {"capture", "transcription"}
    /\ begun = FALSE /\ closed = FALSE /\ worker = FALSE /\ cleaned = "unset"
    /\ error = FALSE /\ pending = "none" /\ queue = 0 /\ heard = FALSE /\ partial = FALSE
    /\ pc = [t \in Threads |-> "free"] /\ then = "free" /\ got = [t \in Threads |-> "none"]
    /\ frames = 0 /\ text = FALSE /\ asked = FALSE /\ told = FALSE

Goto(t, where) == pc' = [pc EXCEPT ![t] = where]
Got(t, status) == got' = [got EXCEPT ![t] = status]

-----------------------------------------------------------------------------
(* start *)

Start ==
    /\ pc["main"] = "free" /\ ~begun /\ ~closed
    /\ begun' = TRUE
    /\ Goto("main", "factory")
    /\ UNCHANGED <<processVars, kind, closed, worker, cleaned, error, pending, queue, heard,
                   partial, then, got, frames, text, asked, told>>

\* The except of start: the capture notes its error, then both cancel.
StartFails(after) ==
    /\ error' = (error \/ kind = "capture")
    /\ Goto("main", "cancel")
    /\ then' = after

\* The factory raises, or its worker meets a job that was closed meanwhile: the
\* transcription cancels it and returns, the capture raises into its own except,
\* which cancels a second time.
FactoryReturns(raised) ==
    /\ pc["main"] = "factory"
    /\ worker' = ~raised
    /\ \/ raised /\ StartFails("failed")
       \/ /\ ~raised /\ closed
          /\ Goto("main", "cancel")
          /\ then' = IF kind = "capture" THEN "except" ELSE "free"
          /\ UNCHANGED error
       \/ ~raised /\ ~closed /\ Goto("main", "launch") /\ UNCHANGED <<error, then>>
    /\ UNCHANGED <<processVars, kind, begun, closed, cleaned, pending, queue, heard, partial,
                   got, frames, text, asked, told>>

\* worker.start: a cancel may have used the worker up before it started.
Launch(outcome) ==
    /\ pc["main"] = "launch"
    /\ \/ /\ CanStart
          /\ StartProcess(outcome)
          /\ Goto("main", "free")
          /\ UNCHANGED <<error, then>>
       \/ /\ ~CanStart
          /\ StartFails("failed")
          /\ UNCHANGED processVars
    /\ UNCHANGED <<kind, begun, closed, worker, cleaned, pending, queue, heard, partial, got,
                   frames, text, asked, told>>

\* Back in start after the cancel of its except; the transcription leaves a result.
StartFailed ==
    /\ pc["main"] = "failed"
    /\ pending' = IF kind = "capture" THEN pending
                  ELSE IF cleaned = "clean" THEN "failed" ELSE "uncertain"
    /\ Goto("main", "free")
    /\ UNCHANGED <<processVars, kind, begun, closed, worker, cleaned, error, queue, heard,
                   partial, then, got, frames, text, asked, told>>

CaptureExcept ==
    /\ pc["main"] = "except"
    /\ StartFails("failed")
    /\ UNCHANGED <<processVars, kind, begun, closed, worker, cleaned, pending, queue, heard,
                   partial, got, frames, text, asked, told>>

-----------------------------------------------------------------------------
(* cancel *)

\* A cancel returns: a canceling thread is done, the foreground goes on.
Return(t, clean) ==
    /\ Goto(t, IF t = "main" THEN then ELSE "done")
    /\ told' = (told \/ clean)

CallCancel(t) ==
    /\ t \in Cancelers /\ pc[t] = "free"
    /\ Goto(t, "cancel")
    /\ UNCHANGED <<processVars, jobVars, then, got, frames, text, asked, told>>

\* Without a worker: only a job that never started is clean.
UnmadeIsClean == ~begun

\* The first section of cancel.  A job without a worker has its answer here; the
\* transcription records it, unless its worker is still being constructed.
EnterCancel(t) ==
    /\ pc[t] = "cancel"
    /\ closed' = TRUE /\ asked' = TRUE
    /\ queue' = 0 /\ pending' = "none"
    /\ \/ /\ cleaned # "unset"
          /\ Return(t, cleaned = "clean")
          /\ UNCHANGED cleaned
       \/ /\ cleaned = "unset" /\ ~worker
          /\ cleaned' = IF kind = "transcription" /\ UnmadeIsClean THEN "clean" ELSE "unset"
          /\ Return(t, UnmadeIsClean)
       \/ /\ cleaned = "unset" /\ worker
          /\ Goto(t, "ask")
          /\ UNCHANGED <<cleaned, told>>
    /\ UNCHANGED <<processVars, kind, begun, worker, error, heard, partial, then, got, frames,
                   text>>

AskWorker(t) ==
    /\ pc[t] = "ask"
    /\ AskCancel
    /\ Goto(t, IF result' # "none" THEN "judge" ELSE "join")
    /\ Got(t, result')
    /\ UNCHANGED <<jobVars, then, frames, text, asked, told>>

JoinWorker(t) ==
    /\ pc[t] = "join"
    /\ CancelJoined
    /\ Goto(t, "judge")
    /\ Got(t, result')
    /\ UNCHANGED <<jobVars, then, frames, text, asked, told>>

\* The last section of cancel.
Judge(t) ==
    /\ pc[t] = "judge"
    /\ cleaned' = IF got[t] \in Proven THEN "clean" ELSE "unclean"
    /\ Return(t, got[t] \in Proven)
    /\ Got(t, "none")
    /\ UNCHANGED <<processVars, kind, begun, closed, worker, error, pending, queue, heard,
                   partial, then, frames, text, asked>>

-----------------------------------------------------------------------------
(* poll *)

\* The first section, and the worker's result.
Poll ==
    /\ pc["main"] = "free"
    /\ \/ /\ kind = "capture" /\ (closed => error)
          /\ Got("main", result)
          /\ Goto("main", "polled")
          /\ UNCHANGED pending
       \/ /\ kind = "transcription" /\ pending # "none"
          /\ pending' = "none"
          /\ UNCHANGED <<got, pc>>
       \/ /\ kind = "transcription" /\ pending = "none" /\ ~closed /\ worker
          /\ result # "none"
          /\ Got("main", result)
          /\ Goto("main", "polled")
          /\ UNCHANGED pending
    /\ UNCHANGED <<processVars, kind, begun, closed, worker, cleaned, error, queue, heard,
                   partial, then, frames, text, asked, told>>

\* The last section of the capture's poll: a finished stream needs whole frames.
CapturePolled ==
    /\ pc["main"] = "polled" /\ kind = "capture"
    /\ LET read == got["main"]
           ended == read # "none" /\ ~error
           whole == read = "success" /\ heard /\ ~partial
       IN /\ error' = (error \/ (ended /\ ~whole))
          /\ partial' = (partial /\ ~(ended /\ read = "success"))
          /\ closed' = (closed \/ (ended /\ whole))
          /\ cleaned' = IF ended /\ whole THEN "clean" ELSE cleaned
    /\ queue' = 0
    /\ frames' = IF error' THEN 0 ELSE queue
    /\ Got("main", "none")
    /\ IF error' THEN Goto("main", "cancel") /\ then' = "free"
                 ELSE Goto("main", "free") /\ UNCHANGED then
    /\ UNCHANGED <<processVars, kind, begun, worker, pending, heard, text, asked, told>>

\* Mutant: what was read before a cancel is handed out after it.
TranscriptPolledLate(valid) ==
    /\ pc["main"] = "polled" /\ kind = "transcription"
    /\ closed' = TRUE
    /\ cleaned' = IF got["main"] \in Proven THEN "clean" ELSE "unclean"
    /\ text' = (got["main"] = "success" /\ valid)
    /\ Got("main", "none") /\ Goto("main", "free")
    /\ UNCHANGED <<processVars, kind, begun, worker, error, pending, queue, heard, partial,
                   then, frames, asked, told>>

\* The last section of the transcription's poll: a job closed meanwhile hands out
\* nothing; the bytes are a transcript or not.
TranscriptPolled(valid) ==
    /\ pc["main"] = "polled" /\ kind = "transcription"
    /\ \/ closed /\ UNCHANGED <<closed, cleaned, text>>
       \/ /\ ~closed
          /\ closed' = TRUE
          /\ cleaned' = IF got["main"] \in Proven THEN "clean" ELSE "unclean"
          /\ text' = (got["main"] = "success" /\ valid)
    /\ Got("main", "none") /\ Goto("main", "free")
    /\ UNCHANGED <<processVars, kind, begun, worker, error, pending, queue, heard, partial,
                   then, frames, asked, told>>

-----------------------------------------------------------------------------
(* The supervisor thread, which hands the capture's output to _receive *)

\* A chunk of n frames, with or without a rest; a closed job, a bad chunk and a full
\* queue raise, which ends the stream.
Receive(n, rest, bad) ==
    /\ kind = "capture" /\ child = "running"
    /\ \/ /\ closed \/ error
          /\ LoopBody("broken")
          /\ UNCHANGED <<queue, heard, partial, error>>
       \/ /\ ~closed /\ ~error /\ (bad \/ queue + n > MaxQueue)
          /\ LoopBody("broken")
          /\ queue' = 0 /\ error' = TRUE
          /\ partial' = (rest /\ ~bad)
          /\ UNCHANGED heard
       \/ /\ ~closed /\ ~error /\ ~bad /\ queue + n <= MaxQueue
          /\ LoopBody("more")
          /\ queue' = queue + n /\ heard' = TRUE /\ partial' = rest
          /\ UNCHANGED error
    /\ UNCHANGED <<kind, begun, closed, worker, cleaned, pending, pc, then, got, frames, text,
                   asked, told>>

Supervise ==
    /\ SupervisorStep
    /\ UNCHANGED <<jobVars, pc, then, got, frames, text, asked, told>>

\* The head of the supervisor's loop with its time used up.
Deadline ==
    /\ LoopTop(TRUE)
    /\ UNCHANGED <<jobVars, pc, then, got, frames, text, asked, told>>

Exits ==
    /\ ChildExits
    /\ UNCHANGED <<jobVars, pc, then, got, frames, text, asked, told>>

-----------------------------------------------------------------------------
MainStep ==
    \/ \E raised \in BOOLEAN : FactoryReturns(raised)
    \/ \E outcome \in StartOutcomes : Launch(outcome)
    \/ StartFailed
    \/ CaptureExcept
    \/ CapturePolled
    \/ \E valid \in BOOLEAN : TranscriptPolled(valid)

CancelStep(t) == EnterCancel(t) \/ AskWorker(t) \/ JoinWorker(t) \/ Judge(t)

\* Every call has returned and nothing is left to happen.
Quiet ==
    /\ closed /\ supervisor \in {"none", "done"}
    /\ \A t \in Threads : pc[t] \in {"free", "done"}
    /\ UNCHANGED vars

Next ==
    \/ Start
    \/ MainStep
    \/ Poll
    \/ \E t \in Threads : CancelStep(t)
    \/ \E t \in Cancelers : CallCancel(t)
    \/ \E n \in 0 .. 1, rest \in BOOLEAN, bad \in BOOLEAN : Receive(n, rest, bad)
    \/ Supervise
    \/ Exits
    \/ Quiet

Spec == Init /\ [][Next]_vars

\* Calls return (the join has a time limit), the supervisor's thread runs, and its
\* deadline of at most 30 s passes.
Fairness ==
    /\ WF_vars(MainStep)
    /\ \A t \in Threads : WF_vars(CancelStep(t))
    /\ WF_vars(Supervise)
    /\ SF_vars(Deadline)

FairSpec == Spec /\ Fairness

-----------------------------------------------------------------------------
(* Properties *)

\* Cleanup is only reported when it is so: once the process has a result other
\* than uncertain, the job's field says clean, or a cancel has returned True, no
\* member of the process group runs, and none ever starts (process.py _cleanup and
\* cancel, device.py and transcription.py cancel).
CleanMeansGone ==
    (result \in Proven \/ cleaned = "clean" \/ told) => ~Alive /\ supervisor # "top"

\* After any cancel has marked the job, no frame and no transcript is handed out,
\* although the worker may have had them ready (device.py and transcription.py poll).
NothingAfterCancel ==
    [][asked => /\ text' = text
                /\ pc["main"] = "polled" /\ pc'["main"] # "polled" => frames' = 0 \/ kind # "capture"]_vars

\* A started process comes to a result, and a thread that cancels is answered.
ProcessSettles ==
    /\ started ~> result # "none"
    /\ \A t \in Cancelers : pc[t] = "cancel" ~> pc[t] = "done"
=============================================================================
