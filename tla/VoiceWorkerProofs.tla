-------------------------- MODULE VoiceWorkerProofs --------------------------
(***************************************************************************)
(* Proofs about the child process and the two jobs that own one, for any   *)
(* number of cancelling threads and any length of the capture queue.       *)
(***************************************************************************)
EXTENDS VoiceWorker, TLAPS

-----------------------------------------------------------------------------
(* The inductive invariants *)

Results == Proven \cup {"none", "uncertain"}
Places == {"free", "factory", "launch", "failed", "except", "cancel", "ask", "join", "judge",
           "polled", "done"}

\* The supervisor owns the child from its start to its cleanup; a result of the
\* process other than uncertain comes after the cleanup, or instead of a start.
ProcessInv ==
    /\ started \in BOOLEAN
    /\ result \in Results /\ verdict \in Results
    /\ supervisor \in {"none", "top", "io", "cleanup", "store", "done"}
    /\ ~ started => supervisor = "none" /\ child = "none"
    /\ result \in Proven => supervisor \in {"none", "done"} /\ ~ Alive
    /\ supervisor = "none" /\ started => result # "none"
    /\ supervisor = "store" /\ verdict \in Proven => ~ Alive
    /\ supervisor \in {"cleanup", "store"} => verdict # "none"
    /\ supervisor = "done" => result # "none"
    /\ child = "running" => supervisor \in {"top", "io", "cleanup"}

\* Nothing will ever run: the process has its result, or the job was closed before
\* it began.
Settled == result \in Proven \/ (~ begun /\ closed)

\* Clean is only said of a settled job; what a thread was told of the process still
\* holds when it uses it.
JobInv ==
    /\ pc \in [Threads -> Places] /\ then \in {"free", "failed", "except"}
    /\ got \in [Threads -> Results]
    /\ begun \in BOOLEAN /\ closed \in BOOLEAN /\ told \in BOOLEAN
    /\ ~ begun => ~ started /\ pc["main"] \notin {"factory", "launch"}
    /\ \A t \in Threads : got[t] \in Proven => result \in Proven
    /\ cleaned = "clean" \/ told => Settled

WorkerInv == ProcessInv /\ JobInv

\* A cancel empties the queue, and a closed job takes no frames.
CancelInv == asked => closed /\ queue = 0

-----------------------------------------------------------------------------
(* The process *)

\* What happens to the process, whoever does it; a proven result is final.
LEMMA ProcessStep ==
    ASSUME ProcessInv,
           \/ SupervisorStep \/ ChildExits \/ AskCancel \/ CancelJoined
           \/ \E outcome \in StartOutcomes : StartProcess(outcome)
           \/ UNCHANGED processVars
    PROVE  ProcessInv' /\ (result \in Proven => result' = result)
<1>1. ASSUME NEW late \in BOOLEAN, LoopTop(late) PROVE ProcessInv' /\ result' = result
  BY <1>1 DEF LoopTop, Stop, ProcessInv, Results, Proven, Alive
<1>2. ASSUME NEW event, LoopBody(event) PROVE ProcessInv' /\ result' = result
  BY <1>2 DEF LoopBody, Stop, ProcessInv, Results, Proven, Alive
<1>3. ASSUME NEW clean \in BOOLEAN, Cleanup(clean) PROVE ProcessInv' /\ result' = result
  BY <1>3 DEF Cleanup, Cleaned, ProcessInv, Results, Proven, Alive
<1>4. ASSUME Store PROVE ProcessInv' /\ (result \in Proven => result' = result)
  BY <1>4 DEF Store, ProcessInv, Results, Proven, Alive
<1>5. ASSUME ChildExits PROVE ProcessInv' /\ result' = result
  BY <1>5 DEF ChildExits, ProcessInv, Results, Proven, Alive
<1>6. ASSUME AskCancel \/ CancelJoined PROVE ProcessInv' /\ (result \in Proven => result' = result)
  BY <1>6 DEF AskCancel, CancelJoined, ProcessInv, Results, Proven, Alive
<1>7. ASSUME NEW outcome \in StartOutcomes, StartProcess(outcome)
      PROVE ProcessInv' /\ (result \in Proven => result' = result)
  BY <1>7 DEF StartProcess, StartOutcomes, CanStart, Cleaned, ProcessInv, Results, Proven, Alive
<1>8. ASSUME UNCHANGED processVars PROVE ProcessInv' /\ result' = result
  BY <1>8 DEF processVars, ProcessInv, Results, Proven, Alive
<1>9. QED BY <1>1, <1>2, <1>3, <1>4, <1>5, <1>6, <1>7, <1>8 DEF SupervisorStep

-----------------------------------------------------------------------------
(* The jobs *)

\* What the steps do to the process is one of the steps of ProcessStep.
LEMMA ProcessMoves ==
    ASSUME [Next]_vars
    PROVE  \/ SupervisorStep \/ ChildExits \/ AskCancel \/ CancelJoined
           \/ \E outcome \in StartOutcomes : StartProcess(outcome)
           \/ UNCHANGED processVars
<1>1. ASSUME NEW n \in 0 .. 1, NEW rest \in BOOLEAN, NEW bad \in BOOLEAN, Receive(n, rest, bad)
      PROVE SupervisorStep
  BY <1>1 DEF Receive, SupervisorStep
<1>2. ASSUME NEW outcome \in StartOutcomes, Launch(outcome)
      PROVE StartProcess(outcome) \/ UNCHANGED processVars
  BY <1>2 DEF Launch
<1>3. ASSUME NEW t \in Threads, CancelStep(t)
      PROVE AskCancel \/ CancelJoined \/ UNCHANGED processVars
  BY <1>3 DEF CancelStep, EnterCancel, AskWorker, JoinWorker, Judge
<1>4. ASSUME MainStep
      PROVE (\E outcome \in StartOutcomes : StartProcess(outcome)) \/ UNCHANGED processVars
  BY <1>2, <1>4 DEF MainStep, FactoryReturns, StartFailed, CaptureExcept, CapturePolled,
     TranscriptPolled
<1>5. ASSUME Start \/ Poll \/ (\E t \in Cancelers : CallCancel(t)) \/ Quiet \/ UNCHANGED vars
      PROVE UNCHANGED processVars
  BY <1>5 DEF Start, Poll, CallCancel, Quiet, vars
<1>6. QED BY <1>1, <1>3, <1>4, <1>5 DEF Next, Supervise, Exits

\* The steps of the foreground's start.
LEMMA StartKeeps ==
    ASSUME WorkerInv, ProcessInv', result \in Proven => result' = result,
           \/ Start \/ StartFailed \/ CaptureExcept
           \/ \E raised \in BOOLEAN : FactoryReturns(raised)
           \/ \E outcome \in StartOutcomes : Launch(outcome)
    PROVE  JobInv'
<1> USE DEF WorkerInv
<1> "main" \in Threads BY DEF Threads
<1>1. /\ cleaned' = cleaned /\ told' = told /\ closed' = closed /\ got' = got
      /\ begun' = begun \/ (begun' = TRUE /\ ~ closed)
  BY DEF Start, StartFailed, CaptureExcept, FactoryReturns, Launch
<1>2. pc' \in [Threads -> Places] /\ then' \in {"free", "failed", "except"}
  BY DEF Start, StartFailed, CaptureExcept, FactoryReturns, Launch, JobInv, Goto, StartFails, Places
<1>3. CASE Start
  <2>1. begun'
    BY <1>3, Zenon DEF Start
  <2>2. QED BY <1>1, <1>2, <2>1 DEF JobInv, Settled
<1>4. CASE StartFailed \/ CaptureExcept
  <2>1. started' = started /\ begun' = begun /\ pc'["main"] \in {"free", "cancel"}
    BY <1>4 DEF StartFailed, CaptureExcept, StartFails, Goto, processVars, JobInv
  <2>2. QED BY <1>1, <1>2, <2>1 DEF JobInv, Settled
<1>5. CASE \/ \E raised \in BOOLEAN : FactoryReturns(raised)
           \/ \E outcome \in StartOutcomes : Launch(outcome)
  <2>1. begun' = begun /\ begun
    BY <1>5 DEF FactoryReturns, Launch, JobInv
  <2>2. QED BY <1>1, <1>2, <2>1 DEF JobInv, Settled
<1>6. QED BY <1>3, <1>4, <1>5

\* The steps of a cancel, by any thread.
LEMMA CancelKeeps ==
    ASSUME WorkerInv, ProcessInv', result \in Proven => result' = result,
           NEW t \in Threads, CancelStep(t)
    PROVE  JobInv'
<1> USE DEF WorkerInv
<1> "main" \in Threads BY DEF Threads
<1>1. /\ begun' = begun /\ then' = then /\ started' = started
      /\ pc' \in [Threads -> Places]
      /\ pc'["main"] # pc["main"] => pc'["main"] \notin {"factory", "launch"}
  BY DEF CancelStep, EnterCancel, AskWorker, JoinWorker, Judge, Return, Goto, JobInv, jobVars,
     processVars, AskCancel, CancelJoined, Places
<1>2. closed' \in BOOLEAN /\ (closed => closed') /\ told' \in BOOLEAN
  BY Zenon DEF CancelStep, EnterCancel, AskWorker, JoinWorker, Judge, Return, JobInv, jobVars
<1>3. CASE EnterCancel(t)
  <2>1. got' = got /\ result' = result /\ closed'
    BY <1>3 DEF EnterCancel, processVars
  <2>2. cleaned' = "clean" => cleaned = "clean" \/ ~ begun
    BY <1>3 DEF EnterCancel, UnmadeIsClean
  <2>3. told' => told \/ cleaned = "clean" \/ ~ begun
    BY <1>3, Zenon DEF EnterCancel, UnmadeIsClean, Return
  <2>4. cleaned' = "clean" \/ told' => Settled'
    BY <1>1, <2>1, <2>2, <2>3 DEF JobInv, Settled
  <2>5. QED BY <1>1, <1>2, <2>1, <2>4 DEF JobInv
<1>4. CASE AskWorker(t) \/ JoinWorker(t)
  <2>1. closed' = closed /\ told' = told /\ cleaned' = cleaned /\ got' = [got EXCEPT ![t] = result']
    BY <1>4 DEF AskWorker, JoinWorker, jobVars, Got
  <2>2. result' \in Results
    BY <1>4 DEF AskWorker, JoinWorker, AskCancel, CancelJoined, ProcessInv
  <2>3. Settled => Settled'
    BY <1>1, <2>1 DEF Settled
  <2>4. QED BY <1>1, <2>1, <2>2, <2>3 DEF JobInv
<1>5. CASE Judge(t)
  <2>1. /\ closed' = closed /\ result' = result /\ got' = [got EXCEPT ![t] = "none"]
        /\ cleaned' = "clean" => got[t] \in Proven
    BY <1>5 DEF Judge, processVars, Got
  <2>2. told' => told \/ got[t] \in Proven
    BY <1>5, Zenon DEF Judge, Return
  <2>3. cleaned' = "clean" \/ told' => Settled'
    BY <1>1, <2>1, <2>2 DEF JobInv, Settled
  <2>4. QED BY <1>1, <1>2, <2>1, <2>3 DEF JobInv, Proven, Results
<1>6. QED BY <1>3, <1>4, <1>5 DEF CancelStep

\* The steps of a poll.
LEMMA PollKeeps ==
    ASSUME WorkerInv, ProcessInv',
           Poll \/ CapturePolled \/ \E valid \in BOOLEAN : TranscriptPolled(valid)
    PROVE  JobInv'
<1> USE DEF WorkerInv
<1> "main" \in Threads BY DEF Threads
<1>1. /\ begun' = begun /\ told' = told /\ result' = result /\ started' = started
      /\ pc' \in [Threads -> Places] /\ then' \in {"free", "failed", "except"}
      /\ pc'["main"] # pc["main"] => pc'["main"] \notin {"factory", "launch"}
  BY DEF Poll, CapturePolled, TranscriptPolled, Goto, JobInv, processVars, Places
<1>2. closed' \in BOOLEAN /\ (closed => closed')
  BY Zenon DEF Poll, CapturePolled, TranscriptPolled, JobInv
<1>3. got' = got \/ got' = [got EXCEPT !["main"] = "none"] \/ got' = [got EXCEPT !["main"] = result]
  BY DEF Poll, CapturePolled, TranscriptPolled, Got
<1>4. got' \in [Threads -> Results] /\ \A t \in Threads : got'[t] \in Proven => result \in Proven
  BY <1>3 DEF JobInv, ProcessInv, Proven, Results
<1>5. cleaned' = "clean" => cleaned = "clean" \/ got["main"] \in Proven
  BY DEF Poll, CapturePolled, TranscriptPolled, Proven
<1>6. cleaned' = "clean" \/ told' => Settled'
  BY <1>1, <1>2, <1>5 DEF JobInv, Settled
<1>7. QED BY <1>1, <1>2, <1>4, <1>6 DEF JobInv

\* Whatever step is taken, clean is still only said of what is settled.
LEMMA WorkerKeeps == WorkerInv /\ [Next]_vars => WorkerInv'
<1> SUFFICES ASSUME WorkerInv, [Next]_vars PROVE WorkerInv'
  OBVIOUS
<1>1. ProcessInv' /\ (result \in Proven => result' = result)
  BY ProcessMoves, ProcessStep DEF WorkerInv
<1>2. ASSUME UNCHANGED <<jobVars, pc, then, got, told>>, started' = started PROVE JobInv'
  BY <1>1, <1>2 DEF WorkerInv, JobInv, Settled, jobVars
<1>3. ASSUME Supervise \/ Exits \/ Quiet \/ UNCHANGED vars PROVE JobInv'
  BY <1>2, <1>3 DEF Supervise, Exits, Quiet, vars, SupervisorStep, LoopTop, LoopBody, Cleanup,
     Store,
     ChildExits, processVars
<1>4. ASSUME NEW t \in Cancelers, CallCancel(t) PROVE JobInv'
  <2>1. t \in Threads /\ t # "main"
    BY <1>4, WorkerAssumption DEF Threads
  <2>2. QED
    BY <1>1, <1>4, <2>1 DEF WorkerInv, JobInv, Settled, jobVars, CallCancel, Goto, processVars,
       Places
<1>5. ASSUME NEW n \in 0 .. 1, NEW rest \in BOOLEAN, NEW bad \in BOOLEAN, Receive(n, rest, bad)
      PROVE JobInv'
  <2>1. UNCHANGED <<begun, closed, cleaned, pc, then, got, told, started>>
    BY <1>5 DEF Receive, LoopBody
  <2>2. QED BY <1>1, <2>1 DEF WorkerInv, JobInv, Settled
<1>6. QED
  BY <1>1, <1>3, <1>4, <1>5, StartKeeps, CancelKeeps, PollKeeps DEF Next, MainStep, WorkerInv

\* Nothing runs and nothing is canceled at first.
LEMMA WorkerInit == Init => WorkerInv /\ CancelInv
<1> SUFFICES ASSUME Init PROVE WorkerInv /\ CancelInv
  OBVIOUS
<1>1. "main" \in Threads
  BY DEF Threads
<1>2. started \in BOOLEAN /\ begun \in BOOLEAN /\ closed \in BOOLEAN /\ told \in BOOLEAN
  BY Zenon DEF Init, ProcessInit
<1>3. pc \in [Threads -> Places] /\ got \in [Threads -> Results]
  BY DEF Init, Places, Results
<1>4. ProcessInv
  BY <1>2 DEF Init, ProcessInit, ProcessInv, Results, Proven, Alive
<1>5. JobInv
  BY <1>1, <1>2, <1>3 DEF Init, ProcessInit, JobInv, Proven
<1>6. QED BY <1>4, <1>5 DEF WorkerInv, CancelInv, Init

\* Cleanup is only reported when it is so, whichever threads cancel, poll and start
\* at the same time: a proven result, a job marked clean or a cancel that returned
\* True leaves no process running and none to come (process.py _cleanup and cancel,
\* device.py and transcription.py cancel and poll).
THEOREM CleanAlwaysGone == FairSpec => []CleanMeansGone
<1>1. WorkerInv => CleanMeansGone
  BY DEF WorkerInv, ProcessInv, JobInv, Settled, CleanMeansGone, Alive, Proven
<1>2. QED BY <1>1, WorkerInit, WorkerKeeps, PTL DEF FairSpec, Spec

-----------------------------------------------------------------------------
(* What is handed out *)

\* A job that a cancel has marked stays closed, with an empty queue.
LEMMA CancelInvKeeps == CancelInv /\ [Next]_vars => CancelInv'
<1> SUFFICES ASSUME CancelInv, [Next]_vars PROVE CancelInv'
  OBVIOUS
<1>1. ASSUME NEW n \in 0 .. 1, NEW rest \in BOOLEAN, NEW bad \in BOOLEAN, Receive(n, rest, bad)
      PROVE CancelInv'
  BY <1>1 DEF Receive, CancelInv
<1>2. ASSUME MainStep PROVE CancelInv'
  BY <1>2 DEF MainStep, FactoryReturns, Launch, StartFailed, CaptureExcept, CapturePolled,
     TranscriptPolled, CancelInv
<1>3. ASSUME NEW t \in Threads, CancelStep(t) PROVE CancelInv'
  BY <1>3 DEF CancelStep, EnterCancel, AskWorker, JoinWorker, Judge, CancelInv, jobVars
<1>4. ASSUME Start \/ Poll \/ (\E t \in Cancelers : CallCancel(t)) \/ Supervise \/ Exits \/ Quiet
             \/ UNCHANGED vars
      PROVE CancelInv'
  BY <1>4 DEF Start, Poll, CallCancel, Supervise, Exits, Quiet, vars, jobVars, CancelInv
<1>5. QED BY <1>1, <1>2, <1>3, <1>4 DEF Next

\* What NothingAfterCancel says of one step.
WithholdsAfterCancel ==
    asked => /\ text' = text
             /\ pc["main"] = "polled" /\ pc'["main"] # "polled" => frames' = 0 \/ kind # "capture"

\* No step after the mark hands anything out.
LEMMA Withholds == WorkerInv /\ CancelInv /\ [Next]_vars => WithholdsAfterCancel
<1> SUFFICES ASSUME WorkerInv, CancelInv, [Next]_vars, asked PROVE WithholdsAfterCancel
  BY DEF WithholdsAfterCancel
<1> "main" \in Threads BY DEF Threads
<1>1. closed /\ queue = 0 /\ pc \in [Threads -> Places]
  BY DEF WorkerInv, JobInv, CancelInv
<1>2. CASE MainStep
  BY <1>1, <1>2 DEF MainStep, FactoryReturns, Launch, StartFailed, CaptureExcept, CapturePolled,
     TranscriptPolled, WithholdsAfterCancel
<1>3. ASSUME NEW t \in Threads, CancelStep(t) \/ CallCancel(t) PROVE WithholdsAfterCancel
  BY <1>1, <1>3 DEF CancelStep, EnterCancel, AskWorker, JoinWorker, Judge, CallCancel, Return, Goto,
     WithholdsAfterCancel
<1>4. CASE Start \/ Poll
  BY <1>4 DEF Start, Poll, WithholdsAfterCancel
<1>5. CASE \/ \E n \in 0 .. 1, rest \in BOOLEAN, bad \in BOOLEAN : Receive(n, rest, bad)
           \/ Supervise \/ Exits \/ Quiet \/ UNCHANGED vars
  BY <1>5 DEF Receive, Supervise, Exits, Quiet, vars, WithholdsAfterCancel
<1>6. QED BY <1>2, <1>3, <1>4, <1>5 DEF Next, Threads

\* After any cancel has marked the job, no poll hands out frames or a transcript,
\* although the worker may have had them ready and the poll may have begun before
\* (device.py and transcription.py poll).
THEOREM NothingHandedOutAfterCancel == FairSpec => NothingAfterCancel
<1>1. QED
  BY WorkerInit, WorkerKeeps, CancelInvKeeps, Withholds, PTL
     DEF FairSpec, Spec, NothingAfterCancel, WithholdsAfterCancel
=============================================================================
