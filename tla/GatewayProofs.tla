--------------------------- MODULE GatewayProofs ---------------------------
(***************************************************************************)
(* Proofs about the gateway client and the configuration that opens it,    *)
(* for any requests, candidates, receipts and revisions.                   *)
(***************************************************************************)
EXTENDS ProviderConfiguration, FiniteSetTheorems, TLAPS

-----------------------------------------------------------------------------
(* What a call owns *)

\* Where a call has not asked a provider yet, and where it has a job.
Before == {"entry", "peer", "preflight", "permit"}
Working == {"begun", "tick", "jobpoll", "reply"}
Ending == {"retire", "settle"}

\* A call that waits for its caller.
Resting == pc = "free" /\ active # None

PlaceInv ==
    /\ pc \in {"free", "begin"} \cup Before \cup Working \cup Ending
    /\ pc # "free" => active # None
    /\ active # None => terminal = None

\* A provider is asked only when nothing runs and nothing is owed.
BeforeInv ==
    /\ pc \in Before => ~ job /\ ~ unclean /\ fault = None /\ running = {}
    /\ pc = "begin" => ~ job /\ unclean /\ fault = None /\ running = {}
    /\ route = "local" => primary \in Transient

\* From its begin to its retirement a job is owed, and it is the only one.
OwedInv ==
    /\ pc \in Working \cup {"retire"} \/ Resting => job /\ unclean /\ running = {route}
    /\ pc \in Working \/ Resting => fault = None

\* What still runs when the call is settled is known to the settlement; a bad
\* clock is what the call will come to.
EndingInv ==
    /\ pc \in Ending => fault \in {None, "clock"} /\ (fault = "clock" => value = "clock")
    /\ pc = "settle" => /\ ~ job /\ running \subseteq {route}
                        /\ running # {} => unclean \/ value = "cleanup"

IdleInv ==
    pc = "free" /\ active = None =>
        ~ job /\ (unclean <=> fault = "cleanup") /\ (running # {} => fault = "cleanup")

CallInv == PlaceInv /\ BeforeInv /\ OwedInv /\ EndingInv /\ IdleInv

\* A call begins.
LEMMA StartKeeps ==
    ASSUME CallInv, NEW r \in Requests, Start(r)
    PROVE  CallInv'
BY GatewayAssumption
   DEF Start, Admits, CallInv, PlaceInv, BeforeInv, OwedInv, EndingInv, IdleInv, Resting, Before,
       Working, Ending, None

\* A reading of the clock interrupts the call or not.
LEMMA Interrupts ==
    ASSUME NEW good \in BOOLEAN
    PROVE  /\ Interruption(good) \in {None, "clock", "canceled", "timeout"}
           /\ Interruption(good) = "clock" <=> ~ good
           /\ good /\ cancelRequested => Interruption(good) = "canceled"
BY DEF Interruption, None

\* _finish asks the job, or settles.
Finishes(v) == value' = v /\ (job => pc' = "retire") /\ (~ job => pc' = "settle")

\* What a reading of the clock on a sound client leads to: the call goes on, or finishes with
\* the interruption.
LEMMA Reading ==
    ASSUME NEW good \in BOOLEAN, fault = None, ReadClock(good)
    PROVE  /\ Interruption(good) = None => good /\ fault' = None
           /\ fault' \in {None, "clock"} /\ (fault' = "clock" => Interruption(good) = "clock")
BY Interrupts DEF ReadClock, None

\* What _finish leaves behind, listed once for the callbacks that end in it.
LEMMA Finishing ==
    ASSUME NEW v, Finish(v)
    PROVE  Finishes(v)
BY DEF Finish, Finishes

\* A call that finishes with a sound client, or with a bad clock that it says it has.
LEMMA FinishKeeps ==
    ASSUME CallInv, NEW v, Finishes(v), active # None, UNCHANGED <<job, route, primary, active, terminal>>,
           fault' \in {None, "clock"}, fault' = "clock" => v = "clock",
           UNCHANGED <<unclean, running>>,
           \/ pc \in Before \cup Working
           \/ Resting
    PROVE  CallInv'
BY DEF Finishes, CallInv, PlaceInv, BeforeInv, OwedInv, EndingInv, IdleInv, Resting, Before,
   Working,
       Ending, None

\* The callbacks before a provider is asked.
LEMMA BeforeKeeps ==
    ASSUME CallInv, NEW good \in BOOLEAN, NEW fit \in {None, "unavailable", "refused"},
           EntryRead(good, fit) \/ PeerRead(good) \/ PreflightRead(good) \/ Permit(good)
    PROVE  CallInv'
<1>1. /\ pc \in Before /\ fault = None /\ active # None
      /\ UNCHANGED <<job, route, primary, active, terminal, running>>
  BY DEF EntryRead, PeerRead, PreflightRead, Permit, CallInv, BeforeInv, PlaceInv, Before
<1>2. CASE pc' \in Before /\ fault' = None /\ UNCHANGED unclean
  BY <1>1, <1>2 DEF CallInv, PlaceInv, BeforeInv, OwedInv, EndingInv, IdleInv, Resting, Before,
     Working,
     Ending
<1>3. CASE EntryRead(good, fit)
  <2>1. ReadClock(good) /\ UNCHANGED unclean
    BY <1>3 DEF EntryRead
  <2>2. CASE Interruption(good) # None
    <3>1. Finishes(Interruption(good))
      BY <1>3, <2>2, Finishing DEF EntryRead
    <3>2. QED BY <1>1, <2>1, <3>1, Reading, FinishKeeps
  <2>3. CASE Interruption(good) = None /\ fit # None
    <3>1. Finishes(fit)
      BY <1>3, <2>3, Finishing DEF EntryRead
    <3>2. fault' = None
      BY <1>1, <2>1, <2>3, Reading
    <3>3. QED BY <1>1, <2>1, <3>1, <3>2, FinishKeeps DEF None
  <2>4. CASE Interruption(good) = None /\ fit = None
    <3>1. pc' \in Before
      BY <1>3, <2>4 DEF EntryRead, Go, Before
    <3>2. QED BY <1>1, <1>2, <2>1, <2>4, <3>1, Reading
  <2>5. QED BY <2>2, <2>3, <2>4
<1>4. CASE PeerRead(good)
  <2>1. fault' = None /\ UNCHANGED unclean
    BY <1>1, <1>4 DEF PeerRead
  <2>2. CASE pc' = "preflight"
    BY <1>2, <2>1, <2>2 DEF Before
  <2>3. CASE Finishes("refused")
    BY <1>1, <2>1, <2>3, FinishKeeps DEF None
  <2>4. QED BY <1>4, <2>2, <2>3, Finishing DEF PeerRead, Go
<1>5. CASE PreflightRead(good)
  <2>1. ReadClock(good) /\ UNCHANGED unclean
    BY <1>5 DEF PreflightRead
  <2>2. CASE Interruption(good) # None
    <3>1. Finishes(Interruption(good))
      BY <1>5, <2>2, Finishing DEF PreflightRead, UnlessInterrupted
    <3>2. QED BY <1>1, <2>1, <3>1, Reading, FinishKeeps
  <2>3. CASE Interruption(good) = None
    <3>1. pc' \in Before
      BY <1>5, <2>3 DEF PreflightRead, UnlessInterrupted, Go, Before
    <3>2. QED BY <1>1, <1>2, <2>1, <2>3, <3>1, Reading
  <2>4. QED BY <2>2, <2>3
<1>6. CASE Permit(good)
  BY <1>6 DEF Permit, Permitted, Go, Finish, CallInv, PlaceInv, BeforeInv, OwedInv, EndingInv,
     IdleInv, Resting,
     Before, Working, Ending, None
<1>7. QED BY <1>3, <1>4, <1>5, <1>6

\* A provider has answered.
LEMMA BeginKeeps ==
    ASSUME CallInv, NEW answer \in {"job", "raised"} \cup Failures, NEW left \in BOOLEAN,
           BeginReturns(answer, left)
    PROVE  CallInv'
<1>1. /\ pc = "begin" /\ ~ job /\ unclean /\ fault = None /\ running = {} /\ active # None
      /\ UNCHANGED <<active, route, primary, terminal, fault>>
  BY DEF BeginReturns, CallInv, BeforeInv, PlaceInv
<1>2. CASE answer = "job" /\ job' /\ running' = {route} /\ pc' = "begun" /\ UNCHANGED unclean
  BY <1>1, <1>2 DEF CallInv, PlaceInv, BeforeInv, OwedInv, EndingInv, IdleInv, Resting, Before,
     Working,
     Ending, None
<1>3. CASE /\ pc' = "settle" /\ running' \subseteq {route} /\ UNCHANGED job
           /\ (running' = {} \/ unclean' \/ value' = "cleanup")
  BY <1>1, <1>3 DEF CallInv, PlaceInv, BeforeInv, OwedInv, EndingInv, IdleInv, Resting, Before,
     Working,
     Ending, None
<1>4. CASE answer = "job"
  <2>1. job' /\ running' = {route} /\ pc' = "begun" /\ UNCHANGED unclean
    BY <1>1, <1>4 DEF BeginReturns, Failures, Transient, Go
  <2>2. QED BY <1>2, <1>4, <2>1
<1>5. CASE answer = "raised"
  <2>1. pc' = "settle" /\ running' \subseteq {route} /\ UNCHANGED job /\ UNCHANGED unclean
    BY <1>1, <1>5 DEF BeginReturns, Failures, Transient, Finish
  <2>2. QED BY <1>1, <1>3, <2>1
<1>6. CASE answer \in Failures
  <2>1. /\ pc' = "settle" /\ value' = answer /\ running' = (IF answer = "cleanup" THEN running \cup {route} ELSE running)
        /\ UNCHANGED job
    BY <1>1, <1>6 DEF BeginReturns, Failures, Transient, Finish
  <2>2. QED BY <1>1, <1>3, <2>1
<1>7. QED BY <1>4, <1>5, <1>6

\* The callbacks of a call with a job.
LEMMA WorkingKeeps ==
    ASSUME CallInv, NEW good \in BOOLEAN, NEW answer \in Failures \cup {"success", "waiting"},
           BegunRead(good) \/ TickRead(good) \/ JobPolled(good, answer) \/ ReplyRead(good)
    PROVE  CallInv'
<1>1. /\ pc \in Working /\ fault = None /\ active # None /\ job /\ unclean
      /\ UNCHANGED <<job, route, primary, active, terminal, running, unclean>>
  BY DEF BegunRead, TickRead, JobPolled, ReplyRead, CallInv, OwedInv, PlaceInv, Working
<1>2. CASE pc' \in Working \cup {"free"} /\ fault' = None
  BY <1>1, <1>2 DEF CallInv, PlaceInv, BeforeInv, OwedInv, EndingInv, IdleInv, Resting, Before,
     Working,
     Ending
<1>3. ASSUME NEW next \in Working \cup {"free"}, ReadClock(good), UnlessInterrupted(good, next)
      PROVE  CallInv'
  <2>1. CASE Interruption(good) # None
    <3>1. Finishes(Interruption(good))
      BY <1>3, <2>1, Finishing DEF UnlessInterrupted
    <3>2. QED BY <1>1, <1>3, <3>1, Reading, FinishKeeps
  <2>2. CASE Interruption(good) = None
    <3>1. pc' = next
      BY <1>3, <2>2 DEF UnlessInterrupted, Go
    <3>2. QED BY <1>1, <1>2, <1>3, <2>2, <3>1, Reading
  <2>3. QED BY <2>1, <2>2
<1>4. CASE BegunRead(good) \/ TickRead(good)
  BY <1>3, <1>4 DEF BegunRead, TickRead, Working
<1>5. CASE JobPolled(good, answer)
  <2>1. fault' = None
    BY <1>1, <1>5 DEF JobPolled
  <2>2. CASE pc' = "reply"
    BY <1>2, <2>1, <2>2 DEF Working
  <2>3. CASE Finishes(answer)
    BY <1>1, <2>1, <2>3, FinishKeeps DEF None
  <2>4. QED BY <1>5, <2>2, <2>3, Finishing DEF JobPolled
<1>6. CASE ReplyRead(good)
  <2>1. ReadClock(good)
    BY <1>6 DEF ReplyRead
  <2>2. CASE Interruption(good) # None
    <3>1. Finishes(Interruption(good))
      BY <1>6, <2>2, Finishing DEF ReplyRead
    <3>2. QED BY <1>1, <2>1, <3>1, Reading, FinishKeeps
  <2>3. CASE Interruption(good) = None /\ value = "waiting"
    <3>1. pc' = "free"
      BY <1>6, <2>3 DEF ReplyRead
    <3>2. QED BY <1>1, <1>2, <2>1, <2>3, <3>1, Reading
  <2>4. CASE Interruption(good) = None /\ value # "waiting"
    <3>1. Finishes(value)
      BY <1>6, <2>4, Finishing DEF ReplyRead
    <3>2. fault' = None
      BY <1>1, <2>1, <2>4, Reading
    <3>3. QED BY <1>1, <3>1, <3>2, FinishKeeps DEF None
  <2>5. QED BY <2>2, <2>3, <2>4
<1>7. QED BY <1>4, <1>5, <1>6

\* A job is retired, with or without proof.
LEMMA RetireKeeps ==
    ASSUME CallInv, NEW proven \in BOOLEAN, Retire(proven)
    PROVE  CallInv'
BY DEF Retire, CallInv, PlaceInv, BeforeInv, OwedInv, EndingInv, IdleInv, Resting, Before, Working,
       Ending, None

\* The call falls back or ends.
LEMMA SettleKeeps ==
    ASSUME CallInv, NEW good \in BOOLEAN, SettleRead(good)
    PROVE  CallInv'
<1> USE DEF CallInv, PlaceInv, BeforeInv, OwedInv, EndingInv, IdleInv, Resting, Before, Working,
            Ending, None
<1> DEFINE interrupted == Interruption(good)
           v == IF interrupted # None THEN interrupted ELSE value
<1>1. /\ pc = "settle" /\ (unclean' <=> ~ Clean) /\ UNCHANGED <<job, running>>
      /\ fault' = IF ~ Clean THEN "cleanup" ELSE IF ~ good THEN "clock" ELSE fault
  BY DEF SettleRead
<1>2. CASE Clean /\ FallsBack(v, interrupted) /\ pc' = "entry"
  <2>1. good /\ interrupted = None /\ v = value /\ value \in Transient
    BY <1>2 DEF FallsBack, Interruption
  <2>2. fault = None /\ fault' = None /\ running = {} /\ ~ unclean' /\ ~ job
    BY <1>1, <1>2, <2>1 DEF Clean, Transient
  <2>3. primary' = v /\ UNCHANGED <<active, terminal>>
    BY <1>2, <2>1 DEF SettleRead, End, Transient
  <2>4. QED BY <1>1, <1>2, <2>1, <2>2, <2>3
<1>3. CASE \E o : o # None /\ End(o)
  <2>1. active' = None /\ pc' = "free" /\ route' = "host"
    BY <1>3 DEF End
  <2>2. CASE Clean
    <3>1. running = {} /\ ~ unclean' /\ fault' # "cleanup"
      BY <1>1, <2>2 DEF Clean
    <3>2. QED BY <1>1, <2>1, <3>1
  <2>3. CASE ~ Clean
    <3>1. unclean' /\ fault' = "cleanup"
      BY <1>1, <2>3
    <3>2. QED BY <1>1, <2>1, <3>1
  <2>4. QED BY <2>2, <2>3
<1>4. QED BY <1>1, <1>2, <1>3 DEF SettleRead

\* Polls, cancels, disables and time.
LEMMA CallerKeeps ==
    ASSUME CallInv, Poll \/ Cancel \/ ReentrantCancel \/ Disable \/ Expire
    PROVE  CallInv'
<1> USE DEF CallInv, PlaceInv, BeforeInv, OwedInv, EndingInv, IdleInv, Resting, Before, Working, Ending
<1>1. CASE Poll
  BY <1>1 DEF Poll, callVars, None
<1>2. CASE Cancel
  BY <1>2 DEF Cancel, Finish, None
<1>3. CASE ReentrantCancel
  BY <1>3 DEF ReentrantCancel
<1>4. CASE Disable
  BY <1>4 DEF Disable, Finish, None
<1>5. CASE Expire
  BY <1>5 DEF Expire
<1>6. QED BY <1>1, <1>2, <1>3, <1>4, <1>5

\* Configuration of an idle client.
LEMMA ConfigurationKeeps ==
    ASSUME CallInv, ClaimConfiguration \/ (\E local : Reconfigure(local)) \/ UNCHANGED vars
    PROVE  CallInv'
BY DEF ClaimConfiguration, Reconfigure, vars, callVars, bindVars, CallInv, PlaceInv, BeforeInv,
   OwedInv,
       EndingInv, IdleInv, Resting, Before, Working, Ending

\* Every callback's return keeps what a call owes and where it is.
LEMMA CallbackKeeps ==
    ASSUME CallInv, CallbackStep
    PROVE  CallInv'
<1>1. PICK fit : fit = None
  OBVIOUS
<1>2. PICK success : success = "success"
  OBVIOUS
<1>3. CASE \E good \in BOOLEAN, f \in {None, "unavailable", "refused"} : EntryRead(good, f)
  BY <1>3, BeforeKeeps
<1>4. CASE \E good \in BOOLEAN : PeerRead(good) \/ PreflightRead(good)
  BY <1>1, <1>4, BeforeKeeps
<1>5. CASE \E good \in BOOLEAN : BegunRead(good) \/ TickRead(good) \/ ReplyRead(good)
  BY <1>2, <1>5, WorkingKeeps
<1>6. CASE \E raised \in BOOLEAN, answer \in Failures \cup {"success", "waiting"} : JobPolled(raised, answer)
  BY <1>6, WorkingKeeps
<1>7. QED BY <1>3, <1>4, <1>5, <1>6, BeginKeeps, RetireKeeps, SettleKeeps DEF CallbackStep

\* The steps of the configured client, as steps of the client.
LEMMA ClientSteps ==
    ASSUME [ConfNext]_confAll
    PROVE  \/ CallbackStep \/ (\E permitted \in BOOLEAN : Permit(permitted))
           \/ (\E r \in Requests : Start(r)) \/ Poll \/ Cancel \/ ReentrantCancel \/ Disable \/ Expire
           \/ ClaimConfiguration \/ (\E local : Reconfigure(local)) \/ UNCHANGED vars
<1>1. CASE UNCHANGED confAll
  BY <1>1 DEF confAll
<1>2. CASE ClientStep
  BY <1>2 DEF ClientStep
<1>3. CASE PermitAttempt
  <2>1. CASE ~ claimed /\ \E permitted \in BOOLEAN : Permit(permitted)
    BY <2>1
  <2>2. CASE \E sound, served \in BOOLEAN : Permit(~ clockFault' /\ Permits /\ served)
    BY <2>2
  <2>3. QED BY <1>3, <2>1, <2>2 DEF PermitAttempt
<1>4. CASE ConfigurationStep
  BY <1>4 DEF ConfigurationStep, Stage, Restore, StageAs, Reject, Approve, Observe, HealthAges,
     Activate,
     ActivateLate, Rebind, DisableConfiguration
<1>5. QED BY <1>1, <1>2, <1>3, <1>4 DEF ConfNext

\* Every step of the client and of its configuration keeps the invariant of the call.
LEMMA CallKeeps == CallInv /\ [ConfNext]_confAll => CallInv'
<1> SUFFICES ASSUME CallInv, [ConfNext]_confAll PROVE CallInv'
  OBVIOUS
<1>1. PICK fit : fit = None
  OBVIOUS
<1>2. CASE \E permitted \in BOOLEAN : Permit(permitted)
  BY <1>1, <1>2, BeforeKeeps
<1>3. QED BY <1>2, ClientSteps, CallbackKeeps, StartKeeps, CallerKeeps, ConfigurationKeeps

\* A new client is idle and owes nothing.
LEMMA CallStarts == ConfInit => CallInv
BY DEF ConfInit, Init, CallInv, PlaceInv, BeforeInv, OwedInv, EndingInv, IdleInv, Resting, Before,
   Working,
       Ending, None

\* Whatever providers, jobs and clocks do, work that may be going on is the call's, or the client
\* has latched the cleanup failure and admits nothing; between calls nothing is owed that nobody
\* cleans up (client.py _begin, _retire, _finish).
THEOREM WorkAlwaysAccounted == ConfSpec => []WorkAccounted
<1>1. CallInv => WorkAccounted
  BY DEF CallInv, PlaceInv, BeforeInv, OwedInv, EndingInv, IdleInv, Resting, Before, Working,
     Ending,
     WorkAccounted, AtRest, None
<1>2. QED BY <1>1, CallStarts, CallKeeps, PTL DEF ConfSpec

-----------------------------------------------------------------------------
(* Results *)

Count(x) == IF x # None THEN 1 ELSE 0

ResultInv == /\ IsFiniteSet(history) /\ results \in Nat
             /\ Cardinality(history) = results + Count(active) + Count(terminal)

\* A call ends: its result is handed out or waits.
LEMMA EndCounts ==
    ASSUME ResultInv, NEW o, o # None, End(o), active # None, terminal = None, UNCHANGED history
    PROVE  ResultInv'
BY DEF End, ResultInv, Count

\* Every step keeps the count of admitted requests equal to the three places they can be in.
LEMMA ResultKeeps == CallInv /\ ResultInv /\ [ConfNext]_confAll => ResultInv'
<1> SUFFICES ASSUME CallInv, ResultInv, [ConfNext]_confAll PROVE ResultInv'
  OBVIOUS
<1>1. CASE UNCHANGED <<history, active, terminal, results>>
  BY <1>1 DEF ResultInv, Count
<1>2. ASSUME NEW r \in Requests, Start(r) PROVE ResultInv'
  <2>1. /\ history' = history \cup {r} /\ r \notin history /\ active = None /\ terminal = None
        /\ active' = r /\ terminal' = None /\ results' = results /\ r # None
    BY <1>2, GatewayAssumption DEF Start, Admits, CanClaim
  <2>2. IsFiniteSet(history') /\ Cardinality(history') = Cardinality(history) + 1
    BY <2>1, FS_AddElement DEF ResultInv
  <2>3. QED BY <2>1, <2>2 DEF ResultInv, Count
<1>3. CASE Poll
  <2>1. CASE active = None /\ terminal # None /\ terminal' = None /\ results' = results + 1
    BY <1>3, <2>1 DEF Poll, callVars, ResultInv, Count
  <2>2. QED BY <1>1, <1>3, <2>1 DEF Poll, callVars
<1>4. ASSUME NEW good \in BOOLEAN, SettleRead(good) PROVE ResultInv'
  <2>1. active # None /\ terminal = None /\ UNCHANGED history
    BY <1>4 DEF SettleRead, CallInv, PlaceInv
  <2>2. CASE \E o \in {"failed", "success", "degraded"} : End(o)
    BY <2>1, <2>2, EndCounts DEF None
  <2>3. QED BY <1>1, <1>4, <2>1, <2>2 DEF SettleRead
<1>5. CASE CallbackStep
  BY <1>1, <1>4, <1>5 DEF CallbackStep, EntryRead, PeerRead, PreflightRead, BeginReturns,
     BegunRead, Retire,
     TickRead, JobPolled, ReplyRead
<1>6. CASE (\E permitted \in BOOLEAN : Permit(permitted)) \/ (\E local : Reconfigure(local))
  BY <1>1, <1>6 DEF Permit, Reconfigure, callVars
<1>7. CASE Cancel \/ ReentrantCancel \/ Disable \/ Expire \/ ClaimConfiguration \/ UNCHANGED vars
  BY <1>1, <1>7 DEF Cancel, ReentrantCancel, Disable, Expire, ClaimConfiguration, vars, callVars
<1>8. QED BY <1>2, <1>3, <1>5, <1>6, <1>7, ClientSteps

\* Every admitted ID is in progress, waits to be polled or was handed out, exactly once, for any
\* number of requests (client.py start, poll, _finish; admission.py ReplayHistory.claim).
THEOREM AlwaysOneResult == ConfSpec => []OneResult
<1>1. ConfInit => ResultInv
  BY FS_EmptySet DEF ConfInit, Init, ResultInv, Count
<1>2. ResultInv => OneResult
  BY DEF ResultInv, Count, OneResult
<1>3. QED BY <1>1, <1>2, CallStarts, CallKeeps, ResultKeeps, PTL DEF ConfSpec

-----------------------------------------------------------------------------
(* Cancellation *)

\* A canceled call does not go on to a provider and does not succeed.
Obeys == cancelRequested /\ active # None =>
             /\ pc' = "begin" => pc = "begin"
             /\ active' = None => last' = "failed"

\* Every step obeys a cancel that came before it.
LEMMA CallObeys == [ConfNext]_confAll => Obeys
<1> SUFFICES ASSUME [ConfNext]_confAll, cancelRequested, active # None
             PROVE  /\ pc' = "begin" => pc = "begin"
                    /\ active' = None => last' = "failed"
  BY DEF Obeys
<1>1. ASSUME NEW good \in BOOLEAN, SettleRead(good)
      PROVE  pc' # "begin" /\ (active' = None => last' = "failed")
  <2>1. Interruption(good) \in {"clock", "canceled"}
    BY DEF Interruption
  <2>2. QED BY <1>1, <2>1 DEF SettleRead, FallsBack, End, None
<1>2. ASSUME NEW permitted \in BOOLEAN, Permit(permitted) PROVE pc' # "begin" /\ active' = active
  BY <1>2 DEF Permit, Permitted, Finish
<1>3. CASE CallbackStep
  <2>1. ASSUME NEW good \in BOOLEAN, NEW fit,
               EntryRead(good, fit) \/ PeerRead(good) \/ PreflightRead(good) \/ BegunRead(good) \/ TickRead(good)
        PROVE  pc' # "begin" /\ active' = active
    BY <2>1 DEF EntryRead, PeerRead, PreflightRead, BegunRead, TickRead, Finish, Go,
       UnlessInterrupted
  <2>2. ASSUME NEW answer, NEW left,
               BeginReturns(answer, left) \/ Retire(left) \/ JobPolled(left, answer) \/ ReplyRead(left)
        PROVE  pc' # "begin" /\ active' = active
    BY <2>2 DEF BeginReturns, Retire, JobPolled, ReplyRead, Finish, Go
  <2>3. QED BY <1>1, <1>3, <2>1, <2>2 DEF CallbackStep
<1>4. CASE Poll \/ Cancel \/ Disable
  BY <1>4 DEF Poll, Cancel, Disable, Finish, callVars
<1>5. CASE ReentrantCancel \/ Expire \/ ClaimConfiguration \/ (\E local : Reconfigure(local)) \/ UNCHANGED vars
  BY <1>5 DEF ReentrantCancel, Expire, ClaimConfiguration, Reconfigure, vars, callVars
<1>6. CASE \E r \in Requests : Start(r)
  BY <1>6 DEF Start, Admits
<1>7. QED BY <1>2, <1>3, <1>4, <1>5, <1>6, ClientSteps

\* Once canceled, from outside or from one of its own callbacks, a call neither begins work on a
\* provider nor succeeds (client.py _interruption, _begin, _finish).
THEOREM CanceledAlwaysStaysCanceled == ConfSpec => CanceledStaysCanceled
<1>1. [ConfNext]_confAll => [cancelRequested /\ active # None =>
          /\ pc' = "begin" => pc = "begin"
          /\ active' = None => last' = "failed"]_vars
  BY CallObeys DEF Obeys
<1>2. QED BY <1>1, PTL DEF ConfSpec, CanceledStaysCanceled

-----------------------------------------------------------------------------
(* Approval *)

\* Receipts are for owned candidates and were issued at the revision these were staged at;
\* the candidate in force had one at the revision it replaced.
ApprovalInv ==
    /\ revision \in Nat /\ made \subseteq Candidates /\ staged \subseteq made
    /\ baseline \in [Candidates -> Nat] /\ content \in [Candidates -> {"alone", "paired"}]
    /\ \A a \in approvals : a[1] \in staged /\ <<a[1], baseline[a[1]]>> \in licensed
    /\ current # None => current \in made /\ <<current, revision - 1>> \in licensed
    /\ ~ claimed => current = None

ConfInv == ApprovalInv /\ ActiveBound

\* A new configuration is disabled and has staged nothing.
LEMMA ConfStarts == ConfInit => ConfInv
BY DEF ConfInit, Init, ConfInv, ApprovalInv, ActiveBound, None

\* The client's own steps: only those without an owner open or close it.
LEMMA ClientConf ==
    ASSUME ConfInv, UNCHANGED confVars, claimed => UNCHANGED bindVars, claimed' => claimed \/ disabled'
    PROVE  ConfInv'
BY DEF ConfInv, ApprovalInv, ActiveBound, confVars, stageVars, bindVars

\* A candidate is staged, afresh or from content that was active.
LEMMA StageConf ==
    ASSUME ConfInv, NEW c \in Candidates, NEW k \in {"alone", "paired"}, StageAs(c, k)
    PROVE  ConfInv'
<1>1. /\ claimed /\ c \notin made /\ made' = made \cup {c} /\ staged' = staged \cup {c}
      /\ baseline' = [baseline EXCEPT ![c] = revision] /\ content' = [content EXCEPT ![c] = k]
      /\ UNCHANGED <<claimed, disabled, hasLocal, revision, current, approvals, bound, licensed>>
  BY DEF StageAs, Transaction, vars, bindVars
<1>2. /\ \A d \in made : baseline'[d] = baseline[d] /\ content'[d] = content[d]
      /\ baseline' \in [Candidates -> Nat] /\ content' \in [Candidates -> {"alone", "paired"}]
  BY <1>1 DEF ConfInv, ApprovalInv
<1>3. ApprovalInv'
  BY <1>1, <1>2 DEF ConfInv, ApprovalInv
<1>4. ActiveBound'
  BY <1>1, <1>2 DEF ConfInv, ApprovalInv, ActiveBound
<1>5. QED BY <1>3, <1>4 DEF ConfInv

\* stage and restore: the content of a candidate that was active is content like any other.
LEMMA RestoreConf ==
    ASSUME ConfInv, NEW c \in Candidates, Stage(c) \/ Restore(c), past \subseteq Candidates
    PROVE  ConfInv'
BY StageConf DEF Stage, Restore, ConfInv, ApprovalInv

\* A receipt is issued or withdrawn.
LEMMA ReceiptConf ==
    ASSUME ConfInv, NEW c \in Candidates, (\E n : Approve(c, n)) \/ Reject(c)
    PROVE  ConfInv'
<1>1. /\ c \in staged /\ baseline[c] = revision
      /\ UNCHANGED <<claimed, disabled, hasLocal, revision, current, made, baseline, content, bound>>
  BY DEF Approve, Reject, Fits, vars, bindVars, stageVars
<1>2. ActiveBound'
  BY <1>1 DEF ConfInv, ActiveBound
<1>3. ASSUME NEW n, Approve(c, n) PROVE ApprovalInv'
  <2>1. /\ approvals' = approvals \cup {<<c, n>>} /\ licensed' = licensed \cup {<<c, revision>>}
        /\ staged' = staged
    BY <1>3 DEF Approve, stageVars
  <2>2. QED BY <1>1, <2>1 DEF ConfInv, ApprovalInv
<1>4. CASE Reject(c)
  <2>1. /\ approvals' = {a \in approvals : a[1] # c} /\ licensed' = licensed \ {<<c, revision>>}
        /\ staged' = staged \ {c}
    BY <1>4 DEF Reject
  <2>2. \A a \in approvals' : a[1] \in staged' /\ <<a[1], baseline[a[1]]>> \in licensed'
    BY <2>1 DEF ConfInv, ApprovalInv
  <2>3. current # None => <<current, revision - 1>> \in licensed'
    <3>1. revision - 1 # revision
      BY DEF ConfInv, ApprovalInv
    <3>2. QED BY <2>1, <3>1 DEF ConfInv, ApprovalInv
  <2>4. staged' \subseteq made' /\ made' \subseteq Candidates /\ revision' \in Nat
    BY <1>1, <2>1 DEF ConfInv, ApprovalInv
  <2>5. /\ baseline' \in [Candidates -> Nat] /\ content' \in [Candidates -> {"alone", "paired"}]
        /\ ~ claimed' => current' = None
        /\ current' # None => current' \in made' /\ <<current', revision' - 1>> \in licensed'
    BY <1>1, <2>3 DEF ConfInv, ApprovalInv
  <2>6. \A a \in approvals' : a[1] \in staged' /\ <<a[1], baseline'[a[1]]>> \in licensed'
    BY <1>1, <2>2
  <2>7. QED BY <1>2, <2>4, <2>5, <2>6 DEF ConfInv, ApprovalInv
<1>5. QED BY <1>2, <1>3, <1>4 DEF ConfInv

\* A candidate comes into force, on its routes.
LEMMA ActivateConf ==
    ASSUME ConfInv, NEW a \in approvals, Activate(a)
    PROVE  ConfInv'
<1>1. /\ claimed /\ a[1] \in staged /\ baseline[a[1]] = revision /\ revision' = revision + 1
      /\ current' = a[1] /\ bound' = a[1] /\ approvals' = approvals \ {a}
      /\ UNCHANGED <<claimed, made, staged, baseline, content, licensed>>
  BY DEF Activate, Transaction, Activable, Fits, Rebind, Reconfigure, stageVars
<1>2. hasLocal' = (content[a[1]] = "paired") /\ ~ disabled'
  BY DEF Activate, Rebind, Reconfigure
<1>3. a[1] # None /\ <<a[1], revision>> \in licensed /\ (revision + 1) - 1 = revision
  BY <1>1, ConfigurationAssumption DEF ConfInv, ApprovalInv
<1>4. ApprovalInv'
  BY <1>1, <1>3 DEF ConfInv, ApprovalInv
<1>5. ActiveBound'
  BY <1>1, <1>2, <1>3 DEF ActiveBound
<1>6. QED BY <1>4, <1>5 DEF ConfInv

\* The configuration is closed, and its client with it.
LEMMA DisableConf ==
    ASSUME ConfInv, DisableConfiguration
    PROVE  ConfInv'
<1>1. /\ revision' = revision + 1 /\ current' = None /\ disabled'
      /\ UNCHANGED <<claimed, made, staged, baseline, content, approvals, licensed>>
  BY DEF DisableConfiguration, Disable, stageVars
<1>2. QED BY <1>1 DEF ConfInv, ApprovalInv, ActiveBound

\* Observations and clocks.
LEMMA HealthConf ==
    ASSUME ConfInv,
           \/ HealthAges \/ (\E a \in approvals : ActivateLate(a))
           \/ \E c, r, healthy : Observe(c, r, healthy)
    PROVE  ConfInv'
<1>1. UNCHANGED <<claimed, disabled, hasLocal, revision, current, made, staged, baseline, content,
                  approvals, bound, licensed>>
  <2>1. CASE HealthAges
    BY <2>1 DEF HealthAges, vars, bindVars, stageVars
  <2>2. ASSUME NEW a, ActivateLate(a)
        PROVE  UNCHANGED <<claimed, disabled, hasLocal, revision, current, made, staged, baseline,
                           content, approvals, bound, licensed>>
    BY <2>2 DEF ActivateLate, vars, bindVars, stageVars
  <2>3. ASSUME NEW c, NEW r, NEW healthy, Observe(c, r, healthy)
        PROVE  UNCHANGED <<claimed, disabled, hasLocal, revision, current, made, staged, baseline,
                           content, approvals, bound, licensed>>
    BY <2>3 DEF Observe, vars, bindVars, stageVars
  <2>4. QED BY <2>1, <2>2, <2>3
<1>2. QED BY <1>1 DEF ConfInv, ApprovalInv, ActiveBound

\* The permit callback publishes nothing.
LEMMA PermitConf ==
    ASSUME ConfInv, PermitAttempt
    PROVE  ConfInv'
<1>1. /\ UNCHANGED <<claimed, disabled, hasLocal, revision, current, made, staged, baseline, content, approvals,
                     bound, licensed>>
  BY DEF PermitAttempt, Permit, bindVars, confVars, stageVars
<1>2. QED BY <1>1 DEF ConfInv, ApprovalInv, ActiveBound

PastInv == past \subseteq Candidates

\* Only candidates come into force, so only candidates are restored from.
LEMMA PastKeeps == ConfInv /\ PastInv /\ [ConfNext]_confAll => PastInv'
<1> SUFFICES ASSUME ConfInv, PastInv, [ConfNext]_confAll PROVE PastInv'
  OBVIOUS
<1>1. CASE UNCHANGED past
  BY <1>1 DEF PastInv
<1>2. ASSUME NEW a \in approvals, Activate(a) PROVE PastInv'
  BY <1>2 DEF Activate, ConfInv, ApprovalInv, PastInv
<1>3. CASE ConfigurationStep
  BY <1>1, <1>2, <1>3 DEF ConfigurationStep, Stage, Restore, StageAs, Reject, Approve, Observe,
     HealthAges,
     ActivateLate, DisableConfiguration
<1>4. QED BY <1>1, <1>3 DEF ConfNext, ClientStep, PermitAttempt, confAll, confVars

\* Every step keeps the approvals and the binding of the client.
LEMMA ConfKeeps == ConfInv /\ PastInv /\ [ConfNext]_confAll => ConfInv'
<1> SUFFICES ASSUME ConfInv, PastInv, [ConfNext]_confAll PROVE ConfInv'
  OBVIOUS
<1>1. CASE UNCHANGED confAll
  BY <1>1, ClientConf DEF confAll, vars, bindVars
<1>2. CASE ClientStep
  <2>1. UNCHANGED confVars
    BY <1>2 DEF ClientStep
  <2>2. (claimed => UNCHANGED bindVars) /\ (claimed' => claimed \/ disabled')
    <3>1. CASE CallbackStep
      BY <3>1 DEF CallbackStep, EntryRead, PeerRead, PreflightRead, BeginReturns, BegunRead,
         Retire, SettleRead,
         TickRead, JobPolled, ReplyRead, bindVars
    <3>2. CASE Poll \/ Cancel \/ ReentrantCancel \/ Expire \/ ClaimConfiguration \/ \E r \in Requests : Start(r)
      BY <3>2 DEF Poll, Cancel, ReentrantCancel, Expire, ClaimConfiguration, Start, bindVars
    <3>3. CASE ~ claimed /\ (Disable \/ \E local \in BOOLEAN : Reconfigure(local))
      BY <3>3 DEF Disable, Reconfigure
    <3>4. QED BY <1>2, <3>1, <3>2, <3>3 DEF ClientStep
  <2>3. QED BY <2>1, <2>2, ClientConf
<1>3. CASE ConfigurationStep
  BY <1>3, RestoreConf, ReceiptConf, ActivateConf, DisableConf, HealthConf DEF ConfigurationStep,
     PastInv
<1>4. QED BY <1>1, <1>2, <1>3, PermitConf DEF ConfNext

\* A step to a provider.
Begins == pc' = "begin" /\ pc # "begin"

\* Only a permit leads there.
LEMMA BeginsByPermit ==
    ASSUME [ConfNext]_confAll, Begins
    PROVE  /\ pc = "permit" /\ PermitAttempt /\ ~ disabled
           /\ claimed => Permits /\ ~ clockFault'
<1>1. ASSUME NEW good, NEW fit,
             EntryRead(good, fit) \/ PeerRead(good) \/ PreflightRead(good) \/ BegunRead(good) \/ TickRead(good)
      PROVE  pc' # "begin"
  BY <1>1 DEF EntryRead, PeerRead, PreflightRead, BegunRead, TickRead, Finish, Go, UnlessInterrupted
<1>2. ASSUME NEW answer, NEW left,
             BeginReturns(answer, left) \/ Retire(left) \/ JobPolled(left, answer) \/ ReplyRead(left)
      PROVE  pc' # "begin"
  BY <1>2 DEF BeginReturns, Retire, JobPolled, ReplyRead, Finish, Go
<1>3. ASSUME NEW good, SettleRead(good) PROVE pc' # "begin"
  BY <1>3 DEF SettleRead, End
<1>4. ~ CallbackStep
  BY <1>1, <1>2, <1>3 DEF CallbackStep, Begins
<1>5. ~ ClientStep
  <2>1. ~ (Poll \/ Cancel \/ Disable)
    BY DEF Poll, Cancel, Disable, Finish, Begins
  <2>2. ~ (ReentrantCancel \/ Expire \/ ClaimConfiguration \/ \E local \in BOOLEAN : Reconfigure(local))
    BY DEF ReentrantCancel, Expire, ClaimConfiguration, Reconfigure, Begins
  <2>3. ~ \E r \in Requests : Start(r)
    BY DEF Start, Begins
  <2>4. QED BY <1>4, <2>1, <2>2, <2>3 DEF ClientStep
<1>6. ~ ConfigurationStep
  BY DEF ConfigurationStep, Stage, Restore, StageAs, Reject, Approve, Observe, HealthAges,
     Activate, ActivateLate,
     Rebind, Reconfigure, DisableConfiguration, Disable, Finish, Begins, vars
<1>7. PermitAttempt
  BY <1>5, <1>6 DEF ConfNext, confAll, vars, Begins
<1>8. ASSUME NEW permitted, Permit(permitted) PROVE pc = "permit" /\ Permitted(permitted)
  BY <1>8 DEF Permit, Finish, Begins
<1>9. QED BY <1>7, <1>8 DEF PermitAttempt, Permitted

\* A provider is asked only as the client admits it, and on a configured client only under a
\* candidate in force that was licensed at the revision it replaced and is healthy for this very
\* attempt (client.py _begin, configuration.py activate and _permit), for any number of
\* candidates, receipts and revisions.
THEOREM BeginsAlwaysApproved == ConfSpec => BeginsApproved
<1>1. CallInv /\ [ConfNext]_confAll => [pc' = "begin" /\ pc # "begin" =>
          /\ fault = None /\ ~ disabled
          /\ route = "local" => primary \in Transient
          /\ ~ unclean]_vars
  BY BeginsByPermit DEF Begins, CallInv, BeforeInv, Before
<1>2. ConfInv /\ [ConfNext]_confAll => [pc' = "begin" /\ pc # "begin" /\ claimed =>
             /\ current # None /\ <<current, revision - 1>> \in licensed
             /\ ActiveBound
             /\ <<content[current], route>> \in eligible
             /\ ~ clockFault']_confAll
  BY BeginsByPermit DEF Begins, ConfInv, ApprovalInv, Permits
<1>3. ConfInit => PastInv
  BY DEF ConfInit, PastInv
<1>4. QED
  BY <1>1, <1>2, <1>3, CallStarts, CallKeeps, ConfStarts, ConfKeeps, PastKeeps, PTL
     DEF ConfSpec, BeginsApproved, BeginAdmitted
=============================================================================
