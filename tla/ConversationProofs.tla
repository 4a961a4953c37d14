------------------------- MODULE ConversationProofs -------------------------
(***************************************************************************)
(* Proofs about the conversation and its spoken output on an owner that is *)
(* shared with any number of adapters, for any limits, any number of       *)
(* cancelling threads and of generations.                                  *)
(***************************************************************************)
EXTENDS TtsOutput, TLAPS

-----------------------------------------------------------------------------
(* The shared owner, for any adapters *)

\* Every step of an adapter keeps leases apart and what runs under a lease.
LEMMA InvStep ==
    ASSUME TypeOK, LeaseInv, [Next]_vars
    PROVE  TypeOK' /\ LeaseInv'
<1> USE GenerationAssumption
<1>1. ASSUME NEW a \in Adapters, BeginBy(a)
      PROVE TypeOK' /\ LeaseInv'
  <2> DEFINE g == generation + 1
  <2>1. /\ state = "idle" /\ owner = 0 /\ generation < MaxGeneration
        /\ generation' = g /\ owner' = g /\ state' = "owned"
        /\ g \in 1 .. MaxGeneration
        /\ live' = live
    BY <1>1 DEF BeginBy, Begin, CanBegin, TypeOK, OwnerTypeOK, LeaseInv
  <2>2. /\ given'[a] = given[a] \cup {g}
        /\ holds'[a] = g
        /\ \A b \in Adapters : b # a => given'[b] = given[b] /\ holds'[b] = holds[b]
    BY <1>1, <2>1 DEF BeginBy, TypeOK
  <2>3. TypeOK'
    BY <1>1, <2>1 DEF BeginBy, TypeOK, OwnerTypeOK
  <2>4. \A b \in Adapters : holds[b] = 0 /\ b \notin live
    BY <2>1 DEF LeaseInv, AdmissionExclusive
  <2>5. \A b \in Adapters : g \notin given[b]
    BY <2>1 DEF LeaseInv, TypeOK, OwnerTypeOK
  <2>6. \A b, c \in Adapters : \A h \in given'[b] : h \in given'[c] => b = c
    BY <2>2, <2>5 DEF LeaseInv
  <2>7. \A b \in Adapters : \A h \in given'[b] : h <= generation'
    BY <2>1, <2>2 DEF LeaseInv, TypeOK, OwnerTypeOK
  <2>8. QED BY <2>1, <2>2, <2>3, <2>4, <2>6, <2>7 DEF LeaseInv, AdmissionExclusive, TypeOK
<1>2. ASSUME NEW a \in Adapters, StartResource(a)
      PROVE TypeOK' /\ LeaseInv'
  BY <1>2 DEF StartResource, TypeOK, OwnerTypeOK, LeaseInv, AdmissionExclusive
<1>3. ASSUME Invalidate, UNCHANGED <<given, holds, live>>
      PROVE TypeOK' /\ LeaseInv'
  <2>1. owner' = owner /\ generation' \in 0 .. MaxGeneration /\ generation' >= generation
    BY <1>3 DEF Invalidate, TypeOK, OwnerTypeOK
  <2>2. /\ state' \in {"idle", "owned", "canceling", "faulted"}
        /\ state' = "idle" <=> state = "idle"
        /\ state' = "faulted" <=> state = "faulted"
        /\ state' \in {"owned", "canceling"} <=> state \in {"owned", "canceling"}
    BY <1>3 DEF Invalidate, TypeOK, OwnerTypeOK
  <2>3. TypeOK' BY <1>3, <2>1, <2>2 DEF TypeOK, OwnerTypeOK
  <2>4. \A b \in Adapters : \A h \in given[b] : h <= generation'
    BY <2>1 DEF LeaseInv, TypeOK, OwnerTypeOK
  <2>5. QED BY <1>3, <2>1, <2>2, <2>3, <2>4 DEF LeaseInv, AdmissionExclusive
<1>4. ASSUME UNCHANGED vars PROVE TypeOK' /\ LeaseInv'
  BY <1>4 DEF vars, TypeOK, OwnerTypeOK, LeaseInv, AdmissionExclusive
<1>5. ASSUME NEW a \in Adapters, NEW g \in given[a], CancelBy(a, g)
      PROVE TypeOK' /\ LeaseInv'
  BY <1>3, <1>4, <1>5 DEF CancelBy, CancelLease, ownerVars, vars
<1>6. ASSUME NEW a \in Adapters, NEW cleaned \in BOOLEAN, ReleaseBy(a, cleaned)
      PROVE TypeOK' /\ LeaseInv'
  <2>1. holds[a] # 0 /\ owner = holds[a] /\ holds[a] \in given[a]
    BY <1>6 DEF ReleaseBy, LeaseInv
  <2>2. \A b \in Adapters : b # a => holds[b] = 0
    BY <2>1 DEF LeaseInv
  <2>3. /\ holds'[a] = 0
        /\ \A b \in Adapters : b # a => holds'[b] = holds[b]
        /\ given' = given /\ generation' = generation
    BY <1>6 DEF ReleaseBy, Release, TypeOK
  <2>4. CASE cleaned
    <3>1. owner' = 0 /\ state' = "idle" /\ live' = live /\ a \notin live
      BY <1>6, <2>4 DEF ReleaseBy, Release
    <3>2. \A b \in live : b = a
      BY <1>6, <2>1, <2>2 DEF LeaseInv, AdmissionExclusive, ReleaseBy, Release, TypeOK
    <3>3. TypeOK' BY <1>6, <3>1 DEF ReleaseBy, Release, TypeOK, OwnerTypeOK
    <3>4. QED BY <2>2, <2>3, <3>1, <3>2, <3>3 DEF LeaseInv, AdmissionExclusive
  <2>5. CASE ~cleaned
    <3>1. owner' = owner /\ state' = "faulted" /\ live' = live
      BY <1>6, <2>5 DEF ReleaseBy, Release
    <3>2. TypeOK' BY <1>6, <3>1 DEF ReleaseBy, Release, TypeOK, OwnerTypeOK
    <3>3. owner # 0 BY <2>1
    <3>4. QED BY <2>2, <2>3, <3>1, <3>2, <3>3 DEF LeaseInv, AdmissionExclusive
  <2>6. QED BY <2>4, <2>5
<1>7. ASSUME NEW a \in Adapters, StopResource(a)
      PROVE TypeOK' /\ LeaseInv'
  BY <1>7 DEF StopResource, TypeOK, OwnerTypeOK, LeaseInv, AdmissionExclusive
<1>8. QED BY <1>1, <1>2, <1>3, <1>4, <1>5, <1>6, <1>7 DEF Next, GlobalCancel

\* So it holds in every reachable state.
LEMMA Invariant == Spec => [](TypeOK /\ LeaseInv)
<1>1. Init => TypeOK /\ LeaseInv
  BY GenerationAssumption
     DEF Init, OwnerInit, TypeOK, OwnerTypeOK, LeaseInv, AdmissionExclusive
<1>2. QED BY <1>1, InvStep, PTL DEF Spec

\* However many adapters share the owner and however their cancels are delayed,
\* a running resource always keeps every other adapter out (session.py).
THEOREM AdmissionAlwaysExclusive == Spec => []AdmissionExclusive
<1>1. LeaseInv => AdmissionExclusive BY DEF LeaseInv
<1>2. QED BY Invariant, <1>1, PTL

\* A late cancel never invalidates a successor's lease (session.py cancel).
THEOREM LateCancelAlwaysHarmless == Spec => LateCancelHarmless
<1> DEFINE A == \A a \in Adapters : \A g \in given[a] :
                    CancelBy(a, g) /\ state' # state => holds[a] = owner
<1>1. ASSUME TypeOK /\ LeaseInv PROVE A
  <2> SUFFICES ASSUME NEW a \in Adapters, NEW g \in given[a], CancelBy(a, g), state' # state
               PROVE holds[a] = owner
    OBVIOUS
  <2>1. g = owner /\ state = "owned"
    BY DEF CancelBy, CancelLease, Invalidate, ownerVars
  <2>2. PICK b \in Adapters : holds[b] = owner BY <1>1, <2>1 DEF LeaseInv
  <2>3. holds[b] # 0 BY <1>1, <2>1, <2>2 DEF LeaseInv
  <2>4. holds[b] \in given[b] BY <1>1, <2>3 DEF LeaseInv
  <2>5. a = b BY <1>1, <2>1, <2>2, <2>4 DEF LeaseInv
  <2>6. QED BY <2>2, <2>5
<1>2. TypeOK /\ LeaseInv => [A]_vars BY <1>1
<1>3. QED BY Invariant, <1>2, PTL DEF LateCancelHarmless

\* A fault is never reversed on this owner (session.py release, begin).
THEOREM FaultAlwaysLatched == Spec => FaultLatched
<1> DEFINE A == state = "faulted" => UNCHANGED <<state, owner>>
<1>1. ASSUME [Next]_vars PROVE [A]_vars
  BY <1>1 DEF Next, vars, BeginBy, Begin, CanBegin, StartResource, StopResource, CancelBy,
              CancelLease, Invalidate, ownerVars, GlobalCancel, ReleaseBy, Release
<1>2. QED BY <1>1, PTL DEF Spec, FaultLatched

-----------------------------------------------------------------------------
(* The inductive invariants *)

\* Where a call works for its request, and where the stop has dropped it.
Working == {"factory", "started", "polled", "answered", "cleaned", "publish"}
Dropped == {"stale", "release", "regain"}
Intents == {"none", "canceled", "ended", "failed"}

\* The lease the conversation knows of is the owner's, and outstanding but for a fault.
LeaseHeld == lease # 0 => /\ lease \in given["conversation"] /\ owner = lease
                          /\ state = "faulted" \/ holds["conversation"] = lease

\* A request is of the lease; until it is answered or dropped its phase or its place
\* says so, and what voids it leaves an intent.
RequestInv ==
    /\ request # 0 => request = lease
    /\ phase \in {"processing", "clarifying"} \/ pc \in Working => request # 0
    /\ pc = "clarify" => phase = "clarifying"
    /\ pc = "enter" => phase = "inactive"
    /\ phase = "inactive" => request = 0
    /\ pc \in Dropped => request = 0
    /\ pc = "stop" \/ pc \in Dropped => phase = "stopping"
    /\ request # 0 /\ voided => intent # "none"
    /\ pc = "caught" => stop # "none"

\* A job that may run is known, or lost, or the owner is faulted over it.
JobInv ==
    /\ "conversation" \in live => job \/ unknownJob \/ state = "faulted"
    /\ pc \in {"stale", "release"} /\ clean => "conversation" \notin live \/ state = "faulted"
    /\ pc = "regain" => lease = 0

TalkInv == LeaseHeld /\ RequestInv /\ JobInv

\* The call in progress borrows a lease of the conversation, and so did a faulted one.
BorrowInv ==
    /\ call \/ fault => token # 0 /\ token \in given["conversation"]
    /\ fault => state = "faulted" \/ owner # token

\* What runs has a handle, or the call knows that it will not prove its cleanup.
HandleInv ==
    /\ at # "free" => call
    /\ call /\ at # "settle" => ~ fault
    /\ ~ call /\ ~ fault => outputs = {}
    /\ at = "admitted" => outputs = {}
    /\ unknown \/ ~ synthesisClean => at \in {"retire", "report", "settle"}
    /\ call /\ at \notin {"report", "settle"} =>
          unknown \/ ~ synthesisClean \/ outputs \subseteq Held
    /\ at \in {"report", "settle"} /\ silenced => outputs = {}
    /\ at = "settle" /\ ~ silenced => fault

OutputInv == BorrowInv /\ HandleInv

OwnerInv == TypeOK /\ LeaseInv

-----------------------------------------------------------------------------
(* What the conversation does to the owner *)

\* begin is called only when nothing of its own is outstanding.
LEMMA TakesAllowed ==
    ASSUME OwnerInv, TakeLease
    PROVE  /\ BeginBy("conversation")
           /\ owner' # 0 /\ owner' \in given'["conversation"] /\ holds'["conversation"] = owner'
<1>1. "conversation" \in Adapters /\ owner' = generation + 1 /\ generation \in Nat
  BY TalkAssumption DEF TakeLease, Begin, OwnerInv, TypeOK, OwnerTypeOK
<1>2. holds["conversation"] = 0
  BY <1>1 DEF TakeLease, Begin, CanBegin, OwnerInv, LeaseInv
<1>3. BeginBy("conversation")
  BY <1>2 DEF TakeLease, BeginBy
<1>4. /\ given'["conversation"] = given["conversation"] \cup {owner'}
      /\ holds'["conversation"] = owner'
  BY <1>1 DEF TakeLease, OwnerInv, TypeOK
<1>5. QED BY <1>1, <1>3, <1>4

\* A job is started only under a lease.
LEMMA OpensAllowed ==
    ASSUME OwnerInv, TalkInv, pc = "factory", OpenJob
    PROVE  StartResource("conversation")
<1>1. lease # 0
  BY DEF TalkInv, RequestInv, Working
<1>2. QED BY <1>1 DEF TalkInv, LeaseHeld, OpenJob, StartResource

\* A cancel names the lease the conversation was given.
LEMMA InvalidatesAllowed ==
    ASSUME OwnerInv, TalkInv, NEW code, InvalidateTalk(code)
    PROVE  [Next]_vars /\ UNCHANGED <<given, holds, live>>
<1>1. CASE lease = 0
  BY <1>1 DEF InvalidateTalk, ownerVars, vars
<1>2. CASE lease # 0
  <2>1. "conversation" \in Adapters /\ lease \in given["conversation"]
    BY <1>2, TalkAssumption DEF TalkInv, LeaseHeld
  <2>2. CancelBy("conversation", lease)
    BY <1>2, <2>1 DEF InvalidateTalk, CancelBy
  <2>3. QED BY <2>1, <2>2 DEF Next, CancelBy
<1>3. QED BY <1>1, <1>2

\* A release is of the lease that is outstanding, and says clean only of what ended.
LEMMA ReleasesAllowed ==
    ASSUME OwnerInv, TalkInv, StopRelease
    PROVE  [Next]_vars
<1>1. CASE UNCHANGED vars
  BY <1>1
<1>2. CASE lease # 0 /\ state # "faulted"
  <2>1. /\ Release(lease, clean) /\ UNCHANGED <<given, live>>
        /\ holds' = [holds EXCEPT !["conversation"] = 0]
    BY <1>2 DEF StopRelease
  <2>2. holds["conversation"] = lease /\ "conversation" \in Adapters
    BY <1>2, TalkAssumption DEF TalkInv, LeaseHeld
  <2>3. CASE clean
    <3>1. "conversation" \notin live
      BY <1>2, <2>3 DEF StopRelease, TalkInv, JobInv
    <3>2. ReleaseBy("conversation", TRUE)
      BY <1>2, <2>1, <2>2, <2>3, <3>1 DEF ReleaseBy, Release
    <3>3. QED BY <2>2, <3>2 DEF Next
  <2>4. CASE ~ clean
    <3>1. ReleaseBy("conversation", FALSE)
      BY <1>2, <2>1, <2>2, <2>4 DEF ReleaseBy, Release
    <3>2. QED BY <2>2, <3>1 DEF Next
  <2>5. QED BY <2>3, <2>4
<1>3. QED BY <1>1, <1>2 DEF StopRelease

\* The output reports a fault only of the lease it borrowed, and while that is current.
LEMMA ReportsAllowed ==
    ASSUME OwnerInv, OutputInv, Report
    PROVE  /\ [Next]_vars /\ given' = given /\ live' = live
           /\ holds' = holds \/ (state' = "faulted" /\ owner' = owner)
<1>1. CASE UNCHANGED vars
  BY <1>1 DEF vars
<1>2. CASE ~ silenced /\ state # "faulted" /\ owner = token
  <2>1. /\ Release(token, FALSE) /\ UNCHANGED <<given, live>>
        /\ holds' = [holds EXCEPT !["conversation"] = 0]
    BY <1>2 DEF Report
  <2>2. token # 0 /\ token \in given["conversation"] /\ "conversation" \in Adapters
    BY TalkAssumption DEF Report, OutputInv, BorrowInv, HandleInv
  <2>3. holds["conversation"] = token
    <3>1. state \in {"owned", "canceling"}
      BY <1>2, <2>2 DEF OwnerInv, TypeOK, OwnerTypeOK, LeaseInv
    <3>2. PICK a \in Adapters : holds[a] = owner
      BY <3>1 DEF OwnerInv, LeaseInv
    <3>3. holds[a] \in given[a]
      BY <1>2, <2>2, <3>2 DEF OwnerInv, LeaseInv
    <3>4. a = "conversation"
      BY <1>2, <2>2, <3>2, <3>3 DEF OwnerInv, LeaseInv
    <3>5. QED BY <1>2, <3>2, <3>4
  <2>4. ReleaseBy("conversation", FALSE) /\ state' = "faulted" /\ owner' = owner
    BY <1>2, <2>1, <2>2, <2>3 DEF ReleaseBy, Release
  <2>5. QED BY <2>1, <2>2, <2>4 DEF Next
<1>3. QED BY <1>1, <1>2 DEF Report

\* Ends a job or does nothing.
LEMMA CleansAllowed ==
    ASSUME NEW proven, Cleanup(proven)
    PROVE  [Next]_vars /\ UNCHANGED <<generation, owner, state, given, holds>>
BY TalkAssumption DEF Cleanup, StopResource, Next, vars

\* The rival and whoever cancels the owner as a whole leave the conversation's lease and job be.
LEMMA RivalAllowed ==
    ASSUME OwnerInv, RivalStep
    PROVE  /\ Next /\ given'["conversation"] = given["conversation"]
           /\ holds'["conversation"] = holds["conversation"]
           /\ "conversation" \in live' <=> "conversation" \in live
<1>1. "rival" \in Adapters /\ "conversation" \in Adapters /\ "rival" # "conversation"
  BY TalkAssumption
<1>2. Next
  BY <1>1 DEF RivalStep, Next
<1>3. CASE BeginBy("rival")
  BY <1>1, <1>2, <1>3 DEF BeginBy, OwnerInv, TypeOK
<1>4. CASE StartResource("rival") \/ StopResource("rival")
  BY <1>1, <1>2, <1>4 DEF StartResource, StopResource
<1>5. CASE \E g \in given["rival"] : CancelBy("rival", g)
  BY <1>2, <1>5 DEF CancelBy
<1>6. ASSUME NEW cleaned \in BOOLEAN, ReleaseBy("rival", cleaned)
      PROVE  /\ given'["conversation"] = given["conversation"]
             /\ holds'["conversation"] = holds["conversation"]
             /\ "conversation" \in live' <=> "conversation" \in live
  BY <1>1, <1>6 DEF ReleaseBy, OwnerInv, TypeOK
<1>7. CASE GlobalCancel
  BY <1>2, <1>7 DEF GlobalCancel
<1>8. QED BY <1>2, <1>3, <1>4, <1>5, <1>6, <1>7 DEF RivalStep

\* Every step of the conversation is one the owner allows.
LEMMA TalkAllowed ==
    ASSUME OwnerInv, TalkInv, TalkNext
    PROVE  [Next]_vars
<1>1. CASE EnterCall \/ Call
  BY <1>1 DEF EnterCall, Call, NothingElse
<1>2. ASSUME NEW c \in Cancelers, CancelCall(c) \/ CancelInvalidate(c) \/ CancelRun(c) PROVE [Next]_vars
  BY <1>2, InvalidatesAllowed DEF CancelCall, CancelInvalidate, CancelRun
<1>3. CASE Enter \/ StopRegain
  BY <1>3, TakesAllowed, TalkAssumption DEF Enter, StopRegain, Regained, Next
<1>4. CASE Factory
  BY <1>4, OpensAllowed, TalkAssumption DEF Factory, Next
<1>5. CASE Answered \/ StopClean
  BY <1>5, CleansAllowed DEF Answered, StopClean
<1>6. CASE Caught \/ StopStale
  BY <1>6, InvalidatesAllowed DEF Caught, StopStale
<1>7. CASE Entered \/ Submit \/ Clarify \/ JobStarted \/ Poll \/ Polled \/ AnswerChecked \/ Publish \/ ExitKey
           \/ Finish
  BY <1>7 DEF Entered, Submit, Clarify, JobStarted, Poll, Polled, AnswerChecked, Publish, ExitKey,
     Finish, CheckFails, NothingElse
<1>8. QED BY <1>1, <1>2, <1>3, <1>4, <1>5, <1>6, <1>7, ReleasesAllowed, RivalAllowed DEF TalkNext,
             HolderStep

\* So is every step with the output.
LEMMA StepAllowed ==
    ASSUME OwnerInv, TalkInv, OutputInv, [TtsNext]_all
    PROVE  [Next]_vars
BY TalkAllowed, ReportsAllowed DEF TtsNext, all

-----------------------------------------------------------------------------
(* What the owner's steps leave *)

\* Leases given are remembered, a fault is latched, and no old lease comes back.
LEMMA OwnerMoves ==
    ASSUME OwnerInv, [Next]_vars
    PROVE  /\ OwnerInv'
           /\ given["conversation"] \subseteq given'["conversation"]
           /\ state = "faulted" => state' = "faulted" /\ owner' = owner
           /\ \A g \in given["conversation"] : owner # g => owner' # g
<1>1. OwnerInv'
  BY InvStep DEF OwnerInv
<1>2. \A g \in given["conversation"] : g # 0 /\ g <= generation /\ g \in Nat
  BY TalkAssumption DEF OwnerInv, TypeOK, LeaseInv
<1>3. ASSUME NEW a \in Adapters, BeginBy(a)
      PROVE  /\ given["conversation"] \subseteq given'["conversation"]
             /\ state # "faulted" /\ owner' = generation + 1 /\ generation \in Nat
  BY <1>3 DEF BeginBy, Begin, CanBegin, OwnerInv, TypeOK, OwnerTypeOK
<1>4. ASSUME NEW a \in Adapters, NEW cleaned \in BOOLEAN, ReleaseBy(a, cleaned)
      PROVE  given' = given /\ state # "faulted" /\ owner' \in {owner, 0}
  BY <1>4 DEF ReleaseBy, Release
<1>5. ASSUME NEW a \in Adapters, StartResource(a) \/ StopResource(a)
      PROVE  given' = given /\ state' = state /\ owner' = owner
  BY <1>5 DEF StartResource, StopResource
<1>6. ASSUME GlobalCancel \/ \E a \in Adapters : \E g \in given[a] : CancelBy(a, g)
      PROVE  given' = given /\ (state = "faulted" => state' = state) /\ owner' = owner
  BY <1>6 DEF GlobalCancel, CancelBy, CancelLease, Invalidate, ownerVars
<1>7. CASE \E a \in Adapters : BeginBy(a)
  BY <1>1, <1>2, <1>3, <1>7
<1>8. CASE \E a \in Adapters, cleaned \in BOOLEAN : ReleaseBy(a, cleaned)
  BY <1>1, <1>2, <1>4, <1>8
<1>9. CASE UNCHANGED vars
  BY <1>1, <1>9 DEF vars
<1>10. QED BY <1>1, <1>5, <1>6, <1>7, <1>8, <1>9 DEF Next

\* A step that leaves the lease as it is keeps it the owner's.
LEMMA LeaseKept ==
    ASSUME OwnerInv, LeaseHeld, [Next]_vars, lease' = lease,
           \/ holds'["conversation"] = holds["conversation"]
           \/ state' = "faulted" /\ owner' = owner
    PROVE  LeaseHeld'
<1> SUFFICES ASSUME lease # 0
             PROVE  /\ lease \in given'["conversation"] /\ owner' = lease
                    /\ state' = "faulted" \/ holds'["conversation"] = lease
  BY DEF LeaseHeld
<1>1. lease \in given'["conversation"]
  BY OwnerMoves DEF LeaseHeld
<1>2. CASE state = "faulted" \/ (state' = "faulted" /\ owner' = owner)
  BY <1>1, <1>2, OwnerMoves DEF LeaseHeld
<1>3. CASE state # "faulted" /\ holds'["conversation"] = holds["conversation"]
  BY <1>1, <1>3, OwnerMoves, TalkAssumption DEF LeaseHeld, OwnerInv, LeaseInv
<1>4. QED BY <1>2, <1>3

\* The owner's part, for the steps that leave the lease and what is outstanding alone.
LEMMA HoldsKept ==
    ASSUME OwnerInv, LeaseHeld, [Next]_vars, lease' = lease, UNCHANGED holds
    PROVE  LeaseHeld'
BY LeaseKept

-----------------------------------------------------------------------------
(* The conversation *)

\* Raising leaves everything to the epilogue of _run.
LEMMA CheckFailsKeeps ==
    ASSUME RequestInv, CheckFails, pc \notin Dropped
    PROVE  RequestInv'
<1>1. pc' = "caught" /\ stop' # "none" /\ voided' = voided /\ UNCHANGED <<lease, intent, phase, request>>
  BY DEF CheckFails, Raise, NothingElse, turnVars
<1>2. QED BY <1>1 DEF RequestInv, Working, Dropped

\* So does going on, for what the place asks.
LEMMA GotoKeeps ==
    ASSUME RequestInv, NEW label, Goto(label), UNCHANGED <<lease, intent, phase, request>>,
           label \in Working => request # 0,
           label = "clarify" => phase = "clarifying",
           label = "enter" => phase = "inactive",
           label \notin Dropped, label # "stop", label # "caught"
    PROVE  RequestInv'
BY DEF Goto, RequestInv

\* And so does raising.
LEMMA RaiseKeeps ==
    ASSUME RequestInv, NEW code, code # "none", Raise(code), UNCHANGED <<lease, intent, phase, request>>
    PROVE  RequestInv'
BY DEF Raise, RequestInv, Working, Dropped

\* An invalidation leaves an intent whenever it voids a request.
LEMMA InvalidateKeeps ==
    ASSUME RequestInv, NEW code, code # "none", InvalidateTalk(code), UNCHANGED <<lease, phase, request>>,
           \/ pc' = pc /\ stop' = stop
           \/ pc' = "finish"
           \/ pc' = "release" /\ pc \in Dropped
    PROVE  RequestInv'
<1>1. intent' # "none" \/ (voided' = voided /\ intent' = intent)
  BY DEF InvalidateTalk
<1>2. QED BY <1>1 DEF RequestInv, Working, Dropped

\* Each action keeps the account of the request: a call that is admitted or refused.
LEMMA CallRequest ==
    ASSUME RequestInv, EnterCall \/ Call
    PROVE  RequestInv'
<1>1. UNCHANGED <<lease, intent, phase, request>>
  BY DEF EnterCall, Call, NothingElse, turnVars
<1>2. CASE EnterCall
  <2>1. CASE Goto("finish")
    BY <1>1, <2>1, GotoKeeps DEF Working, Dropped
  <2>2. CASE phase = "inactive" /\ Goto("enter")
    BY <1>1, <2>2, GotoKeeps DEF Working, Dropped
  <2>3. CASE Raise("failed")
    BY <1>1, <2>3, RaiseKeeps
  <2>4. QED BY <1>2, <2>1, <2>2, <2>3 DEF EnterCall
<1>3. CASE Call
  <2>1. PICK op \in {"submit", "poll", "exit", "clarify"} :
           Goto(IF phase \in Active /\ (op = "clarify" => phase = "clarifying") THEN op ELSE "finish")
    BY <1>3 DEF Call
  <2>2. PICK label : /\ Goto(label) /\ label \in {"submit", "poll", "exit", "clarify", "finish"}
                     /\ label = "clarify" => phase = "clarifying"
    BY <2>1
  <2>3. QED BY <1>1, <2>2, GotoKeeps DEF Working, Dropped
<1>4. QED BY <1>2, <1>3

\* A lease is taken with no request outstanding.
LEMMA EnterRequest ==
    ASSUME RequestInv, Enter
    PROVE  RequestInv'
BY DEF Enter, Raise, Goto, RequestInv, Working, Dropped

\* A request is of the lease that was checked.
LEMMA SubmitRequest ==
    ASSUME OwnerInv, RequestInv, Submit
    PROVE  RequestInv'
<1>1. CASE CheckFails
  BY <1>1, CheckFailsKeeps DEF Submit, Dropped
<1>2. CASE /\ Current /\ UNCHANGED <<lease, intent, phase, request>>
           /\ Goto("finish") \/ Raise("ended") \/ Raise("failed")
  BY <1>2 DEF Raise, Goto, RequestInv, Working, Dropped
<1>3. CASE /\ Current /\ UNCHANGED <<lease, intent>> /\ request' = lease /\ voided' = FALSE
           /\ \/ pc' = "finish" /\ phase' = "clarifying"
              \/ pc' = "factory" /\ phase' = "processing"
  <2>1. lease # 0
    BY <1>3 DEF Current, Accepts, OwnerInv, LeaseInv
  <2>2. QED BY <1>3, <2>1 DEF RequestInv, Working, Dropped
<1>4. QED BY <1>1, <1>2, <1>3 DEF Submit

\* The work for a request, up to its publication.
LEMMA WorkRequest ==
    ASSUME RequestInv,
           Clarify \/ Factory \/ JobStarted \/ Poll \/ Polled \/ Answered \/ AnswerChecked \/ Publish
    PROVE  RequestInv'
<1>1. pc \notin Dropped
  BY DEF Clarify, Factory, JobStarted, Poll, Polled, Answered, AnswerChecked, Publish, Dropped
<1>2. CASE CheckFails
  BY <1>1, <1>2, CheckFailsKeeps
<1>3. CASE Clarify /\ ~ CheckFails
  BY <1>3 DEF Clarify, StartJob, Goto, RequestInv, Working, Dropped
<1>4. CASE Factory
  BY <1>4 DEF Factory, Raise, Goto, RequestInv, Working, Dropped
<1>5. CASE (JobStarted \/ AnswerChecked \/ Polled) /\ ~ CheckFails
  BY <1>5 DEF JobStarted, AnswerChecked, Polled, NothingElse, turnVars, Raise, Goto, RequestInv,
     Working, Dropped
<1>6. CASE Poll /\ ~ CheckFails
  BY <1>6 DEF Poll, Raise, Goto, RequestInv, Working, Dropped
<1>7. CASE Answered
  BY <1>7 DEF Answered, Raise, Goto, RequestInv, Working, Dropped
<1>8. CASE Publish
  BY <1>8 DEF Publish, Raise, Goto, RequestInv, Working, Dropped
<1>9. QED BY <1>2, <1>3, <1>4, <1>5, <1>6, <1>7, <1>8

\* The epilogue of _run.
LEMMA OtherRequest ==
    ASSUME RequestInv, Entered \/ ExitKey \/ Caught \/ Finish
    PROVE  RequestInv'
<1>1. CASE CheckFails
  BY <1>1, CheckFailsKeeps DEF Entered, ExitKey, Caught, Finish, CheckFails, Raise, Dropped
<1>2. CASE (Entered \/ ExitKey) /\ ~ CheckFails
  BY <1>2 DEF Entered, ExitKey, NothingElse, turnVars, Raise, Goto, RequestInv, Working, Dropped
<1>3. CASE Caught
  <2>1. stop # "none"
    BY <1>3 DEF Caught, RequestInv
  <2>2. QED BY <1>3, <2>1, InvalidateKeeps DEF Caught, turnVars
<1>4. CASE Finish
  BY <1>4 DEF Finish, turnVars, Goto, RequestInv, Working, Dropped
<1>5. QED BY <1>1, <1>2, <1>3, <1>4

\* The stop drops the request before the lease.
LEMMA StopRequest ==
    ASSUME RequestInv, TalkInv, StopClean \/ StopStale \/ StopRelease \/ StopRegain
    PROVE  RequestInv'
<1>1. CASE StopClean
  BY <1>1 DEF StopClean, Goto, RequestInv, Working, Dropped
<1>2. CASE StopStale
  BY <1>2, InvalidateKeeps DEF StopStale, turnVars, RequestInv, Dropped
<1>3. CASE StopRelease
  BY <1>3 DEF StopRelease, Goto, RequestInv, Working, Dropped
<1>4. CASE StopRegain
  BY <1>4 DEF StopRegain, Goto, RequestInv, Working, Dropped
<1>5. QED BY <1>1, <1>2, <1>3, <1>4

\* Cancelling threads leave the request to the holder of the lock.
LEMMA CancelRequest ==
    ASSUME RequestInv, NEW c \in Cancelers, CancelCall(c) \/ CancelInvalidate(c) \/ CancelRun(c)
    PROVE  RequestInv'
<1>1. CASE CancelCall(c)
  BY <1>1 DEF CancelCall, RequestInv
<1>2. CASE CancelInvalidate(c)
  <2>1. canceler[c] # "none"
    BY <1>2 DEF CancelInvalidate
  <2>2. QED BY <1>2, <2>1, InvalidateKeeps DEF CancelInvalidate
<1>3. CASE CancelRun(c)
  BY <1>3, GotoKeeps DEF CancelRun, Working, Dropped
<1>4. QED BY <1>1, <1>2, <1>3

\* So every step of the conversation does.
LEMMA TalkRequest ==
    ASSUME OwnerInv, TalkInv, TalkNext
    PROVE  RequestInv'
<1>1. RequestInv
  BY DEF TalkInv
<1>2. CASE RivalStep
  BY <1>1, <1>2 DEF RivalStep, talkVars, RequestInv
<1>3. QED BY <1>1, <1>2, CallRequest, EnterRequest, SubmitRequest, WorkRequest, OtherRequest,
             StopRequest,
     CancelRequest DEF TalkNext, HolderStep

-----------------------------------------------------------------------------

\* The job is opened, cleaned up, or let alone.
LEMMA JobKept ==
    ASSUME JobInv, UNCHANGED <<live, job, unknownJob, clean, lease>>, state = "faulted" => state' = "faulted",
           pc' \in {"stale", "release", "regain"} => pc' = pc \/ (pc = "stale" /\ pc' = "release")
    PROVE  JobInv'
BY DEF JobInv

\* After a cleanup the job is gone or known to be lost.
LEMMA JobCleaned ==
    ASSUME JobInv, NEW proven, Cleanup(proven)
    PROVE  /\ state' = state
           /\ "conversation" \in live' => unknownJob' \/ state = "faulted"
           /\ Cleaned(proven) => "conversation" \notin live' \/ state = "faulted"
<1>1. state' = state
  BY DEF Cleanup, StopResource, vars
<1>2. CASE job /\ proven
  BY <1>1, <1>2 DEF Cleanup, StopResource
<1>3. CASE ~ (job /\ proven)
  <2>1. live' = live
    BY <1>3 DEF Cleanup, vars
  <2>2. QED BY <1>1, <1>3, <2>1 DEF Cleanup, Cleaned, JobInv
<1>4. QED BY <1>2, <1>3

\* Every step keeps what may run known.
LEMMA TalkJob ==
    ASSUME OwnerInv, TalkInv, TalkNext
    PROVE  JobInv'
<1>1. JobInv /\ [Next]_vars /\ (state = "faulted" => state' = "faulted")
  BY TalkAllowed, OwnerMoves DEF TalkInv
<1>2. CASE EnterCall \/ Call
  BY <1>1, <1>2, JobKept DEF EnterCall, Call, NothingElse, turnVars, vars, Goto, Raise
<1>3. CASE Enter
  BY <1>1, <1>3 DEF Enter, TakeLease, vars, Goto, Raise, JobInv
<1>4. CASE Factory
  BY <1>1, <1>4 DEF Factory, OpenJob, vars, Goto, Raise, JobInv
<1>5. CASE Answered
  <2>1. PICK proven \in BOOLEAN : Cleanup(proven)
    BY <1>5 DEF Answered
  <2>2. /\ state' = state /\ ("conversation" \in live' => unknownJob' \/ state = "faulted")
    BY <1>1, <2>1, JobCleaned
  <2>3. QED BY <1>5, <2>2 DEF Answered, Goto, Raise, JobInv
<1>6. CASE StopClean
  <2>1. PICK proven \in BOOLEAN : Cleanup(proven) /\ clean' = Cleaned(proven)
    BY <1>6 DEF StopClean
  <2>2. /\ state' = state /\ ("conversation" \in live' => unknownJob' \/ state = "faulted")
        /\ Cleaned(proven) => "conversation" \notin live' \/ state = "faulted"
    BY <1>1, <2>1, JobCleaned
  <2>3. pc' # "regain"
    BY <1>6 DEF StopClean, Goto
  <2>4. QED BY <2>1, <2>2, <2>3 DEF JobInv
<1>7. CASE Caught \/ StopStale
  BY <1>1, <1>7, JobKept DEF Caught, StopStale, InvalidateTalk, turnVars
<1>8. CASE StopRelease
  BY <1>1, <1>8 DEF StopRelease, Release, vars, Goto, JobInv
<1>9. CASE StopRegain
  BY <1>1, <1>9 DEF StopRegain, Regained, TakeLease, vars, Goto, JobInv
<1>10. CASE \/ Entered \/ Submit \/ Clarify \/ JobStarted \/ Poll \/ Polled \/ AnswerChecked \/ Publish
            \/ ExitKey \/ Finish
  BY <1>1, <1>10, JobKept DEF Entered, Submit, Clarify, StartJob, JobStarted, Poll, Polled,
     AnswerChecked,
     Publish, ExitKey, Finish, CheckFails, NothingElse, turnVars, vars, Goto, Raise
<1>11. ASSUME NEW c \in Cancelers, CancelCall(c) \/ CancelInvalidate(c) \/ CancelRun(c) PROVE JobInv'
  BY <1>1, <1>11, JobKept DEF CancelCall, CancelInvalidate, CancelRun, InvalidateTalk, vars, Goto
<1>12. CASE RivalStep
  BY <1>1, <1>12, RivalAllowed DEF RivalStep, talkVars, JobInv
<1>13. QED BY <1>2, <1>3, <1>4, <1>5, <1>6, <1>7, <1>8, <1>9, <1>10, <1>11, <1>12 DEF TalkNext,
              HolderStep

\* Every step keeps the lease the owner's.
LEMMA TalkLease ==
    ASSUME OwnerInv, TalkInv, TalkNext
    PROVE  LeaseHeld'
<1>1. LeaseHeld /\ [Next]_vars
  BY TalkAllowed DEF TalkInv
<1>2. CASE lease' = lease /\ holds'["conversation"] = holds["conversation"]
  BY <1>1, <1>2, LeaseKept
<1>3. CASE Enter \/ StopRegain
  <2>1. CASE TakeLease /\ lease' = owner'
    BY <2>1, TakesAllowed DEF LeaseHeld
  <2>2. CASE UNCHANGED <<vars, lease>>
    BY <1>2, <2>2 DEF vars
  <2>3. QED BY <1>3, <2>1, <2>2 DEF Enter, StopRegain, Regained
<1>4. CASE StopRelease
  BY <1>4 DEF StopRelease, LeaseHeld
<1>5. CASE EnterCall \/ Call
  BY <1>2, <1>5 DEF EnterCall, Call, NothingElse, vars
<1>6. CASE Factory
  BY <1>2, <1>6 DEF Factory, OpenJob, vars
<1>7. CASE Answered \/ StopClean
  BY <1>2, <1>7, CleansAllowed DEF Answered, StopClean
<1>8. CASE Caught \/ StopStale
  BY <1>2, <1>8 DEF Caught, StopStale, InvalidateTalk
<1>9. CASE \/ Entered \/ Submit \/ Clarify \/ JobStarted \/ Poll \/ Polled \/ AnswerChecked \/ Publish
           \/ ExitKey \/ Finish
  BY <1>2, <1>9 DEF Entered, Submit, Clarify, JobStarted, Poll, Polled, AnswerChecked,
     Publish, ExitKey, Finish, CheckFails, NothingElse, vars
<1>10. ASSUME NEW c \in Cancelers, CancelCall(c) \/ CancelInvalidate(c) \/ CancelRun(c) PROVE LeaseHeld'
  BY <1>2, <1>10 DEF CancelCall, CancelInvalidate, CancelRun, InvalidateTalk, vars
<1>11. CASE RivalStep
  BY <1>2, <1>11, RivalAllowed DEF RivalStep, talkVars
<1>12. QED BY <1>3, <1>4, <1>5, <1>6, <1>7, <1>8, <1>9, <1>10, <1>11 DEF TalkNext, HolderStep

\* The output's report leaves the conversation as it is, under a faulted owner.
LEMMA ReportTalk ==
    ASSUME OwnerInv, TalkInv, OutputInv, Report
    PROVE  TalkInv'
<1>1. UNCHANGED talkVars
  BY DEF Report
<1>2. LeaseHeld'
  BY <1>1, ReportsAllowed, LeaseKept DEF talkVars, TalkInv
<1>3. RequestInv'
  BY <1>1 DEF talkVars, TalkInv, RequestInv
<1>4. JobInv'
  <2>1. live' = live /\ (state = "faulted" => state' = "faulted")
    BY ReportsAllowed, OwnerMoves
  <2>2. QED BY <1>1, <2>1 DEF talkVars, TalkInv, JobInv
<1>5. QED BY <1>2, <1>3, <1>4 DEF TalkInv

\* Every step, of the output too, keeps the conversation's invariant.
LEMMA TalkKeeps ==
    ASSUME OwnerInv, TalkInv, OutputInv, [TtsNext]_all
    PROVE  TalkInv'
<1>1. CASE UNCHANGED <<vars, talkVars>>
  BY <1>1 DEF vars, talkVars, TalkInv, LeaseHeld, RequestInv, JobInv
<1>2. CASE TalkNext
  BY <1>2, TalkLease, TalkRequest, TalkJob DEF TalkInv
<1>3. QED BY <1>1, <1>2, ReportTalk DEF TtsNext, all

-----------------------------------------------------------------------------
(* The output *)

\* Whatever happens to the owner, the call's token stays one the conversation was given.
LEMMA BorrowKept ==
    ASSUME OwnerInv, BorrowInv, [Next]_vars, call' => call, fault' = fault, fault \/ call' => token' = token
    PROVE  BorrowInv'
BY OwnerMoves DEF BorrowInv

\* The report of a fault reaches the owner, or the lease is not current any more.
LEMMA ReportBorrow ==
    ASSUME OwnerInv, OutputInv, Report
    PROVE  BorrowInv'
<1>1. /\ call /\ token' = token /\ call' = call /\ fault' = (fault \/ ~ silenced) /\ [Next]_vars
  BY ReportsAllowed DEF Report, CallFields, OutputInv, HandleInv
<1>2. token # 0 /\ token \in given["conversation"] /\ token \in given'["conversation"]
  BY <1>1, OwnerMoves DEF OutputInv, BorrowInv
<1>3. ASSUME fault' PROVE state' = "faulted" \/ owner' # token
  <2>1. CASE fault \/ state = "faulted" \/ owner # token
    BY <1>1, <1>2, <2>1, OwnerMoves DEF OutputInv, BorrowInv
  <2>2. CASE ~ silenced /\ state # "faulted" /\ owner = token
    BY <2>2 DEF Report, Release
  <2>3. QED BY <1>1, <1>3, <2>1, <2>2
<1>4. QED BY <1>1, <1>2, <1>3 DEF BorrowInv

\* Every step keeps the call on the lease it borrowed.
LEMMA OutputBorrow ==
    ASSUME OwnerInv, TalkInv, OutputInv, [TtsNext]_all
    PROVE  BorrowInv'
<1>1. BorrowInv /\ [Next]_vars
  BY StepAllowed DEF OutputInv
<1>2. CASE UNCHANGED ttsVars
  BY <1>1, <1>2, BorrowKept DEF ttsVars
<1>3. CASE SpeakStart /\ UNCHANGED <<vars, talkVars>>
  <2>1. lease # 0 /\ lease \in given["conversation"]
    BY <1>3 DEF SpeakStart, Accepts, OwnerInv, LeaseInv, TalkInv, LeaseHeld
  <2>2. QED BY <1>3, <2>1 DEF SpeakStart, BorrowInv, vars
<1>4. CASE SpeakPoll \/ Silence \/ SilenceRun
  BY <1>1, <1>4, BorrowKept DEF SpeakPoll, Silence, SilenceRun, CallFields
<1>5. CASE OutputStep
  BY <1>1, <1>5, BorrowKept DEF OutputStep, GatewayStart, LastCheck, Synthesize, OpenMix,
     OpenPlayer, Playing,
     PollPlayer, Retire, Settle, CheckRetires, CallFields
<1>6. QED BY <1>2, <1>3, <1>4, <1>5, ReportBorrow DEF TtsNext, all

\* Opening and proving: what runs has its handle, or the call knows better.
LEMMA OpensHandle ==
    ASSUME HandleInv, GatewayStart \/ Synthesize \/ OpenMix \/ OpenPlayer
    PROVE  HandleInv'
<1>1. call /\ ~ fault /\ fault' = fault /\ silenced' = silenced
  BY DEF HandleInv, GatewayStart, Synthesize, OpenMix, OpenPlayer, CheckRetires
<1>2. CASE CheckRetires
  <2>1. at \notin {"report", "settle"} /\ at' = "retire" /\ Held' = Held
    BY <1>2 DEF GatewayStart, Synthesize, OpenMix, OpenPlayer, CheckRetires, Retires, Holds,
       CallFields, Held
  <2>2. UNCHANGED <<call, outputs, unknown, synthesisClean>>
    BY <1>2 DEF CheckRetires, CallFields
  <2>3. QED BY <1>1, <2>1, <2>2 DEF HandleInv
<1>3. CASE GatewayStart /\ ~ CheckRetires
  <2>1. CASE call' = FALSE /\ at' = "free" /\ outputs' = outputs
    <3>1. UNCHANGED <<unknown, synthesisClean>> /\ at = "admitted"
      BY <1>3 DEF GatewayStart
    <3>2. QED BY <1>1, <2>1, <3>1 DEF HandleInv
  <2>2. CASE /\ gatewayOwned' = TRUE /\ outputs' = outputs \cup {"synthesis"} /\ at' = "issued"
             /\ call' = call
    <3>1. "synthesis" \in Held' /\ outputs = {} /\ unknown' = unknown
      BY <1>1, <1>3, <2>2 DEF GatewayStart, HandleInv, Held
    <3>2. QED BY <1>1, <1>3, <2>2, <3>1 DEF HandleInv, GatewayStart
  <2>3. QED BY <1>3, <2>1, <2>2 DEF GatewayStart, Holds
<1>4. CASE Synthesize /\ ~ CheckRetires
  <2>1. /\ UNCHANGED <<call, unknown, player, mix>> /\ ~ unknown
        /\ at' \in {"waited", "retire", "result"}
    BY <1>4 DEF Synthesize, Holds, Retires, HandleInv
  <2>2. CASE UNCHANGED <<gatewayOwned, synthesisClean, outputs>>
    BY <1>1, <1>4, <2>1, <2>2 DEF HandleInv, Held, Synthesize
  <2>3. CASE gatewayOwned' = FALSE /\ synthesisClean' = TRUE /\ outputs' = outputs \ {"synthesis"}
    <3>1. outputs' \subseteq Held'
      BY <1>4, <2>1, <2>3 DEF HandleInv, Held, Synthesize
    <3>2. QED BY <1>1, <2>1, <2>3, <3>1 DEF HandleInv
  <2>4. CASE synthesisClean' = FALSE /\ at' = "retire"
    BY <1>1, <2>1, <2>4 DEF HandleInv
  <2>5. ASSUME NEW proven \in BOOLEAN, synthesisClean' = proven, gatewayOwned' = FALSE,
               outputs' = IF proven THEN outputs \ {"synthesis"} ELSE outputs,
               Retires \/ (proven /\ Holds("result"))
        PROVE  HandleInv'
    BY <2>3, <2>4, <2>5 DEF Retires, Holds
  <2>6. QED BY <1>4, <2>2, <2>5 DEF Synthesize
<1>5. CASE OpenMix /\ ~ CheckRetires
  <2>1. /\ UNCHANGED <<call, synthesisClean, gatewayOwned, player>> /\ synthesisClean
        /\ outputs' = outputs \cup {"mix"}
        /\ \/ mix' = TRUE /\ at' = "mixed" /\ unknown' = FALSE
           \/ mix' = FALSE /\ unknown' = TRUE /\ at' = "retire"
    BY <1>5 DEF OpenMix, Holds, Retires, HandleInv
  <2>2. CASE unknown' = TRUE
    BY <1>1, <2>1, <2>2 DEF HandleInv
  <2>3. CASE mix' = TRUE
    <3>1. outputs' \subseteq Held'
      BY <1>1, <1>5, <2>1, <2>3 DEF HandleInv, Held, OpenMix
    <3>2. QED BY <1>1, <2>1, <2>3, <3>1 DEF HandleInv
  <2>4. QED BY <2>1, <2>2, <2>3
<1>6. CASE OpenPlayer /\ ~ CheckRetires
  <2>1. /\ UNCHANGED <<call, synthesisClean, gatewayOwned, mix>> /\ synthesisClean
        /\ outputs' = outputs \cup {"player"}
        /\ \/ player' = TRUE /\ at' = "playing" /\ unknown' = FALSE
           \/ player' = FALSE /\ unknown' = TRUE /\ at' = "retire"
    BY <1>6 DEF OpenPlayer, Holds, Retires, HandleInv
  <2>2. CASE unknown' = TRUE
    BY <1>1, <2>1, <2>2 DEF HandleInv
  <2>3. CASE player' = TRUE
    <3>1. outputs' \subseteq Held'
      BY <1>1, <1>6, <2>1, <2>3 DEF HandleInv, Held, OpenPlayer
    <3>2. QED BY <1>1, <2>1, <2>3, <3>1 DEF HandleInv
  <2>4. QED BY <2>1, <2>2, <2>3
<1>7. QED BY <1>2, <1>3, <1>4, <1>5, <1>6

\* The cleanup: silence is claimed only when every handle proved it and there is no more.
LEMMA RetiresHandle ==
    ASSUME HandleInv, Retire \/ Settle \/ Report
    PROVE  HandleInv'
<1>1. CASE Retire
  <2>1. PICK proven \in SUBSET Held : silenced' = Silences(proven) /\ outputs' = outputs \ proven
    BY <1>1 DEF Retire
  <2>2. Silences(proven) => outputs' = {}
    BY <1>1, <2>1 DEF Retire, Silences, HandleInv
  <2>3. /\ call /\ ~ fault /\ at' = "report" /\ UNCHANGED <<call, fault, unknown, synthesisClean>>
    BY <1>1 DEF Retire, Holds, HandleInv
  <2>4. QED BY <2>1, <2>2, <2>3 DEF HandleInv
<1>2. CASE Settle
  <2>1. call' = FALSE /\ unknown' = FALSE /\ synthesisClean' = TRUE /\ at' = "free" /\ UNCHANGED <<fault, outputs>> /\ at = "settle"
    BY <1>2 DEF Settle, Holds
  <2>2. ~ fault => outputs = {}
    BY <2>1 DEF HandleInv
  <2>3. QED BY <2>1, <2>2 DEF HandleInv
<1>3. CASE Report
  <2>1. /\ at = "report" /\ at' = "settle" /\ fault' = (fault \/ ~ silenced)
        /\ UNCHANGED <<call, silenced, outputs, unknown, synthesisClean>>
    BY <1>3 DEF Report, Holds, CallFields
  <2>2. QED BY <2>1 DEF HandleInv
<1>4. QED BY <1>1, <1>2, <1>3

\* Every step keeps a handle, or better knowledge, for all that runs.
LEMMA OutputHandle ==
    ASSUME HandleInv, [TtsNext]_all
    PROVE  HandleInv'
<1>1. CASE UNCHANGED ttsVars
  BY <1>1 DEF ttsVars, HandleInv, Held
<1>2. CASE SpeakStart
  BY <1>2 DEF SpeakStart, HandleInv
<1>3. CASE SpeakPoll \/ Silence \/ SilenceRun
  BY <1>3 DEF SpeakPoll, Silence, SilenceRun, CallFields, HandleInv, Held
<1>4. CASE LastCheck \/ Playing \/ PollPlayer
  BY <1>4 DEF LastCheck, Playing, PollPlayer, CheckRetires, Retires, Holds, CallFields, HandleInv,
     Held
<1>5. QED BY <1>1, <1>2, <1>3, <1>4, OpensHandle, RetiresHandle DEF TtsNext, OutputStep, all

-----------------------------------------------------------------------------
(* The theorems *)

AllInv == OwnerInv /\ TalkInv /\ OutputInv

\* No conversation, no job, no output at first.
LEMMA AllStarts == TtsInit => AllInv
<1> SUFFICES ASSUME TtsInit PROVE AllInv
  OBVIOUS
<1>1. OwnerInv
  BY GenerationAssumption DEF TtsInit, TalkInit, Init, OwnerInit, OwnerInv, TypeOK, OwnerTypeOK,
     LeaseInv,
     AdmissionExclusive
<1>2. TalkInv
  BY DEF TtsInit, TalkInit, Init, TalkInv, LeaseHeld, RequestInv, JobInv, Working, Dropped
<1>3. OutputInv
  BY DEF TtsInit, OutputInv, BorrowInv, HandleInv
<1>4. QED BY <1>1, <1>2, <1>3 DEF AllInv

\* Every step keeps the whole.
LEMMA AllKeeps == AllInv /\ [TtsNext]_all => AllInv'
<1> SUFFICES ASSUME AllInv, [TtsNext]_all PROVE AllInv'
  OBVIOUS
<1>1. OwnerInv'
  BY StepAllowed, OwnerMoves DEF AllInv
<1>2. TalkInv'
  BY TalkKeeps DEF AllInv
<1>3. OutputInv'
  BY OutputBorrow, OutputHandle DEF AllInv, OutputInv
<1>4. QED BY <1>1, <1>2, <1>3 DEF AllInv

\* Every step of the conversation, its cancels and its spoken output is a step or a stutter of
\* the shared owner (conversation.py, tts.py on session.py): it begins with nothing
\* outstanding, cancels only its own leases and releases nothing that may run.
THEOREM ConversationImplementsOwner == TtsSpec => ImplementsOwner
<1>1. TtsInit => Init
  BY DEF TtsInit, TalkInit
<1>2. AllInv /\ [TtsNext]_all => [Next]_vars
  BY StepAllowed DEF AllInv
<1>3. QED BY <1>1, <1>2, AllStarts, AllKeeps, PTL DEF TtsSpec, ImplementsOwner, Spec

\* So nobody else is admitted while its job may run, unless the owner is faulted for good.
THEOREM ConversationAlwaysExclusive == TtsSpec => []AdmissionExclusive
BY ConversationImplementsOwner, AdmissionAlwaysExclusive, PTL DEF ImplementsOwner

\* An answer that is published was not voided since its request was submitted, and its token
\* names the lease that the owner accepts (conversation.py poll, _invalidate).
THEOREM NeverVoidedAnswer == TtsSpec => NoVoidedAnswer
<1> DEFINE A == history' # history /\ history' # <<>> =>
                    ~ voided /\ request = lease /\ state = "owned" /\ owner = request
<1>1. ASSUME AllInv, TalkNext PROVE A
  <2>1. CASE Publish
    <3>1. request # 0 /\ request = lease /\ (voided => intent # "none")
      BY <1>1, <2>1 DEF Publish, AllInv, TalkInv, RequestInv, Working
    <3>2. QED BY <2>1, <3>1 DEF Publish, MayPublish, Accepts
  <2>2. ASSUME NEW c \in Cancelers, CancelCall(c) \/ CancelInvalidate(c) \/ CancelRun(c) PROVE history' = history
    BY <2>2 DEF CancelCall, CancelInvalidate, CancelRun
  <2>3. CASE Enter \/ StopRelease \/ StopRegain
    BY <2>3 DEF Enter, StopRelease, StopRegain
  <2>4. CASE \/ EnterCall \/ Call \/ Entered \/ Submit \/ Clarify \/ Factory \/ JobStarted \/ Poll \/ Polled
             \/ Answered \/ AnswerChecked \/ ExitKey \/ Caught \/ Finish \/ StopClean \/ StopStale
    BY <2>4 DEF EnterCall, Call, Entered, Submit, Clarify, Factory, JobStarted, Poll, Polled,
       Answered,
       AnswerChecked, ExitKey, Caught, Finish, StopClean, StopStale, CheckFails, NothingElse, turnVars
  <2>5. CASE RivalStep
    BY <2>5 DEF RivalStep, talkVars
  <2>6. QED BY <1>1, <2>1, <2>2, <2>3, <2>4, <2>5 DEF TalkNext, HolderStep
<1>2. AllInv /\ [TtsNext]_all => [A]_<<vars, talkVars>>
  BY <1>1 DEF TtsNext, Report, all, talkVars
<1>3. QED BY <1>2, AllStarts, AllKeeps, PTL DEF TtsSpec, NoVoidedAnswer

\* What may still sound, synthesize or hold the mix belongs to the call in progress or to a fault
\* for good, which reached the owner unless the lease was no longer current (tts.py _retire).
THEOREM OutputAlwaysAccounted == TtsSpec => []OutputAccounted
<1>1. AllInv => OutputAccounted
  BY DEF AllInv, OutputInv, BorrowInv, HandleInv, OutputAccounted
<1>2. QED BY <1>1, AllStarts, AllKeeps, PTL DEF TtsSpec
=============================================================================
